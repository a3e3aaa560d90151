--------------------------- MODULE RunLedgerProofs ---------------------------
(***************************************************************************)
(* Proofs about RunLedger, for any messages, threads and workers.          *)
(***************************************************************************)
EXTENDS RunLedger, TLAPS, WellFoundedInduction

RunsOK(rs) == rs \in [RunId -> RunRecord]
SteeringOK(st) == st \in [Msg -> SteeringRecord]

\* Statuses that ended runs give to follow-ups and events.
LEMMA OutcomeType ==
  \A s \in TerminalStatus : SteeringOutcome[s] \in SteeringStatus /\ InboundOutcome[s] \in InboundStatus
BY DEF TerminalStatus, SteeringOutcome, InboundOutcome, SteeringStatus, WaitingStatus, InboundStatus

\* Identifiers of messages' runs are run identifiers.
LEMMA IdType == \A m \in Msg : Turn(m) \in RunId /\ Continuation(m) \in RunId
BY DEF Turn, Continuation, RunId

\* The record updates of the store keep the shape of a record.
LEMMA RecordTypes ==
  /\ \A rec \in SteeringRecord : Scheduled(rec) \in SteeringRecord /\ Unclaimed(rec) \in SteeringRecord
  /\ \A rec \in RunRecord : Released(rec) \in RunRecord
  /\ TypeOK => NewRun \in RunRecord
BY DEF Scheduled, Unclaimed, Released, SteeringRecord, SteeringStatus, WaitingStatus,
       NewRun, NoRun, RunRecord, RunStatus, ActiveStatus, TypeOK

\* What the updates of a record write, and what they leave alone.
LEMMA RecordFields ==
  /\ \A rec \in SteeringRecord :
       /\ Scheduled(rec).status = "scheduled" /\ Unclaimed(rec).status = "pending"
       /\ Scheduled(rec).targetRunId = rec.targetRunId /\ Unclaimed(rec).targetRunId = rec.targetRunId
       /\ Scheduled(rec).sequence = rec.sequence /\ Unclaimed(rec).sequence = rec.sequence
  /\ \A rec \in RunRecord : Released(rec).status = "queued"
  /\ NewRun.status = "queued"
BY DEF Scheduled, Unclaimed, SteeringRecord, Released, RunRecord, NewRun, NoRun

\* finishContinuationSteeringInState writes well-formed follow-ups.
LEMMA FinishContinuationType ==
  ASSUME NEW rs, NEW st, SteeringOK(st), NEW D,
         \A r \in D : Terminal(rs, r)
  PROVE  SteeringOK(FinishContinuation(rs, st, D))
<1> SUFFICES ASSUME NEW m \in Msg
             PROVE  FinishContinuation(rs, st, D)[m] \in SteeringRecord
  BY DEF FinishContinuation, SteeringOK
<1>1. CASE Continuation(m) \in D
  <2>1. SteeringOutcome[rs[Continuation(m)].status] \in SteeringStatus
    BY <1>1, OutcomeType DEF Terminal
  <2>2. FinishContinuation(rs, st, D)[m] =
          [st[m] EXCEPT !.status = SteeringOutcome[rs[Continuation(m)].status]]
    BY <1>1 DEF FinishContinuation
  <2> QED BY <2>1, <2>2 DEF SteeringOK, SteeringRecord
<1>2. CASE Continuation(m) \notin D
  BY <1>2 DEF FinishContinuation, SteeringOK
<1> QED BY <1>1, <1>2

-----------------------------------------------------------------------------
(* The callers of Settle *)

\* What a caller hands over: the tables rs and st0 differ from the present ones in
\* runs that were given back and runs D that were ended, and in claims taken back.
SettleCall(rs, st0, D) ==
  /\ RunsOK(rs) /\ SteeringOK(st0)
  /\ D \subseteq RunId
  /\ \A r \in D : Terminal(rs, r) /\ Exists(runs, r)
  /\ \A r \in RunId \ D : \/ rs[r] = runs[r]
                          \/ runs[r].status = "running" /\ rs[r].status = "queued"
  /\ \A r \in RunId : Terminal(runs, r) => rs[r].status = runs[r].status
  /\ \A r \in RunId : runs[r].status = "cancel_requested" =>
                        rs[r].status \in {"cancel_requested", "cancelled", "failed"}
  /\ \A m \in Msg : \/ st0[m] = steering[m]
                    \/ steering[m].status = "claimed" /\ st0[m] = Unclaimed(steering[m])
  /\ \A m \in Msg, r \in RunId :
       st0[m].status = "claimed" /\ st0[m].targetRunId = r /\ rs[r].status = "queued"
         => runs[r].status = "queued"

SettleStep == \E rs, st0, D : SettleCall(rs, st0, D) /\ Settle(rs, st0, D)

\* Giving claims back touches the claimed follow-ups of the runs R, and leaves them none.
LEMMA ReleaseClaimsType ==
  ASSUME TypeOK, NEW R \in SUBSET RunId
  PROVE  /\ SteeringOK(ReleaseClaims(R))
         /\ \A m \in Msg : \/ ReleaseClaims(R)[m] = steering[m]
                           \/ /\ steering[m].status = "claimed"
                              /\ ReleaseClaims(R)[m] = Unclaimed(steering[m])
         /\ \A m \in Msg : ReleaseClaims(R)[m].status = "claimed" => ReleaseClaims(R)[m].targetRunId \notin R
BY RecordTypes, RecordFields DEF TypeOK, SteeringOK, ReleaseClaims

\* Stale recovery is a call of Settle.
LEMMA RecoverSettles ==
  ASSUME TypeOK, NEW S \in SUBSET RunId, RecoverStaleAgentRuns(S)
  PROVE  SettleStep
<1> DEFINE Q == {r \in S : runs[r].status = "running"}
           D == {r \in S : runs[r].status = "cancel_requested"}
           rs == [r \in RunId |-> CASE r \in Q -> Released(runs[r])
                                    [] r \in D -> [runs[r] EXCEPT !.status = "cancelled"]
                                    [] OTHER   -> runs[r]]
           st0 == ReleaseClaims(Q)
<1>1. Settle(rs, st0, D)
  BY DEF RecoverStaleAgentRuns
<1>2. \A r \in RunId : \/ r \in Q /\ r \notin D /\ rs[r] = Released(runs[r])
                       \/ r \in D /\ r \notin Q /\ rs[r] = [runs[r] EXCEPT !.status = "cancelled"]
                       \/ r \notin Q /\ r \notin D /\ rs[r] = runs[r]
  OBVIOUS
<1>3. rs \in [RunId -> RunRecord]
  <2> SUFFICES ASSUME NEW r \in RunId PROVE rs[r] \in RunRecord
    OBVIOUS
  <2>1. runs[r] \in RunRecord
    BY DEF TypeOK
  <2> QED BY <1>2, <2>1, RecordTypes DEF RunRecord, RunStatus, TerminalStatus
<1>4. \A r \in RunId : /\ Released(runs[r]).status = "queued"
                       /\ [runs[r] EXCEPT !.status = "cancelled"].status = "cancelled"
  BY DEF Released, TypeOK, RunRecord
<1>5. /\ SteeringOK(st0)
      /\ \A m \in Msg : \/ st0[m] = steering[m]
                        \/ /\ steering[m].status = "claimed"
                           /\ st0[m] = Unclaimed(steering[m])
      /\ \A m \in Msg : st0[m].status = "claimed" => st0[m].targetRunId \notin Q
  <2>1. Q \in SUBSET RunId
    OBVIOUS
  <2> HIDE DEF Q
  <2> QED BY <2>1, ReleaseClaimsType
<1>6. SettleCall(rs, st0, D)
  <2> HIDE DEF rs, st0
  <2> QED BY <1>2, <1>3, <1>4, <1>5
          DEF SettleCall, RunsOK, Terminal, TerminalStatus, Exists
<1> QED BY <1>1, <1>6 DEF SettleStep

\* The status that updateAgentRun writes when it is asked for s.
Given(r, s) == IF runs[r].status = "cancel_requested" /\ s = "completed" THEN "cancelled" ELSE s

\* An outcome is a call of Settle.
LEMMA UpdateCalls ==
  ASSUME TypeOK, NEW r \in RunId, NEW s \in TerminalStatus, UpdateAgentRun(r, s)
  PROVE  LET rs == [runs EXCEPT ![r].status = Given(r, s)]
         IN  SettleCall(rs, steering, {r}) /\ Settle(rs, steering, {r})
<1> DEFINE status == Given(r, s)
           rs == [runs EXCEPT ![r].status = status]
<1>1. Settle(rs, steering, {r}) /\ Exists(runs, r) /\ (Terminal(runs, r) => runs[r].status = s)
  BY DEF UpdateAgentRun, Given
<1>2. status \in TerminalStatus /\ (runs[r].status = "cancel_requested" => status \in {"cancelled", "failed"})
  BY DEF TerminalStatus, Given
<1>3. Terminal(runs, r) => status = runs[r].status
  BY <1>1 DEF Terminal, TerminalStatus, Given
<1>4. rs \in [RunId -> RunRecord] /\ rs[r].status = status /\ \A q \in RunId \ {r} : rs[q] = runs[q]
  BY <1>2 DEF TypeOK, RunRecord, RunStatus
<1>5. SettleCall(rs, steering, {r})
  <2> HIDE DEF status, rs
  <2> QED BY <1>1, <1>2, <1>3, <1>4 DEF SettleCall, RunsOK, SteeringOK, TypeOK, Terminal, TerminalStatus
<1> QED BY <1>1, <1>5

\* So is the cancellation of a queued run.
LEMMA CancelCalls ==
  ASSUME TypeOK, NEW r \in RunId, RequestAgentRunCancel(r), runs[r].status = "queued"
  PROVE  LET rs == [runs EXCEPT ![r].status = "cancelled"]
         IN  SettleCall(rs, steering, {r}) /\ Settle(rs, steering, {r})
<1> DEFINE rs == [runs EXCEPT ![r].status = "cancelled"]
<1>1. Settle(rs, steering, {r})
  BY DEF RequestAgentRunCancel
<1>2. rs \in [RunId -> RunRecord] /\ rs[r].status = "cancelled" /\ \A q \in RunId \ {r} : rs[q] = runs[q]
  BY DEF TypeOK, RunRecord, RunStatus, TerminalStatus
<1>3. SettleCall(rs, steering, {r})
  <2> HIDE DEF rs
  <2> QED BY <1>2 DEF SettleCall, RunsOK, SteeringOK, TypeOK, Terminal, TerminalStatus, Exists
<1> QED BY <1>1, <1>3

\* So every outcome is a settling step ...
LEMMA UpdateSettles ==
  ASSUME TypeOK, NEW r \in RunId, NEW s \in TerminalStatus, UpdateAgentRun(r, s)
  PROVE  SettleStep
BY UpdateCalls DEF SettleStep

\* ... and so is every cancellation of a queued run.
LEMMA CancelSettles ==
  ASSUME TypeOK, NEW r \in RunId, RequestAgentRunCancel(r), runs[r].status = "queued"
  PROVE  SettleStep
BY CancelCalls DEF SettleStep

\* The steps of the ledger, with the callers of the common operators merged.
StopStep ==
  \E R \in SUBSET RunId, F \in SUBSET Msg : (\A r \in R : Active(runs, r)) /\ CancelActive(R, F)

CancelRequested(r) == runs[r].status # "queued" /\ RequestAgentRunCancel(r)

\* Every step of the ledger is one of these.
LEMMA StepCases ==
  ASSUME TypeOK, Next
  PROVE  \/ \E m \in Msg : \/ RecordInboundEvent(m)
                          \/ CreateAgentRun(m)
                          \/ CreateAgentRunOrSteer(m)
                          \/ MarkAgentRunSteeringApplied(m)
         \/ \E m \in Msg, r \in RunId : EnqueueAgentRunSteering(m, r)
         \/ \E r \in RunId, w \in Worker : ClaimQueuedRun(r, w) \/ RequeueAgentRun(r, w)
         \/ \E m \in Msg, r \in RunId, w \in Worker : ClaimSteering(m, r, w)
         \/ \E r \in RunId : CancelRequested(r)
         \/ StopStep
         \/ SettleStep
<1>1. CASE Arrive
  BY <1>1 DEF Arrive
<1>2. CASE Work
  <2>1. ASSUME NEW r \in RunId, MarkAgentRunCompleted(r) \/ MarkAgentRunFailed(r) \/ MarkAgentRunCancelled(r)
        PROVE  SettleStep
    BY <2>1, UpdateSettles DEF MarkAgentRunCompleted, MarkAgentRunFailed, MarkAgentRunCancelled, TerminalStatus
  <2> QED BY <1>2, <2>1 DEF Work, ClaimQueuedAgentRuns, ClaimNextAgentRunSteering
<1>3. CASE Control
  <2>1. ASSUME NEW r \in RunId, StopRun(r) PROVE StopStep
    <3>1. {r} \cap ActiveIn(runs, RunThread(r)) \in SUBSET RunId /\ {m \in Msg : steering[m].targetRunId = r} \in SUBSET Msg
      OBVIOUS
    <3>2. \A q \in {r} \cap ActiveIn(runs, RunThread(r)) : Active(runs, q)
      BY DEF ActiveIn
    <3> QED BY <2>1, <3>1, <3>2 DEF StopRun, StopStep
  <2>2. ASSUME NEW t \in Thread, StopThread(t) PROVE StopStep
    <3>1. ActiveIn(runs, t) \in SUBSET RunId /\ {m \in Msg : ThreadOf[m] = t} \in SUBSET Msg
      BY DEF ActiveIn
    <3>2. \A q \in ActiveIn(runs, t) : Active(runs, q)
      BY DEF ActiveIn
    <3> QED BY <2>2, <3>1, <3>2 DEF StopThread, StopStep
  <2>3. ASSUME NEW r \in RunId, RequestAgentRunCancel(r) PROVE SettleStep \/ CancelRequested(r)
    BY <2>3, CancelSettles DEF CancelRequested
  <2> QED BY <1>3, <2>1, <2>2, <2>3, RecoverSettles DEF Control
<1> QED BY <1>1, <1>2, <1>3 DEF Next

-----------------------------------------------------------------------------
(* Type correctness *)

\* Settle keeps the tables well-formed.
LEMMA SettleType ==
  ASSUME TypeOK, NEW rs, NEW st0, NEW D, SettleCall(rs, st0, D), Settle(rs, st0, D)
  PROVE  TypeOK'
<1> USE DEF SettleCall
<1>1. runs' \in [RunId -> RunRecord]
  BY RecordTypes DEF Settle, RunsOK
<1>2. SteeringOK(FinishContinuation(rs, st0, D))
  BY FinishContinuationType
<1>3. steering' \in [Msg -> SteeringRecord]
  BY <1>2, RecordTypes DEF Settle, SteeringOK
<1>4. inbound' \in [Msg -> InboundStatus \cup {"absent"}]
  BY OutcomeType DEF Settle, FinishInbound, TypeOK, Terminal
<1>5. clock' \in Nat
  BY DEF Settle, TypeOK
<1> QED BY <1>1, <1>3, <1>4, <1>5 DEF TypeOK

\* Each action, with what it does to the tables.
LEMMA TypeStep ==
  ASSUME TypeOK, [Next]_ledgerVars
  PROVE  TypeOK'
<1>1. ASSUME NEW m \in Msg, RecordInboundEvent(m) PROVE TypeOK'
  BY <1>1 DEF RecordInboundEvent, TypeOK, InboundStatus
<1>2. ASSUME NEW m \in Msg, CreateRunInState(m) PROVE TypeOK'
  <2>1. runs' = [runs EXCEPT ![Turn(m)] = NewRun] /\ NewRun \in RunRecord /\ Turn(m) \in RunId
    BY <1>2, RecordTypes, IdType DEF CreateRunInState
  <2>2. runs' \in [RunId -> RunRecord]
    BY <2>1 DEF TypeOK
  <2> QED BY <1>2, <2>2 DEF CreateRunInState, TypeOK
<1>3. ASSUME NEW m \in Msg, NEW r \in RunId, EnqueueSteeringInState(m, r) PROVE TypeOK'
  BY <1>3 DEF EnqueueSteeringInState, TypeOK, SteeringRecord, SteeringStatus, WaitingStatus
<1>4. ASSUME NEW r \in RunId, NEW w \in Worker, ClaimQueuedRun(r, w) PROVE TypeOK'
  <2>1. [runs[r] EXCEPT !.status = "running", !.workerId = w, !.started = TRUE] \in RunRecord
    BY DEF TypeOK, RunRecord, RunStatus, ActiveStatus
  <2>2. runs' \in [RunId -> RunRecord]
    BY <1>4, <2>1 DEF ClaimQueuedRun, TypeOK
  <2> QED BY <1>4, <2>2 DEF ClaimQueuedRun, TypeOK
<1>5. ASSUME NEW r \in RunId, NEW w \in Worker, RequeueAgentRun(r, w) PROVE TypeOK'
  BY <1>5, RecordTypes, ReleaseClaimsType DEF RequeueAgentRun, TypeOK, SteeringOK
<1>6. ASSUME NEW m \in Msg, NEW r \in RunId, NEW w \in Worker, ClaimSteering(m, r, w) PROVE TypeOK'
  <2>1. [steering[m] EXCEPT !.status = "claimed", !.claimedBy = w] \in SteeringRecord
    BY DEF TypeOK, SteeringRecord, SteeringStatus, WaitingStatus
  <2>2. steering' \in [Msg -> SteeringRecord]
    BY <1>6, <2>1 DEF ClaimSteering, TypeOK
  <2> QED BY <1>6, <2>2 DEF ClaimSteering, TypeOK
<1>7. ASSUME NEW m \in Msg, MarkAgentRunSteeringApplied(m) PROVE TypeOK'
  BY <1>7 DEF MarkAgentRunSteeringApplied, TypeOK, SteeringRecord, SteeringStatus, InboundStatus
<1>8. ASSUME NEW R \in SUBSET RunId, NEW F \in SUBSET Msg, CancelActive(R, F) PROVE TypeOK'
  <2> DEFINE Q  == {r \in R : runs[r].status = "queued"}
             rs == [r \in RunId |-> CASE r \in Q -> [runs[r] EXCEPT !.status = "cancelled"]
                                      [] r \in R \ Q -> [runs[r] EXCEPT !.status = "cancel_requested"]
                                      [] OTHER -> runs[r]]
             C  == {m \in F : steering[m].status \in WaitingStatus}
             st == [m \in Msg |-> IF m \in C THEN [steering[m] EXCEPT !.status = "cancelled"] ELSE steering[m]]
             ib == [m \in Msg |-> IF m \in C /\ inbound[m] # "absent" THEN "ignored" ELSE inbound[m]]
  <2>1. /\ runs' = rs /\ steering' = FinishContinuation(rs, st, Q)
        /\ inbound' = FinishInbound(rs, ib, Q) /\ clock' = clock
    BY <1>8 DEF CancelActive
  <2>2. rs \in [RunId -> RunRecord]
    BY DEF TypeOK, RunRecord, RunStatus, ActiveStatus, TerminalStatus
  <2>3. \A r \in Q : Terminal(rs, r)
    BY DEF TypeOK, RunRecord, Terminal, TerminalStatus
  <2>4. SteeringOK(st)
    BY DEF TypeOK, SteeringOK, SteeringRecord, SteeringStatus
  <2>5. ib \in [Msg -> InboundStatus \cup {"absent"}]
    BY DEF TypeOK, InboundStatus
  <2> HIDE DEF Q, rs, st, ib
  <2>6. SteeringOK(FinishContinuation(rs, st, Q))
    BY <2>3, <2>4, FinishContinuationType
  <2>7. FinishInbound(rs, ib, Q) \in [Msg -> InboundStatus \cup {"absent"}]
    BY <2>3, <2>5, OutcomeType DEF FinishInbound, Terminal
  <2> QED BY <2>1, <2>2, <2>6, <2>7 DEF TypeOK, SteeringOK
<1>9. ASSUME NEW r \in RunId, CancelRequested(r) PROVE TypeOK'
  BY <1>9 DEF CancelRequested, RequestAgentRunCancel, TypeOK, RunRecord, RunStatus, ActiveStatus
<1>10. ASSUME SettleStep PROVE TypeOK'
  BY <1>10, SettleType DEF SettleStep
<1>11. CASE Next
  <2>1. ASSUME NEW m \in Msg, CreateAgentRun(m) \/ CreateAgentRunOrSteer(m) PROVE TypeOK'
    BY <2>1, <1>2, <1>3 DEF CreateAgentRun, CreateAgentRunOrSteer, ActiveIn
  <2>2. ASSUME NEW m \in Msg, NEW r \in RunId, EnqueueAgentRunSteering(m, r) PROVE TypeOK'
    BY <2>2, <1>3 DEF EnqueueAgentRunSteering
  <2>3. ASSUME StopStep PROVE TypeOK'
    BY <2>3, <1>8 DEF StopStep
  <2> QED BY <1>11, StepCases, <1>1, <2>1, <2>2, <1>4, <1>5, <1>6, <1>7, <1>9, <1>10, <2>3
<1>12. CASE UNCHANGED ledgerVars
  BY <1>12 DEF ledgerVars, TypeOK
<1> QED BY <1>11, <1>12

\* Every record the store writes has its declared shape, whatever calls are made.
THEOREM TypeCorrect == Spec => []TypeOK
<1>1. Init => TypeOK
  BY DEF Init, TypeOK, NoRun, NoSteering, RunRecord, SteeringRecord
<1>2. TypeOK /\ [Next]_ledgerVars => TypeOK'
  BY TypeStep
<1> QED BY <1>1, <1>2, PTL DEF Spec
-----------------------------------------------------------------------------
(* What Settle does to one run and to one follow-up *)

Next0(rs, st0, D) == NextTurns(rs, FinishContinuation(rs, st0, D), D)

\* A run is either a new continuation or what the caller handed over.
LEMMA SettleRuns ==
  ASSUME NEW rs, NEW st0, NEW D, Settle(rs, st0, D)
  PROVE  \A r \in RunId :
           \/ /\ runs'[r] = NewRun
              /\ \E m \in Next0(rs, st0, D) : r = Continuation(m)
           \/ /\ runs'[r] = rs[r]
              /\ \A m \in Next0(rs, st0, D) : r # Continuation(m)
<1> DEFINE next == Next0(rs, st0, D)
<1>1. \A r \in RunId : runs'[r] = IF r[1] = "steering" /\ r[2] \in next THEN NewRun ELSE rs[r]
  BY DEF Settle, Next0
<1>2. \A r \in RunId : r[1] = "steering" => r = Continuation(r[2])
  BY DEF RunId, Continuation
<1>3. \A m : Continuation(m)[1] = "steering" /\ Continuation(m)[2] = m
  BY DEF Continuation
<1> HIDE DEF next
<1> QED BY <1>1, <1>2, <1>3 DEF next

\* A follow-up keeps its target and its place; it is either scheduled, or gets the
\* outcome of its continuation, or goes back to the mailbox, or is left alone.
LEMMA SettleFollowUps ==
  ASSUME TypeOK, NEW rs, NEW st0, NEW D, SettleCall(rs, st0, D), Settle(rs, st0, D), NEW m \in Msg
  PROVE  /\ steering'[m].targetRunId = steering[m].targetRunId
         /\ steering'[m].sequence = steering[m].sequence
         /\ st0[m].targetRunId = steering[m].targetRunId
         /\ \/ /\ m \in Next0(rs, st0, D)
               /\ Continuation(m) \notin D
               /\ steering[m].status \in WaitingStatus
               /\ steering'[m].status = "scheduled"
            \/ /\ m \notin Next0(rs, st0, D)
               /\ Continuation(m) \in D
               /\ steering'[m].status = SteeringOutcome[rs[Continuation(m)].status]
            \/ /\ m \notin Next0(rs, st0, D)
               /\ Continuation(m) \notin D
               /\ steering'[m].status = st0[m].status
               /\ \/ steering'[m].status = steering[m].status
                  \/ steering[m].status = "claimed" /\ steering'[m].status = "pending"
<1> DEFINE st == FinishContinuation(rs, st0, D)
           next == Next0(rs, st0, D)
<1>1. /\ st0[m] \in SteeringRecord /\ steering[m] \in SteeringRecord
      /\ st0[m].targetRunId = steering[m].targetRunId /\ st0[m].sequence = steering[m].sequence
      /\ \/ st0[m].status = steering[m].status
         \/ steering[m].status = "claimed" /\ st0[m].status = "pending"
  BY RecordFields DEF SettleCall, SteeringOK, TypeOK
<1>2. /\ Continuation(m) \notin D => st[m] = st0[m]
      /\ Continuation(m) \in D =>
           /\ st[m].status = SteeringOutcome[rs[Continuation(m)].status]
           /\ st[m].status \notin WaitingStatus
           /\ st[m].targetRunId = st0[m].targetRunId /\ st[m].sequence = st0[m].sequence
  <2>1. st[m] = IF Continuation(m) \in D
                  THEN [st0[m] EXCEPT !.status = SteeringOutcome[rs[Continuation(m)].status]]
                  ELSE st0[m]
    BY DEF FinishContinuation
  <2>2. Continuation(m) \in D => SteeringOutcome[rs[Continuation(m)].status] \notin WaitingStatus
    BY DEF SettleCall, Terminal, TerminalStatus, SteeringOutcome, WaitingStatus
  <2> HIDE DEF st
  <2> QED BY <1>1, <2>1, <2>2 DEF SteeringRecord
<1>3. st[m] \in SteeringRecord
  <2>1. SteeringOK(st)
    BY FinishContinuationType DEF SettleCall
  <2> HIDE DEF st
  <2> QED BY <2>1 DEF SteeringOK
<1>4. steering'[m] = IF m \in next THEN Scheduled(st[m]) ELSE st[m]
  BY DEF Settle, Next0
<1>5. m \in next => st[m].status \in WaitingStatus
  BY DEF Next0, NextTurns, NextSteering, Stranded
<1> HIDE DEF st, next
<1>6. m \in next => /\ steering'[m].status = "scheduled" /\ steering'[m].sequence = st[m].sequence
                    /\ steering'[m].targetRunId = st[m].targetRunId
  BY <1>3, <1>4, RecordFields
<1>7. CASE m \in next
  <2>1. st[m] = st0[m] /\ Continuation(m) \notin D
    BY <1>2, <1>5, <1>7
  <2> QED BY <1>1, <1>5, <1>6, <1>7, <2>1 DEF next, WaitingStatus
<1>8. CASE m \notin next
  BY <1>1, <1>2, <1>4, <1>8 DEF next
<1> QED BY <1>7, <1>8
-----------------------------------------------------------------------------
(* Stop and take over *)

\* Stopping cancels queued runs with their follow-ups, marks the others, and drops
\* waiting follow-ups; it starts and schedules nothing.
LEMMA StopEffects ==
  ASSUME TypeOK, StopStep
  PROVE  /\ clock' = clock
         /\ \A r \in RunId :
              \/ runs'[r] = runs[r]
              \/ runs[r].status = "queued" /\ runs'[r].status = "cancelled"
              \/ Executing(runs, r) /\ runs'[r].status = "cancel_requested"
         /\ \A m \in Msg :
              /\ steering'[m].targetRunId = steering[m].targetRunId
              /\ steering'[m].sequence = steering[m].sequence
              /\ \/ /\ steering'[m].status = steering[m].status
                    /\ Active(runs, Continuation(m)) => Active(runs', Continuation(m))
                 \/ /\ steering'[m].status = "cancelled"
                    /\ runs[Continuation(m)].status = "queued"
                    /\ runs'[Continuation(m)].status = "cancelled"
                 \/ /\ steering'[m].status = "cancelled"
                    /\ steering[m].status \in WaitingStatus
<1> PICK R \in SUBSET RunId, F \in SUBSET Msg : (\A r \in R : Active(runs, r)) /\ CancelActive(R, F)
  BY DEF StopStep
<1> DEFINE Q  == {r \in R : runs[r].status = "queued"}
           rs == [r \in RunId |-> CASE r \in Q -> [runs[r] EXCEPT !.status = "cancelled"]
                                    [] r \in R \ Q -> [runs[r] EXCEPT !.status = "cancel_requested"]
                                    [] OTHER -> runs[r]]
           C  == {m \in F : steering[m].status \in WaitingStatus}
           st == [m \in Msg |-> IF m \in C THEN [steering[m] EXCEPT !.status = "cancelled"] ELSE steering[m]]
<1>1. runs' = rs /\ steering' = FinishContinuation(rs, st, Q) /\ clock' = clock
  BY DEF CancelActive
<1>2. \A r \in RunId : \/ r \in Q /\ runs[r].status = "queued" /\ rs[r].status = "cancelled"
                       \/ r \notin Q /\ Executing(runs, r) /\ rs[r].status = "cancel_requested"
                       \/ r \notin Q /\ rs[r] = runs[r]
  BY DEF TypeOK, RunRecord, Active, ActiveStatus, Executing
<1>3. \A m \in Msg : /\ st[m].targetRunId = steering[m].targetRunId
                     /\ st[m].sequence = steering[m].sequence
                     /\ st[m] \in SteeringRecord
                     /\ \/ st[m].status = steering[m].status
                        \/ st[m].status = "cancelled" /\ steering[m].status \in WaitingStatus
  BY DEF TypeOK, SteeringRecord, SteeringStatus
<1> HIDE DEF rs, st, Q
<1>4. ASSUME NEW m \in Msg
      PROVE  /\ steering'[m].targetRunId = st[m].targetRunId
             /\ steering'[m].sequence = st[m].sequence
             /\ Continuation(m) \notin Q => steering'[m].status = st[m].status
             /\ Continuation(m) \in Q => steering'[m].status = "cancelled"
  <2>1. steering'[m] = IF Continuation(m) \in Q
                         THEN [st[m] EXCEPT !.status = SteeringOutcome[rs[Continuation(m)].status]]
                         ELSE st[m]
    BY <1>1 DEF FinishContinuation
  <2>2. Continuation(m) \in Q => SteeringOutcome[rs[Continuation(m)].status] = "cancelled"
    BY <1>2, IdType DEF Executing, SteeringOutcome, Q
  <2> QED BY <1>3, <2>1, <2>2 DEF SteeringRecord
<1>5. \A m \in Msg : Continuation(m) \in Q => /\ runs[Continuation(m)].status = "queued"
                                             /\ rs[Continuation(m)].status = "cancelled"
  BY <1>2, IdType DEF Executing, Q
<1>6. \A m \in Msg : Continuation(m) \notin Q =>
                       (Active(runs, Continuation(m)) => Active(rs, Continuation(m)))
  BY <1>2, IdType DEF Executing, Active, ActiveStatus
<1> QED BY <1>1, <1>2, <1>3, <1>4, <1>5, <1>6

-----------------------------------------------------------------------------
(* A runtime is occupied by one model run *)

\* A run starts to occupy its runtime only by being claimed.
LEMMA ExecutingGrows ==
  ASSUME TypeOK, Next, NEW r \in RunId, Executing(runs', r)
  PROVE  Executing(runs, r) \/ \E w \in Worker : ClaimQueuedRun(r, w)
<1>1. ASSUME NEW m \in Msg, CreateAgentRun(m) \/ CreateAgentRunOrSteer(m)
      PROVE  Executing(runs, r)
  <2>1. CreateRunInState(m) \/ runs' = runs
    BY <1>1 DEF CreateAgentRun, CreateAgentRunOrSteer, EnqueueSteeringInState
  <2>2. CreateRunInState(m) => runs'[r].status = "queued" \/ runs'[r] = runs[r]
    BY RecordFields DEF CreateRunInState, TypeOK
  <2> QED BY <2>1, <2>2 DEF Executing
<1>2. ASSUME NEW q \in RunId, NEW w \in Worker, ClaimQueuedRun(q, w) \/ RequeueAgentRun(q, w)
      PROVE  Executing(runs, r) \/ ClaimQueuedRun(r, w)
  <2>1. q # r => runs'[r] = runs[r]
    BY <1>2 DEF ClaimQueuedRun, RequeueAgentRun, TypeOK
  <2>2. RequeueAgentRun(q, w) => runs'[q].status = "queued"
    BY RecordFields DEF RequeueAgentRun, TypeOK
  <2> QED BY <1>2, <2>1, <2>2 DEF Executing
<1>3. ASSUME NEW q \in RunId, CancelRequested(q) PROVE Executing(runs, r)
  BY <1>3 DEF CancelRequested, RequestAgentRunCancel, TypeOK, Executing, Active, ActiveStatus
<1>4. ASSUME StopStep PROVE Executing(runs, r)
  BY <1>4, StopEffects DEF Executing
<1>5. ASSUME SettleStep PROVE Executing(runs, r)
  <2> PICK rs, st0, D : SettleCall(rs, st0, D) /\ Settle(rs, st0, D)
    BY <1>5 DEF SettleStep
  <2>1. Executing(rs, r) => Executing(runs, r)
    BY DEF SettleCall, Executing, Terminal, TerminalStatus
  <2> QED BY <2>1, SettleRuns, RecordFields DEF Executing
<1>6. ASSUME NEW m \in Msg, NEW q \in RunId, EnqueueAgentRunSteering(m, q) PROVE Executing(runs, r)
  BY <1>6 DEF EnqueueAgentRunSteering, EnqueueSteeringInState, Executing
<1>7. ASSUME NEW m \in Msg, RecordInboundEvent(m) \/ MarkAgentRunSteeringApplied(m) PROVE Executing(runs, r)
  BY <1>7 DEF RecordInboundEvent, MarkAgentRunSteeringApplied, Executing
<1>8. ASSUME NEW m \in Msg, NEW q \in RunId, NEW w \in Worker, ClaimSteering(m, q, w) PROVE Executing(runs, r)
  BY <1>8 DEF ClaimSteering, Executing
<1> QED BY StepCases, <1>1, <1>2, <1>3, <1>4, <1>5, <1>6, <1>7, <1>8

\* RuntimeExclusive is inductive, given the types.
LEMMA ExclusiveStep ==
  ASSUME TypeOK, RuntimeExclusive, [Next]_ledgerVars
  PROVE  RuntimeExclusive'
<1>1. CASE Next
  <2> SUFFICES ASSUME NEW q \in RunId, NEW r \in RunId, q # r, SameRuntime(q, r),
                      Executing(runs', q), Executing(runs', r), ~ZeroModel(q), ~ZeroModel(r)
               PROVE  FALSE
    BY DEF RuntimeExclusive
  <2>1. ASSUME NEW a \in RunId, NEW b \in RunId, NEW w \in Worker, ClaimQueuedRun(a, w), a # b,
               SameRuntime(a, b), Executing(runs', b), ~ZeroModel(a)
        PROVE  FALSE
    <3>1. runs'[b] = runs[b]
      BY <2>1 DEF ClaimQueuedRun, TypeOK
    <3>2. ~Executing(runs, b)
      BY <2>1 DEF ClaimQueuedRun, Claimable, SameRuntime
    <3> QED BY <2>1, <3>1, <3>2 DEF Executing
  <2>2. SameRuntime(r, q)
    BY DEF SameRuntime
  <2>3. ~(Executing(runs, q) /\ Executing(runs, r))
    BY DEF RuntimeExclusive
  <2> QED BY <1>1, <2>1, <2>2, <2>3, ExecutingGrows
<1>2. CASE UNCHANGED ledgerVars
  BY <1>2 DEF ledgerVars, RuntimeExclusive, Executing
<1> QED BY <1>1, <1>2

\* At most one model run occupies a runtime: the guard of claimQueuedAgentRuns is
\* enough, whatever the other callers do and however runs are given back.
THEOREM RuntimeIsExclusive == Spec => []RuntimeExclusive
<1>1. Init => RuntimeExclusive
  BY DEF Init, RuntimeExclusive, Executing, NoRun
<1>2. TypeOK /\ RuntimeExclusive /\ [Next]_ledgerVars => RuntimeExclusive'
  BY ExclusiveStep
<1> QED BY <1>1, <1>2, TypeCorrect, PTL DEF Spec

-----------------------------------------------------------------------------
(* A follow-up and its continuation *)

Agrees(rs, st, m) ==
  /\ st[m].status \in WaitingStatus \cup {"absent"} => ~Exists(rs, Continuation(m))
  /\ st[m].status = "scheduled" <=> Active(rs, Continuation(m))
  /\ Terminal(rs, Continuation(m)) => st[m].status = SteeringOutcome[rs[Continuation(m)].status]

\* The runs of different messages, and the turn and continuation of one, differ.
LEMMA TurnsDiffer == \A m, n \in Msg : Turn(m) # Continuation(n) /\ (Turn(m) = Turn(n) => m = n)
                                     /\ (Continuation(m) = Continuation(n) => m = n)
BY DEF Turn, Continuation

\* Active and ended runs are the existing ones.
LEMMA StatusKinds ==
  ASSUME NEW rs, NEW r
  PROVE  /\ Active(rs, r) => Exists(rs, r) /\ ~Terminal(rs, r)
         /\ Terminal(rs, r) => Exists(rs, r)
         /\ rs \in [RunId -> RunRecord] /\ r \in RunId /\ Exists(rs, r) => Active(rs, r) \/ Terminal(rs, r)
BY DEF Active, ActiveStatus, Exists, Terminal, TerminalStatus, RunRecord, RunStatus

\* ContinuationAgrees is inductive, given the types: one case per step, each for one
\* follow-up m and its continuation c.
LEMMA AgreesStep ==
  ASSUME TypeOK, ContinuationAgrees, [Next]_ledgerVars
  PROVE  ContinuationAgrees'
<1> SUFFICES ASSUME NEW m \in Msg PROVE Agrees(runs', steering', m)
  BY DEF ContinuationAgrees, Agrees, Exists, Active, Terminal
<1> DEFINE c == Continuation(m)
<1>0. Agrees(runs, steering, m) /\ c \in RunId
  BY IdType DEF ContinuationAgrees, Agrees
<1>a. ASSUME runs'[c] = runs[c], steering'[m].status = steering[m].status
      PROVE  Agrees(runs', steering', m)
  BY <1>0, <1>a DEF Agrees, Exists, Active, Terminal
<1>b. ASSUME runs'[c] = runs[c], steering[m].status \in WaitingStatus \cup {"absent"},
             steering'[m].status \in WaitingStatus \cup {"applied", "cancelled"}
      PROVE  Agrees(runs', steering', m)
  <2>1. ~Exists(runs, c)
    BY <1>0, <1>b DEF Agrees
  <2> QED BY <1>b, <2>1 DEF Agrees, Exists, Active, ActiveStatus, Terminal, TerminalStatus, WaitingStatus
<1>c. ASSUME Active(runs, c), Active(runs', c), steering'[m].status = steering[m].status
      PROVE  Agrees(runs', steering', m)
  <2>1. steering[m].status = "scheduled"
    BY <1>0, <1>c DEF Agrees
  <2> QED BY <1>c, <2>1, StatusKinds DEF Agrees, WaitingStatus, Active, ActiveStatus, Terminal, TerminalStatus
<1>1. ASSUME NEW n \in Msg, CreateRunInState(n) PROVE Agrees(runs', steering', m)
  <2>1. runs'[c] = runs[c] /\ steering' = steering
    BY <1>1, TurnsDiffer DEF CreateRunInState, TypeOK
  <2> QED BY <2>1, <1>a
<1>2. ASSUME NEW n \in Msg, NEW r \in RunId, steering[n].status = "absent", EnqueueSteeringInState(n, r)
      PROVE  Agrees(runs', steering', m)
  <2>1. runs' = runs /\ (m # n => steering'[m] = steering[m]) /\ steering'[n].status = "pending"
    BY <1>2 DEF EnqueueSteeringInState, TypeOK
  <2>2. m = n => steering'[m].status \in WaitingStatus
    BY <2>1 DEF WaitingStatus
  <2> QED BY <1>2, <2>1, <2>2, <1>a, <1>b
<1>3. ASSUME NEW n \in Msg, CreateAgentRun(n) \/ CreateAgentRunOrSteer(n) PROVE Agrees(runs', steering', m)
  BY <1>3, <1>1, <1>2 DEF CreateAgentRun, CreateAgentRunOrSteer, Unknown, ActiveIn
<1>4. ASSUME NEW n \in Msg, NEW r \in RunId, EnqueueAgentRunSteering(n, r) PROVE Agrees(runs', steering', m)
  BY <1>4, <1>2 DEF EnqueueAgentRunSteering
<1>5. ASSUME NEW n \in Msg, RecordInboundEvent(n) PROVE Agrees(runs', steering', m)
  BY <1>5, <1>a DEF RecordInboundEvent
<1>6. ASSUME NEW n \in Msg, MarkAgentRunSteeringApplied(n) PROVE Agrees(runs', steering', m)
  <2>1. runs' = runs /\ (m # n => steering'[m] = steering[m])
    BY <1>6 DEF MarkAgentRunSteeringApplied, TypeOK
  <2>2. m = n => steering[m].status \in WaitingStatus /\ steering'[m].status = "applied"
    BY <1>6 DEF MarkAgentRunSteeringApplied, TypeOK, SteeringRecord, WaitingStatus
  <2> QED BY <2>1, <2>2, <1>a, <1>b
<1>7. ASSUME NEW n \in Msg, NEW r \in RunId, NEW w \in Worker, ClaimSteering(n, r, w)
      PROVE  Agrees(runs', steering', m)
  <2>1. runs' = runs /\ (m # n => steering'[m] = steering[m])
    BY <1>7 DEF ClaimSteering, TypeOK
  <2>2. m = n => steering[m].status \in WaitingStatus /\ steering'[m].status \in WaitingStatus
    BY <1>7 DEF ClaimSteering, LivePending, TypeOK, SteeringRecord, WaitingStatus
  <2> QED BY <2>1, <2>2, <1>a, <1>b
<1>8. ASSUME NEW r \in RunId, NEW w \in Worker, ClaimQueuedRun(r, w) PROVE Agrees(runs', steering', m)
  <2>1. steering' = steering /\ (c # r => runs'[c] = runs[c])
    BY <1>0, <1>8 DEF ClaimQueuedRun, TypeOK
  <2>2. c = r => Active(runs, c) /\ Active(runs', c)
    BY <1>8 DEF ClaimQueuedRun, Claimable, TypeOK, RunRecord, Active, ActiveStatus
  <2> QED BY <2>1, <2>2, <1>a, <1>c
<1>9. ASSUME NEW r \in RunId, NEW w \in Worker, RequeueAgentRun(r, w) PROVE Agrees(runs', steering', m)
  <2>1. \/ steering'[m] = steering[m]
        \/ steering[m].status \in WaitingStatus /\ steering'[m].status \in WaitingStatus
    BY <1>9, ReleaseClaimsType, RecordFields DEF RequeueAgentRun, WaitingStatus, TypeOK
  <2>2. c # r => runs'[c] = runs[c]
    BY <1>9 DEF RequeueAgentRun, TypeOK
  <2>3. c = r => Active(runs, c) /\ Active(runs', c) /\ Exists(runs, c)
    BY <1>9, RecordFields DEF RequeueAgentRun, RenewAgentRunLease, TypeOK, Active, ActiveStatus, Exists
  <2>4. c = r => steering[m].status \notin WaitingStatus
    BY <2>3, <1>0 DEF Agrees
  <2> QED BY <2>1, <2>2, <2>3, <2>4, <1>a, <1>b, <1>c
<1>10. ASSUME NEW r \in RunId, CancelRequested(r) PROVE Agrees(runs', steering', m)
  <2>1. steering' = steering /\ (c # r => runs'[c] = runs[c])
    BY <1>0, <1>10 DEF CancelRequested, RequestAgentRunCancel, TypeOK
  <2>2. c = r => Active(runs, c) /\ Active(runs', c)
    BY <1>10 DEF CancelRequested, RequestAgentRunCancel, TypeOK, RunRecord, Active, ActiveStatus
  <2> QED BY <2>1, <2>2, <1>a, <1>c
<1>11. ASSUME StopStep PROVE Agrees(runs', steering', m)
  <2>1. \/ runs'[c] = runs[c]
        \/ runs[c].status = "queued" /\ runs'[c].status = "cancelled"
        \/ Executing(runs, c) /\ runs'[c].status = "cancel_requested"
    BY <1>11, <1>0, StopEffects
  <2>2. CASE /\ steering'[m].status = steering[m].status
             /\ Active(runs, c) => Active(runs', c)
    <3>1. Active(runs, c) \/ runs'[c] = runs[c]
      BY <2>1 DEF Active, ActiveStatus, Executing
    <3> QED BY <2>2, <3>1, <1>a, <1>c
  <2>3. CASE /\ steering'[m].status = "cancelled"
             /\ runs[c].status = "queued"
             /\ runs'[c].status = "cancelled"
    BY <2>3 DEF Agrees, WaitingStatus, Exists, Active, ActiveStatus, Terminal, TerminalStatus, SteeringOutcome
  <2>4. CASE steering'[m].status = "cancelled" /\ steering[m].status \in WaitingStatus
    <3>1. ~Exists(runs, c)
      BY <2>4, <1>0 DEF Agrees
    <3>2. runs'[c] = runs[c]
      BY <2>1, <3>1 DEF Exists, Executing
    <3> QED BY <2>4, <3>2, <1>b
  <2> QED BY <1>11, StopEffects, <2>2, <2>3, <2>4
<1>12. ASSUME SettleStep PROVE Agrees(runs', steering', m)
  <2> PICK rs, st0, D : SettleCall(rs, st0, D) /\ Settle(rs, st0, D)
    BY <1>12 DEF SettleStep
  <2>1. \/ m \in Next0(rs, st0, D) /\ runs'[c] = NewRun
        \/ m \notin Next0(rs, st0, D) /\ runs'[c] = rs[c]
    <3>1. \A n \in Next0(rs, st0, D) : n \in Msg
      BY DEF Next0, NextTurns
    <3> QED BY <1>0, <3>1, SettleRuns, TurnsDiffer
  <2>2. CASE m \in Next0(rs, st0, D)
    <3>1. steering'[m].status = "scheduled" /\ runs'[c].status = "queued"
      BY <2>1, <2>2, SettleFollowUps, RecordFields
    <3> QED BY <3>1 DEF Agrees, WaitingStatus, Exists, Active, ActiveStatus, Terminal, TerminalStatus
  <2>3. CASE m \notin Next0(rs, st0, D) /\ c \in D
    <3>1. steering'[m].status = SteeringOutcome[rs[c].status] /\ Terminal(rs, c) /\ runs'[c] = rs[c]
      BY <2>1, <2>3, SettleFollowUps DEF SettleCall
    <3> QED BY <3>1 DEF Agrees, WaitingStatus, Exists, Active, ActiveStatus, Terminal, TerminalStatus, SteeringOutcome
  <2>4. CASE m \notin Next0(rs, st0, D) /\ c \notin D
    <3>1. /\ runs'[c] = runs[c] \/ (Active(runs, c) /\ Active(runs', c))
          /\ \/ steering'[m].status = steering[m].status
             \/ steering[m].status \in WaitingStatus /\ steering'[m].status \in WaitingStatus
      BY <1>0, <2>1, <2>4, SettleFollowUps DEF SettleCall, Active, ActiveStatus, WaitingStatus
    <3>2. Active(runs, c) => steering[m].status \notin WaitingStatus
      BY <1>0, StatusKinds DEF Agrees
    <3> QED BY <3>1, <3>2, <1>a, <1>b, <1>c
  <2> QED BY <2>2, <2>3, <2>4
<1>13. CASE UNCHANGED ledgerVars
  BY <1>13, <1>a DEF ledgerVars
<1> QED BY <1>13, StepCases, <1>3, <1>4, <1>5, <1>6, <1>7, <1>8, <1>9, <1>10, <1>11, <1>12

\* A follow-up and the turn made of it always tell the same story, in every
\* interleaving of arrivals, workers, recovery and cancellation.
THEOREM FollowUpsAgree == Spec => []ContinuationAgrees
<1>1. Init => ContinuationAgrees
  BY IdType DEF Init, ContinuationAgrees, NoRun, NoSteering, Exists, Active, ActiveStatus, Terminal, TerminalStatus
<1>2. TypeOK /\ ContinuationAgrees /\ [Next]_ledgerVars => ContinuationAgrees'
  BY AgreesStep
<1> QED BY <1>1, <1>2, TypeCorrect, PTL DEF Spec

-----------------------------------------------------------------------------
(* Outcomes are final *)

\* No step takes an outcome back, and none gives a run that is being cancelled
\* another outcome than cancelled or failed.
OutcomeKept(r) == Terminal(runs, r) => runs'[r].status = runs[r].status
CancelKept(r) ==
  runs[r].status = "cancel_requested" => runs'[r].status \in {"cancel_requested", "cancelled", "failed"}

\* Both, for every step.
LEMMA OutcomeStep ==
  ASSUME TypeOK, ContinuationAgrees, Next, NEW r \in RunId
  PROVE  OutcomeKept(r) /\ CancelKept(r)
<1>a. ASSUME runs'[r] = runs[r] \/ ~Exists(runs, r) \/ runs[r].status \in {"queued", "running"}
      PROVE  OutcomeKept(r) /\ CancelKept(r)
  BY <1>a DEF OutcomeKept, CancelKept, Exists, Terminal, TerminalStatus
<1>b. ASSUME runs[r].status = "cancel_requested", runs'[r].status \in {"cancel_requested", "cancelled", "failed"}
      PROVE  OutcomeKept(r) /\ CancelKept(r)
  BY <1>b DEF OutcomeKept, CancelKept, Terminal, TerminalStatus
<1>1. ASSUME NEW m \in Msg, CreateAgentRun(m) \/ CreateAgentRunOrSteer(m) PROVE OutcomeKept(r) /\ CancelKept(r)
  <2>1. runs' = runs \/ (~Exists(runs, Turn(m)) /\ CreateRunInState(m))
    BY <1>1 DEF CreateAgentRun, CreateAgentRunOrSteer, EnqueueSteeringInState, Unknown
  <2>2. CreateRunInState(m) /\ r # Turn(m) => runs'[r] = runs[r]
    BY DEF CreateRunInState, TypeOK
  <2> QED BY <2>1, <2>2, <1>a
<1>2. ASSUME NEW q \in RunId, NEW w \in Worker, ClaimQueuedRun(q, w) \/ RequeueAgentRun(q, w)
      PROVE  OutcomeKept(r) /\ CancelKept(r)
  <2>1. q # r => runs'[r] = runs[r]
    BY <1>2 DEF ClaimQueuedRun, RequeueAgentRun, TypeOK
  <2>2. runs[q].status \in {"queued", "running"}
    BY <1>2 DEF ClaimQueuedRun, Claimable, RequeueAgentRun, RenewAgentRunLease
  <2> QED BY <2>1, <2>2, <1>a
<1>3. ASSUME NEW q \in RunId, CancelRequested(q) PROVE OutcomeKept(r) /\ CancelKept(r)
  <2>1. q # r => runs'[r] = runs[r]
    BY <1>3 DEF CancelRequested, RequestAgentRunCancel, TypeOK
  <2>2. Active(runs, q) /\ runs'[q].status = "cancel_requested"
    BY <1>3 DEF CancelRequested, RequestAgentRunCancel, TypeOK, RunRecord
  <2> QED BY <2>1, <2>2, <1>a, <1>b DEF Active, ActiveStatus
<1>4. ASSUME StopStep PROVE OutcomeKept(r) /\ CancelKept(r)
  <2>1. \/ runs'[r] = runs[r]
        \/ runs[r].status = "queued"
        \/ Executing(runs, r) /\ runs'[r].status = "cancel_requested"
    BY <1>4, StopEffects
  <2> QED BY <2>1, <1>a, <1>b DEF Executing
<1>5. ASSUME SettleStep PROVE OutcomeKept(r) /\ CancelKept(r)
  <2> PICK rs, st0, D : SettleCall(rs, st0, D) /\ Settle(rs, st0, D)
    BY <1>5 DEF SettleStep
  <2>1. CASE runs'[r] = rs[r]
    BY <2>1 DEF SettleCall, OutcomeKept, CancelKept
  <2>2. ASSUME NEW m \in Next0(rs, st0, D), r = Continuation(m) PROVE ~Exists(runs, r)
    <3>1. m \in Msg
      BY DEF Next0, NextTurns
    <3>2. steering[m].status \in WaitingStatus
      BY <3>1, SettleFollowUps
    <3> QED BY <2>2, <3>1, <3>2 DEF ContinuationAgrees
  <2> QED BY <2>1, <2>2, <1>a, SettleRuns
<1>6. ASSUME runs' = runs PROVE OutcomeKept(r) /\ CancelKept(r)
  BY <1>6, <1>a
<1> QED BY StepCases, <1>1, <1>2, <1>3, <1>4, <1>5, <1>6
        DEF EnqueueAgentRunSteering, EnqueueSteeringInState, RecordInboundEvent, MarkAgentRunSteeringApplied,
            ClaimSteering

\* The first terminal status of a run is its last: late answers, a second worker,
\* recovery and cancellation leave it alone.
THEOREM OutcomesAreFinal == Spec => OutcomeIsFinal
<1>1. TypeOK /\ ContinuationAgrees /\ [Next]_ledgerVars
        => [\A r \in RunId : Terminal(runs, r) => runs'[r].status = runs[r].status]_ledgerVars
  BY OutcomeStep DEF OutcomeKept
<1> QED BY <1>1, TypeCorrect, FollowUpsAgree, PTL DEF Spec, OutcomeIsFinal

\* A requested cancellation ends as cancelled or failed, never as completed, and
\* never goes back to the queue.
THEOREM CancelsAreFinal == Spec => CancelIsFinal
<1>1. TypeOK /\ ContinuationAgrees /\ [Next]_ledgerVars
        => [\A r \in RunId : runs[r].status = "cancel_requested" =>
              runs'[r].status \in {"cancel_requested", "cancelled", "failed"}]_ledgerVars
  BY OutcomeStep DEF CancelKept
<1> QED BY <1>1, TypeCorrect, FollowUpsAgree, PTL DEF Spec, CancelIsFinal

-----------------------------------------------------------------------------
(* What a step creates *)

\* A message opened a run of its own.
Opened(m) ==
  /\ CreateAgentRun(m) \/ CreateAgentRunOrSteer(m)
  /\ CreateRunInState(m)
  /\ ~Exists(runs, Turn(m))

\* A message went to the mailbox of an active run of its thread.
Enqueued(m) ==
  /\ SourceOf[m] # "routine"
  /\ SourceOf[m] # "operator" => ~Exists(runs, Turn(m))
  /\ steering[m].status = "absent"
  /\ \E r \in ActiveIn(runs, ThreadOf[m]) : EnqueueSteeringInState(m, r)

\* Runs stay; a run that becomes active was opened by a message or by Settle.
LEMMA ActiveGrows ==
  ASSUME TypeOK, ContinuationAgrees, Next, NEW r \in RunId
  PROVE  /\ Exists(runs, r) => Exists(runs', r)
         /\ Active(runs', r) => \/ Active(runs, r)
                                \/ \E m \in Msg : Opened(m) /\ r = Turn(m)
                                \/ SettleStep
         /\ Exists(runs', r) => \/ Exists(runs, r)
                                \/ \E m \in Msg : Opened(m) /\ r = Turn(m)
                                \/ \E m \in Msg : r = Continuation(m)
<1> DEFINE Goal == /\ Exists(runs, r) => Exists(runs', r)
                   /\ Active(runs', r) => \/ Active(runs, r)
                                          \/ \E m \in Msg : Opened(m) /\ r = Turn(m)
                                          \/ SettleStep
                   /\ Exists(runs', r) => \/ Exists(runs, r)
                                          \/ \E m \in Msg : Opened(m) /\ r = Turn(m)
                                          \/ \E m \in Msg : r = Continuation(m)
<1>a. ASSUME runs'[r] = runs[r] PROVE Goal
  BY <1>a DEF Exists, Active
<1>b. ASSUME Active(runs, r), Exists(runs', r) PROVE Goal
  BY <1>b, StatusKinds
<1>1. ASSUME NEW m \in Msg, CreateAgentRun(m) \/ CreateAgentRunOrSteer(m) PROVE Goal
  <2>1. runs' = runs \/ Opened(m)
    BY <1>1 DEF CreateAgentRun, CreateAgentRunOrSteer, EnqueueSteeringInState, Unknown, Opened
  <2>2. ASSUME Opened(m) PROVE (r # Turn(m) => runs'[r] = runs[r]) /\ (r = Turn(m) => ~Exists(runs, r))
    BY <2>2 DEF Opened, CreateRunInState, TypeOK
  <2>3. CASE Opened(m) /\ r = Turn(m)
    BY <2>2, <2>3
  <2> QED BY <2>1, <2>2, <2>3, <1>a
<1>2. ASSUME NEW q \in RunId, NEW w \in Worker, ClaimQueuedRun(q, w) \/ RequeueAgentRun(q, w) PROVE Goal
  <2>1. q # r => runs'[r] = runs[r]
    BY <1>2 DEF ClaimQueuedRun, RequeueAgentRun, TypeOK
  <2>2. Active(runs, q) /\ Exists(runs', q)
    BY <1>2, RecordFields DEF ClaimQueuedRun, Claimable, RequeueAgentRun, RenewAgentRunLease, TypeOK, RunRecord,
                 Active, ActiveStatus, Exists
  <2> QED BY <2>1, <2>2, <1>a, <1>b
<1>3. ASSUME NEW q \in RunId, CancelRequested(q) PROVE Goal
  <2>1. q # r => runs'[r] = runs[r]
    BY <1>3 DEF CancelRequested, RequestAgentRunCancel, TypeOK
  <2>2. Active(runs, q) /\ Exists(runs', q)
    BY <1>3 DEF CancelRequested, RequestAgentRunCancel, TypeOK, RunRecord, Exists
  <2> QED BY <2>1, <2>2, <1>a, <1>b
<1>4. ASSUME StopStep PROVE Goal
  <2>1. \/ runs'[r] = runs[r]
        \/ Active(runs, r) /\ Exists(runs', r)
    BY <1>4, StopEffects DEF Active, ActiveStatus, Exists, Executing
  <2> QED BY <2>1, <1>a, <1>b
<1>5. ASSUME SettleStep PROVE Goal
  <2> PICK rs, st0, D : SettleCall(rs, st0, D) /\ Settle(rs, st0, D)
    BY <1>5 DEF SettleStep
  <2>1. Exists(runs, r) <=> Exists(rs, r)
    BY DEF SettleCall, Exists, Terminal, TerminalStatus
  <2>2. runs'[r] = rs[r] \/ (runs'[r] = NewRun /\ \E m \in Msg : r = Continuation(m))
    BY SettleRuns DEF Next0, NextTurns
  <2> QED BY <1>5, <2>1, <2>2, RecordFields DEF Exists
<1>6. ASSUME runs' = runs PROVE Goal
  BY <1>6, <1>a
<1> QED BY StepCases, <1>1, <1>2, <1>3, <1>4, <1>5, <1>6
        DEF EnqueueAgentRunSteering, EnqueueSteeringInState, RecordInboundEvent, MarkAgentRunSteeringApplied,
            ClaimSteering

\* A follow-up keeps its target and its place in the mailbox; it enters it once, by
\* being enqueued.
LEMMA FollowUpKept ==
  ASSUME TypeOK, ContinuationAgrees, Next, NEW m \in Msg
  PROVE  \/ Enqueued(m)
         \/ /\ steering'[m].targetRunId = steering[m].targetRunId
            /\ steering'[m].sequence = steering[m].sequence
            /\ steering[m].status = "absent" <=> steering'[m].status = "absent"
            /\ clock' \in Nat /\ clock <= clock'
<1> DEFINE Kept == /\ steering'[m].targetRunId = steering[m].targetRunId
                   /\ steering'[m].sequence = steering[m].sequence
                   /\ steering[m].status = "absent" <=> steering'[m].status = "absent"
           Later == clock' \in Nat /\ clock <= clock'
<1>1. ASSUME NEW n \in Msg, CreateRunInState(n) PROVE Kept /\ Later
  BY <1>1 DEF CreateRunInState, TypeOK
<1>2. ASSUME NEW n \in Msg, NEW r \in RunId, EnqueueSteeringInState(n, r), n # m PROVE Kept /\ Later
  BY <1>2 DEF EnqueueSteeringInState, TypeOK
<1>3. ASSUME NEW n \in Msg, CreateAgentRun(n) \/ CreateAgentRunOrSteer(n) PROVE Enqueued(m) \/ (Kept /\ Later)
  <2>1. CASE CreateRunInState(n)
    BY <2>1, <1>1
  <2>2. CASE /\ SourceOf[n] # "routine" /\ Unknown(n)
             /\ \E r \in ActiveIn(runs, ThreadOf[n]) : EnqueueSteeringInState(n, r)
    <3>1. Enqueued(n)
      BY <2>2 DEF Enqueued, Unknown
    <3>2. n # m => Kept /\ Later
      BY <2>2, <1>2 DEF ActiveIn
    <3> QED BY <3>1, <3>2
  <2> QED BY <1>3, <2>1, <2>2 DEF CreateAgentRun, CreateAgentRunOrSteer
<1>4. ASSUME NEW n \in Msg, NEW r \in RunId, EnqueueAgentRunSteering(n, r) PROVE Enqueued(m) \/ (Kept /\ Later)
  <2>1. Enqueued(n)
    BY <1>4 DEF EnqueueAgentRunSteering, Enqueued
  <2>2. n # m => Kept /\ Later
    BY <1>4, <1>2 DEF EnqueueAgentRunSteering
  <2> QED BY <2>1, <2>2
<1>5. ASSUME NEW n \in Msg, RecordInboundEvent(n) \/ MarkAgentRunSteeringApplied(n) PROVE Kept /\ Later
  BY <1>5 DEF RecordInboundEvent, MarkAgentRunSteeringApplied, TypeOK, SteeringRecord
<1>6. ASSUME NEW n \in Msg, NEW r \in RunId, NEW w \in Worker, ClaimSteering(n, r, w) PROVE Kept /\ Later
  BY <1>6 DEF ClaimSteering, LivePending, TypeOK, SteeringRecord
<1>7. ASSUME NEW r \in RunId, NEW w \in Worker, ClaimQueuedRun(r, w) \/ RequeueAgentRun(r, w) PROVE Kept /\ Later
  <2>1. \/ steering'[m] = steering[m]
        \/ steering[m].status = "claimed" /\ steering'[m] = Unclaimed(steering[m])
    BY <1>7, ReleaseClaimsType DEF ClaimQueuedRun, RequeueAgentRun
  <2>2. clock' = clock
    BY <1>7 DEF ClaimQueuedRun, RequeueAgentRun
  <2> QED BY <2>1, <2>2, RecordFields DEF TypeOK
<1>8. ASSUME NEW r \in RunId, CancelRequested(r) PROVE Kept /\ Later
  BY <1>8 DEF CancelRequested, RequestAgentRunCancel, TypeOK
<1>9. ASSUME StopStep PROVE Kept /\ Later
  <2>1. Continuation(m) \in RunId /\ (runs[Continuation(m)].status = "queued" => steering[m].status # "absent")
    BY IdType DEF ContinuationAgrees, Exists
  <2>2. clock' = clock /\ clock \in Nat
    BY <1>9, StopEffects DEF TypeOK
  <2>3. Kept
    BY <1>9, <2>1, StopEffects DEF WaitingStatus
  <2> QED BY <2>2, <2>3
<1>10. ASSUME SettleStep PROVE Kept /\ Later
  <2> PICK rs, st0, D : SettleCall(rs, st0, D) /\ Settle(rs, st0, D)
    BY <1>10 DEF SettleStep
  <2>1. Continuation(m) \in D => /\ Exists(runs, Continuation(m))
                                 /\ SteeringOutcome[rs[Continuation(m)].status] # "absent"
    BY DEF SettleCall, Terminal, TerminalStatus, SteeringOutcome
  <2>2. Continuation(m) \in D => steering[m].status # "absent"
    BY <2>1 DEF ContinuationAgrees
  <2>3. Later
    BY DEF Settle, TypeOK
  <2>4. Kept
    <3> HIDE DEF Later
    <3> QED BY <2>1, <2>2, SettleFollowUps DEF WaitingStatus
  <2> QED BY <2>3, <2>4
<1> HIDE DEF Kept, Later
<1>11. Enqueued(m) \/ (Kept /\ Later)
  BY StepCases, <1>3, <1>4, <1>5, <1>6, <1>7, <1>8, <1>9, <1>10
<1> QED BY <1>11 DEF Kept, Later

-----------------------------------------------------------------------------
(* The mailbox *)

\* A follow-up never comes from a scheduler, it waits for a run of its thread, and the
\* follow-ups are numbered apart; a run of its own never comes from the admin API.
Placed(m) ==
  steering[m].status # "absent" =>
    /\ SourceOf[m] # "routine"
    /\ steering[m].targetRunId \in RunId /\ Exists(runs, steering[m].targetRunId)
    /\ RunThread(steering[m].targetRunId) = ThreadOf[m]
    /\ steering[m].sequence < clock

MailboxOK ==
  /\ \A m \in Msg : Placed(m)
  /\ \A m \in Msg : Exists(runs, Turn(m)) => SourceOf[m] # "operator"
  /\ \A m, n \in Msg : /\ steering[m].status # "absent" /\ steering[n].status # "absent"
                      /\ steering[m].sequence = steering[n].sequence
                      => m = n

\* MailboxOK is inductive, given the types and ContinuationAgrees.
LEMMA MailboxStep ==
  ASSUME TypeOK, ContinuationAgrees, MailboxOK, [Next]_ledgerVars
  PROVE  MailboxOK'
<1>1. CASE Next
  <2>1. ASSUME NEW m \in Msg, Enqueued(m)
        PROVE  /\ steering'[m].status = "pending" /\ steering'[m].sequence = clock
               /\ steering'[m].targetRunId \in RunId /\ Active(runs, steering'[m].targetRunId)
               /\ RunThread(steering'[m].targetRunId) = ThreadOf[m]
               /\ clock' = clock + 1 /\ clock \in Nat
               /\ \A n \in Msg \ {m} : steering'[n] = steering[n]
    BY <2>1 DEF Enqueued, EnqueueSteeringInState, ActiveIn, TypeOK
  <2>2. \A r \in RunId : Exists(runs, r) => Exists(runs', r)
    BY <1>1, ActiveGrows
  <2>3. ASSUME NEW m \in Msg PROVE Placed(m)'
    <3>1. CASE Enqueued(m)
      <4>1. Exists(runs', steering'[m].targetRunId)
        BY <2>1, <2>2, <3>1, StatusKinds
      <4> QED BY <2>1, <3>1, <4>1 DEF Placed, Enqueued, Exists
    <3>2. CASE ~Enqueued(m) /\ steering[m].status # "absent"
      <4>1. /\ steering'[m].targetRunId = steering[m].targetRunId
            /\ steering'[m].sequence = steering[m].sequence
            /\ clock' \in Nat /\ clock <= clock'
        BY <1>1, <3>2, FollowUpKept
      <4>2. steering[m].sequence \in Nat /\ clock \in Nat
        BY DEF TypeOK, SteeringRecord
      <4> QED BY <2>2, <3>2, <4>1, <4>2 DEF MailboxOK, Placed, Exists
    <3>3. CASE ~Enqueued(m) /\ steering[m].status = "absent"
      BY <1>1, <3>3, FollowUpKept DEF Placed
    <3> QED BY <3>1, <3>2, <3>3
  <2>4. ASSUME NEW m \in Msg, Exists(runs', Turn(m)) PROVE SourceOf[m] # "operator"
    <3>1. CASE Exists(runs, Turn(m))
      BY <3>1 DEF MailboxOK
    <3>2. CASE \E n \in Msg : Opened(n) /\ Turn(m) = Turn(n)
      BY <3>2, TurnsDiffer DEF Opened, CreateAgentRun, CreateAgentRunOrSteer
    <3> QED BY <1>1, <2>4, <3>1, <3>2, ActiveGrows, IdType, TurnsDiffer
  <2>5. ASSUME NEW m \in Msg, NEW n \in Msg, m # n,
               steering'[m].status # "absent", steering'[n].status # "absent"
        PROVE  steering'[m].sequence # steering'[n].sequence
    <3>1. ASSUME NEW a \in Msg, NEW b \in Msg, a # b, Enqueued(a), steering'[b].status # "absent"
          PROVE  steering'[b].sequence # steering'[a].sequence
      <4>1. steering[b].sequence < clock /\ steering[b].sequence \in Nat
        BY <2>1, <3>1 DEF MailboxOK, Placed, TypeOK, SteeringRecord
      <4> QED BY <2>1, <3>1, <4>1
    <3>2. CASE ~Enqueued(m) /\ ~Enqueued(n)
      BY <1>1, <2>5, <3>2, FollowUpKept DEF MailboxOK
    <3> QED BY <2>5, <3>1, <3>2
  <2> QED BY <2>3, <2>4, <2>5 DEF MailboxOK
<1>2. CASE UNCHANGED ledgerVars
  BY <1>2 DEF ledgerVars, MailboxOK, Placed, Exists
<1> QED BY <1>1, <1>2

\* The mailbox is well-formed in every reachable state.
LEMMA MailboxCorrect == Spec => []MailboxOK
<1>1. Init => MailboxOK
  BY IdType DEF Init, MailboxOK, Placed, NoRun, NoSteering, Exists
<1>2. TypeOK /\ ContinuationAgrees /\ MailboxOK /\ [Next]_ledgerVars => MailboxOK'
  BY MailboxStep
<1> QED BY <1>1, <1>2, TypeCorrect, FollowUpsAgree, PTL DEF Spec

-----------------------------------------------------------------------------
(* Redelivery *)

\* AnsweredOnce is inductive, given the mailbox.
LEMMA AnsweredOnceStep ==
  ASSUME TypeOK, ContinuationAgrees, MailboxOK, AnsweredOnce, [Next]_ledgerVars
  PROVE  AnsweredOnce'
<1>1. CASE Next
  <2> SUFFICES ASSUME NEW m \in Msg, Exists(runs', Turn(m)), steering'[m].status # "absent" PROVE FALSE
    BY DEF AnsweredOnce, Exists
  <2>1. Exists(runs, Turn(m)) \/ Opened(m)
    BY <1>1, ActiveGrows, IdType, TurnsDiffer
  <2>2. Enqueued(m) \/ steering[m].status # "absent"
    BY <1>1, FollowUpKept
  <2>3. ASSUME Opened(m), Enqueued(m) PROVE FALSE
    BY <2>3, IdType DEF Opened, CreateRunInState, Enqueued, EnqueueSteeringInState, TypeOK
  <2>4. ASSUME Opened(m), steering[m].status # "absent" PROVE FALSE
    BY <2>4 DEF Opened, CreateAgentRun, CreateAgentRunOrSteer, Unknown, MailboxOK, Placed
  <2>5. ASSUME Exists(runs, Turn(m)), Enqueued(m) PROVE FALSE
    BY <2>5 DEF Enqueued, MailboxOK
  <2> QED BY <2>1, <2>2, <2>3, <2>4, <2>5 DEF AnsweredOnce
<1>2. CASE UNCHANGED ledgerVars
  BY <1>2 DEF ledgerVars, AnsweredOnce, Exists
<1> QED BY <1>1, <1>2

\* However often a message is delivered, it is one turn or one follow-up.
THEOREM MessagesAnsweredOnce == Spec => []AnsweredOnce
<1>1. Init => AnsweredOnce
  BY DEF Init, AnsweredOnce, NoSteering
<1>2. TypeOK /\ ContinuationAgrees /\ MailboxOK /\ AnsweredOnce /\ [Next]_ledgerVars => AnsweredOnce'
  BY AnsweredOnceStep
<1> QED BY <1>1, <1>2, TypeCorrect, FollowUpsAgree, MailboxCorrect, PTL DEF Spec

-----------------------------------------------------------------------------
(* One turn of a conversation at a time *)

\* The follow-ups that Settle schedules in one thread are one follow-up, and the
\* thread has no active run beside it.
LEMMA NextIsAlone ==
  ASSUME TypeOK, MailboxOK, NEW rs, NEW st0, NEW D, SettleCall(rs, st0, D), Settle(rs, st0, D),
         NEW m \in Next0(rs, st0, D)
  PROVE  /\ m \in Msg
         /\ ActiveIn(rs, ThreadOf[m]) = {}
         /\ \A n \in Next0(rs, st0, D) : ThreadOf[n] = ThreadOf[m] => n = m
<1> DEFINE st == FinishContinuation(rs, st0, D)
<1>1. ASSUME NEW n \in Next0(rs, st0, D)
      PROVE  /\ n \in Msg /\ n \in Stranded(rs, st, ThreadOf[n])
             /\ ActiveIn(rs, ThreadOf[n]) = {}
             /\ \A k \in Stranded(rs, st, ThreadOf[n]) : st[n].sequence <= st[k].sequence
  BY DEF Next0, NextTurns, NextSteering, Stranded
<1>2. ASSUME NEW n \in Next0(rs, st0, D)
      PROVE  /\ st[n].sequence = steering[n].sequence /\ st[n].sequence \in Nat
             /\ steering[n].status # "absent"
  <2>1. n \in Msg /\ Continuation(n) \notin D /\ steering[n].status \in WaitingStatus
    BY <1>1, SettleFollowUps
  <2>2. st[n] = st0[n]
    BY <2>1 DEF FinishContinuation
  <2>3. st0[n].sequence = steering[n].sequence
    BY <2>1, RecordFields DEF SettleCall, TypeOK
  <2> QED BY <2>1, <2>2, <2>3 DEF TypeOK, SteeringRecord, WaitingStatus
<1> HIDE DEF st
<1>3. ASSUME NEW n \in Next0(rs, st0, D), ThreadOf[n] = ThreadOf[m] PROVE n = m
  <2>1. st[n].sequence <= st[m].sequence /\ st[m].sequence <= st[n].sequence
    BY <1>1, <1>3
  <2>2. steering[n].sequence = steering[m].sequence
    BY <1>2, <2>1
  <2> QED BY <1>1, <1>2, <2>2 DEF MailboxOK
<1> QED BY <1>1, <1>3

\* OneTurnPerThread is inductive, given the mailbox.
LEMMA OneTurnStep ==
  ASSUME TypeOK, ContinuationAgrees, MailboxOK, OneTurnPerThread, [Next]_ledgerVars
  PROVE  OneTurnPerThread'
<1>1. CASE Next
  <2>1. ASSUME NEW q \in RunId, NEW r \in RunId, q # r, RunThread(q) = RunThread(r),
               Active(runs', q), Active(runs', r), Conversational(q), Conversational(r), Active(runs, q)
        PROVE  FALSE
    <3>1. ~Active(runs, r)
      BY <2>1 DEF OneTurnPerThread
    <3>2. ASSUME NEW m \in Msg, Opened(m), r = Turn(m) PROVE FALSE
      <4>1. RunThread(q) = ThreadOf[m] /\ q \in ActiveIn(runs, ThreadOf[m])
        BY <2>1, <3>2 DEF RunThread, Turn, ActiveIn
      <4>2. SourceOf[m] # "routine" /\ KindOf[m] # "thread-status"
        BY <2>1, <3>2 DEF Conversational, Turn
      <4>3. \E p \in ActiveIn(runs, ThreadOf[m]) : EnqueueSteeringInState(m, p)
        BY <3>2, <4>1, <4>2 DEF Opened, CreateAgentRun, CreateAgentRunOrSteer
      <4> QED BY <3>2, <4>3, IdType, RecordFields DEF Opened, CreateRunInState, EnqueueSteeringInState, TypeOK, Exists
    <3>3. ASSUME SettleStep PROVE FALSE
      <4> PICK rs, st0, D : SettleCall(rs, st0, D) /\ Settle(rs, st0, D)
        BY <3>3 DEF SettleStep
      <4>1. ~Active(rs, r)
        BY <3>1 DEF SettleCall, Active, ActiveStatus, Terminal, TerminalStatus
      <4>2. PICK m \in Next0(rs, st0, D) : r = Continuation(m)
        BY <2>1, <4>1, SettleRuns DEF Active
      <4>3. m \in Msg /\ ActiveIn(rs, ThreadOf[m]) = {} /\ RunThread(q) = ThreadOf[m]
        BY <2>1, <4>2, NextIsAlone DEF RunThread, Continuation
      <4>4. \A n \in Next0(rs, st0, D) : q # Continuation(n)
        BY <2>1, <4>2, <4>3, NextIsAlone, TurnsDiffer DEF RunThread, Continuation
      <4>5. Active(rs, q)
        BY <2>1, <4>4, SettleRuns DEF Active
      <4> QED BY <4>3, <4>5 DEF ActiveIn
    <3> QED BY <1>1, <2>1, <3>1, <3>2, <3>3, ActiveGrows
  <2>2. ASSUME NEW q \in RunId, NEW r \in RunId, q # r, RunThread(q) = RunThread(r),
               Active(runs', q), Active(runs', r), ~Active(runs, q), ~Active(runs, r)
        PROVE  FALSE
    <3>1. CASE SettleStep
      <4> PICK rs, st0, D : SettleCall(rs, st0, D) /\ Settle(rs, st0, D)
        BY <3>1 DEF SettleStep
      <4>1. ~Active(rs, q) /\ ~Active(rs, r)
        BY <2>2 DEF SettleCall, Active, ActiveStatus, Terminal, TerminalStatus
      <4>2. PICK m \in Next0(rs, st0, D) : q = Continuation(m)
        BY <2>2, <4>1, SettleRuns DEF Active
      <4>3. PICK n \in Next0(rs, st0, D) : r = Continuation(n)
        BY <2>2, <4>1, SettleRuns DEF Active
      <4>4. ThreadOf[m] = ThreadOf[n]
        BY <2>2, <4>2, <4>3 DEF RunThread, Continuation
      <4> QED BY <2>2, <4>2, <4>3, <4>4, NextIsAlone
    <3>2. CASE ~SettleStep
      <4>1. PICK m \in Msg : Opened(m) /\ q = Turn(m)
        BY <1>1, <2>2, <3>2, ActiveGrows
      <4>2. runs'[r] = runs[r]
        BY <2>2, <4>1 DEF Opened, CreateRunInState, TypeOK
      <4> QED BY <2>2, <4>2 DEF Active
    <3> QED BY <3>1, <3>2
  <2> QED BY <2>1, <2>2 DEF OneTurnPerThread, Active
<1>2. CASE UNCHANGED ledgerVars
  BY <1>2 DEF ledgerVars, OneTurnPerThread, Active
<1> QED BY <1>1, <1>2

\* The conversation of a thread takes one turn at a time, however many ingresses,
\* workers and admins compete: createAgentRunOrSteer looks for an active run in the
\* transaction that opens the next one, and Settle schedules only one follow-up.
THEOREM OneTurnAtATime == Spec => []OneTurnPerThread
<1>1. Init => OneTurnPerThread
  BY DEF Init, OneTurnPerThread, Active, ActiveStatus, NoRun
<1>2. TypeOK /\ ContinuationAgrees /\ MailboxOK /\ OneTurnPerThread /\ [Next]_ledgerVars => OneTurnPerThread'
  BY OneTurnStep
<1> QED BY <1>1, <1>2, TypeCorrect, FollowUpsAgree, MailboxCorrect, PTL DEF Spec

-----------------------------------------------------------------------------
(* Claims on follow-ups *)

\* ClaimsFollowTheRun, for one follow-up.
Follows(rs, st, m) == st[m].status = "claimed" => rs[st[m].targetRunId].status # "queued"

\* ClaimsFollowTheRun is inductive, given the mailbox.
LEMMA ClaimsStep ==
  ASSUME TypeOK, ContinuationAgrees, MailboxOK, ClaimsFollowTheRun, [Next]_ledgerVars
  PROVE  ClaimsFollowTheRun'
<1> SUFFICES ASSUME NEW m \in Msg PROVE Follows(runs', steering', m)
  BY DEF ClaimsFollowTheRun, Follows
<1> DEFINE t == steering[m].targetRunId
<1>0. /\ Follows(runs, steering, m)
      /\ steering[m].status # "absent" => t \in RunId /\ Exists(runs, t)
  BY DEF ClaimsFollowTheRun, Follows, MailboxOK, Placed
<1>a. ASSUME steering'[m] = steering[m],
             steering[m].status = "claimed" /\ runs'[t].status = "queued" => runs[t].status = "queued"
      PROVE  Follows(runs', steering', m)
  BY <1>0, <1>a DEF Follows
<1>b. ASSUME steering'[m].status # "claimed" PROVE Follows(runs', steering', m)
  BY <1>b DEF Follows
<1> HIDE DEF t
<1>1. ASSUME NEW n \in Msg, CreateAgentRun(n) \/ CreateAgentRunOrSteer(n) PROVE Follows(runs', steering', m)
  <2>1. CASE CreateRunInState(n) /\ ~Exists(runs, Turn(n))
    <3>1. steering' = steering /\ (steering[m].status = "claimed" => runs'[t] = runs[t])
      BY <1>0, <2>1 DEF CreateRunInState, TypeOK
    <3> QED BY <3>1, <1>a
  <2>2. CASE \E r \in ActiveIn(runs, ThreadOf[n]) : EnqueueSteeringInState(n, r)
    <3>1. runs' = runs /\ (n # m => steering'[m] = steering[m]) /\ steering'[n].status = "pending"
      BY <2>2 DEF EnqueueSteeringInState, TypeOK
    <3> QED BY <3>1, <1>a, <1>b
  <2> QED BY <1>1, <2>1, <2>2 DEF CreateAgentRun, CreateAgentRunOrSteer, Unknown
<1>2. ASSUME NEW n \in Msg, NEW r \in RunId, EnqueueAgentRunSteering(n, r) PROVE Follows(runs', steering', m)
  <2>1. runs' = runs /\ (n # m => steering'[m] = steering[m]) /\ steering'[n].status = "pending"
    BY <1>2 DEF EnqueueAgentRunSteering, EnqueueSteeringInState, TypeOK
  <2> QED BY <2>1, <1>a, <1>b
<1>3. ASSUME NEW n \in Msg, RecordInboundEvent(n) PROVE Follows(runs', steering', m)
  BY <1>3, <1>a DEF RecordInboundEvent
<1>4. ASSUME NEW n \in Msg, MarkAgentRunSteeringApplied(n) PROVE Follows(runs', steering', m)
  <2>1. runs' = runs /\ (n # m => steering'[m] = steering[m]) /\ steering'[n].status = "applied"
    BY <1>4 DEF MarkAgentRunSteeringApplied, TypeOK, SteeringRecord
  <2> QED BY <2>1, <1>a, <1>b
<1>5. ASSUME NEW n \in Msg, NEW r \in RunId, NEW w \in Worker, ClaimSteering(n, r, w)
      PROVE  Follows(runs', steering', m)
  <2>1. CASE n = m
    <3>1. runs' = runs /\ steering'[m].targetRunId = r /\ runs[r].status = "running"
      BY <1>5, <2>1 DEF ClaimSteering, LivePending, TypeOK, SteeringRecord
    <3> QED BY <3>1 DEF Follows
  <2>2. CASE n # m
    BY <1>5, <2>2, <1>a DEF ClaimSteering, TypeOK
  <2> QED BY <2>1, <2>2
<1>6. ASSUME NEW r \in RunId, NEW w \in Worker, ClaimQueuedRun(r, w) PROVE Follows(runs', steering', m)
  <2>1. steering' = steering /\ (t # r /\ steering[m].status = "claimed" => runs'[t] = runs[t])
    BY <1>0, <1>6 DEF ClaimQueuedRun, TypeOK
  <2>2. runs'[r].status = "running"
    BY <1>6 DEF ClaimQueuedRun, TypeOK, RunRecord
  <2> QED BY <2>1, <2>2, <1>a
<1>7. ASSUME NEW r \in RunId, NEW w \in Worker, RequeueAgentRun(r, w) PROVE Follows(runs', steering', m)
  <2>1. steering' = ReleaseClaims({r}) /\ {r} \in SUBSET RunId
    BY <1>7 DEF RequeueAgentRun
  <2>2. steering'[m] = steering[m] \/ steering'[m] = Unclaimed(steering[m])
    BY <2>1, ReleaseClaimsType
  <2>3. steering'[m].status = "claimed" => steering'[m].targetRunId # r
    BY <2>1, ReleaseClaimsType
  <2>4. t # r /\ steering[m].status = "claimed" => runs'[t] = runs[t]
    BY <1>0, <1>7 DEF RequeueAgentRun, TypeOK
  <2>5. Unclaimed(steering[m]).status = "pending"
    BY RecordFields DEF TypeOK
  <2> QED BY <2>2, <2>3, <2>4, <2>5, <1>a, <1>b DEF t
<1>8. ASSUME NEW r \in RunId, CancelRequested(r) PROVE Follows(runs', steering', m)
  <2>1. steering' = steering /\ (t # r /\ steering[m].status = "claimed" => runs'[t] = runs[t])
    BY <1>0, <1>8 DEF CancelRequested, RequestAgentRunCancel, TypeOK
  <2>2. runs'[r].status = "cancel_requested"
    BY <1>8 DEF CancelRequested, RequestAgentRunCancel, TypeOK, RunRecord
  <2> QED BY <2>1, <2>2, <1>a
<1>9. ASSUME StopStep PROVE Follows(runs', steering', m)
  <2>1. /\ steering'[m].targetRunId = t
        /\ steering'[m].status = "cancelled" \/ steering'[m].status = steering[m].status
    BY <1>9, StopEffects DEF t
  <2>2. steering[m].status = "claimed" =>
          \/ runs'[t] = runs[t]
          \/ runs'[t].status \in {"cancelled", "cancel_requested"}
    BY <1>0, <1>9, StopEffects
  <2> QED BY <1>0, <2>1, <2>2 DEF Follows, t
<1>10. ASSUME SettleStep PROVE Follows(runs', steering', m)
  <2> PICK rs, st0, D : SettleCall(rs, st0, D) /\ Settle(rs, st0, D)
    BY <1>10 DEF SettleStep
  <2>1. CASE m \notin Next0(rs, st0, D) /\ Continuation(m) \notin D /\ steering'[m].status = "claimed"
    <3>1. /\ st0[m].status = "claimed" /\ steering[m].status = "claimed"
          /\ steering'[m].targetRunId = t /\ st0[m].targetRunId = t
      BY <2>1, SettleFollowUps DEF t
    <3>2. t \in RunId /\ Exists(runs, t) /\ runs[t].status # "queued"
      BY <1>0, <3>1 DEF Follows, t
    <3>3. rs[t].status # "queued"
      BY <3>1, <3>2 DEF SettleCall
    <3>4. runs'[t] = rs[t]
      <4>1. ASSUME NEW n \in Next0(rs, st0, D) PROVE t # Continuation(n)
        <5>1. n \in Msg
          BY DEF Next0, NextTurns
        <5>2. steering[n].status \in WaitingStatus
          BY <5>1, SettleFollowUps
        <5> QED BY <3>2, <5>1, <5>2 DEF ContinuationAgrees
      <4> QED BY <3>2, <4>1, SettleRuns
    <3> QED BY <3>1, <3>3, <3>4 DEF Follows
  <2>2. CASE m \in Next0(rs, st0, D)
    BY <2>2, <1>b, SettleFollowUps
  <2>3. CASE m \notin Next0(rs, st0, D) /\ Continuation(m) \in D
    <3>1. steering'[m].status = SteeringOutcome[rs[Continuation(m)].status] /\ Terminal(rs, Continuation(m))
      BY <2>3, SettleFollowUps DEF SettleCall
    <3> QED BY <3>1, <1>b DEF SteeringOutcome, Terminal, TerminalStatus
  <2> QED BY <2>1, <2>2, <2>3, <1>b
<1>11. CASE UNCHANGED ledgerVars
  BY <1>11, <1>a DEF ledgerVars
<1> QED BY <1>11, StepCases, <1>1, <1>2, <1>3, <1>4, <1>5, <1>6, <1>7, <1>8, <1>9, <1>10

\* A run that was given back has no follow-up claimed by the worker that lost it:
\* requeueAgentRun and recoverStaleAgentRuns return the claims in the same transaction.
THEOREM ClaimsAreReturned == Spec => []ClaimsFollowTheRun
<1>1. Init => ClaimsFollowTheRun
  BY DEF Init, ClaimsFollowTheRun, NoSteering
<1>2. TypeOK /\ ContinuationAgrees /\ MailboxOK /\ ClaimsFollowTheRun /\ [Next]_ledgerVars => ClaimsFollowTheRun'
  BY ClaimsStep
<1> QED BY <1>1, <1>2, TypeCorrect, FollowUpsAgree, MailboxCorrect, PTL DEF Spec

-----------------------------------------------------------------------------
(* Handing the thread over *)

NatLess == {ss \in Nat \X Nat : ss[1] < ss[2]}

\* A nonempty set of naturals has a least element.
LEMMA SmallestNat ==
  ASSUME NEW T \in SUBSET Nat, T # {}
  PROVE  \E x \in T : \A y \in T : x <= y
<1>1. IsWellFoundedOn(NatLess, Nat)
  BY NatLessThanWellFounded DEF OpToRel, NatLess
<1>2. PICK x \in T : \A y \in T : ~(<<y, x>> \in NatLess)
  BY <1>1, WFMin
<1>3. \A y, z \in Nat : y < z => <<y, z>> \in NatLess
  BY DEF NatLess
<1>4. x \in Nat /\ \A y \in T : y \in Nat
  OBVIOUS
<1>5. \A y \in T : ~(y < x)
  BY <1>2, <1>3, <1>4, Zenon
<1>6. \A y, z \in Nat : ~(y < z) => z <= y
  OBVIOUS
<1> QED BY <1>4, <1>5, <1>6, Zenon

\* Settle schedules the oldest follow-up of the thread of every run that it ends.
LEMMA SettleHandsOver ==
  ASSUME TypeOK, ContinuationAgrees, MailboxOK, NEW rs, NEW st0, NEW D,
         SettleCall(rs, st0, D), Settle(rs, st0, D), NEW r \in D
  PROVE  \/ ActiveIn(runs', RunThread(r)) # {}
         \/ Stranded(runs', steering', RunThread(r)) = {}
<1> DEFINE t == RunThread(r)
           st == FinishContinuation(rs, st0, D)
           S == Stranded(rs, st, t)
<1>2. r \in RunId
  BY DEF SettleCall
<1>3. \A q \in RunId : Active(rs, q) => Active(runs', q)
  BY SettleRuns, RecordFields DEF Active, ActiveStatus
<1>4. ASSUME NEW m \in S
      PROVE  /\ m \in Msg /\ ThreadOf[m] = t /\ st[m].sequence \in Nat
             /\ steering[m].status \in WaitingStatus
  <2>1. m \in Msg /\ ThreadOf[m] = t /\ st[m].status \in WaitingStatus
    BY DEF Stranded
  <2>2. Continuation(m) \notin D
    BY <2>1, IdType, RecordFields
       DEF SettleCall, Terminal, TerminalStatus, FinishContinuation, SteeringOutcome, WaitingStatus, SteeringOK,
           SteeringRecord
  <2>3. st[m] = st0[m]
    BY <2>1, <2>2 DEF FinishContinuation
  <2> HIDE DEF st
  <2>4. st0[m].status = steering[m].status \/ steering[m].status = "claimed"
    BY <2>1 DEF SettleCall
  <2> QED BY <2>1, <2>3, <2>4 DEF SettleCall, SteeringOK, SteeringRecord, WaitingStatus
<1>5. CASE ActiveIn(rs, t) # {}
  BY <1>3, <1>5 DEF ActiveIn
<1>6. CASE ActiveIn(rs, t) = {} /\ S # {}
  <2>1. PICK m \in S : \A n \in S : st[m].sequence <= st[n].sequence
    <3> DEFINE T == {st[n].sequence : n \in S}
    <3>1. T \in SUBSET Nat /\ T # {}
      <4> HIDE DEF st, S
      <4> QED BY <1>4, <1>6
    <3>2. PICK x \in T : \A y \in T : x <= y
      <4> HIDE DEF T
      <4> QED BY <3>1, SmallestNat
    <3> QED BY <3>2
  <2>2. m \in Next0(rs, st0, D)
    BY <1>2, <1>4, <1>6, <2>1 DEF Next0, NextTurns, NextSteering
  <2>3. m \in Msg /\ Continuation(m) \in RunId /\ RunThread(Continuation(m)) = t
    BY <1>4, IdType DEF RunThread, Continuation
  <2>4. runs'[Continuation(m)] = NewRun
    BY <2>2, <2>3, SettleRuns
  <2>5. Continuation(m) \in ActiveIn(runs', t)
    BY <2>3, <2>4, RecordFields DEF ActiveIn, Active, ActiveStatus
  <2> QED BY <2>5
<1>7. CASE S = {}
  <2> SUFFICES ASSUME NEW m \in Stranded(runs', steering', t) PROVE FALSE
    OBVIOUS
  <2>1. m \in Msg /\ ThreadOf[m] = t /\ steering'[m].status \in WaitingStatus
        /\ Terminal(runs', steering'[m].targetRunId)
    BY DEF Stranded
  <2>2. /\ m \notin Next0(rs, st0, D) /\ steering'[m].targetRunId = steering[m].targetRunId
        /\ steering[m].status # "absent"
    <3>1. \A s \in TerminalStatus : SteeringOutcome[s] \notin WaitingStatus
      BY DEF TerminalStatus, SteeringOutcome, WaitingStatus
    <3>2. Continuation(m) \in D => rs[Continuation(m)].status \in TerminalStatus
      BY DEF SettleCall, Terminal
    <3> QED BY <2>1, <3>1, <3>2, SettleFollowUps DEF WaitingStatus
  <2>3. steering[m].targetRunId \in RunId
    BY <2>1, <2>2 DEF MailboxOK, Placed
  <2>4. Terminal(rs, steering[m].targetRunId)
    BY <2>1, <2>2, <2>3, SettleRuns, RecordFields DEF Terminal, TerminalStatus
  <2>5. steering'[m] = st[m]
    BY <2>1, <2>2 DEF Settle, Next0
  <2> QED BY <1>7, <2>1, <2>2, <2>4, <2>5 DEF Stranded
<1> QED BY <1>5, <1>6, <1>7

\* Only Settle ends an executing run.
LEMMA HandOverStep ==
  ASSUME TypeOK, ContinuationAgrees, MailboxOK, Next,
         NEW r \in RunId, Executing(runs, r), Terminal(runs', r)
  PROVE  \/ ActiveIn(runs', RunThread(r)) # {}
         \/ Stranded(runs', steering', RunThread(r)) = {}
<1>1. SettleStep
  <2>1. ASSUME NEW m \in Msg, CreateAgentRun(m) \/ CreateAgentRunOrSteer(m) PROVE FALSE
    <3>1. runs'[r] = runs[r] \/ runs'[r].status = "queued"
      BY <2>1, RecordFields DEF CreateAgentRun, CreateAgentRunOrSteer, CreateRunInState, EnqueueSteeringInState, TypeOK
    <3> QED BY <3>1 DEF Executing, Terminal, TerminalStatus
  <2>2. ASSUME NEW q \in RunId, NEW w \in Worker, ClaimQueuedRun(q, w) \/ RequeueAgentRun(q, w) PROVE FALSE
    <3>1. runs'[r] = runs[r] \/ runs'[r].status \in {"running", "queued"}
      BY <2>2, RecordFields DEF ClaimQueuedRun, RequeueAgentRun, TypeOK, RunRecord
    <3> QED BY <3>1 DEF Executing, Terminal, TerminalStatus
  <2>3. ASSUME NEW q \in RunId, CancelRequested(q) PROVE FALSE
    <3>1. runs'[r] = runs[r] \/ runs'[r].status = "cancel_requested"
      BY <2>3 DEF CancelRequested, RequestAgentRunCancel, TypeOK, RunRecord
    <3> QED BY <3>1 DEF Executing, Terminal, TerminalStatus
  <2>4. ASSUME StopStep PROVE FALSE
    BY <2>4, StopEffects DEF Executing, Terminal, TerminalStatus
  <2>5. ASSUME runs' = runs PROVE FALSE
    BY <2>5 DEF Executing, Terminal, TerminalStatus
  <2> QED BY StepCases, <2>1, <2>2, <2>3, <2>4, <2>5
          DEF EnqueueAgentRunSteering, EnqueueSteeringInState, RecordInboundEvent, MarkAgentRunSteeringApplied,
              ClaimSteering
<1>2. PICK rs, st0, D : SettleCall(rs, st0, D) /\ Settle(rs, st0, D)
  BY <1>1 DEF SettleStep
<1>3. runs'[r] = rs[r]
  BY <1>2, SettleRuns, RecordFields DEF Terminal, TerminalStatus
<1>4. r \in D
  BY <1>2, <1>3 DEF SettleCall, Executing, Terminal, TerminalStatus
<1> QED BY <1>2, <1>4, SettleHandsOver

\* The end of a turn never leaves its thread idle with a follow-up waiting behind it,
\* whoever ends it: the owner, an old worker, or recovery.
THEOREM TurnsHandOver == Spec => TurnHandsOver
<1>1. TypeOK /\ ContinuationAgrees /\ MailboxOK /\ [Next]_ledgerVars
        => [\A r \in RunId :
              Executing(runs, r) /\ Terminal(runs', r) =>
                \/ ActiveIn(runs', RunThread(r)) # {}
                \/ Stranded(runs', steering', RunThread(r)) = {}]_ledgerVars
  BY HandOverStep
<1> QED BY <1>1, TypeCorrect, FollowUpsAgree, MailboxCorrect, PTL DEF Spec, TurnHandsOver
(***************************************************************************)
(* Nobody is forgotten.  A thread that waits for something, in which no       *)
(* follow-up waits behind an ended run unless a run is active, remains so      *)
(* through every call but one: the Stop on the card of a run that is queued    *)
(* again ends it and schedules nothing.                                      *)
(***************************************************************************)

Awaited(t) == Stranded(runs, steering, t) = {} \/ ActiveIn(runs, t) # {}

QueuedRunIsStopped(t) ==
  \E r \in RunId : RunThread(r) = t /\ runs[r].status = "queued" /\ StopRun(r)

NobodyIsForgotten ==
  [][\A t \in Thread : Awaited(t) => Awaited(t)' \/ QueuedRunIsStopped(t)]_ledgerVars

\* What a step does to a thread that it neither ends nor strands anything in.
Calm(t) ==
  /\ \A m \in Msg : /\ ThreadOf[m] = t /\ steering'[m].status \in WaitingStatus
                    /\ Terminal(runs', steering'[m].targetRunId)
                    => /\ steering[m].status \in WaitingStatus
                       /\ Terminal(runs, steering[m].targetRunId)
  /\ \A r \in RunId : RunThread(r) = t /\ Active(runs, r) => Active(runs', r)

LEMMA CalmKeeps ==
  ASSUME NEW t, Awaited(t), Calm(t)
  PROVE  Awaited(t)'
<1>1. Stranded(runs', steering', t) \subseteq Stranded(runs, steering, t)
  BY DEF Calm, Stranded
<1>2. ActiveIn(runs, t) \subseteq ActiveIn(runs', t)
  BY DEF Calm, ActiveIn
<1> QED BY <1>1, <1>2 DEF Awaited

\* Follow-ups stay with their runs, and runs that go on, or begin, strand nobody.
LEMMA CalmFrame ==
  ASSUME MailboxOK, NEW t,
         \A m \in Msg : steering'[m].status \in WaitingStatus =>
           \/ /\ steering[m].status \in WaitingStatus
              /\ steering'[m].targetRunId = steering[m].targetRunId
           \/ ~Terminal(runs', steering'[m].targetRunId),
         \A r \in RunId : RunThread(r) = t =>
           \/ runs'[r] = runs[r]
           \/ ~Terminal(runs', r) /\ (Active(runs, r) => Active(runs', r))
  PROVE  Calm(t)
<1>1. ASSUME NEW m \in Msg, ThreadOf[m] = t, steering'[m].status \in WaitingStatus,
             Terminal(runs', steering'[m].targetRunId)
      PROVE  steering[m].status \in WaitingStatus /\ Terminal(runs, steering[m].targetRunId)
  <2>1. steering[m].status \in WaitingStatus /\ steering'[m].targetRunId = steering[m].targetRunId
    BY <1>1
  <2>2. steering[m].targetRunId \in RunId /\ RunThread(steering[m].targetRunId) = t
    BY <1>1, <2>1 DEF MailboxOK, Placed, WaitingStatus
  <2> QED BY <1>1, <2>1, <2>2 DEF Terminal
<1> QED BY <1>1 DEF Calm, Active

\* What is stopped: the runs R of one thread, and the follow-ups F.
LEMMA CancelEffects ==
  ASSUME TypeOK, NEW R \in SUBSET RunId, NEW F \in SUBSET Msg,
         \A r \in R : Active(runs, r), CancelActive(R, F)
  PROVE  /\ \A r \in RunId \ R : runs'[r] = runs[r]
         /\ \A r \in R : runs[r].status # "queued" => runs'[r].status = "cancel_requested"
         /\ \A m \in Msg : steering'[m].status \in WaitingStatus =>
              /\ steering[m].status \in WaitingStatus /\ m \notin F
              /\ steering'[m].targetRunId = steering[m].targetRunId
<1>1. StopStep
  BY DEF StopStep
<1>2. /\ \A r \in RunId \ R : runs'[r] = runs[r]
      /\ \A r \in R : runs[r].status # "queued" => runs'[r].status = "cancel_requested"
  BY DEF CancelActive, TypeOK, RunRecord
<1>3. ASSUME NEW m \in Msg, steering'[m].status \in WaitingStatus
      PROVE  /\ steering[m].status \in WaitingStatus
             /\ steering'[m].targetRunId = steering[m].targetRunId
  BY <1>1, <1>3, StopEffects DEF WaitingStatus
<1>4. ASSUME NEW m \in F, steering[m].status \in WaitingStatus
      PROVE  steering'[m].status \notin WaitingStatus
  <2> DEFINE Q  == {r \in R : runs[r].status = "queued"}
             rs == [r \in RunId |-> CASE r \in Q -> [runs[r] EXCEPT !.status = "cancelled"]
                                      [] r \in R \ Q -> [runs[r] EXCEPT !.status = "cancel_requested"]
                                      [] OTHER -> runs[r]]
             C  == {n \in F : steering[n].status \in WaitingStatus}
             st == [n \in Msg |-> IF n \in C THEN [steering[n] EXCEPT !.status = "cancelled"] ELSE steering[n]]
  <2>1. steering' = FinishContinuation(rs, st, Q)
    BY DEF CancelActive
  <2>2. st[m].status = "cancelled" /\ st[m] \in SteeringRecord
    BY <1>4 DEF TypeOK, SteeringRecord, SteeringStatus
  <2>3. Continuation(m) \in Q => rs[Continuation(m)].status = "cancelled"
    BY DEF TypeOK, RunRecord
  <2> HIDE DEF st, rs, Q
  <2>4. steering'[m] = IF Continuation(m) \in Q
                         THEN [st[m] EXCEPT !.status = SteeringOutcome[rs[Continuation(m)].status]]
                         ELSE st[m]
    BY <2>1 DEF FinishContinuation
  <2>5. steering'[m].status = "cancelled"
    BY <2>2, <2>3, <2>4 DEF SteeringRecord, SteeringOutcome
  <2> QED BY <2>5 DEF WaitingStatus
<1> QED BY <1>2, <1>3, <1>4

LEMMA AwaitedStep ==
  ASSUME TypeOK, ContinuationAgrees, MailboxOK, Next, NEW t \in Thread, Awaited(t),
         ~QueuedRunIsStopped(t)
  PROVE  Awaited(t)'
<1>1. ASSUME NEW R \in SUBSET RunId, NEW F \in SUBSET Msg, CancelActive(R, F),
             \A r \in R : Active(runs, r),
             \A r \in R : RunThread(r) = t => runs[r].status # "queued"
      PROVE  Awaited(t)'
  <2>1. /\ \A r \in RunId \ R : runs'[r] = runs[r]
        /\ \A r \in R : runs[r].status # "queued" => runs'[r].status = "cancel_requested"
        /\ \A m \in Msg : steering'[m].status \in WaitingStatus =>
             /\ steering[m].status \in WaitingStatus
             /\ steering'[m].targetRunId = steering[m].targetRunId
    BY <1>1, CancelEffects
  <2>2. \A r \in RunId : RunThread(r) = t =>
           \/ runs'[r] = runs[r]
           \/ ~Terminal(runs', r) /\ (Active(runs, r) => Active(runs', r))
    BY <1>1, <2>1 DEF Terminal, TerminalStatus, Active, ActiveStatus
  <2> QED BY <2>1, <2>2, CalmFrame, CalmKeeps
<1>2. ASSUME NEW u \in Thread, StopThread(u) PROVE Awaited(t)'
  <2> DEFINE R == ActiveIn(runs, u)
             F == {m \in Msg : ThreadOf[m] = u}
  <2>1. /\ R \in SUBSET RunId /\ F \in SUBSET Msg /\ CancelActive(R, F)
        /\ \A r \in R : Active(runs, r) /\ RunThread(r) = u
        /\ \A m \in Msg : ThreadOf[m] = u => m \in F
    BY <1>2 DEF StopThread, ActiveIn
  <2> HIDE DEF R, F
  <2>2. CASE u = t
    <3>1. \A m \in Msg : steering'[m].status \in WaitingStatus => m \notin F
      BY <2>1, CancelEffects
    <3>2. Stranded(runs', steering', t) = {}
      BY <2>1, <2>2, <3>1 DEF Stranded
    <3> QED BY <3>2 DEF Awaited
  <2>3. CASE u # t
    BY <1>1, <2>1, <2>3
  <2> QED BY <2>2, <2>3
<1>3. ASSUME NEW q \in RunId, StopRun(q) PROVE Awaited(t)'
  <2> DEFINE R == {q} \cap ActiveIn(runs, RunThread(q))
             F == {m \in Msg : steering[m].targetRunId = q}
  <2>1. /\ R \in SUBSET RunId /\ F \in SUBSET Msg /\ CancelActive(R, F)
        /\ \A r \in R : r = q /\ Active(runs, r)
    BY <1>3 DEF StopRun, ActiveIn
  <2>2. RunThread(q) = t => runs[q].status # "queued"
    BY <1>3 DEF QueuedRunIsStopped
  <2> HIDE DEF R, F
  <2> QED BY <1>1, <2>1, <2>2
<1>4. ASSUME SettleStep PROVE Awaited(t)'
  <2>1. PICK rs, st0, D : SettleCall(rs, st0, D) /\ Settle(rs, st0, D)
    BY <1>4 DEF SettleStep
  <2>2. CASE \E r \in D : RunThread(r) = t
    BY <2>1, <2>2, SettleHandsOver DEF Awaited
  <2>3. CASE \A r \in D : RunThread(r) # t
    <3>1. ASSUME NEW r \in RunId, RunThread(r) = t
          PROVE  \/ runs'[r] = runs[r]
                 \/ ~Terminal(runs', r) /\ (Active(runs, r) => Active(runs', r))
      <4>1. rs[r] = runs[r] \/ rs[r].status = "queued"
        BY <2>1, <2>3, <3>1 DEF SettleCall
      <4>2. runs'[r] = rs[r] \/ runs'[r].status = "queued"
        BY <2>1, SettleRuns, RecordFields
      <4> QED BY <4>1, <4>2 DEF Terminal, TerminalStatus, Active, ActiveStatus
    <3>2. ASSUME NEW m \in Msg, steering'[m].status \in WaitingStatus
          PROVE  /\ steering[m].status \in WaitingStatus
                 /\ steering'[m].targetRunId = steering[m].targetRunId
      <4>1. \A s \in TerminalStatus : SteeringOutcome[s] \notin WaitingStatus
        BY DEF TerminalStatus, SteeringOutcome, WaitingStatus
      <4>2. Continuation(m) \in D => rs[Continuation(m)].status \in TerminalStatus
        BY <2>1 DEF SettleCall, Terminal
      <4> QED BY <2>1, <3>2, <4>1, <4>2, SettleFollowUps DEF WaitingStatus
    <3> QED BY <3>1, <3>2, CalmFrame, CalmKeeps
  <2> QED BY <2>2, <2>3
<1>5. ASSUME NEW m \in Msg,
             RecordInboundEvent(m) \/ MarkAgentRunSteeringApplied(m)
             \/ \E r \in RunId, w \in Worker : ClaimSteering(m, r, w)
      PROVE  Awaited(t)'
  <2>1. /\ runs' = runs
        /\ \A n \in Msg : steering'[n].status \in WaitingStatus =>
             /\ steering[n].status \in WaitingStatus
             /\ steering'[n].targetRunId = steering[n].targetRunId
    BY <1>5 DEF RecordInboundEvent, MarkAgentRunSteeringApplied, ClaimSteering, LivePending, TypeOK,
                SteeringRecord, WaitingStatus
  <2> QED BY <2>1, CalmFrame, CalmKeeps
<1>6. ASSUME NEW m \in Msg, CreateRunInState(m), ~Exists(runs, Turn(m)) PROVE Awaited(t)'
  <2>1. /\ steering' = steering
        /\ \A r \in RunId : runs'[r] = runs[r] \/ (r = Turn(m) /\ runs'[r].status = "queued")
    BY <1>6, RecordFields DEF CreateRunInState, TypeOK
  <2>2. \A r \in RunId : \/ runs'[r] = runs[r]
                         \/ ~Terminal(runs', r) /\ (Active(runs, r) => Active(runs', r))
    BY <2>1 DEF Terminal, TerminalStatus, Active, ActiveStatus
  <2> QED BY <2>1, <2>2, CalmFrame, CalmKeeps
<1>7. ASSUME NEW m \in Msg, NEW r \in RunId, Active(runs, r), EnqueueSteeringInState(m, r)
      PROVE  Awaited(t)'
  <2>1. /\ runs' = runs
        /\ \A n \in Msg : \/ steering'[n] = steering[n]
                          \/ steering'[n].targetRunId = r
    BY <1>7 DEF EnqueueSteeringInState, TypeOK
  <2>2. ~Terminal(runs', r)
    BY <1>7, <2>1 DEF Terminal, TerminalStatus, Active, ActiveStatus
  <2> QED BY <2>1, <2>2, CalmFrame, CalmKeeps
<1>8. ASSUME NEW r \in RunId,
             CancelRequested(r) \/ \E w \in Worker : ClaimQueuedRun(r, w) \/ RequeueAgentRun(r, w)
      PROVE  Awaited(t)'
  <2>1. \A q \in RunId : runs'[q] = runs[q] \/ runs'[q].status \in ActiveStatus
    <3>1. CASE CancelRequested(r)
      <4>1. runs' = [runs EXCEPT ![r].status = "cancel_requested"]
        BY <3>1 DEF CancelRequested, RequestAgentRunCancel
      <4> QED BY <4>1 DEF TypeOK, RunRecord, ActiveStatus
    <3>2. ASSUME NEW w \in Worker, ClaimQueuedRun(r, w) \/ RequeueAgentRun(r, w)
          PROVE  \A q \in RunId : runs'[q] = runs[q] \/ runs'[q].status \in ActiveStatus
      BY <3>2, RecordFields DEF ClaimQueuedRun, RequeueAgentRun, TypeOK, RunRecord, ActiveStatus
    <3> QED BY <1>8, <3>1, <3>2
  <2>2. \A q \in RunId : \/ runs'[q] = runs[q]
                         \/ ~Terminal(runs', q) /\ (Active(runs, q) => Active(runs', q))
    BY <2>1 DEF Terminal, TerminalStatus, Active, ActiveStatus
  <2>3. steering' = steering \/ steering' = ReleaseClaims({r})
    <3>1. CancelRequested(r) => steering' = steering
      BY DEF CancelRequested, RequestAgentRunCancel
    <3> QED BY <1>8, <3>1 DEF ClaimQueuedRun, RequeueAgentRun
  <2>4. \A m \in Msg : \/ steering'[m] = steering[m]
                       \/ steering[m].status = "claimed" /\ steering'[m] = Unclaimed(steering[m])
    BY <2>3, ReleaseClaimsType
  <2>5. \A m \in Msg : steering'[m].status \in WaitingStatus =>
          /\ steering[m].status \in WaitingStatus
          /\ steering'[m].targetRunId = steering[m].targetRunId
    BY <2>4, RecordFields DEF TypeOK, WaitingStatus
  <2> QED BY <2>2, <2>5, CalmFrame, CalmKeeps
<1>9. ASSUME NEW m \in Msg, CreateAgentRun(m) \/ CreateAgentRunOrSteer(m)
             \/ \E r \in RunId : EnqueueAgentRunSteering(m, r)
      PROVE  Awaited(t)'
  BY <1>6, <1>7, <1>9 DEF CreateAgentRun, CreateAgentRunOrSteer, EnqueueAgentRunSteering, Unknown, ActiveIn
<1>10. CASE Arrive
  BY <1>5, <1>9, <1>10 DEF Arrive
<1>11. CASE Work
  <2>1. ASSUME NEW r \in RunId, MarkAgentRunCompleted(r) \/ MarkAgentRunFailed(r) \/ MarkAgentRunCancelled(r)
        PROVE  SettleStep
    BY <2>1, UpdateSettles DEF MarkAgentRunCompleted, MarkAgentRunFailed, MarkAgentRunCancelled, TerminalStatus
  <2> QED BY <1>4, <1>5, <1>8, <1>11, <2>1 DEF Work, ClaimQueuedAgentRuns, ClaimNextAgentRunSteering
<1>12. CASE Control
  <2>1. ASSUME NEW r \in RunId, RequestAgentRunCancel(r) PROVE SettleStep \/ CancelRequested(r)
    BY <2>1, CancelSettles DEF CancelRequested
  <2> QED BY <1>2, <1>3, <1>4, <1>8, <1>12, <2>1, RecoverSettles DEF Control
<1> QED BY <1>10, <1>11, <1>12 DEF Next

\* A follow-up that waits behind an ended run is never left alone with its thread by a
\* completion, a failure, a recovery, a requeue, "/stop" or a cancellation
\* (scheduleNextSteeringInState in file-delivery-store.ts), only by the one Stop.
THEOREM TurnsForgetNobody == Spec => NobodyIsForgotten
<1>1. TypeOK /\ ContinuationAgrees /\ MailboxOK /\ [Next]_ledgerVars
        => [\A t \in Thread : Awaited(t) => Awaited(t)' \/ QueuedRunIsStopped(t)]_ledgerVars
  BY AwaitedStep
<1> QED BY <1>1, TypeCorrect, FollowUpsAgree, MailboxCorrect, PTL DEF Spec, NobodyIsForgotten

-----------------------------------------------------------------------------
(* The promise: RunLedger implements Turns *)

\* Only createAgentRunInState and Settle make runs, and they make them queued.
LEMMA BornQueued ==
  ASSUME TypeOK, ContinuationAgrees, Next, NEW r \in RunId, ~Exists(runs, r), Exists(runs', r)
  PROVE  runs'[r].status = "queued"
<1>1. ASSUME NEW m \in Msg, CreateAgentRun(m) \/ CreateAgentRunOrSteer(m) PROVE runs'[r].status = "queued"
  <2>1. runs' = runs \/ CreateRunInState(m)
    BY <1>1 DEF CreateAgentRun, CreateAgentRunOrSteer, EnqueueSteeringInState
  <2>2. CreateRunInState(m) => runs'[r] = NewRun \/ runs'[r] = runs[r]
    BY DEF CreateRunInState, TypeOK
  <2> QED BY <2>1, <2>2, RecordFields DEF Exists
<1>2. ASSUME NEW q \in RunId, NEW w \in Worker, ClaimQueuedRun(q, w) \/ RequeueAgentRun(q, w) PROVE FALSE
  <2>1. q # r => runs'[r] = runs[r]
    BY <1>2 DEF ClaimQueuedRun, RequeueAgentRun, TypeOK
  <2>2. Exists(runs, q)
    BY <1>2 DEF ClaimQueuedRun, Claimable, RequeueAgentRun, RenewAgentRunLease, Exists
  <2> QED BY <2>1, <2>2 DEF Exists
<1>3. ASSUME NEW q \in RunId, CancelRequested(q) PROVE FALSE
  <2>1. q # r => runs'[r] = runs[r]
    BY <1>3 DEF CancelRequested, RequestAgentRunCancel, TypeOK
  <2>2. Exists(runs, q)
    BY <1>3, StatusKinds DEF CancelRequested, RequestAgentRunCancel
  <2> QED BY <2>1, <2>2 DEF Exists
<1>4. ASSUME StopStep PROVE FALSE
  BY <1>4, StopEffects DEF Exists, Executing
<1>5. ASSUME SettleStep PROVE runs'[r].status = "queued"
  <2> PICK rs, st0, D : SettleCall(rs, st0, D) /\ Settle(rs, st0, D)
    BY <1>5 DEF SettleStep
  <2>1. rs[r] = runs[r]
    BY DEF SettleCall, Exists
  <2> QED BY <2>1, SettleRuns, RecordFields DEF Exists
<1>6. runs' # runs
  BY DEF Exists
<1> QED BY StepCases, <1>1, <1>2, <1>3, <1>4, <1>5, <1>6
        DEF EnqueueAgentRunSteering, EnqueueSteeringInState, RecordInboundEvent, MarkAgentRunSteeringApplied,
            ClaimSteering

\* What may become of the status of a run in one step.
RunMoves(s, t) ==
  \/ t = s
  \/ s = "absent" /\ t = "queued"
  \/ s = "queued" /\ t \in TerminalStatus \cup {"running"}
  \/ s = "running" /\ t \in TerminalStatus \cup {"queued", "cancel_requested"}
  \/ s = "cancel_requested" /\ t \in {"cancelled", "failed"}

\* Every step moves every run so.
LEMMA RunMove ==
  ASSUME TypeOK, TypeOK', ContinuationAgrees, Next, NEW r \in RunId
  PROVE  RunMoves(runs[r].status, runs'[r].status)
<1>1. runs[r].status \in RunStatus \cup {"absent"} /\ runs'[r].status \in RunStatus \cup {"absent"}
  BY DEF TypeOK, RunRecord
<1>2. OutcomeKept(r) /\ CancelKept(r)
  BY OutcomeStep
<1>3. Exists(runs, r) => Exists(runs', r)
  BY ActiveGrows
<1>4. ~Exists(runs, r) /\ Exists(runs', r) => runs'[r].status = "queued"
  BY BornQueued
<1>5. runs[r].status = "queued" => runs'[r].status # "cancel_requested"
  <2>1. ASSUME NEW w \in Worker, ClaimQueuedRun(r, w) PROVE runs'[r].status = "running"
    BY <2>1 DEF ClaimQueuedRun, TypeOK, RunRecord
  <2>2. Executing(runs', r) => Executing(runs, r) \/ \E w \in Worker : ClaimQueuedRun(r, w)
    BY ExecutingGrows
  <2> QED BY <2>1, <2>2 DEF Executing
<1> QED BY <1>1, <1>2, <1>3, <1>4, <1>5
        DEF RunMoves, OutcomeKept, CancelKept, Exists, RunStatus, ActiveStatus, TerminalStatus, Terminal

\* A continuation is made of a follow-up that waits.
LEMMA ScheduledWaited ==
  ASSUME TypeOK, ContinuationAgrees, Next, NEW m \in Msg,
         ~Exists(runs, Continuation(m)), Exists(runs', Continuation(m))
  PROVE  steering[m].status \in WaitingStatus
<1>1. Continuation(m) \in RunId /\ runs'[Continuation(m)].status = "queued"
  BY IdType, BornQueued
<1>2. SettleStep
  BY <1>1, ActiveGrows, TurnsDiffer, StatusKinds DEF Active, ActiveStatus
<1> PICK rs, st0, D : SettleCall(rs, st0, D) /\ Settle(rs, st0, D)
  BY <1>2 DEF SettleStep
<1>3. rs[Continuation(m)] = runs[Continuation(m)]
  BY <1>1 DEF SettleCall, Exists
<1>4. PICK n \in Next0(rs, st0, D) : Continuation(m) = Continuation(n)
  BY <1>1, <1>3, SettleRuns DEF Exists
<1>5. n = m
  BY <1>4, TurnsDiffer DEF Next0, NextTurns
<1> QED BY <1>4, <1>5, SettleFollowUps

\* What may become of the status of a follow-up that has no continuation.
FollowUpMoves(s, t) ==
  \/ t = s
  \/ s = "absent" /\ t = "pending"
  \/ s \in WaitingStatus /\ t \in WaitingStatus \cup {"applied", "cancelled"}

\* Every step moves such a follow-up so.
LEMMA FollowUpMove ==
  ASSUME TypeOK, TypeOK', ContinuationAgrees, Next, NEW m \in Msg,
         ~Exists(runs', Continuation(m))
  PROVE  FollowUpMoves(steering[m].status, steering'[m].status)
<1>0. ~Exists(runs, Continuation(m)) /\ Continuation(m) \in RunId
  BY IdType, ActiveGrows
<1>a. ASSUME steering'[m] = steering[m] PROVE FollowUpMoves(steering[m].status, steering'[m].status)
  BY <1>a DEF FollowUpMoves
<1>1. ASSUME Enqueued(m) PROVE FollowUpMoves(steering[m].status, steering'[m].status)
  BY <1>1 DEF Enqueued, EnqueueSteeringInState, TypeOK, FollowUpMoves
<1>2. ASSUME NEW n \in Msg, CreateAgentRun(n) \/ CreateAgentRunOrSteer(n), ~Enqueued(m)
      PROVE  steering'[m] = steering[m]
  <2>1. CASE steering' = steering
    BY <2>1
  <2>2. CASE CreateAgentRunOrSteer(n) /\ \E r \in ActiveIn(runs, ThreadOf[n]) : EnqueueSteeringInState(n, r)
    <3>1. Enqueued(n)
      BY <2>2 DEF Enqueued, CreateAgentRunOrSteer, Unknown
    <3> QED BY <1>2, <2>2, <3>1 DEF EnqueueSteeringInState, TypeOK
  <2> QED BY <1>2, <2>1, <2>2 DEF CreateAgentRun, CreateAgentRunOrSteer, CreateRunInState
<1>3. ASSUME NEW n \in Msg, NEW r \in RunId, EnqueueAgentRunSteering(n, r), ~Enqueued(m)
      PROVE  steering'[m] = steering[m]
  <2>1. Enqueued(n)
    BY <1>3 DEF Enqueued, EnqueueAgentRunSteering
  <2> QED BY <1>3, <2>1 DEF EnqueueAgentRunSteering, EnqueueSteeringInState, TypeOK
<1>4. ASSUME NEW n \in Msg, MarkAgentRunSteeringApplied(n)
      PROVE  FollowUpMoves(steering[m].status, steering'[m].status)
  BY <1>4 DEF MarkAgentRunSteeringApplied, TypeOK, SteeringRecord, FollowUpMoves, WaitingStatus
<1>5. ASSUME NEW n \in Msg, NEW r \in RunId, NEW w \in Worker, ClaimSteering(n, r, w)
      PROVE  FollowUpMoves(steering[m].status, steering'[m].status)
  BY <1>5 DEF ClaimSteering, LivePending, TypeOK, SteeringRecord, FollowUpMoves, WaitingStatus
<1>6. ASSUME NEW r \in RunId, NEW w \in Worker, RequeueAgentRun(r, w)
      PROVE  FollowUpMoves(steering[m].status, steering'[m].status)
  <2>1. \/ steering'[m] = steering[m]
        \/ steering[m].status = "claimed" /\ steering'[m] = Unclaimed(steering[m])
    BY <1>6, ReleaseClaimsType DEF RequeueAgentRun
  <2>2. Unclaimed(steering[m]).status = "pending"
    BY RecordFields DEF TypeOK
  <2> QED BY <2>1, <2>2 DEF FollowUpMoves, WaitingStatus
<1>7. ASSUME StopStep PROVE FollowUpMoves(steering[m].status, steering'[m].status)
  <2>1. runs[Continuation(m)].status # "queued"
    BY <1>0 DEF Exists
  <2> QED BY <1>7, <2>1, StopEffects DEF FollowUpMoves
<1>8. ASSUME SettleStep PROVE FollowUpMoves(steering[m].status, steering'[m].status)
  <2> PICK rs, st0, D : SettleCall(rs, st0, D) /\ Settle(rs, st0, D)
    BY <1>8 DEF SettleStep
  <2>1. m \notin Next0(rs, st0, D)
    <3>1. m \in Next0(rs, st0, D) => runs'[Continuation(m)] = NewRun
      BY <1>0, SettleRuns
    <3> QED BY <3>1, RecordFields DEF Exists
  <2>2. Continuation(m) \notin D
    BY <1>0 DEF SettleCall
  <2> QED BY <2>1, <2>2, SettleFollowUps DEF FollowUpMoves, WaitingStatus
<1>9. ASSUME steering' = steering PROVE FollowUpMoves(steering[m].status, steering'[m].status)
  BY <1>9, <1>a
<1> QED BY StepCases, <1>a, <1>1, <1>2, <1>3, <1>4, <1>5, <1>6, <1>7, <1>8, <1>9
        DEF RecordInboundEvent, ClaimQueuedRun, CancelRequested, RequestAgentRunCancel

\* What the promise needs to know of the ledger's states.
PromiseInv == TypeOK /\ ContinuationAgrees /\ MailboxOK /\ AnsweredOnce /\ OneTurnPerThread

\* The fate of a message is one of those that Turns knows, and it is being worked on
\* only when a run of it is active.
LEMMA FateKinds ==
  ASSUME PromiseInv, NEW m \in Msg
  PROVE  /\ FateOf(m) \in Promise!Fate
         /\ FateOf(m) \in {"working", "stopping"} =>
              Active(runs, Turn(m)) \/ Active(runs, Continuation(m))
<1>1. /\ runs[Turn(m)].status \in RunStatus \cup {"absent"}
      /\ runs[Continuation(m)].status \in RunStatus \cup {"absent"}
      /\ steering[m].status \in SteeringStatus \cup {"absent"}
  BY IdType DEF PromiseInv, TypeOK, RunRecord, SteeringRecord
<1>2. steering[m].status = "scheduled" => Exists(runs, Continuation(m))
  BY DEF PromiseInv, ContinuationAgrees, Exists, Active, ActiveStatus
<1>3. CASE Exists(runs, Turn(m))
  BY <1>1, <1>3 DEF FateOf, RunFate, Promise!Fate, Exists, RunStatus, ActiveStatus, TerminalStatus, Active
<1>4. CASE ~Exists(runs, Turn(m)) /\ Exists(runs, Continuation(m))
  BY <1>1, <1>4 DEF FateOf, RunFate, Promise!Fate, Exists, RunStatus, ActiveStatus, TerminalStatus, Active
<1>5. CASE ~Exists(runs, Turn(m)) /\ ~Exists(runs, Continuation(m))
  <2>1. FateOf(m) = SteeringFate[steering[m].status]
    BY <1>5 DEF FateOf
  <2> QED BY <1>1, <1>2, <1>5, <2>1 DEF SteeringFate, Promise!Fate, SteeringStatus, WaitingStatus
<1> QED BY <1>3, <1>4, <1>5

\* A run's move is a move of the fate it stands for.
LEMMA RunFateMoves ==
  ASSUME NEW s \in RunStatus, NEW t \in RunStatus, RunMoves(s, t)
  PROVE  RunFate[t] = RunFate[s] \/ RunFate[t] \in Promise!May[RunFate[s]]
BY DEF RunMoves, RunFate, Promise!May, Promise!Outcome, RunStatus, ActiveStatus, TerminalStatus

\* So is the move of a follow-up without continuation.
LEMMA FollowUpFateMoves ==
  ASSUME NEW s \in SteeringStatus \cup {"absent"}, NEW t \in SteeringStatus \cup {"absent"},
         s # "scheduled", t # "scheduled", FollowUpMoves(s, t)
  PROVE  SteeringFate[t] = SteeringFate[s] \/ SteeringFate[t] \in Promise!May[SteeringFate[s]]
BY DEF FollowUpMoves, SteeringFate, Promise!May, Promise!Outcome, SteeringStatus, WaitingStatus

\* No step of the ledger gives a message a fate that Turns forbids.
LEMMA FateStep ==
  ASSUME PromiseInv, PromiseInv', Next, NEW m \in Msg
  PROVE  FateOf(m)' = FateOf(m) \/ FateOf(m)' \in Promise!May[FateOf(m)]
<1> DEFINE t == Turn(m)
           c == Continuation(m)
<1>1. /\ t \in RunId /\ c \in RunId
      /\ Exists(runs, t) => Exists(runs', t)
      /\ Exists(runs, c) => Exists(runs', c)
  BY IdType, ActiveGrows DEF PromiseInv
<1>2. RunMoves(runs[t].status, runs'[t].status) /\ RunMoves(runs[c].status, runs'[c].status)
  BY <1>1, RunMove DEF PromiseInv
<1>3. /\ Exists(runs, t) => runs[t].status \in RunStatus
      /\ Exists(runs', t) => runs'[t].status \in RunStatus
      /\ Exists(runs, c) => runs[c].status \in RunStatus
      /\ Exists(runs', c) => runs'[c].status \in RunStatus
  BY <1>1 DEF PromiseInv, TypeOK, RunRecord, Exists
<1>4. /\ Exists(runs, t) => FateOf(m) = RunFate[runs[t].status]
      /\ ~Exists(runs, t) /\ Exists(runs, c) => FateOf(m) = RunFate[runs[c].status]
      /\ ~Exists(runs, t) /\ ~Exists(runs, c) => FateOf(m) = SteeringFate[steering[m].status]
      /\ Exists(runs', t) => FateOf(m)' = RunFate[runs'[t].status]
      /\ ~Exists(runs', t) /\ Exists(runs', c) => FateOf(m)' = RunFate[runs'[c].status]
      /\ ~Exists(runs', t) /\ ~Exists(runs', c) => FateOf(m)' = SteeringFate[steering'[m].status]
  <2>1. /\ ~(Exists(runs, t) /\ Exists(runs, c))
        /\ ~(Exists(runs', t) /\ Exists(runs', c))
    BY DEF PromiseInv, AnsweredOnce, ContinuationAgrees, Exists
  <2> QED BY <2>1 DEF FateOf, Exists
<1> HIDE DEF t, c
<1>5. CASE Exists(runs, t)
  BY <1>1, <1>2, <1>3, <1>4, <1>5, RunFateMoves
<1>6. CASE ~Exists(runs, t) /\ Exists(runs', t)
  <2>1. steering'[m].status = "absent"
    BY <1>6 DEF PromiseInv, AnsweredOnce, t, Exists
  <2>2. ~Enqueued(m)
    <3>1. Enqueued(m) => steering'[m].status = "pending"
      BY DEF Enqueued, EnqueueSteeringInState, PromiseInv, TypeOK
    <3> QED BY <2>1, <3>1
  <2>3. steering[m].status = "absent"
    BY <2>1, <2>2, FollowUpKept DEF PromiseInv
  <2>4. ~Exists(runs, c)
    BY <2>3 DEF PromiseInv, ContinuationAgrees, c
  <2>5. FateOf(m) = "unknown"
    BY <1>4, <1>6, <2>3, <2>4 DEF SteeringFate
  <2>6. runs'[t].status = "queued"
    BY <1>1, <1>6, BornQueued DEF PromiseInv
  <2>7. FateOf(m)' = "waiting"
    BY <1>4, <1>6, <2>6 DEF RunFate
  <2> QED BY <2>5, <2>7 DEF Promise!May
<1>7. CASE ~Exists(runs', t) /\ Exists(runs, c)
  BY <1>1, <1>2, <1>3, <1>4, <1>7, RunFateMoves
<1>8. CASE ~Exists(runs', t) /\ ~Exists(runs, c) /\ Exists(runs', c)
  <2>1. steering[m].status \in WaitingStatus
    BY <1>8, ScheduledWaited DEF PromiseInv, c
  <2>2. runs'[c].status = "queued"
    BY <1>1, <1>8, BornQueued DEF PromiseInv
  <2>3. FateOf(m) = "waiting"
    BY <1>1, <1>4, <1>8, <2>1 DEF SteeringFate, WaitingStatus
  <2>4. FateOf(m)' = "waiting"
    BY <1>4, <1>8, <2>2 DEF RunFate
  <2> QED BY <2>3, <2>4
<1>9. CASE ~Exists(runs', t) /\ ~Exists(runs', c)
  <2>1. FollowUpMoves(steering[m].status, steering'[m].status)
    BY <1>9, FollowUpMove DEF PromiseInv, c
  <2>2. /\ steering[m].status \in SteeringStatus \cup {"absent"}
        /\ steering'[m].status \in SteeringStatus \cup {"absent"}
    BY DEF PromiseInv, TypeOK, SteeringRecord
  <2>3. steering[m].status # "scheduled" /\ steering'[m].status # "scheduled"
    <3>1. ~Active(runs, c) /\ ~Active(runs', c)
      BY <1>1, <1>9, StatusKinds
    <3> QED BY <3>1 DEF PromiseInv, ContinuationAgrees, c, Active
  <2> QED BY <1>1, <1>4, <1>9, <2>1, <2>2, <2>3, FollowUpFateMoves
<1> QED BY <1>1, <1>5, <1>6, <1>7, <1>8, <1>9

\* A conversation takes one message at a time, as a message at work has an active run.
LEMMA OneFateAtWork ==
  ASSUME PromiseInv, NEW m \in Msg, NEW n \in Msg,
         Conversational(Turn(m)), Conversational(Turn(n)), ThreadOf[m] = ThreadOf[n],
         FateOf(m) \in {"working", "stopping"}, FateOf(n) \in {"working", "stopping"}
  PROVE  m = n
<1>1. PICK q \in {Turn(m), Continuation(m)} : Active(runs, q)
  BY FateKinds
<1>2. PICK r \in {Turn(n), Continuation(n)} : Active(runs, r)
  BY FateKinds
<1>3. /\ q \in RunId /\ q[2] = m /\ r \in RunId /\ r[2] = n
  <2>1. q \in RunId /\ r \in RunId
    BY <1>1, <1>2, IdType
  <2>2. \A k \in Msg : Turn(k)[2] = k /\ Continuation(k)[2] = k
    BY DEF Turn, Continuation
  <2> QED BY <1>1, <1>2, <2>1, <2>2
<1>4. /\ RunThread(q) = RunThread(r) /\ Conversational(q) /\ Conversational(r)
  BY <1>3 DEF RunThread, Conversational, Turn
<1> QED BY <1>1, <1>2, <1>3, <1>4 DEF PromiseInv, OneTurnPerThread

\* The fates of all messages, as the refinement maps them.
Fates == [m \in Msg |-> FateOf(m)]

\* Nothing is known at the start.
LEMMA PromiseInit == Init => Promise!Init
<1> SUFFICES ASSUME Init, NEW m \in Msg PROVE FateOf(m) = "unknown"
  BY DEF Promise!Init
<1> QED BY IdType DEF Init, FateOf, Exists, NoRun, NoSteering, SteeringFate

\* Whatever step is taken, the fates stay among those that Turns knows, one at work at a
\* time in a conversation.
LEMMA FatesAreKept ==
  PromiseInv' => Fates' \in [Msg -> Promise!Fate] /\ Promise!OneAtATime(Fates')
<1>1. PromiseInv => Fates \in [Msg -> Promise!Fate] /\ Promise!OneAtATime(Fates)
  <2> SUFFICES ASSUME PromiseInv PROVE Fates \in [Msg -> Promise!Fate] /\ Promise!OneAtATime(Fates)
    OBVIOUS
  <2>1. Fates \in [Msg -> Promise!Fate]
    BY FateKinds DEF Fates
  <2>2. Promise!OneAtATime(Fates)
    BY OneFateAtWork DEF Promise!OneAtATime, Promise!AtWork, Fates
  <2> QED BY <2>1, <2>2
<1>2. (PromiseInv => Fates \in [Msg -> Promise!Fate] /\ Promise!OneAtATime(Fates))'
  BY <1>1, PTL
<1> QED BY <1>2 DEF Promise!OneAtATime, Promise!AtWork

\* Every step of the ledger is a step of the promise, or none.
LEMMA PromiseStep ==
  PromiseInv /\ PromiseInv' /\ [Next]_ledgerVars => [Promise!Next]_Fates
<1>2. PromiseInv' => Fates' \in [Msg -> Promise!Fate] /\ Promise!OneAtATime(Fates')
  BY FatesAreKept
<1> SUFFICES ASSUME PromiseInv, PromiseInv', [Next]_ledgerVars PROVE [Promise!Next]_Fates
  OBVIOUS
<1>3. CASE Next
  <2>1. \A m \in Msg : Fates'[m] = Fates[m] \/ Fates'[m] \in Promise!May[Fates[m]]
    BY <1>3, FateStep DEF Fates
  <2> QED BY <1>2, <2>1 DEF Promise!Next, Fates
<1>4. CASE UNCHANGED ledgerVars
  BY <1>4 DEF ledgerVars, Fates, FateOf, Exists
<1> QED BY <1>3, <1>4

\* The ledger keeps the promise made to a thread: behind mailboxes, leases, recoveries,
\* stops and redeliveries every message has one fate, an outcome is final, a stopped
\* message is never answered, and a conversation is worked on one message at a time.
THEOREM PromiseIsKept == Spec => KeepsThePromise
<1>1. Spec => []PromiseInv
  BY TypeCorrect, FollowUpsAgree, MailboxCorrect, MessagesAnsweredOnce, OneTurnAtATime, PTL DEF PromiseInv
<1> QED BY <1>1, PromiseInit, PromiseStep, PTL DEF Spec, KeepsThePromise, Promise!Spec, Fates
=============================================================================
