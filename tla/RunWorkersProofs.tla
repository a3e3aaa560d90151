--------------------------- MODULE RunWorkersProofs ---------------------------
(***************************************************************************)
(* Proofs about RunWorkers: the ledger closed over its workers, for any      *)
(* messages, threads and workers, and any number of crashes, shutdowns,      *)
(* recoveries and stops.                                                    *)
(***************************************************************************)
EXTENDS RunWorkers, RunLedgerProofs, FiniteSetTheorems

(***************************************************************************)
(* The ledger's part of a step.                                             *)
(***************************************************************************)

\* What RunLedgerProofs proves of every state of the ledger.
LedgerInv == PromiseInv /\ RuntimeExclusive

\* updateAgentRun as its callers see it is a step of the ledger, or none.
LEMMA ReportIsNext ==
  ASSUME NEW r \in RunId, NEW s \in TerminalStatus, Report(r, s)
  PROVE  [Next]_ledgerVars
BY DEF Report, Next, Work, TerminalStatus, MarkAgentRunCompleted, MarkAgentRunFailed, MarkAgentRunCancelled

\* Only the event of a message changes.
EventStep == \E m \in Msg, s \in {"processed", "failed"} : MarkInboundEvent(m, s)

\* What the ledger knows holds of the events whatever is written on them.
LEMMA EventStepKeeps ==
  ASSUME LedgerInv, EventStep
  PROVE  LedgerInv'
<1>1. PICK m \in Msg, s \in {"processed", "failed"} : MarkInboundEvent(m, s)
  BY DEF EventStep
<1>2. runs' = runs /\ steering' = steering /\ clock' = clock
  BY <1>1 DEF MarkInboundEvent
<1>3. inbound' \in [Msg -> InboundStatus \cup {"absent"}]
  BY <1>1 DEF MarkInboundEvent, LedgerInv, PromiseInv, TypeOK, InboundStatus
<1> QED BY <1>2, <1>3 DEF LedgerInv, PromiseInv, TypeOK, ContinuationAgrees, MailboxOK, Placed, AnsweredOnce,
           OneTurnPerThread, RuntimeExclusive, Exists, Active, Terminal, Executing

\* It is an invariant of the ledger.
LEMMA LedgerInvStep ==
  ASSUME LedgerInv, [Next]_ledgerVars \/ EventStep
  PROVE  LedgerInv'
<1>1. CASE [Next]_ledgerVars
  BY <1>1, TypeStep, AgreesStep, MailboxStep, AnsweredOnceStep, OneTurnStep, ExclusiveStep
     DEF LedgerInv, PromiseInv
<1>2. CASE EventStep
  BY <1>2, EventStepKeeps
<1> QED BY <1>1, <1>2

(***************************************************************************)
(* What the calls do to the runs they are not about.                        *)
(***************************************************************************)

\* Nobody starts, gives back or completes q.
Undisturbed(q) ==
  /\ Exists(runs, q) /\ runs'[q].status = "queued" => runs[q].status = "queued"
  /\ runs'[q].status = "running" => runs[q].status = "running" /\ runs'[q].workerId = runs[q].workerId
  /\ runs'[q].status = "completed" => runs[q].status = "completed"

\* Settle leaves a run as its caller handed it over, or makes it, queued.
LEMMA SettleLeaves ==
  ASSUME TypeOK, ContinuationAgrees, NEW rs, NEW st0, NEW D, SettleCall(rs, st0, D), Settle(rs, st0, D),
         NEW q \in RunId
  PROVE  runs'[q] = rs[q] \/ (~Exists(runs, q) /\ runs'[q].status = "queued")
<1>1. ASSUME NEW m \in Next0(rs, st0, D), q = Continuation(m) PROVE ~Exists(runs, q)
  <2>1. m \in Msg
    BY DEF Next0, NextTurns
  <2> QED BY <1>1, <2>1, SettleFollowUps DEF ContinuationAgrees
<1> QED BY <1>1, SettleRuns, RecordFields

\* An outcome ends its run, which is completed only when that was reported, and
\* leaves the others.
LEMMA ReportEffect ==
  ASSUME TypeOK, ContinuationAgrees, NEW r \in RunId, Exists(runs, r), NEW s \in TerminalStatus, Report(r, s)
  PROVE  /\ Terminal(runs', r)
         /\ runs'[r].status = "completed" => runs[r].status = "completed" \/ s = "completed"
         /\ \A q \in RunId \ {r} : Undisturbed(q)
<1>1. CASE Terminal(runs, r) /\ runs[r].status # s
  BY <1>1 DEF Report, ledgerVars, Undisturbed, Terminal
<1>2. CASE ~(Terminal(runs, r) /\ runs[r].status # s)
  <2> DEFINE rs == [runs EXCEPT ![r].status = Given(r, s)]
  <2>1. UpdateAgentRun(r, s)
    BY <1>2 DEF Report
  <2>2. SettleCall(rs, steering, {r}) /\ Settle(rs, steering, {r})
    BY <2>1, UpdateCalls
  <2>3. rs[r].status = Given(r, s) /\ \A q \in RunId \ {r} : rs[q] = runs[q]
    BY DEF TypeOK, RunRecord
  <2> HIDE DEF rs
  <2>4. \A q \in RunId : runs'[q] = rs[q] \/ (~Exists(runs, q) /\ runs'[q].status = "queued")
    BY <2>2, SettleLeaves
  <2>5. Given(r, s) \in TerminalStatus /\ (Given(r, s) = "completed" => s = "completed")
    BY DEF Given, TerminalStatus
  <2> QED BY <2>3, <2>4, <2>5 DEF Undisturbed, Terminal, Exists
<1> QED BY <1>1, <1>2

\* Arrivals start, give back and complete nothing.
LEMMA ArriveLeaves ==
  ASSUME TypeOK, Arrive, NEW q \in RunId
  PROVE  Undisturbed(q)
<1>1. runs' = runs \/ \E m \in Msg : CreateRunInState(m) /\ ~Exists(runs, Turn(m))
  BY DEF Arrive, RecordInboundEvent, CreateAgentRun, CreateAgentRunOrSteer, Unknown, EnqueueAgentRunSteering,
     EnqueueSteeringInState
<1>2. CASE runs' = runs
  BY <1>2 DEF Undisturbed
<1>3. ASSUME NEW m \in Msg, CreateRunInState(m), ~Exists(runs, Turn(m)) PROVE Undisturbed(q)
  <2>1. q # Turn(m) => runs'[q] = runs[q]
    BY <1>3 DEF CreateRunInState, TypeOK
  <2>2. q = Turn(m) => runs'[q].status = "queued"
    BY <1>3, RecordFields DEF CreateRunInState, TypeOK
  <2> QED BY <1>3, <2>1, <2>2 DEF Undisturbed
<1> QED BY <1>1, <1>2, <1>3

\* Nor do the calls that stop, take over and cancel.
LEMMA StopLeaves ==
  ASSUME TypeOK, ContinuationAgrees, NEW q \in RunId,
         \/ \E r \in RunId : RequestAgentRunCancel(r) \/ StopRun(r)
         \/ \E t \in Thread : StopThread(t)
  PROVE  Undisturbed(q)
<1>1. ASSUME StopStep PROVE Undisturbed(q)
  BY <1>1, StopEffects DEF Undisturbed
<1>2. ASSUME NEW r \in RunId, RequestAgentRunCancel(r) PROVE Undisturbed(q)
  <2>1. CASE runs[r].status = "queued"
    <3> DEFINE rs == [runs EXCEPT ![r].status = "cancelled"]
    <3>1. SettleCall(rs, steering, {r}) /\ Settle(rs, steering, {r})
      BY <1>2, <2>1, CancelCalls
    <3>2. rs[r].status = "cancelled" /\ (q # r => rs[q] = runs[q])
      BY DEF TypeOK, RunRecord
    <3> HIDE DEF rs
    <3>3. runs'[q] = rs[q] \/ (~Exists(runs, q) /\ runs'[q].status = "queued")
      BY <3>1, SettleLeaves
    <3> QED BY <3>2, <3>3 DEF Undisturbed
  <2>2. CASE runs[r].status # "queued"
    <3>1. (q # r => runs'[q] = runs[q]) /\ runs'[r].status = "cancel_requested"
      BY <1>2, <2>2 DEF RequestAgentRunCancel, TypeOK, RunRecord
    <3> QED BY <3>1 DEF Undisturbed
  <2> QED BY <2>1, <2>2
<1>3. ASSUME NEW r \in RunId, StopRun(r) PROVE StopStep
  <2>1. {r} \cap ActiveIn(runs, RunThread(r)) \in SUBSET RunId /\ {m \in Msg : steering[m].targetRunId = r} \in SUBSET Msg
    OBVIOUS
  <2>2. \A p \in {r} \cap ActiveIn(runs, RunThread(r)) : Active(runs, p)
    BY DEF ActiveIn
  <2> QED BY <1>3, <2>1, <2>2 DEF StopRun, StopStep
<1>4. ASSUME NEW t \in Thread, StopThread(t) PROVE StopStep
  <2>1. ActiveIn(runs, t) \in SUBSET RunId /\ {m \in Msg : ThreadOf[m] = t} \in SUBSET Msg
    BY DEF ActiveIn
  <2>2. \A p \in ActiveIn(runs, t) : Active(runs, p)
    BY DEF ActiveIn
  <2> QED BY <1>4, <2>1, <2>2 DEF StopThread, StopStep
<1> QED BY <1>1, <1>2, <1>3, <1>4

\* Recovery gives runs back, but starts and completes none.
LEMMA RecoverLeaves ==
  ASSUME TypeOK, NEW S \in SUBSET RunId, RecoverStaleAgentRuns(S), NEW q \in RunId
  PROVE  /\ runs'[q].status = "running" => runs[q].status = "running" /\ runs'[q].workerId = runs[q].workerId
         /\ runs'[q].status = "completed" => runs[q].status = "completed"
<1> DEFINE Q == {r \in S : runs[r].status = "running"}
           D == {r \in S : runs[r].status = "cancel_requested"}
           rs == [r \in RunId |-> CASE r \in Q -> Released(runs[r])
                                    [] r \in D -> [runs[r] EXCEPT !.status = "cancelled"]
                                    [] OTHER   -> runs[r]]
<1>1. Settle(rs, ReleaseClaims(Q), D)
  BY DEF RecoverStaleAgentRuns
<1>2. rs[q] = runs[q] \/ rs[q].status \in {"queued", "cancelled"}
  BY DEF Released, TypeOK, RunRecord
<1> HIDE DEF rs, Q, D
<1>3. runs'[q] = rs[q] \/ runs'[q].status = "queued"
  BY <1>1, SettleRuns, RecordFields
<1> QED BY <1>2, <1>3

\* A claim starts one queued run for the worker that makes it.
LEMMA ClaimEffect ==
  ASSUME TypeOK, NEW r \in RunId, NEW w \in Worker, ClaimQueuedRun(r, w)
  PROVE  /\ runs[r].status = "queued" /\ runs'[r].status = "running" /\ runs'[r].workerId = w
         /\ \A q \in RunId \ {r} : runs'[q] = runs[q]
         /\ steering' = steering /\ inbound' = inbound
BY DEF ClaimQueuedRun, Claimable, TypeOK, RunRecord

\* A worker gives back one running run, its own.
LEMMA RequeueEffect ==
  ASSUME TypeOK, NEW r \in RunId, NEW w \in Worker, RequeueAgentRun(r, w)
  PROVE  /\ runs[r].status = "running" /\ runs[r].workerId = w /\ runs'[r].status = "queued"
         /\ \A q \in RunId \ {r} : runs'[q] = runs[q]
         /\ inbound' = inbound
BY RecordFields DEF RequeueAgentRun, RenewAgentRunLease, TypeOK

(***************************************************************************)
(* Types.                                                                   *)
(***************************************************************************)

\* The actions of one worker.
WorkerStep(w) ==
  \/ Progress(w)
  \/ DenyBudget(w) \/ Monitor(w)
  \/ ReceiveFollowUp(w) \/ AcknowledgeFollowUp(w)
  \/ ExecutorFails(w) \/ PublishFails(w) \/ ProgressFails(w)
  \/ BeginShutdown(w) \/ Crash(w)

\* A process that is not idle has an existing run in hand, an idle one has none.
HandOK(w) ==
  /\ At(w, "idle") => host[w].run = None
  /\ ~At(w, "idle") => host[w].run \in RunId /\ Exists(runs, host[w].run)

\* The invariant that types need: the number of an answer counts the earlier ones.
WorkersShape ==
  /\ LedgerInv
  /\ WorkersTypeOK
  /\ IsFiniteSet(answers)
  /\ \A w \in Worker : HandOK(w)

\* What a worker's action does to the worker.
HandMoves(w) ==
  /\ \A v \in Worker \ {w} : host'[v] = host[v]
  /\ host' \in [Worker -> HostRecord]
  /\ \/ host'[w].step = "idle" /\ host'[w].run = None
     \/ host'[w].step # "idle" /\ host[w].step # "idle" /\ host'[w].run = host[w].run
     \/ /\ host[w].step = "idle"
        /\ \E r \in RunId : ClaimQueuedRun(r, w) /\ host'[w].run = r /\ host'[w].step = "claimed"

\* The verdicts are reasons to abort, or none.
LEMMA VerdictType == ASSUME NEW w PROVE Verdict(w) \in Abort
BY DEF Verdict, Abort

\* Every action of a worker moves it so.
LEMMA HandMove ==
  ASSUME WorkersShape, NEW w \in Worker, WorkerStep(w)
  PROVE  HandMoves(w)
<1> USE DEF At, Goto, Finished, Idle, HandOK
<1>0. /\ host \in [Worker -> HostRecord] /\ host[w] \in HostRecord /\ HandOK(w)
      /\ host[w].step = "idle" => host[w].run = None
  BY DEF WorkersShape, WorkersTypeOK
<1>a. ASSUME host' = Finished(w) PROVE HandMoves(w)
  BY <1>0, <1>a DEF HandMoves, HostRecord, Step, Abort
<1>b. ASSUME NEW s \in Step \ {"idle"}, Goto(w, s), ~At(w, "idle") PROVE HandMoves(w)
  BY <1>0, <1>b DEF HandMoves, HostRecord
<1>c. ASSUME NEW s \in Step \ {"idle"}, AssertActive(w, s), ~At(w, "idle") PROVE HandMoves(w)
  <2>1. PICK a \in Abort : host' = [host EXCEPT ![w].abort = a, ![w].step = IF a = "none" THEN s ELSE "failing"]
    BY <1>0, <1>c, VerdictType DEF AssertActive, HostRecord
  <2> QED BY <1>0, <1>c, <2>1 DEF HandMoves, HostRecord, Step
<1>1. ASSUME ClaimPass(w) PROVE HandMoves(w)
  <2>1. PICK r \in RunId : ClaimQueuedRun(r, w) /\ host' = [host EXCEPT ![w].step = "claimed", ![w].run = r]
    BY <1>1 DEF ClaimPass
  <2> QED BY <1>0, <1>1, <2>1 DEF ClaimPass, HandMoves, HostRecord, Step
<1>2. ASSUME BeginRun(w) PROVE HandMoves(w)
  <2>1. Remembered(host[w].run) \in SUBSET Msg
    BY DEF Remembered, AppliedLive
  <2>2. CASE ZeroModel(host[w].run)
    BY <1>0, <1>2, <2>2 DEF BeginRun, HandMoves, HostRecord, Step
  <2>3. CASE ~ZeroModel(host[w].run)
    BY <1>0, <1>2, <2>1, <2>3 DEF BeginRun, HandMoves, HostRecord, Step
  <2> QED BY <2>2, <2>3
<1>3. ASSUME Monitor(w) PROVE HandMoves(w)
  BY <1>0, <1>3, VerdictType DEF Monitor, Monitored, HandMoves, HostRecord
<1>4. ASSUME ReceiveFollowUp(w) PROVE HandMoves(w)
  <2>1. PICK m \in Msg : host' = [host EXCEPT ![w].received = @ \cup {m}]
    BY <1>4 DEF ReceiveFollowUp
  <2> QED BY <1>0, <1>4, <2>1 DEF ReceiveFollowUp, HandMoves, HostRecord
<1>5. ASSUME AcknowledgeFollowUp(w) PROVE HandMoves(w)
  <2>1. PICK m \in host[w].received :
          \/ host' = [host EXCEPT ![w].received = @ \ {m}, ![w].context = @ \cup {m}]
          \/ Goto(w, "failing")
    BY <1>5 DEF AcknowledgeFollowUp
  <2>2. m \in Msg
    BY <1>0, <2>1 DEF HostRecord
  <2>3. CASE host' = [host EXCEPT ![w].received = @ \ {m}, ![w].context = @ \cup {m}]
    BY <1>0, <1>5, <2>2, <2>3 DEF AcknowledgeFollowUp, HandMoves, HostRecord
  <2>4. CASE Goto(w, "failing")
    BY <1>5, <1>b, <2>4 DEF AcknowledgeFollowUp, Step
  <2> QED BY <2>1, <2>3, <2>4
<1>6. ASSUME BeginShutdown(w) PROVE HandMoves(w)
  BY <1>0, <1>6 DEF BeginShutdown, HandMoves, HostRecord, Abort
<1>7. ASSUME Crash(w) \/ Restart(w) PROVE HandMoves(w)
  <2>1. Idle \in HostRecord /\ Idle.step = "idle" /\ Idle.run = None
    BY DEF HostRecord, Step, Abort
  <2>2. host' = [host EXCEPT ![w] = Idle]
    BY <1>7 DEF Crash, Restart
  <2> HIDE DEF Idle
  <2> QED BY <1>0, <2>1, <2>2 DEF HandMoves
<1>8. ASSUME ReleaseClaimed(w) \/ DenyBudget(w) \/ Complete(w) \/ AbandonLost(w) \/ MarkRunInboundFailed(w)
      PROVE  HandMoves(w)
  BY <1>8, <1>a DEF ReleaseClaimed, DenyBudget, Complete, AbandonLost, MarkRunInboundFailed
<1>9. ASSUME ExecutorReturns(w) \/ LastCheck(w) PROVE HandMoves(w)
  BY <1>9, <1>c DEF ExecutorReturns, LastCheck, Step
<1>10. ASSUME \/ ExecutorFails(w) \/ Publish(w) \/ PublishFails(w) \/ ProgressFails(w)
              \/ MarkRunInboundProcessed(w) \/ SettleFailure(w)
       PROVE  HandMoves(w)
  BY <1>10, <1>b DEF ExecutorFails, Publish, PublishFails, ProgressFails, MarkRunInboundProcessed, SettleFailure, Step
<1>11. ASSUME GiveBack(w) PROVE HandMoves(w)
  BY <1>11, <1>a, <1>b DEF GiveBack, Step
<1> QED BY <1>1, <1>2, <1>3, <1>4, <1>5, <1>6, <1>7, <1>8, <1>9, <1>10, <1>11 DEF WorkerStep, Progress

\* The ledger's part of a step is a step of the ledger or none, unless a worker
\* marks the event of its run.
LEMMA LedgerOrMark ==
  ASSUME WorkersShape, [WorkersNext]_vars
  PROVE  [Next]_ledgerVars \/ \E w \in Worker : MarkRunInboundProcessed(w) \/ MarkRunInboundFailed(w)
<1>1. \A w \in Worker : ~At(w, "idle") => host[w].run \in RunId
  BY DEF WorkersShape, HandOK
<1>2. ASSUME NEW w \in Worker, NEW s \in TerminalStatus, Report(host[w].run, s), ~At(w, "idle")
      PROVE  [Next]_ledgerVars
  BY <1>1, <1>2, ReportIsNext
<1>3. ASSUME NEW w \in Worker, NEW r \in RunId, RequeueAgentRun(r, w) \/ ClaimQueuedRun(r, w) PROVE Next
  BY <1>3 DEF Next, Work, ClaimQueuedAgentRuns
<1>4. ASSUME NEW w \in Worker, Progress(w), ~MarkRunInboundProcessed(w), ~MarkRunInboundFailed(w)
      PROVE  [Next]_ledgerVars
  <2>1. CASE ClaimPass(w)
    BY <1>3, <2>1 DEF ClaimPass
  <2>2. CASE ReleaseClaimed(w) \/ GiveBack(w)
    BY <1>1, <1>3, <2>2 DEF ReleaseClaimed, GiveBack, At
  <2>3. CASE Complete(w) \/ SettleFailure(w)
    BY <1>2, <2>3 DEF Complete, SettleFailure, TerminalStatus, At
  <2> QED BY <1>4, <2>1, <2>2, <2>3
          DEF Progress, BeginRun, ExecutorReturns, LastCheck, Publish, AbandonLost, Restart
<1>5. ASSUME NEW w \in Worker, WorkerStep(w), ~Progress(w) PROVE [Next]_ledgerVars
  <2>1. CASE DenyBudget(w)
    BY <1>2, <2>1 DEF DenyBudget, TerminalStatus, At
  <2>2. CASE ReceiveFollowUp(w)
    BY <1>1, <2>2 DEF ReceiveFollowUp, At, Next, Work, ClaimNextAgentRunSteering
  <2>3. CASE AcknowledgeFollowUp(w)
    <3>1. host[w].received \subseteq Msg
      BY DEF WorkersShape, WorkersTypeOK, HostRecord
    <3> QED BY <2>3, <3>1 DEF AcknowledgeFollowUp, Next, Work
  <2> QED BY <1>5, <2>1, <2>2, <2>3
          DEF WorkerStep, Monitor, ExecutorFails, PublishFails, ProgressFails, BeginShutdown, Crash
<1>6. CASE Recover
  BY <1>6 DEF Recover, Next, Control
<1>7. CASE Ingress \/ Stop
  BY <1>7 DEF Ingress, Stop, Next, Control
<1>8. CASE UNCHANGED vars
  BY <1>8 DEF vars, ledgerVars
<1> QED BY <1>4, <1>5, <1>6, <1>7, <1>8 DEF WorkersNext, WorkerStep

\* Which is a change of an event and of nothing else.
LEMMA LedgerPart ==
  ASSUME WorkersShape, [WorkersNext]_vars
  PROVE  [Next]_ledgerVars \/ EventStep
<1>1. ASSUME NEW w \in Worker, MarkRunInboundProcessed(w) \/ MarkRunInboundFailed(w)
      PROVE  [Next]_ledgerVars \/ EventStep
  <2>1. host[w].run \in RunId /\ (MarkEvent(w, "processed") \/ MarkEvent(w, "failed"))
    BY <1>1 DEF MarkRunInboundProcessed, MarkRunInboundFailed, At, WorkersShape, HandOK
  <2>2. host[w].run[2] \in Msg
    BY <2>1 DEF RunId
  <2> QED BY <2>1, <2>2 DEF MarkEvent, EventStep
<1> QED BY <1>1, LedgerOrMark

\* Runs stay in the ledger.
LEMMA RunsStay ==
  ASSUME WorkersShape, [WorkersNext]_vars, NEW r \in RunId, Exists(runs, r)
  PROVE  Exists(runs', r)
<1>1. CASE Next
  BY <1>1, ActiveGrows DEF WorkersShape, LedgerInv, PromiseInv
<1>2. CASE EventStep \/ UNCHANGED ledgerVars
  BY <1>2 DEF EventStep, MarkInboundEvent, ledgerVars, Exists
<1> QED BY <1>1, <1>2, LedgerPart

\* Answers are added by Publish, one at a time.
LEMMA AnswersGrow ==
  ASSUME WorkersShape, [WorkersNext]_vars
  PROVE  \/ answers' = answers
         \/ \E w \in Worker :
              /\ Publish(w)
              /\ \E a \in [run : {host[w].run}, worker : {w}, knew : {host[w].context}, nth : Nat] :
                   answers' = answers \cup {a}
<1>1. ASSUME NEW w \in Worker, Publish(w)
      PROVE  \E a \in [run : {host[w].run}, worker : {w}, knew : {host[w].context}, nth : Nat] :
               answers' = answers \cup {a}
  <2> DEFINE B == {a \in answers : a.run = host[w].run}
  <2>1. IsFiniteSet(B)
    <3>1. B \subseteq answers
      OBVIOUS
    <3> QED BY <3>1, FS_Subset DEF WorkersShape
  <2>2. Cardinality(B) \in Nat
    BY <2>1, FS_CardinalityType
  <2>3. answers' = answers \cup {[run |-> host[w].run, worker |-> w, knew |-> host[w].context,
                                  nth |-> Cardinality(B)]}
    BY <1>1 DEF Publish
  <2> HIDE DEF B
  <2> QED BY <2>2, <2>3
<1>2. ASSUME NEW w \in Worker, WorkerStep(w), ~Publish(w) PROVE answers' = answers
  BY <1>2 DEF WorkerStep, Progress, ClaimPass, ReleaseClaimed, BeginRun, ExecutorReturns, LastCheck,
     MarkRunInboundProcessed, Complete, AbandonLost, GiveBack, SettleFailure, MarkRunInboundFailed, Restart,
     DenyBudget, Monitor, ReceiveFollowUp, AcknowledgeFollowUp, ExecutorFails, PublishFails, ProgressFails,
     BeginShutdown, Crash
<1>3. CASE Recover \/ Ingress \/ Stop \/ UNCHANGED vars
  BY <1>3 DEF Recover, Ingress, Stop, vars
<1> QED BY <1>1, <1>2, <1>3 DEF WorkersNext, WorkerStep

\* An event that is counted is one of a kind, and the count goes up by one.
LEMMA BudgetMoves ==
  ASSUME WorkersShape, [WorkersNext]_vars
  PROVE  budget' = budget \/ \E e \in Event : budget' = [budget EXCEPT ![e] = @ + 1]
<1>1. ASSUME NEW w \in Worker, WorkerStep(w)
      PROVE  budget' = budget \/ \E e \in Event : budget' = [budget EXCEPT ![e] = @ + 1]
  BY <1>1 DEF WorkerStep, Progress, ClaimPass, ReleaseClaimed, BeginRun, ExecutorReturns, LastCheck, Publish,
     MarkRunInboundProcessed, Complete, AbandonLost, GiveBack, SettleFailure, MarkRunInboundFailed, Restart,
     DenyBudget, Monitor, ReceiveFollowUp, AcknowledgeFollowUp, ExecutorFails, PublishFails, ProgressFails,
     BeginShutdown, Crash, Spend, Event
<1>2. CASE Recover \/ Ingress \/ Stop \/ UNCHANGED vars
  BY <1>2 DEF Recover, Ingress, Stop, vars, Spend, Event
<1> QED BY <1>1, <1>2 DEF WorkersNext, WorkerStep

\* The shape is inductive.
LEMMA ShapeStep ==
  ASSUME WorkersShape, [WorkersNext]_vars
  PROVE  WorkersShape'
<1>1. LedgerInv'
  BY LedgerPart, LedgerInvStep DEF WorkersShape
<1>2. \A r \in RunId : Exists(runs, r) => Exists(runs', r)
  BY RunsStay
<1>3. host' \in [Worker -> HostRecord] /\ \A w \in Worker : HandOK(w)'
  <2>1. ASSUME NEW w \in Worker, WorkerStep(w) PROVE host' \in [Worker -> HostRecord] /\ \A v \in Worker : HandOK(v)'
    <3>1. HandMoves(w)
      BY <2>1, HandMove
    <3>2. ASSUME NEW v \in Worker \ {w} PROVE HandOK(v)'
      BY <1>2, <3>1 DEF HandMoves, HandOK, At, WorkersShape, Exists
    <3>3. HandOK(w)'
      <4>1. ASSUME NEW r \in RunId, ClaimQueuedRun(r, w) PROVE Exists(runs', r)
        BY <4>1, ClaimEffect DEF WorkersShape, LedgerInv, PromiseInv, Exists
      <4> QED BY <1>2, <3>1, <4>1 DEF HandMoves, HandOK, At, WorkersShape, Exists
    <3> QED BY <3>1, <3>2, <3>3 DEF HandMoves
  <2>2. CASE host' = host
    BY <1>2, <2>2 DEF WorkersShape, WorkersTypeOK, HandOK, At, Exists
  <2>3. Recover \/ Ingress \/ Stop \/ UNCHANGED vars => host' = host
    BY DEF Recover, Ingress, Stop, vars
  <2> QED BY <2>1, <2>2, <2>3 DEF WorkersNext, WorkerStep
<1>4. IsFiniteSet(answers') /\ answers' \subseteq [run : RunId, worker : Worker, knew : SUBSET Msg, nth : Nat]
  <2>1. CASE answers' = answers
    BY <2>1 DEF WorkersShape, WorkersTypeOK
  <2>2. ASSUME NEW w \in Worker, Publish(w),
               NEW a \in [run : {host[w].run}, worker : {w}, knew : {host[w].context}, nth : Nat],
               answers' = answers \cup {a}
        PROVE  IsFiniteSet(answers') /\ answers' \subseteq [run : RunId, worker : Worker, knew : SUBSET Msg, nth : Nat]
    <3>1. host[w].run \in RunId /\ host[w].context \in SUBSET Msg
      BY <2>2 DEF Publish, At, WorkersShape, WorkersTypeOK, HandOK, HostRecord
    <3>2. a \in [run : RunId, worker : Worker, knew : SUBSET Msg, nth : Nat]
      BY <3>1
    <3>3. IsFiniteSet(answers \cup {a})
      BY FS_AddElement DEF WorkersShape
    <3> QED BY <2>2, <3>2, <3>3 DEF WorkersShape, WorkersTypeOK
  <2> QED BY <2>1, <2>2, AnswersGrow
<1>5. budget' \in [Event -> Nat]
  BY BudgetMoves DEF WorkersShape, WorkersTypeOK
<1> QED BY <1>1, <1>3, <1>4, <1>5 DEF WorkersShape, WorkersTypeOK, LedgerInv, PromiseInv

\* It holds at the start.
LEMMA ShapeInit == WorkersInit => WorkersShape
<1> SUFFICES ASSUME WorkersInit PROVE WorkersShape
  OBVIOUS
<1>1. Init
  BY DEF WorkersInit
<1>2. TypeOK
  BY <1>1 DEF Init, TypeOK, NoRun, NoSteering, RunRecord, SteeringRecord
<1>3. ContinuationAgrees /\ MailboxOK /\ AnsweredOnce /\ OneTurnPerThread /\ RuntimeExclusive
  BY <1>1, IdType DEF Init, ContinuationAgrees, MailboxOK, Placed, AnsweredOnce, OneTurnPerThread, RuntimeExclusive,
     NoRun, NoSteering, Exists, Active, ActiveStatus, Terminal, TerminalStatus, Executing
<1>4. /\ host \in [Worker -> HostRecord] /\ budget \in [Event -> Nat]
      /\ \A w \in Worker : HandOK(w)
  BY DEF WorkersInit, Idle, HostRecord, Step, Abort, HandOK, At
<1>5. answers = {} /\ IsFiniteSet(answers)
  BY FS_EmptySet DEF WorkersInit
<1> QED BY <1>2, <1>3, <1>4, <1>5 DEF WorkersShape, WorkersTypeOK, LedgerInv, PromiseInv

\* And so always.
LEMMA ShapeHolds == WorkersSpec => []WorkersShape
BY ShapeInit, ShapeStep, PTL DEF WorkersSpec

\* Ledger, processes and answers keep their declared shape under any interleaving.
THEOREM WorkersTypeCorrect == WorkersSpec => []WorkersTypeOK
<1>1. WorkersShape => WorkersTypeOK
  BY DEF WorkersShape
<1> QED BY <1>1, ShapeHolds, PTL

(***************************************************************************)
(* What the ledger promises, it promises to the threads of living workers.   *)
(***************************************************************************)

\* Crashes, recoveries and lost leases put no two model runs on one runtime, and
\* make no message two.
THEOREM WorkersAreExclusive == WorkersSpec => [](RuntimeExclusive /\ AnsweredOnce)
<1>1. WorkersShape => RuntimeExclusive /\ AnsweredOnce
  BY DEF WorkersShape, LedgerInv, PromiseInv
<1> QED BY <1>1, ShapeHolds, PTL

\* With workers that crash, shut down, are taken for dead and mark events on their
\* own, every step is still a step of the promise, or none: the refinement.
THEOREM WorkersKeepThePromise == WorkersSpec => KeepsThePromise
<1>1. WorkersInit => Promise!Init
  BY PromiseInit DEF WorkersInit
<1>2. WorkersShape /\ WorkersShape' /\ [WorkersNext]_vars => [Promise!Next]_Fates
  <2> SUFFICES ASSUME WorkersShape, WorkersShape', [WorkersNext]_vars PROVE [Promise!Next]_Fates
    OBVIOUS
  <2>1. CASE [Next]_ledgerVars
    BY <2>1, PromiseStep DEF WorkersShape, LedgerInv
  <2>2. CASE EventStep
    BY <2>2 DEF EventStep, MarkInboundEvent, Fates, FateOf, Exists
  <2> QED BY <2>1, <2>2, LedgerPart
<1> QED BY <1>1, <1>2, ShapeHolds, PTL DEF WorkersSpec, KeepsThePromise, Promise!Spec, Fates

\* No crash, shutdown, requeue, recovery or late report of a worker leaves a follow-up
\* behind an ended run in a thread where nothing is active; only the card Stop of a run
\* that is queued again does.
THEOREM WorkersForgetNobody == WorkersSpec => NobodyIsForgotten
<1>1. WorkersShape /\ [WorkersNext]_vars
        => [\A t \in Thread : Awaited(t) => Awaited(t)' \/ QueuedRunIsStopped(t)]_ledgerVars
  <2> SUFFICES ASSUME WorkersShape, [WorkersNext]_vars, ~UNCHANGED ledgerVars, NEW t \in Thread,
                      Awaited(t), ~QueuedRunIsStopped(t)
               PROVE  Awaited(t)'
    OBVIOUS
  <2>1. CASE Next
    BY <2>1, AwaitedStep DEF WorkersShape, LedgerInv, PromiseInv
  <2>2. CASE EventStep
    <3>1. runs' = runs /\ steering' = steering
      BY <2>2 DEF EventStep, MarkInboundEvent
    <3> QED BY <3>1 DEF Awaited
  <2> QED BY <2>1, <2>2, LedgerPart
<1> QED BY <1>1, ShapeHolds, PTL DEF WorkersSpec, NobodyIsForgotten


(***************************************************************************)
(* Who starts, gives back and completes a run.                              *)
(***************************************************************************)

\* A run is started by the claim of an idle worker, given back by the worker that
\* executes it or by a recovery, and completed by the worker that executed it.
LEMMA WhoDisturbs ==
  ASSUME WorkersShape, WorkersNext, NEW r \in RunId
  PROVE  \/ Undisturbed(r)
         \/ \E w \in Worker : ClaimPass(w) /\ ClaimQueuedRun(r, w) /\ host'[w].run = r
         \/ \E w \in Worker : /\ host[w].run = r /\ RequeueAgentRun(r, w) /\ host' = Finished(w)
                              /\ ReleaseClaimed(w) \/ GiveBack(w)
         \/ \E w \in Worker : host[w].run = r /\ Complete(w) /\ Terminal(runs', r)
         \/ Recover
<1>0. /\ TypeOK /\ ContinuationAgrees
      /\ \A w \in Worker : ~At(w, "idle") => host[w].run \in RunId /\ Exists(runs, host[w].run)
  BY DEF WorkersShape, LedgerInv, PromiseInv, HandOK
<1>a. ASSUME runs'[r] = runs[r] PROVE Undisturbed(r)
  BY <1>a DEF Undisturbed
<1>1. ASSUME NEW w \in Worker, ClaimPass(w)
      PROVE  Undisturbed(r) \/ (ClaimQueuedRun(r, w) /\ host'[w].run = r)
  <2>1. PICK q \in RunId : ClaimQueuedRun(q, w) /\ host' = [host EXCEPT ![w].step = "claimed", ![w].run = q]
    BY <1>1 DEF ClaimPass
  <2>2. host'[w].run = q
    BY <2>1 DEF WorkersShape, WorkersTypeOK, HostRecord
  <2> QED BY <1>0, <1>a, <2>1, <2>2, ClaimEffect
<1>2. ASSUME NEW w \in Worker, ReleaseClaimed(w) \/ GiveBack(w)
      PROVE  Undisturbed(r) \/ (host[w].run = r /\ RequeueAgentRun(r, w) /\ host' = Finished(w))
  <2>1. \/ runs' = runs
        \/ RequeueAgentRun(host[w].run, w) /\ host' = Finished(w)
    BY <1>2 DEF ReleaseClaimed, GiveBack, ledgerVars
  <2>2. host[w].run \in RunId
    BY <1>0, <1>2 DEF ReleaseClaimed, GiveBack, At
  <2> QED BY <1>0, <1>a, <2>1, <2>2, RequeueEffect
<1>3. ASSUME NEW w \in Worker, Complete(w)
      PROVE  Undisturbed(r) \/ (host[w].run = r /\ Terminal(runs', r))
  <2>1. host[w].run \in RunId /\ Exists(runs, host[w].run) /\ Report(host[w].run, "completed")
    BY <1>0, <1>3 DEF Complete, At
  <2> QED BY <1>0, <2>1, ReportEffect DEF TerminalStatus
<1>4. ASSUME NEW w \in Worker, DenyBudget(w) \/ SettleFailure(w) PROVE Undisturbed(r)
  <2>1. host[w].run \in RunId /\ Exists(runs, host[w].run)
    BY <1>0, <1>4 DEF DenyBudget, SettleFailure, At
  <2>2. PICK s \in {"failed", "cancelled"} : Report(host[w].run, s)
    BY <1>4 DEF DenyBudget, SettleFailure
  <2>3. /\ Terminal(runs', host[w].run)
        /\ runs'[host[w].run].status = "completed" => runs[host[w].run].status = "completed"
        /\ \A q \in RunId \ {host[w].run} : Undisturbed(q)
    BY <1>0, <2>1, <2>2, ReportEffect DEF TerminalStatus
  <2> QED BY <2>3 DEF Undisturbed, Terminal, TerminalStatus
<1>5. ASSUME NEW w \in Worker, MarkRunInboundProcessed(w) \/ MarkRunInboundFailed(w) PROVE runs' = runs
  BY <1>5 DEF MarkRunInboundProcessed, MarkRunInboundFailed, MarkEvent, MarkInboundEvent, ledgerVars
<1>6. ASSUME NEW w \in Worker, ReceiveFollowUp(w) \/ AcknowledgeFollowUp(w) PROVE runs' = runs
  BY <1>6 DEF ReceiveFollowUp, AcknowledgeFollowUp, ClaimSteering, MarkAgentRunSteeringApplied, ledgerVars
<1>7. ASSUME NEW w \in Worker,
             \/ BeginRun(w) \/ ExecutorReturns(w) \/ LastCheck(w) \/ Publish(w) \/ AbandonLost(w) \/ Restart(w)
             \/ Monitor(w) \/ ExecutorFails(w) \/ PublishFails(w) \/ ProgressFails(w) \/ BeginShutdown(w) \/ Crash(w)
      PROVE  runs' = runs
  BY <1>7 DEF BeginRun, ExecutorReturns, LastCheck, Publish, AbandonLost, Restart, Monitor, ExecutorFails,
     PublishFails, ProgressFails, BeginShutdown, Crash, ledgerVars
<1>8. CASE Ingress
  BY <1>0, <1>8, ArriveLeaves DEF Ingress
<1>9. CASE Stop
  BY <1>0, <1>9, StopLeaves DEF Stop
<1>10. ASSUME NEW w \in Worker, WorkerStep(w)
       PROVE  \/ Undisturbed(r)
              \/ ClaimPass(w) /\ ClaimQueuedRun(r, w) /\ host'[w].run = r
              \/ /\ host[w].run = r /\ RequeueAgentRun(r, w) /\ host' = Finished(w)
                 /\ ReleaseClaimed(w) \/ GiveBack(w)
              \/ host[w].run = r /\ Complete(w) /\ Terminal(runs', r)
  BY <1>10, <1>a, <1>1, <1>2, <1>3, <1>4, <1>5, <1>6, <1>7 DEF WorkerStep, Progress
<1> QED BY <1>8, <1>9, <1>10 DEF WorkersNext, WorkerStep

\* No run is completed but by the worker that executed it.
LEMMA WhoCompletes ==
  ASSUME WorkersShape, WorkersNext, NEW r \in RunId,
         runs'[r].status = "completed", runs[r].status # "completed"
  PROVE  \E w \in Worker : host[w].run = r /\ Complete(w)
<1>0. TypeOK
  BY DEF WorkersShape, LedgerInv, PromiseInv
<1>1. ~Undisturbed(r)
  BY DEF Undisturbed
<1>2. ASSUME NEW w \in Worker, ClaimQueuedRun(r, w) PROVE FALSE
  BY <1>0, <1>2, ClaimEffect
<1>3. ASSUME NEW w \in Worker, RequeueAgentRun(r, w) PROVE FALSE
  BY <1>0, <1>3, RequeueEffect
<1>4. ASSUME Recover PROVE FALSE
  <2>1. PICK S \in SUBSET {q \in RunId : Executing(runs, q)} : RecoverStaleAgentRuns(S)
    BY <1>4 DEF Recover
  <2>2. S \in SUBSET RunId
    OBVIOUS
  <2> QED BY <1>0, <2>1, <2>2, RecoverLeaves
<1> QED BY <1>1, <1>2, <1>3, <1>4, WhoDisturbs

(***************************************************************************)
(* What the ledger calls done was answered.                                 *)
(***************************************************************************)

\* An event is marked processed, in the ledger's own steps, with the completion of a
\* run of its message or with the follow-up's being taken in.
LEMMA ProcessedGrows ==
  ASSUME TypeOK, TypeOK', ContinuationAgrees, Next, NEW m \in Msg, inbound'[m] = "processed", inbound[m] # "processed"
  PROVE  \/ steering'[m].status = "applied"
         \/ runs'[Turn(m)].status = "completed"
         \/ runs'[Continuation(m)].status = "completed"
<1>0. \A s \in TerminalStatus : InboundOutcome[s] = "processed" => s = "completed"
  BY DEF TerminalStatus, InboundOutcome
<1>1. ASSUME NEW n \in Msg, RecordInboundEvent(n) PROVE FALSE
  BY <1>1 DEF RecordInboundEvent, TypeOK
<1>2. ASSUME NEW n \in Msg, MarkAgentRunSteeringApplied(n) PROVE steering'[m].status = "applied"
  BY <1>2 DEF MarkAgentRunSteeringApplied, TypeOK, SteeringRecord
<1>3. ASSUME StopStep PROVE FALSE
  <2>1. PICK R \in SUBSET RunId, F \in SUBSET Msg : CancelActive(R, F)
    BY <1>3 DEF StopStep
  <2> DEFINE Q  == {r \in R : runs[r].status = "queued"}
             rs == [r \in RunId |-> CASE r \in Q -> [runs[r] EXCEPT !.status = "cancelled"]
                                      [] r \in R \ Q -> [runs[r] EXCEPT !.status = "cancel_requested"]
                                      [] OTHER -> runs[r]]
             C  == {n \in F : steering[n].status \in WaitingStatus}
             ib == [n \in Msg |-> IF n \in C /\ inbound[n] # "absent" THEN "ignored" ELSE inbound[n]]
  <2>2. inbound' = FinishInbound(rs, ib, Q)
    BY <2>1 DEF CancelActive
  <2>3. \A r \in Q : rs[r].status = "cancelled"
    BY DEF TypeOK, RunRecord
  <2>4. ib[m] # "processed"
    OBVIOUS
  <2> HIDE DEF Q, rs, ib
  <2>5. InboundOutcome["cancelled"] = "ignored"
    BY DEF InboundOutcome
  <2>6. inbound'[m] \in {ib[m], InboundOutcome["cancelled"]}
    BY <2>2, <2>3 DEF FinishInbound
  <2> QED BY <2>4, <2>5, <2>6
<1>4. ASSUME SettleStep PROVE runs'[Turn(m)].status = "completed" \/ runs'[Continuation(m)].status = "completed"
  <2>1. PICK rs, st0, D : SettleCall(rs, st0, D) /\ Settle(rs, st0, D)
    BY <1>4 DEF SettleStep
  <2>2. PICK r \in {Turn(m), Continuation(m)} \cap D : inbound'[m] = InboundOutcome[rs[r].status]
    BY <2>1 DEF Settle, FinishInbound
  <2>3. rs[r].status = "completed"
    BY <1>0, <2>1, <2>2 DEF SettleCall, Terminal
  <2>4. r \in RunId /\ Exists(runs, r)
    BY <2>1, <2>2 DEF SettleCall
  <2> QED BY <2>1, <2>2, <2>3, <2>4, SettleLeaves
<1>5. inbound' # inbound
  OBVIOUS
<1> QED BY StepCases, <1>1, <1>2, <1>3, <1>4, <1>5
        DEF CreateAgentRun, CreateAgentRunOrSteer, CreateRunInState, EnqueueSteeringInState, EnqueueAgentRunSteering,
            ClaimQueuedRun, RequeueAgentRun, ClaimSteering, CancelRequested, RequestAgentRunCancel

\* A follow-up that was taken in stays so.
LEMMA AppliedStays ==
  ASSUME TypeOK, TypeOK', ContinuationAgrees, ContinuationAgrees', Next, NEW m \in Msg,
         steering[m].status = "applied"
  PROVE  steering'[m].status = "applied"
<1> DEFINE c == Continuation(m)
<1>1. c \in RunId
  BY IdType
<1>2. CASE ~Exists(runs', c)
  BY <1>2, FollowUpMove DEF FollowUpMoves, WaitingStatus
<1>3. CASE Exists(runs', c)
  <2>1. Exists(runs, c)
    BY <1>3, ScheduledWaited DEF WaitingStatus
  <2>2. Terminal(runs, c)
    BY <1>1, <2>1, StatusKinds DEF TypeOK, ContinuationAgrees
  <2>3. runs[c].status = "completed"
    <3>1. SteeringOutcome[runs[c].status] = "applied" /\ runs[c].status \in TerminalStatus
      BY <2>2 DEF ContinuationAgrees, Terminal
    <3> QED BY <3>1 DEF SteeringOutcome, TerminalStatus
  <2>4. runs'[c].status = "completed" /\ Terminal(runs', c)
    BY <1>1, <2>2, <2>3, OutcomeStep DEF OutcomeKept, Terminal
  <2> QED BY <2>4 DEF ContinuationAgrees, SteeringOutcome, Terminal
<1> QED BY <1>2, <1>3

\* Somebody answered the run r.
Answered(r) == \E a \in answers : a.run = r

\* The invariant: who is past its answer has given one.
DoneInv ==
  /\ WorkersShape
  /\ DoneWasAnswered
  /\ \A w \in Worker : host[w].step \in {"published", "settling"} => Answered(host[w].run)

\* A worker gets past its answer by giving it.
LEMMA WhoPublished ==
  ASSUME WorkersShape, NEW w \in Worker, WorkerStep(w), host'[w].step \in {"published", "settling"}
  PROVE  \/ Publish(w) /\ host'[w].run = host[w].run
         \/ host[w].step \in {"published", "settling"} /\ host'[w].run = host[w].run
<1>0. host \in [Worker -> HostRecord] /\ host[w] \in HostRecord
  BY DEF WorkersShape, WorkersTypeOK
<1>1. CASE host[w].step = "idle"
  BY <1>1, HandMove DEF HandMoves
<1>2. host[w].step # "idle" => host'[w].run = host[w].run
  BY HandMove DEF HandMoves
<1>3. ASSUME host[w].step \notin {"published", "settling"} PROVE Publish(w)
  <2> USE <1>0 DEF At, Goto, HostRecord
  <2>1. ASSUME NEW s \in {"answered", "publishing"}, AssertActive(w, s) PROVE FALSE
    BY <2>1 DEF AssertActive
  <2>2. ASSUME host' = Finished(w) PROVE FALSE
    BY <2>2 DEF Finished, Idle
  <2>3. ASSUME NEW s \in Step \ {"published", "settling"}, Goto(w, s) PROVE FALSE
    BY <2>3
  <2>4. ASSUME ClaimPass(w) \/ BeginRun(w) \/ Monitor(w) \/ BeginShutdown(w) \/ Crash(w) \/ Restart(w) \/ ReceiveFollowUp(w)
        PROVE  FALSE
    BY <1>3, <2>4 DEF ClaimPass, BeginRun, Monitor, BeginShutdown, Crash, Restart, ReceiveFollowUp, Idle
  <2>5. ASSUME AcknowledgeFollowUp(w) PROVE FALSE
    BY <1>3, <2>5 DEF AcknowledgeFollowUp
  <2>6. ASSUME ReleaseClaimed(w) \/ DenyBudget(w) \/ Complete(w) \/ AbandonLost(w) \/ MarkRunInboundFailed(w)
        PROVE  FALSE
    BY <2>2, <2>6 DEF ReleaseClaimed, DenyBudget, Complete, AbandonLost, MarkRunInboundFailed
  <2>7. ASSUME ExecutorReturns(w) \/ LastCheck(w) PROVE FALSE
    BY <2>1, <2>7 DEF ExecutorReturns, LastCheck
  <2>8. ASSUME ExecutorFails(w) \/ PublishFails(w) \/ ProgressFails(w) \/ SettleFailure(w) \/ GiveBack(w) PROVE FALSE
    BY <2>2, <2>3, <2>8 DEF ExecutorFails, PublishFails, ProgressFails, SettleFailure, GiveBack, Step
  <2>9. ASSUME MarkRunInboundProcessed(w) PROVE FALSE
    BY <1>3, <2>9 DEF MarkRunInboundProcessed
  <2> QED BY <2>4, <2>5, <2>6, <2>7, <2>8, <2>9 DEF WorkerStep, Progress
<1> QED BY <1>1, <1>2, <1>3

\* Publishing gives an answer.
LEMMA PublishAnswers ==
  ASSUME NEW w \in Worker, Publish(w)
  PROVE  \E a \in answers' : a.run = host[w].run
<1> DEFINE a == [run |-> host[w].run, worker |-> w, knew |-> host[w].context,
                 nth |-> Cardinality({b \in answers : b.run = host[w].run})]
<1>1. a \in answers' /\ a.run = host[w].run
  BY DEF Publish
<1> QED BY <1>1

\* Who marks an event processed beside the ledger's own steps has answered.
LEMMA WhoMarks ==
  ASSUME WorkersShape, NEW w \in Worker, NEW m \in Msg,
         MarkRunInboundProcessed(w) \/ MarkRunInboundFailed(w),
         inbound'[m] = "processed", inbound[m] # "processed"
  PROVE  At(w, "published") /\ host[w].run \in {Turn(m), Continuation(m)}
<1>0. /\ TypeOK
      /\ ~At(w, "idle") => host[w].run \in RunId
  BY DEF WorkersShape, LedgerInv, PromiseInv, HandOK
<1>1. At(w, "published") /\ MarkEvent(w, "processed")
  <2>1. ~MarkEvent(w, "failed")
    BY <1>0 DEF MarkEvent, MarkInboundEvent, ledgerVars, TypeOK
  <2> QED BY <2>1 DEF MarkRunInboundProcessed, MarkRunInboundFailed
<1>2. host[w].run \in RunId
  BY <1>0, <1>1 DEF At
<1>3. host[w].run[2] = m
  BY <1>0, <1>1 DEF MarkEvent, MarkInboundEvent, ledgerVars, TypeOK
<1> QED BY <1>1, <1>2, <1>3 DEF RunId, Turn, Continuation

\* The invariant is inductive.
LEMMA DoneStep ==
  ASSUME DoneInv, [WorkersNext]_vars
  PROVE  DoneInv'
<1>1. WorkersShape /\ WorkersShape'
  BY ShapeStep DEF DoneInv
<1>2. answers \subseteq answers'
  BY <1>1, AnswersGrow
<1>3. \A r : Answered(r) => Answered(r)'
  BY <1>2 DEF Answered
<1>4. ASSUME NEW w \in Worker, host'[w].step \in {"published", "settling"} 
      PROVE  \E a \in answers' : a.run = host'[w].run
  <2>1. CASE host'[w] = host[w]
    BY <1>2, <1>4, <2>1 DEF DoneInv, Answered
  <2>2. CASE WorkerStep(w)
    <3>1. CASE Publish(w) /\ host'[w].run = host[w].run
      BY <3>1, PublishAnswers
    <3>2. CASE host[w].step \in {"published", "settling"} /\ host'[w].run = host[w].run
      BY <1>2, <3>2 DEF DoneInv, Answered
    <3> QED BY <1>1, <1>4, <2>2, <3>1, <3>2, WhoPublished
  <2>3. ASSUME NEW v \in Worker \ {w}, WorkerStep(v) PROVE host'[w] = host[w]
    BY <1>1, <2>3, HandMove DEF HandMoves
  <2>4. Recover \/ Ingress \/ Stop \/ UNCHANGED vars => host' = host
    BY DEF Recover, Ingress, Stop, vars
  <2> QED BY <2>1, <2>2, <2>3, <2>4 DEF WorkersNext, WorkerStep
<1>5. ASSUME NEW r \in RunId, runs'[r].status = "completed" PROVE Answered(r)'
  <2>1. CASE runs[r].status = "completed"
    BY <1>3, <2>1 DEF DoneInv, DoneWasAnswered, Answered
  <2>2. CASE runs[r].status # "completed"
    <3>1. WorkersNext
      BY <1>5, <2>2 DEF vars
    <3>2. PICK w \in Worker : host[w].run = r /\ Complete(w)
      BY <1>1, <1>5, <2>2, <3>1, WhoCompletes
    <3>3. Answered(r)
      BY <3>2 DEF Complete, At, DoneInv
    <3> QED BY <1>3, <3>3
  <2> QED BY <2>1, <2>2
<1>6. ASSUME NEW m \in Msg, inbound'[m] = "processed"
      PROVE  Answered(Turn(m))' \/ Answered(Continuation(m))' \/ steering'[m].status = "applied"
  <2>0. TypeOK /\ TypeOK' /\ ContinuationAgrees /\ ContinuationAgrees' /\ Turn(m) \in RunId /\ Continuation(m) \in RunId
    BY <1>1, IdType DEF WorkersShape, LedgerInv, PromiseInv
  <2>1. CASE inbound[m] = "processed"
    <3>1. Answered(Turn(m)) \/ Answered(Continuation(m)) \/ steering[m].status = "applied"
      BY <2>1 DEF DoneInv, DoneWasAnswered, Answered
    <3>2. ASSUME steering[m].status = "applied" PROVE steering'[m].status = "applied"
      <4>1. CASE Next
        BY <2>0, <3>2, <4>1, AppliedStays
      <4>2. CASE UNCHANGED ledgerVars
        BY <3>2, <4>2 DEF ledgerVars
      <4>3. CASE EventStep
        BY <3>2, <4>3 DEF EventStep, MarkInboundEvent
      <4> QED BY <1>1, <4>1, <4>2, <4>3, LedgerPart
    <3> QED BY <1>3, <3>1, <3>2
  <2>2. CASE inbound[m] # "processed"
    <3>1. CASE Next
      BY <1>5, <1>6, <2>0, <2>2, <3>1, ProcessedGrows
    <3>2. CASE UNCHANGED ledgerVars
      BY <1>6, <2>2, <3>2 DEF ledgerVars
    <3>3. ASSUME NEW w \in Worker, MarkRunInboundProcessed(w) \/ MarkRunInboundFailed(w)
          PROVE  Answered(Turn(m))' \/ Answered(Continuation(m))'
      <4>1. At(w, "published") /\ host[w].run \in {Turn(m), Continuation(m)}
        BY <1>1, <1>6, <2>2, <3>3, WhoMarks
      <4> QED BY <1>3, <4>1 DEF DoneInv, At
    <3> QED BY <1>1, <3>1, <3>2, <3>3, LedgerOrMark
  <2> QED BY <2>1, <2>2
<1>7. DoneWasAnswered'
  <2>1. \A r : Answered(r)' <=> \E a \in answers' : a.run = r
    BY DEF Answered
  <2> QED BY <1>5, <1>6, <2>1 DEF DoneWasAnswered
<1> QED BY <1>1, <1>4, <1>7 DEF DoneInv, Answered

\* What the ledger calls done was answered, or taken in by a turn, through any
\* crashes, recoveries, shutdowns and stops: no outcome is written before its answer.
THEOREM DoneIsTrue == WorkersSpec => []DoneWasAnswered
<1>1. WorkersInit => DoneInv
  <2> SUFFICES ASSUME WorkersInit PROVE DoneInv
    OBVIOUS
  <2>1. WorkersShape
    BY ShapeInit
  <2>2. DoneWasAnswered
    BY IdType DEF WorkersInit, Init, DoneWasAnswered, NoRun
  <2>3. \A w \in Worker : host[w].step = "idle"
    BY DEF WorkersInit, Idle
  <2> QED BY <2>1, <2>2, <2>3 DEF DoneInv
<1>2. DoneInv /\ [WorkersNext]_vars => DoneInv'
  BY DoneStep
<1>3. DoneInv => DoneWasAnswered
  BY DEF DoneInv
<1> QED BY <1>1, <1>2, <1>3, PTL DEF WorkersSpec

(***************************************************************************)
(* Who executes a run.                                                      *)
(***************************************************************************)

\* The lease: the run that w has in hand is running, and on w's name.
Owns(w) == RenewAgentRunLease(host[w].run, w)

\* What a worker believes of its run is so, and stays so.
HandKnows(w) ==
  /\ At(w, "idle") => host[w].abort = "none"
  /\ At(w, "rejecting") => Terminal(runs, host[w].run)
  /\ ~At(w, "idle") /\ host[w].abort = "lost" => ~Owns(w)

\* A worker moves, or nobody does.
LEMMA HostStep ==
  ASSUME WorkersShape, [WorkersNext]_vars
  PROVE  host' = host \/ \E w \in Worker : WorkerStep(w) /\ HandMoves(w)
<1>1. Recover \/ Ingress \/ Stop \/ UNCHANGED vars => host' = host
  BY DEF Recover, Ingress, Stop, vars
<1> QED BY <1>1, HandMove DEF WorkersNext, WorkerStep

\* A run gets into the hands of a worker by its claim only.
LEMMA NoReturn ==
  ASSUME WorkersShape, WorkersNext, NEW r \in RunId, NEW w \in Worker,
         runs'[r].status = "running", runs'[r].workerId = w
  PROVE  \/ runs[r].status = "running" /\ runs[r].workerId = w
         \/ ClaimPass(w) /\ ClaimQueuedRun(r, w) /\ host'[w].run = r
<1>0. TypeOK
  BY DEF WorkersShape, LedgerInv, PromiseInv
<1>1. CASE Undisturbed(r)
  BY <1>1 DEF Undisturbed
<1>2. ASSUME NEW v \in Worker, ClaimQueuedRun(r, v) PROVE v = w
  BY <1>0, <1>2, ClaimEffect
<1>3. ASSUME NEW v \in Worker, RequeueAgentRun(r, v) PROVE FALSE
  BY <1>0, <1>3, RequeueEffect
<1>4. CASE Recover
  <2>1. PICK S \in SUBSET {q \in RunId : Executing(runs, q)} : RecoverStaleAgentRuns(S)
    BY <1>4 DEF Recover
  <2>2. S \in SUBSET RunId
    OBVIOUS
  <2> QED BY <1>0, <2>1, <2>2, RecoverLeaves
<1>5. ~Terminal(runs', r)
  BY DEF Terminal, TerminalStatus
<1> QED BY <1>1, <1>2, <1>3, <1>4, <1>5, WhoDisturbs

\* What a worker's action does to its belief.
LEMMA HandBelieves ==
  ASSUME WorkersShape, NEW w \in Worker, WorkerStep(w), At(w, "idle") => host[w].abort = "none"
  PROVE  /\ host'[w].step = "idle" => host'[w].abort = "none"
         /\ host'[w].step = "rejecting" => host[w].step = "rejecting" \/ SettleFailure(w)
         /\ host'[w].abort = "lost" => host[w].abort = "lost" \/ (Verdict(w) = "lost" /\ runs' = runs /\ ~At(w, "idle"))
<1> USE DEF At, Goto, HostRecord
<1>0. host \in [Worker -> HostRecord] /\ host[w] \in HostRecord
  BY DEF WorkersShape, WorkersTypeOK
<1> DEFINE Fine == /\ host'[w].step = "idle" => host'[w].abort = "none"
                   /\ host'[w].step = "rejecting" => host[w].step = "rejecting" \/ SettleFailure(w)
                   /\ host'[w].abort = "lost" => \/ host[w].abort = "lost"
                                                 \/ Verdict(w) = "lost" /\ runs' = runs /\ ~At(w, "idle")
<1>1. ASSUME host' = Finished(w) PROVE Fine
  BY <1>0, <1>1 DEF Finished, Idle
<1>2. ASSUME NEW s \in Step \ {"idle", "rejecting"}, Goto(w, s) PROVE Fine
  BY <1>0, <1>2
<1>3. ASSUME NEW s \in {"answered", "publishing"}, AssertActive(w, s), runs' = runs, ~At(w, "idle") PROVE Fine
  <2> DEFINE abort == IF host[w].abort # "none" THEN host[w].abort ELSE Verdict(w)
  <2>1. host' = [host EXCEPT ![w].abort = abort, ![w].step = IF abort = "none" THEN s ELSE "failing"]
    BY <1>3 DEF AssertActive
  <2>2. abort = "lost" => host[w].abort = "lost" \/ Verdict(w) = "lost"
    OBVIOUS
  <2> HIDE DEF abort
  <2> QED BY <1>0, <1>3, <2>1, <2>2
<1>4. ASSUME ClaimPass(w) \/ BeginRun(w) PROVE Fine
  BY <1>0, <1>4 DEF ClaimPass, BeginRun
<1>5. ASSUME Crash(w) \/ Restart(w) PROVE Fine
  BY <1>0, <1>5 DEF Crash, Restart, Idle
<1>6. ASSUME BeginShutdown(w) PROVE Fine
  BY <1>0, <1>6 DEF BeginShutdown, Monitored
<1>7. ASSUME Monitor(w) PROVE Fine
  BY <1>0, <1>7 DEF Monitor, Monitored, ledgerVars
<1>8. ASSUME ReceiveFollowUp(w) \/ AcknowledgeFollowUp(w) PROVE Fine
  <2>1. CASE ReceiveFollowUp(w)
    BY <1>0, <2>1 DEF ReceiveFollowUp
  <2>2. CASE AcknowledgeFollowUp(w)
    <3>1. PICK m \in host[w].received :
            \/ host' = [host EXCEPT ![w].received = @ \ {m}, ![w].context = @ \cup {m}]
            \/ Goto(w, "failing")
      BY <2>2 DEF AcknowledgeFollowUp
    <3>2. CASE Goto(w, "failing")
      BY <1>2, <3>2 DEF Step
    <3>3. CASE host' = [host EXCEPT ![w].received = @ \ {m}, ![w].context = @ \cup {m}]
      BY <1>0, <2>2, <3>3 DEF AcknowledgeFollowUp
    <3> QED BY <3>1, <3>2, <3>3
  <2> QED BY <1>8, <2>1, <2>2
<1>9. ASSUME ReleaseClaimed(w) \/ DenyBudget(w) \/ Complete(w) \/ AbandonLost(w) \/ MarkRunInboundFailed(w) PROVE Fine
  BY <1>1, <1>9 DEF ReleaseClaimed, DenyBudget, Complete, AbandonLost, MarkRunInboundFailed
<1>10. ASSUME ExecutorReturns(w) \/ LastCheck(w) PROVE Fine
  BY <1>3, <1>10 DEF ExecutorReturns, LastCheck, ledgerVars
<1>11. ASSUME \/ ExecutorFails(w) \/ Publish(w) \/ PublishFails(w) \/ ProgressFails(w)
              \/ MarkRunInboundProcessed(w) \/ GiveBack(w)
       PROVE  Fine
  BY <1>1, <1>2, <1>11 DEF ExecutorFails, Publish, PublishFails, ProgressFails, MarkRunInboundProcessed, GiveBack, Step
<1>12. ASSUME SettleFailure(w) PROVE Fine
  BY <1>0, <1>12 DEF SettleFailure
<1> QED BY <1>4, <1>5, <1>6, <1>7, <1>8, <1>9, <1>10, <1>11, <1>12 DEF WorkerStep, Progress

\* A worker that lets go of its run, and does not crash, leaves it to nobody's name:
\* given back, ended, or taken from it before.
LEMMA LetsGo ==
  ASSUME WorkersShape, NEW w \in Worker, WorkerStep(w), HandKnows(w), ~At(w, "idle"),
         host'[w].step = "idle", ~Crash(w)
  PROVE  ~(runs'[host[w].run].status = "running" /\ runs'[host[w].run].workerId = w)
<1>0. /\ host \in [Worker -> HostRecord] /\ host[w] \in HostRecord
      /\ TypeOK /\ ContinuationAgrees
      /\ host[w].run \in RunId /\ Exists(runs, host[w].run)
  BY DEF WorkersShape, WorkersTypeOK, LedgerInv, PromiseInv, HandOK
<1> DEFINE Left == ~(runs'[host[w].run].status = "running" /\ runs'[host[w].run].workerId = w)
<1>1. ASSUME NEW s \in TerminalStatus, Report(host[w].run, s) PROVE Left
  <2>1. Terminal(runs', host[w].run)
    BY <1>0, <1>1, ReportEffect
  <2> QED BY <2>1 DEF Terminal, TerminalStatus
<1>2. ASSUME RequeueAgentRun(host[w].run, w) PROVE Left
  BY <1>0, <1>2, RequeueEffect
<1>3. ASSUME ~RenewAgentRunLease(host[w].run, w), runs' = runs PROVE Left
  BY <1>3 DEF RenewAgentRunLease
<1>4. ASSUME ReleaseClaimed(w) \/ GiveBack(w) PROVE Left
  BY <1>2, <1>3, <1>4 DEF ReleaseClaimed, GiveBack, ledgerVars
<1>5. ASSUME DenyBudget(w) \/ Complete(w) PROVE Left
  BY <1>1, <1>5 DEF DenyBudget, Complete, TerminalStatus
<1>6. ASSUME AbandonLost(w) PROVE Left
  BY <1>3, <1>6 DEF AbandonLost, HandKnows, Owns, At, ledgerVars
<1>7. ASSUME MarkRunInboundFailed(w) PROVE Left
  <2>1. runs' = runs
    BY <1>7 DEF MarkRunInboundFailed, MarkEvent, MarkInboundEvent, ledgerVars
  <2> QED BY <1>7, <2>1 DEF MarkRunInboundFailed, HandKnows, Terminal, TerminalStatus
<1>8. ASSUME NEW s \in Step \ {"idle"}, Goto(w, s) PROVE FALSE
  BY <1>0, <1>8 DEF Goto, HostRecord
<1>9. ASSUME NEW s \in {"answered", "publishing"}, AssertActive(w, s) PROVE FALSE
  BY <1>0, <1>9 DEF AssertActive, HostRecord
<1>10. ASSUME \/ ClaimPass(w) \/ BeginRun(w) \/ Monitor(w) \/ ReceiveFollowUp(w) \/ BeginShutdown(w) \/ Restart(w)
       PROVE  FALSE
  BY <1>0, <1>10 DEF ClaimPass, BeginRun, Monitor, ReceiveFollowUp, BeginShutdown, Restart, At, HostRecord
<1>11. ASSUME AcknowledgeFollowUp(w) PROVE FALSE
  BY <1>0, <1>8, <1>11 DEF AcknowledgeFollowUp, At, HostRecord, Step
<1>12. ASSUME ExecutorReturns(w) \/ LastCheck(w) PROVE FALSE
  BY <1>9, <1>12 DEF ExecutorReturns, LastCheck
<1>13. ASSUME \/ ExecutorFails(w) \/ Publish(w) \/ PublishFails(w) \/ ProgressFails(w)
              \/ MarkRunInboundProcessed(w) \/ SettleFailure(w)
       PROVE  FALSE
  BY <1>8, <1>13 DEF ExecutorFails, Publish, PublishFails, ProgressFails, MarkRunInboundProcessed, SettleFailure, Step
<1> QED BY <1>4, <1>5, <1>6, <1>7, <1>10, <1>11, <1>12, <1>13 DEF WorkerStep, Progress

\* The belief is inductive.
LEMMA KnowsStep ==
  ASSUME WorkersShape, WorkersShape', \A w \in Worker : HandKnows(w), [WorkersNext]_vars
  PROVE  \A w \in Worker : HandKnows(w)'
<1> SUFFICES ASSUME NEW w \in Worker PROVE HandKnows(w)'
  OBVIOUS
<1>0. HandKnows(w) /\ TypeOK /\ ContinuationAgrees
  BY DEF WorkersShape, LedgerInv, PromiseInv
<1>1. ASSUME NEW r \in RunId, Terminal(runs, r) PROVE Terminal(runs', r)
  <2>1. CASE Next
    BY <1>0, <1>1, <2>1, OutcomeStep DEF OutcomeKept, Terminal
  <2>2. CASE EventStep \/ UNCHANGED ledgerVars
    BY <1>1, <2>2 DEF EventStep, MarkInboundEvent, ledgerVars, Terminal
  <2> QED BY <2>1, <2>2, LedgerPart
<1>2. ASSUME host'[w].step # "idle", host[w].step # "idle", host'[w].run = host[w].run, ~Owns(w) PROVE ~Owns(w)'
  <2>1. host[w].run \in RunId
    BY <1>2 DEF WorkersShape, HandOK, At
  <2>2. CASE WorkersNext
    <3>1. ~ClaimPass(w)
      BY <1>2 DEF ClaimPass, At
    <3>2. ~(runs'[host[w].run].status = "running" /\ runs'[host[w].run].workerId = w)
      BY <1>2, <2>1, <2>2, <3>1, NoReturn DEF Owns, RenewAgentRunLease
    <3> QED BY <1>2, <3>2 DEF Owns, RenewAgentRunLease
  <2>3. CASE UNCHANGED vars
    BY <1>2, <2>3 DEF vars, Owns, RenewAgentRunLease
  <2> QED BY <2>2, <2>3
<1>3. ASSUME host'[w] = host[w] PROVE HandKnows(w)'
  BY <1>0, <1>1, <1>2, <1>3 DEF HandKnows, At, WorkersShape, HandOK
<1>4. ASSUME WorkerStep(w) PROVE HandKnows(w)'
  <2>1. HandMoves(w)
    BY <1>4, HandMove
  <2>2. /\ host'[w].step = "idle" => host'[w].abort = "none"
        /\ host'[w].step = "rejecting" => host[w].step = "rejecting" \/ SettleFailure(w)
        /\ host'[w].abort = "lost" => host[w].abort = "lost" \/ (Verdict(w) = "lost" /\ runs' = runs /\ ~At(w, "idle"))
    BY <1>0, <1>4, HandBelieves DEF HandKnows
  <2>3. ASSUME host'[w].step = "rejecting" PROVE Terminal(runs', host'[w].run)
    <3>1. host[w].step # "idle" /\ host'[w].run = host[w].run /\ host[w].run \in RunId /\ Exists(runs, host[w].run)
      BY <2>1, <2>3 DEF HandMoves, WorkersShape, HandOK, At
    <3>2. CASE host[w].step = "rejecting"
      BY <1>0, <1>1, <3>1, <3>2 DEF HandKnows, At
    <3>3. CASE SettleFailure(w)
      <4>1. PICK s \in {"failed", "cancelled"} : Report(host[w].run, s)
        BY <3>3 DEF SettleFailure
      <4> QED BY <1>0, <3>1, <4>1, ReportEffect DEF TerminalStatus
    <3> QED BY <2>2, <2>3, <3>2, <3>3
  <2>4. ASSUME host'[w].step # "idle", host'[w].abort = "lost" PROVE ~Owns(w)'
    <3>1. host[w].step # "idle" /\ host'[w].run = host[w].run
      BY <1>0, <2>1, <2>2, <2>4 DEF HandMoves, HandKnows, At
    <3>2. ~Owns(w)
      BY <1>0, <2>2, <2>4, <3>1 DEF HandKnows, At, Verdict, Owns, RenewAgentRunLease
    <3> QED BY <1>2, <2>4, <3>1, <3>2
  <2> QED BY <2>2, <2>3, <2>4 DEF HandKnows, At
<1> QED BY <1>3, <1>4, HostStep DEF HandMoves
\* The runs marked running that are in nobody's hands.
Orphans == {r \in RunId : /\ runs[r].status = "running"
                          /\ ~\E w \in Worker : /\ runs[r].workerId = w /\ host[w].run = r
                                                /\ ~At(w, "idle")}

\* While no recovery takes a run from its worker, the runs in the workers' hands
\* are not queued, and no two workers have the same one.
Sole ==
  budget["recovery"] = 0 =>
    /\ \A w \in Worker : ~At(w, "idle") => runs[host[w].run].status # "queued"
    /\ \A v, w \in Worker : v # w /\ ~At(v, "idle") /\ ~At(w, "idle") => host[v].run # host[w].run

\* The invariant: crashes alone make orphans, one each.
ExecutorInv ==
  /\ WorkersShape
  /\ \A w \in Worker : HandKnows(w)
  /\ Sole
  /\ IsFiniteSet(Orphans) /\ Cardinality(Orphans) <= budget["crash"]

\* The counters do not go down.
LEMMA BudgetGrows ==
  ASSUME WorkersShape, [WorkersNext]_vars, NEW e \in Event
  PROVE  budget[e] \in Nat /\ budget'[e] \in Nat /\ budget[e] <= budget'[e]
<1>1. budget \in [Event -> Nat]
  BY DEF WorkersShape, WorkersTypeOK
<1> QED BY <1>1, BudgetMoves

\* Sole executors stay so.
LEMMA SoleStep ==
  ASSUME WorkersShape, WorkersShape', Sole, WorkersNext, budget'["recovery"] = 0
  PROVE  /\ \A w \in Worker : ~At(w, "idle")' => runs'[host'[w].run].status # "queued"
         /\ \A v, w \in Worker : v # w /\ ~At(v, "idle")' /\ ~At(w, "idle")' => host'[v].run # host'[w].run
<1>0. TypeOK /\ host \in [Worker -> HostRecord]
  BY DEF WorkersShape, WorkersTypeOK, LedgerInv, PromiseInv
<1>1. budget["recovery"] = 0
  BY BudgetGrows DEF Event
<1>2. ~Recover
  <2>1. budget \in [Event -> Nat]
    BY DEF WorkersShape, WorkersTypeOK
  <2> QED BY <1>1, <2>1 DEF Recover, Spend, Event
<1>3. \A w \in Worker : ~At(w, "idle") => host[w].run \in RunId /\ Exists(runs, host[w].run)
  BY DEF WorkersShape, HandOK
<1>4. ASSUME NEW w \in Worker, ~At(w, "idle")'
      PROVE  \/ ~At(w, "idle") /\ host'[w].run = host[w].run
             \/ At(w, "idle") /\ WorkerStep(w) /\ \E r \in RunId : ClaimQueuedRun(r, w) /\ host'[w].run = r
  <2>1. CASE host'[w] = host[w]
    BY <1>4, <2>1 DEF At
  <2>2. CASE WorkerStep(w) /\ HandMoves(w)
    BY <1>4, <2>2 DEF HandMoves, At
  <2> QED BY <2>1, <2>2, HostStep DEF HandMoves
<1>5. ASSUME NEW w \in Worker, ~At(w, "idle")' PROVE runs'[host'[w].run].status # "queued"
  <2>1. CASE ~At(w, "idle") /\ host'[w].run = host[w].run
    <3>1. PICK r \in RunId : r = host[w].run
      BY <1>3, <2>1
    <3>2. Exists(runs, r) /\ runs[r].status # "queued" /\ host'[w].run = r
      BY <1>1, <1>3, <2>1, <3>1 DEF Sole
    <3>3. CASE Undisturbed(r)
      BY <3>2, <3>3 DEF Undisturbed
    <3>4. ASSUME NEW v \in Worker, ClaimQueuedRun(r, v) PROVE FALSE
      BY <1>0, <3>2, <3>4, ClaimEffect
    <3>5. ASSUME NEW v \in Worker, host[v].run = r, host' = Finished(v), ReleaseClaimed(v) \/ GiveBack(v) PROVE FALSE
      <4>1. ~At(v, "idle")
        BY <3>5 DEF ReleaseClaimed, GiveBack, At
      <4>2. v = w
        BY <1>1, <2>1, <3>1, <3>5, <4>1 DEF Sole
      <4>3. host'[w].step = "idle"
        BY <1>0, <3>5, <4>2 DEF Finished, Idle, HostRecord
      <4> QED BY <1>5, <4>3 DEF At
    <3>6. Terminal(runs', r) => runs'[r].status # "queued"
      BY DEF Terminal, TerminalStatus
    <3> QED BY <1>2, <3>2, <3>3, <3>4, <3>5, <3>6, WhoDisturbs
  <2>2. ASSUME NEW r \in RunId, ClaimQueuedRun(r, w), host'[w].run = r PROVE runs'[host'[w].run].status # "queued"
    BY <1>0, <2>2, ClaimEffect
  <2> QED BY <1>4, <1>5, <2>1, <2>2
<1>6. ASSUME NEW v \in Worker, NEW w \in Worker, v # w, WorkerStep(w), ~At(v, "idle")',
             NEW r \in RunId, ClaimQueuedRun(r, w), host'[w].run = r
      PROVE  host'[v].run # r
  <2>1. host'[v] = host[v]
    BY <1>6, HandMove DEF HandMoves
  <2>2. ~At(v, "idle")
    BY <1>6, <2>1 DEF At
  <2>3. runs[host[v].run].status # "queued"
    BY <1>1, <2>2 DEF Sole
  <2> QED BY <1>0, <1>6, <2>1, <2>3, ClaimEffect
<1>7. ASSUME NEW v \in Worker, NEW w \in Worker, v # w, ~At(v, "idle")', ~At(w, "idle")'
      PROVE  host'[v].run # host'[w].run
  <2>1. CASE /\ ~At(v, "idle") /\ host'[v].run = host[v].run
             /\ ~At(w, "idle") /\ host'[w].run = host[w].run
    BY <1>1, <1>7, <2>1 DEF Sole
  <2> QED BY <1>4, <1>6, <1>7, <2>1
<1> QED BY <1>5, <1>7

\* A run that becomes an orphan is the run of a worker that crashes.
LEMMA OrphansStep ==
  ASSUME WorkersShape, WorkersShape', \A w \in Worker : HandKnows(w), WorkersNext,
         NEW r \in RunId, r \in Orphans', r \notin Orphans
  PROVE  \E w \in Worker : Crash(w) /\ host[w].run = r
<1>0. TypeOK /\ host \in [Worker -> HostRecord] /\ runs'[r].status = "running"
  BY DEF WorkersShape, WorkersTypeOK, LedgerInv, PromiseInv, Orphans
<1>1. runs[r].status = "running" /\ runs'[r].workerId = runs[r].workerId
  <2>1. CASE Undisturbed(r)
    BY <1>0, <2>1 DEF Undisturbed
  <2>2. ASSUME NEW w \in Worker, ClaimPass(w), ClaimQueuedRun(r, w), host'[w].run = r PROVE FALSE
    <3>1. runs'[r].workerId = w
      BY <1>0, <2>2, ClaimEffect
    <3>2. ~At(w, "idle")'
      BY <1>0, <2>2 DEF ClaimPass, At, HostRecord
    <3> QED BY <2>2, <3>1, <3>2 DEF Orphans
  <2>3. ASSUME NEW w \in Worker, RequeueAgentRun(r, w) PROVE FALSE
    BY <1>0, <2>3, RequeueEffect
  <2>4. CASE Recover
    <3>1. PICK S \in SUBSET {q \in RunId : Executing(runs, q)} : RecoverStaleAgentRuns(S)
      BY <2>4 DEF Recover
    <3>2. S \in SUBSET RunId
      OBVIOUS
    <3> QED BY <1>0, <3>1, <3>2, RecoverLeaves
  <2>5. ~Terminal(runs', r)
    BY <1>0 DEF Terminal, TerminalStatus
  <2> QED BY <2>1, <2>2, <2>3, <2>4, <2>5, WhoDisturbs
<1>2. PICK w \in Worker : runs[r].workerId = w /\ host[w].run = r /\ ~At(w, "idle")
  BY <1>1 DEF Orphans
<1>3. ~(host'[w].run = r /\ ~At(w, "idle")')
  BY <1>1, <1>2 DEF Orphans
<1>4. WorkerStep(w) /\ HandMoves(w)
  BY <1>2, <1>3, HostStep DEF HandMoves, At
<1>5. host'[w].step = "idle"
  BY <1>2, <1>3, <1>4 DEF HandMoves, At
<1>6. Crash(w)
  BY <1>0, <1>1, <1>2, <1>4, <1>5, LetsGo
<1> QED BY <1>2, <1>6

\* The invariant is inductive.
LEMMA ExecutorStep ==
  ASSUME ExecutorInv, [WorkersNext]_vars
  PROVE  ExecutorInv'
<1>1. WorkersShape /\ WorkersShape' /\ \A w \in Worker : HandKnows(w)'
  BY ShapeStep, KnowsStep DEF ExecutorInv
<1>2. Sole'
  <2>1. CASE WorkersNext
    BY <1>1, <2>1, SoleStep DEF ExecutorInv, Sole
  <2>2. CASE UNCHANGED vars
    BY <2>2 DEF vars, ExecutorInv, Sole, At
  <2> QED BY <2>1, <2>2
<1>3. \A e \in Event : budget[e] \in Nat /\ budget'[e] \in Nat /\ budget[e] <= budget'[e]
  BY <1>1, BudgetGrows
<1>4. ASSUME Orphans' \subseteq Orphans
      PROVE  IsFiniteSet(Orphans') /\ Cardinality(Orphans') <= budget'["crash"]
  <2>1. IsFiniteSet(Orphans') /\ Cardinality(Orphans') <= Cardinality(Orphans)
    BY <1>4, FS_Subset DEF ExecutorInv
  <2>2. Cardinality(Orphans) \in Nat /\ Cardinality(Orphans') \in Nat
    BY <2>1, FS_CardinalityType DEF ExecutorInv
  <2> QED BY <1>3, <2>1, <2>2 DEF ExecutorInv, Event
<1>5. ASSUME NEW w \in Worker, Crash(w), NEW r, Orphans' \subseteq Orphans \cup {r}
      PROVE  IsFiniteSet(Orphans') /\ Cardinality(Orphans') <= budget'["crash"]
  <2>1. /\ IsFiniteSet(Orphans \cup {r})
        /\ Cardinality(Orphans \cup {r}) \in {Cardinality(Orphans), Cardinality(Orphans) + 1}
    BY FS_AddElement DEF ExecutorInv
  <2>2. IsFiniteSet(Orphans') /\ Cardinality(Orphans') <= Cardinality(Orphans \cup {r})
    BY <1>5, <2>1, FS_Subset
  <2>3. Cardinality(Orphans) \in Nat /\ Cardinality(Orphans') \in Nat
    BY <2>2, FS_CardinalityType DEF ExecutorInv
  <2>4. budget'["crash"] = budget["crash"] + 1
    BY <1>1, <1>5 DEF Crash, Spend, WorkersShape, WorkersTypeOK, Event
  <2> QED BY <1>3, <2>1, <2>2, <2>3, <2>4 DEF ExecutorInv, Event
<1>6. IsFiniteSet(Orphans') /\ Cardinality(Orphans') <= budget'["crash"]
  <2>1. CASE UNCHANGED vars
    BY <1>4, <2>1 DEF vars, Orphans, At
  <2>2. CASE WorkersNext
    <3>1. CASE Orphans' \subseteq Orphans
      BY <1>4, <3>1
    <3>2. ASSUME NEW r \in Orphans', r \notin Orphans
          PROVE  IsFiniteSet(Orphans') /\ Cardinality(Orphans') <= budget'["crash"]
      <4>0. r \in RunId
        BY <3>2 DEF Orphans
      <4>1. PICK w \in Worker : Crash(w) /\ host[w].run = r
        BY <1>1, <2>2, <3>2, <4>0, OrphansStep DEF ExecutorInv
      <4>2. ASSUME NEW q \in Orphans', q \notin Orphans PROVE q = r
        <5>0. q \in RunId
          BY <4>2 DEF Orphans
        <5>1. PICK v \in Worker : Crash(v) /\ host[v].run = q
          BY <1>1, <2>2, <4>2, <5>0, OrphansStep DEF ExecutorInv
        <5>2. v = w
          <6>1. host'[v].step = "idle" /\ host[v].step # "idle" /\ host' = [host EXCEPT ![w] = Idle]
            BY <1>1, <4>1, <5>1 DEF Crash, At, Idle, WorkersShape, WorkersTypeOK
          <6> QED BY <1>1, <6>1 DEF WorkersShape, WorkersTypeOK
        <5> QED BY <4>1, <5>1, <5>2
      <4> QED BY <1>5, <4>1, <4>2
    <3> QED BY <3>1, <3>2
  <2> QED BY <2>1, <2>2
<1> QED BY <1>1, <1>2, <1>6 DEF ExecutorInv

\* It holds at the start.
LEMMA ExecutorInit == WorkersInit => ExecutorInv
<1> SUFFICES ASSUME WorkersInit PROVE ExecutorInv
  OBVIOUS
<1>1. WorkersShape
  BY ShapeInit
<1>2. \A w \in Worker : host[w].step = "idle" /\ host[w].abort = "none"
  BY DEF WorkersInit, Idle
<1>3. Orphans = {}
  BY DEF WorkersInit, Init, Orphans, NoRun
<1>4. IsFiniteSet(Orphans) /\ Cardinality(Orphans) = 0
  BY <1>3, FS_EmptySet
<1>5. budget["crash"] = 0
  BY DEF WorkersInit, Event
<1> QED BY <1>1, <1>2, <1>4, <1>5 DEF ExecutorInv, HandKnows, Sole, At

\* A running run is in the hands of its worker, but for one run per crash: no
\* shutdown, stop, failure or early recovery abandons one; and until a recovery takes
\* a run from a living worker no two workers execute the same one.
THEOREM ExecutorsAreSole == WorkersSpec => []OneExecutorPerRun
<1>1. ExecutorInv /\ [WorkersNext]_vars => ExecutorInv'
  BY ExecutorStep
<1>2. ExecutorInv => OneExecutorPerRun
  <2> SUFFICES ASSUME ExecutorInv PROVE OneExecutorPerRun
    OBVIOUS
  <2> DEFINE Lost == {r \in RunId : /\ runs[r].status = "running"
                                    /\ ~\E w \in Worker : runs[r].workerId = w /\ host[w].run = r}
  <2>1. Lost \subseteq Orphans
    BY DEF Orphans
  <2>2. Cardinality(Lost) <= Cardinality(Orphans) /\ IsFiniteSet(Lost)
    BY <2>1, FS_Subset DEF ExecutorInv
  <2>3. Cardinality(Lost) \in Nat /\ Cardinality(Orphans) \in Nat /\ budget["crash"] \in Nat
    BY <2>2, FS_CardinalityType DEF ExecutorInv, WorkersShape, WorkersTypeOK, Event
  <2>4. RunningHasExecutor
    BY <2>2, <2>3 DEF ExecutorInv, RunningHasExecutor
  <2>5. NoTwoExecutors
    BY DEF ExecutorInv, WorkersShape, HandOK, Sole, NoTwoExecutors
  <2> QED BY <2>4, <2>5 DEF OneExecutorPerRun
<1> QED BY <1>1, <1>2, ExecutorInit, PTL DEF WorkersSpec

(***************************************************************************)
(* A provider session loses no follow-up.                                   *)
(***************************************************************************)

\* The mailbox keeps every follow-up, and the run it was sent to.
LEMMA TargetStays ==
  ASSUME TypeOK, Next, NEW m \in Msg, steering[m].status # "absent"
  PROVE  steering'[m].status # "absent" /\ steering'[m].targetRunId = steering[m].targetRunId
<1>1. ASSUME SettleStep
      PROVE  steering'[m].status # "absent" /\ steering'[m].targetRunId = steering[m].targetRunId
  <2>1. PICK rs, st0, D : SettleCall(rs, st0, D) /\ Settle(rs, st0, D)
    BY <1>1 DEF SettleStep
  <2>2. Continuation(m) \in D => rs[Continuation(m)].status \in TerminalStatus
    BY <2>1 DEF SettleCall, Terminal
  <2> QED BY <2>1, <2>2, SettleFollowUps DEF SteeringOutcome, TerminalStatus
<1>2. ASSUME StopStep
      PROVE  steering'[m].status # "absent" /\ steering'[m].targetRunId = steering[m].targetRunId
  BY <1>2, StopEffects
<1>3. ASSUME NEW r \in RunId, NEW w \in Worker, RequeueAgentRun(r, w)
      PROVE  steering'[m].status # "absent" /\ steering'[m].targetRunId = steering[m].targetRunId
  BY <1>3 DEF RequeueAgentRun, ReleaseClaims, Unclaimed, TypeOK, SteeringRecord
<1>4. ASSUME NEW n \in Msg, NEW r \in RunId, EnqueueSteeringInState(n, r), steering[n].status = "absent"
      PROVE  steering'[m] = steering[m]
  BY <1>4 DEF EnqueueSteeringInState, TypeOK
<1>5. ASSUME NEW n \in Msg, MarkAgentRunSteeringApplied(n) \/ \E r \in RunId, w \in Worker : ClaimSteering(n, r, w)
      PROVE  steering'[m].status # "absent" /\ steering'[m].targetRunId = steering[m].targetRunId
  BY <1>5 DEF MarkAgentRunSteeringApplied, ClaimSteering, TypeOK, SteeringRecord
<1>6. ASSUME NEW n \in Msg, CreateAgentRunOrSteer(n) PROVE steering'[m] = steering[m]
  BY <1>4, <1>6 DEF CreateAgentRunOrSteer, CreateRunInState, Unknown, ActiveIn
<1>7. ASSUME NEW n \in Msg, NEW r \in RunId, EnqueueAgentRunSteering(n, r) PROVE steering'[m] = steering[m]
  BY <1>4, <1>7 DEF EnqueueAgentRunSteering
<1>8. ASSUME NEW n \in Msg, RecordInboundEvent(n) \/ CreateAgentRun(n) PROVE steering' = steering
  BY <1>8 DEF RecordInboundEvent, CreateAgentRun, CreateRunInState
<1>9. ASSUME NEW r \in RunId, CancelRequested(r) \/ \E w \in Worker : ClaimQueuedRun(r, w) PROVE steering' = steering
  BY <1>9 DEF ClaimQueuedRun, CancelRequested, RequestAgentRunCancel
<1> QED BY StepCases, <1>1, <1>2, <1>3, <1>5, <1>6, <1>7, <1>8, <1>9

\* Nobody but a worker takes a follow-up in: what else becomes of it ends a run of
\* its own.
LEMMA NotTakenIn ==
  ASSUME TypeOK, NEW m \in Msg, steering[m].status # "applied", steering'[m].status = "applied",
         SettleStep \/ StopStep
  PROVE  Exists(runs, Continuation(m))
<1>1. CASE StopStep
  BY <1>1, StopEffects
<1>2. CASE SettleStep
  <2>1. PICK rs, st0, D : SettleCall(rs, st0, D) /\ Settle(rs, st0, D)
    BY <1>2 DEF SettleStep
  <2>2. Continuation(m) \in D
    BY <2>1, SettleFollowUps
  <2> QED BY <2>1, <2>2 DEF SettleCall
<1> QED BY <1>1, <1>2

\* So what run r took in live grows by acknowledgements only.
LEMMA TakenIn ==
  ASSUME WorkersShape, [WorkersNext]_vars, NEW r \in RunId, NEW m \in Msg,
         m \in AppliedLive(r)', m \notin AppliedLive(r)
  PROVE  \E w \in Worker : /\ At(w, "executing") /\ m \in host[w].received
                           /\ steering[m].status = "claimed" /\ steering[m].targetRunId = r
                           /\ host' = [host EXCEPT ![w].received = @ \ {m}, ![w].context = @ \cup {m}]
<1> DEFINE c == Continuation(m)
<1>0. /\ TypeOK /\ host \in [Worker -> HostRecord] /\ c \in RunId
      /\ \A w \in Worker : ~At(w, "idle") => host[w].run \in RunId
      /\ steering'[m].status = "applied" /\ steering'[m].targetRunId = r /\ ~Exists(runs', c)
  BY IdType DEF WorkersShape, WorkersTypeOK, LedgerInv, PromiseInv, HandOK, AppliedLive
<1>1. ~Exists(runs, c)
  BY <1>0, RunsStay
<1>2. steering[m].status # "applied"
  <2>1. SUFFICES ASSUME steering[m].status = "applied" PROVE steering[m].targetRunId = r
    BY <1>1 DEF AppliedLive
  <2>2. CASE Next
    BY <1>0, <2>1, <2>2, TargetStays
  <2>3. CASE EventStep \/ UNCHANGED ledgerVars
    BY <1>0, <2>3 DEF EventStep, MarkInboundEvent, ledgerVars
  <2> QED BY <2>2, <2>3, LedgerPart
<1>3. ~SettleStep /\ ~StopStep
  BY <1>0, <1>1, <1>2, NotTakenIn
<1>4. ASSUME NEW q \in RunId, NEW s \in TerminalStatus, Report(q, s) PROVE FALSE
  BY <1>0, <1>2, <1>3, <1>4, UpdateSettles DEF Report, ledgerVars
<1>5. ASSUME NEW q \in RunId, NEW w \in Worker, RequeueAgentRun(q, w) PROVE FALSE
  BY <1>0, <1>2, <1>5 DEF RequeueAgentRun, ReleaseClaims, Unclaimed, TypeOK, SteeringRecord
<1>6. steering' # steering
  BY <1>0, <1>2
<1>7. ASSUME Ingress PROVE FALSE
  <2>1. ASSUME NEW n \in Msg, NEW q \in RunId, EnqueueSteeringInState(n, q) PROVE FALSE
    BY <1>0, <1>2, <2>1 DEF EnqueueSteeringInState, TypeOK, SteeringRecord
  <2> QED BY <1>6, <1>7, <2>1 DEF Ingress, Arrive, RecordInboundEvent, CreateAgentRun, CreateAgentRunOrSteer,
             EnqueueAgentRunSteering, CreateRunInState, ActiveIn
<1>8. ASSUME Recover PROVE FALSE
  <2>1. PICK S \in SUBSET {q \in RunId : Executing(runs, q)} : RecoverStaleAgentRuns(S)
    BY <1>8 DEF Recover
  <2>2. S \in SUBSET RunId
    OBVIOUS
  <2> QED BY <1>0, <1>3, <2>1, <2>2, RecoverSettles
<1>9. ASSUME Stop PROVE FALSE
  <2>1. ASSUME NEW q \in RunId, RequestAgentRunCancel(q) PROVE FALSE
    <3>1. runs[q].status = "queued"
      BY <1>6, <2>1 DEF RequestAgentRunCancel
    <3> QED BY <1>0, <1>3, <2>1, <3>1, CancelSettles
  <2>2. ASSUME NEW q \in RunId, StopRun(q) PROVE StopStep
    <3>1. {q} \cap ActiveIn(runs, RunThread(q)) \in SUBSET RunId /\ {n \in Msg : steering[n].targetRunId = q} \in SUBSET Msg
      OBVIOUS
    <3>2. \A p \in {q} \cap ActiveIn(runs, RunThread(q)) : Active(runs, p)
      BY DEF ActiveIn
    <3> QED BY <2>2, <3>1, <3>2 DEF StopRun, StopStep
  <2>3. ASSUME NEW t \in Thread, StopThread(t) PROVE StopStep
    <3>1. ActiveIn(runs, t) \in SUBSET RunId /\ {n \in Msg : ThreadOf[n] = t} \in SUBSET Msg
      BY DEF ActiveIn
    <3>2. \A p \in ActiveIn(runs, t) : Active(runs, p)
      BY DEF ActiveIn
    <3> QED BY <2>3, <3>1, <3>2 DEF StopThread, StopStep
  <2> QED BY <1>3, <1>9, <2>1, <2>2, <2>3 DEF Stop
<1>10. ASSUME NEW w \in Worker, ReceiveFollowUp(w) PROVE FALSE
  BY <1>0, <1>2, <1>10 DEF ReceiveFollowUp, ClaimSteering, TypeOK, SteeringRecord
<1>11. ASSUME NEW w \in Worker, AcknowledgeFollowUp(w)
       PROVE  /\ At(w, "executing") /\ m \in host[w].received
              /\ steering[m].status = "claimed" /\ steering[m].targetRunId = r
              /\ host' = [host EXCEPT ![w].received = @ \ {m}, ![w].context = @ \cup {m}]
  <2>1. PICK n \in host[w].received :
          \/ /\ steering[n].status \in {"claimed", "applied"}
             /\ IF steering[n].status = "claimed" THEN MarkAgentRunSteeringApplied(n)
                                                  ELSE UNCHANGED ledgerVars
             /\ host' = [host EXCEPT ![w].received = @ \ {n}, ![w].context = @ \cup {n}]
          \/ UNCHANGED ledgerVars
    BY <1>11 DEF AcknowledgeFollowUp
  <2>2. /\ steering[n].status = "claimed" /\ MarkAgentRunSteeringApplied(n)
        /\ host' = [host EXCEPT ![w].received = @ \ {n}, ![w].context = @ \cup {n}]
    BY <1>6, <2>1 DEF ledgerVars
  <2>3. n \in Msg
    BY <1>0, <2>1 DEF HostRecord
  <2>4. n = m /\ steering[m].targetRunId = r
    BY <1>0, <1>2, <2>2, <2>3 DEF MarkAgentRunSteeringApplied, TypeOK, SteeringRecord
  <2> QED BY <1>11, <2>1, <2>2, <2>4 DEF AcknowledgeFollowUp
<1>12. ASSUME NEW w \in Worker, Progress(w) PROVE FALSE
  <2>1. CASE Complete(w) \/ SettleFailure(w)
    BY <1>0, <1>4, <2>1 DEF Complete, SettleFailure, TerminalStatus, At
  <2>2. CASE ReleaseClaimed(w) \/ GiveBack(w)
    BY <1>0, <1>5, <1>6, <2>2 DEF ReleaseClaimed, GiveBack, At, ledgerVars
  <2> QED BY <1>6, <1>12, <2>1, <2>2 DEF Progress, ClaimPass, ClaimQueuedRun, BeginRun, ExecutorReturns, LastCheck,
             Publish, MarkRunInboundProcessed, MarkRunInboundFailed, MarkEvent, MarkInboundEvent, AbandonLost,
             Restart, ledgerVars
<1>13. ASSUME NEW w \in Worker, DenyBudget(w) PROVE FALSE
  BY <1>0, <1>4, <1>13 DEF DenyBudget, TerminalStatus, At
<1> QED BY <1>6, <1>7, <1>8, <1>9, <1>10, <1>11, <1>12, <1>13
        DEF WorkersNext, Monitor, ExecutorFails, PublishFails, ProgressFails, BeginShutdown, Crash, ledgerVars, vars

\* What a worker's action does to what it has read.
LEMMA HandReads ==
  ASSUME WorkersShape, NEW w \in Worker, WorkerStep(w)
  PROVE  /\ host'[w].step = "idle" => host'[w].received = {} \/ (At(w, "idle") /\ host'[w].received = host[w].received)
         /\ \A m \in host'[w].received : \/ m \in host[w].received
                                         \/ ~At(w, "idle") /\ ClaimSteering(m, host[w].run, w)
         /\ host'[w].step = "executing" => host[w].step = "executing" \/ ~ZeroModel(host[w].run)
         /\ host'[w].step \notin {"idle", "claimed"} =>
              \/ host[w].step # "claimed" /\ host[w].context \subseteq host'[w].context
              \/ BeginRun(w) /\ (ZeroModel(host[w].run) \/ host'[w].context = Remembered(host[w].run))
<1> USE DEF At, Goto, HostRecord
<1>0. host \in [Worker -> HostRecord] /\ host[w] \in HostRecord
  BY DEF WorkersShape, WorkersTypeOK
<1> DEFINE Reads == /\ host'[w].step = "idle" => host'[w].received = {} \/ (At(w, "idle") /\ host'[w].received = host[w].received)
                    /\ \A m \in host'[w].received : \/ m \in host[w].received
                                                    \/ ~At(w, "idle") /\ ClaimSteering(m, host[w].run, w)
                    /\ host'[w].step = "executing" => host[w].step = "executing" \/ ~ZeroModel(host[w].run)
                    /\ host'[w].step \notin {"idle", "claimed"} =>
                         \/ host[w].step # "claimed" /\ host[w].context \subseteq host'[w].context
                         \/ BeginRun(w) /\ (ZeroModel(host[w].run) \/ host'[w].context = Remembered(host[w].run))
<1>1. ASSUME host' = Finished(w) PROVE Reads
  BY <1>0, <1>1 DEF Finished, Idle
<1>2. ASSUME NEW s \in Step \ {"idle", "executing"}, Goto(w, s), ~At(w, "claimed") PROVE Reads
  BY <1>0, <1>2
<1>3. ASSUME NEW s \in {"answered", "publishing"}, AssertActive(w, s), ~At(w, "claimed") PROVE Reads
  <2> DEFINE abort == IF host[w].abort # "none" THEN host[w].abort ELSE Verdict(w)
  <2>1. host' = [host EXCEPT ![w].abort = abort, ![w].step = IF abort = "none" THEN s ELSE "failing"]
    BY <1>3 DEF AssertActive
  <2> HIDE DEF abort
  <2> QED BY <1>0, <1>3, <2>1
<1>4. ASSUME ClaimPass(w) PROVE Reads
  BY <1>0, <1>4 DEF ClaimPass
<1>5. ASSUME BeginRun(w) PROVE Reads
  <2>1. CASE ZeroModel(host[w].run)
    BY <1>0, <1>5, <2>1 DEF BeginRun
  <2>2. CASE ~ZeroModel(host[w].run)
    BY <1>0, <1>5, <2>2 DEF BeginRun
  <2> QED BY <2>1, <2>2
<1>6. ASSUME Crash(w) \/ Restart(w) PROVE Reads
  BY <1>0, <1>6 DEF Crash, Restart, Idle
<1>7. ASSUME BeginShutdown(w) \/ Monitor(w) PROVE Reads
  <2>1. CASE BeginShutdown(w)
    <3>1. host'[w].step = host[w].step /\ host'[w].received = host[w].received /\ host'[w].context = host[w].context
      BY <1>0, <2>1 DEF BeginShutdown
    <3>2. host'[w].step \notin {"idle", "claimed"} => host[w].step # "claimed"
      BY <3>1
    <3> QED BY <3>1, <3>2
  <2>2. CASE Monitor(w)
    BY <1>0, <2>2 DEF Monitor, Monitored
  <2> QED BY <1>7, <2>1, <2>2
<1>8. ASSUME ReceiveFollowUp(w) PROVE Reads
  <2>1. PICK n \in Msg : ClaimSteering(n, host[w].run, w) /\ host' = [host EXCEPT ![w].received = @ \cup {n}]
    BY <1>8 DEF ReceiveFollowUp
  <2> QED BY <1>0, <1>8, <2>1 DEF ReceiveFollowUp
<1>9. ASSUME AcknowledgeFollowUp(w) PROVE Reads
  <2>1. PICK n \in host[w].received :
          \/ host' = [host EXCEPT ![w].received = @ \ {n}, ![w].context = @ \cup {n}]
          \/ Goto(w, "failing")
    BY <1>9 DEF AcknowledgeFollowUp
  <2>2. CASE Goto(w, "failing")
    BY <1>2, <1>9, <2>2 DEF AcknowledgeFollowUp, Step
  <2>3. CASE host' = [host EXCEPT ![w].received = @ \ {n}, ![w].context = @ \cup {n}]
    BY <1>0, <1>9, <2>3 DEF AcknowledgeFollowUp
  <2> QED BY <2>1, <2>2, <2>3
<1>10. ASSUME ReleaseClaimed(w) \/ DenyBudget(w) \/ Complete(w) \/ AbandonLost(w) \/ MarkRunInboundFailed(w) PROVE Reads
  BY <1>1, <1>10 DEF ReleaseClaimed, DenyBudget, Complete, AbandonLost, MarkRunInboundFailed
<1>11. ASSUME ExecutorReturns(w) \/ LastCheck(w) PROVE Reads
  BY <1>3, <1>11 DEF ExecutorReturns, LastCheck
<1>12. ASSUME \/ ExecutorFails(w) \/ Publish(w) \/ PublishFails(w) \/ ProgressFails(w)
              \/ MarkRunInboundProcessed(w) \/ SettleFailure(w) \/ GiveBack(w)
       PROVE  Reads
  BY <1>1, <1>2, <1>12
     DEF ExecutorFails, Publish, PublishFails, ProgressFails, MarkRunInboundProcessed, SettleFailure, GiveBack, Step
<1> QED BY <1>4, <1>5, <1>6, <1>7, <1>8, <1>9, <1>10, <1>11, <1>12 DEF WorkerStep, Progress

\* The invariant: what a worker has read was sent to its run, a command takes nothing
\* in, and while nobody shares a run its worker knows all that the run took in.
SessionInv ==
  /\ ExecutorInv
  /\ \A w \in Worker :
       /\ At(w, "idle") => host[w].received = {}
       /\ At(w, "executing") => ~ZeroModel(host[w].run)
       /\ \A m \in host[w].received : steering[m].status # "absent" /\ steering[m].targetRunId = host[w].run
  /\ \A r \in RunId : ZeroModel(r) => AppliedLive(r) = {}
  /\ ProviderSession /\ budget["recovery"] = 0 =>
       \A w \in Worker : host[w].step \notin {"idle", "claimed"} => AppliedLive(host[w].run) \subseteq host[w].context

\* The invariant is inductive.
LEMMA SessionStep ==
  ASSUME SessionInv, [WorkersNext]_vars
  PROVE  SessionInv'
<1>0. /\ WorkersShape /\ WorkersShape' /\ ExecutorInv /\ ExecutorInv'
      /\ TypeOK /\ host \in [Worker -> HostRecord]
      /\ \A w \in Worker : ~At(w, "idle") => host[w].run \in RunId
  BY ExecutorStep DEF SessionInv, ExecutorInv, WorkersShape, WorkersTypeOK, LedgerInv, PromiseInv, HandOK
<1>1. ASSUME NEW m \in Msg, steering[m].status # "absent"
      PROVE  steering'[m].status # "absent" /\ steering'[m].targetRunId = steering[m].targetRunId
  <2>1. CASE Next
    BY <1>0, <1>1, <2>1, TargetStays
  <2>2. CASE EventStep \/ UNCHANGED ledgerVars
    BY <1>1, <2>2 DEF EventStep, MarkInboundEvent, ledgerVars
  <2> QED BY <1>0, <2>1, <2>2, LedgerPart
<1>2. ASSUME NEW w \in Worker
      PROVE  /\ At(w, "idle")' => host'[w].received = {}
             /\ At(w, "executing")' => ~ZeroModel(host'[w].run)
             /\ \A m \in host'[w].received : steering'[m].status # "absent" /\ steering'[m].targetRunId = host'[w].run
  <2>1. CASE host'[w] = host[w]
    BY <1>0, <1>1, <2>1 DEF SessionInv, At, HostRecord
  <2>2. CASE WorkerStep(w) /\ HandMoves(w)
    <3>1. /\ host'[w].step = "idle" => host'[w].received = {} \/ (At(w, "idle") /\ host'[w].received = host[w].received)
          /\ \A m \in host'[w].received : \/ m \in host[w].received
                                          \/ ~At(w, "idle") /\ ClaimSteering(m, host[w].run, w)
          /\ host'[w].step = "executing" => host[w].step = "executing" \/ ~ZeroModel(host[w].run)
      BY <1>0, <2>2, HandReads
    <3>2. host[w].received \subseteq Msg /\ host'[w].received \subseteq Msg
      BY <1>0 DEF WorkersShape, WorkersTypeOK, HostRecord
    <3>3. CASE host'[w].step = "idle"
      BY <3>1, <3>3 DEF SessionInv, At
    <3>4. CASE host'[w].step # "idle" /\ host[w].step # "idle" /\ host'[w].run = host[w].run
      <4>1. ASSUME NEW m \in Msg, ClaimSteering(m, host[w].run, w)
            PROVE  steering[m].status # "absent" /\ steering[m].targetRunId = host[w].run
        BY <4>1 DEF ClaimSteering, LivePending
      <4>2. \A m \in host'[w].received : steering[m].status # "absent" /\ steering[m].targetRunId = host[w].run
        BY <3>1, <3>2, <4>1 DEF SessionInv
      <4>3. \A m \in host'[w].received : steering'[m].status # "absent" /\ steering'[m].targetRunId = host'[w].run
        BY <1>1, <3>2, <3>4, <4>2
      <4>4. host[w].step = "executing" => ~ZeroModel(host[w].run)
        BY DEF SessionInv, At
      <4> QED BY <3>1, <3>4, <4>3, <4>4 DEF SessionInv, At
    <3>5. CASE host[w].step = "idle" /\ host'[w].step = "claimed"
      BY <3>1, <3>5 DEF SessionInv, At
    <3> QED BY <2>2, <3>3, <3>4, <3>5 DEF HandMoves
  <2> QED BY <1>0, <2>1, <2>2, HostStep DEF HandMoves
<1>3. ASSUME NEW r \in RunId, ZeroModel(r) PROVE AppliedLive(r)' = {}
  <2>1. SUFFICES ASSUME NEW m \in AppliedLive(r)' PROVE FALSE
    OBVIOUS
  <2>2. m \in Msg /\ m \notin AppliedLive(r)
    BY <1>3, <2>1 DEF SessionInv, AppliedLive
  <2>3. PICK w \in Worker : At(w, "executing") /\ m \in host[w].received /\ steering[m].targetRunId = r
    BY <1>0, <2>1, <2>2, TakenIn
  <2> QED BY <1>3, <2>3 DEF SessionInv
<1>4. ASSUME ProviderSession, budget'["recovery"] = 0, NEW w \in Worker, host'[w].step \notin {"idle", "claimed"},
             NEW r \in RunId, host'[w].run = r, NEW m \in AppliedLive(r)'
      PROVE  m \in host'[w].context
  <2>0. budget["recovery"] = 0
    BY <1>0, <1>4, BudgetGrows DEF Event
  <2>1. m \in Msg
    BY DEF AppliedLive
  <2>3. host[w].step # "idle" /\ host[w].run = r
    <3>1. CASE host'[w] = host[w]
      BY <1>4, <3>1
    <3>2. CASE WorkerStep(w) /\ HandMoves(w)
      BY <1>4, <3>2 DEF HandMoves
    <3> QED BY <1>0, <3>1, <3>2, HostStep DEF HandMoves
  <2>4. CASE m \notin AppliedLive(r)
    <3>0. m \in AppliedLive(r)'
      BY <1>4
    <3>1. PICK v \in Worker : /\ At(v, "executing") /\ m \in host[v].received
                              /\ steering[m].status = "claimed" /\ steering[m].targetRunId = r
                              /\ host' = [host EXCEPT ![v].received = @ \ {m}, ![v].context = @ \cup {m}]
      BY <1>0, <2>1, <2>4, <3>0, TakenIn
    <3>2. host[v].run = r /\ host[v].step # "idle"
      BY <3>1 DEF SessionInv, At
    <3>3. v = w
      BY <1>0, <2>0, <2>3, <3>2 DEF ExecutorInv, Sole, At
    <3> QED BY <1>0, <3>1, <3>3 DEF HostRecord
  <2>5. CASE m \in AppliedLive(r)
    <3>1. ASSUME host[w].step # "claimed", host[w].context \subseteq host'[w].context PROVE m \in host'[w].context
      BY <1>4, <2>0, <2>3, <2>5, <3>1 DEF SessionInv
    <3>2. ~ZeroModel(r)
      BY <2>5 DEF SessionInv
    <3>3. CASE host'[w] = host[w]
      BY <1>4, <3>1, <3>3
    <3>4. CASE WorkerStep(w)
      BY <1>0, <1>4, <2>3, <2>5, <3>1, <3>2, <3>4, HandReads DEF Remembered
    <3> QED BY <1>0, <3>3, <3>4, HostStep DEF HandMoves
  <2> QED BY <2>4, <2>5
<1>5. ProviderSession /\ budget'["recovery"] = 0 =>
        \A w \in Worker : host'[w].step \notin {"idle", "claimed"} =>
          \A r \in RunId : host'[w].run = r => AppliedLive(r)' \subseteq host'[w].context
  BY <1>4
<1>6. \A w \in Worker : host'[w].step \notin {"idle", "claimed"} => host'[w].run \in RunId
  BY <1>0 DEF WorkersShape, HandOK, At
<1>7. ProviderSession /\ budget'["recovery"] = 0 =>
        \A w \in Worker : host'[w].step \notin {"idle", "claimed"} =>
          \E r \in RunId : host'[w].run = r /\ AppliedLive(r)' \subseteq host'[w].context
  BY <1>5, <1>6
<1> QED BY <1>0, <1>2, <1>3, <1>7 DEF SessionInv, AppliedLive

\* With the provider's session a restart loses no follow-up: until a recovery takes a
\* run from a living worker, every answer knows what its run was said to have taken in.
THEOREM SessionsKeepFollowUps == WorkersSpec => SessionKeepsFollowUps
<1>1. WorkersInit => SessionInv
  <2> SUFFICES ASSUME WorkersInit PROVE SessionInv
    OBVIOUS
  <2>1. \A w \in Worker : host[w] = Idle
    BY DEF WorkersInit
  <2>2. \A r \in RunId : AppliedLive(r) = {}
    BY DEF WorkersInit, Init, NoSteering, AppliedLive
  <2> QED BY <2>1, <2>2, ExecutorInit DEF SessionInv, Idle, At
<1>2. SessionInv /\ [WorkersNext]_vars => SessionInv'
  BY SessionStep
<1>3. SessionInv /\ [WorkersNext]_vars =>
        [ProviderSession /\ budget["recovery"] = 0 =>
           \A a \in answers' \ answers : AppliedLive(a.run) \subseteq a.knew]_vars
  <2> SUFFICES ASSUME SessionInv, [WorkersNext]_vars, ProviderSession, budget["recovery"] = 0,
                      NEW a \in answers' \ answers
               PROVE  AppliedLive(a.run) \subseteq a.knew
    OBVIOUS
  <2>1. WorkersShape
    BY DEF SessionInv, ExecutorInv
  <2>2. PICK w \in Worker : Publish(w) /\ a.run = host[w].run /\ a.knew = host[w].context
    BY <2>1, AnswersGrow
  <2> QED BY <2>2 DEF Publish, At, SessionInv
<1> QED BY <1>1, <1>2, <1>3, PTL DEF WorkersSpec, SessionKeepsFollowUps

=============================================================================
