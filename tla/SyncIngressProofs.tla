--------------------------- MODULE SyncIngressProofs ---------------------------
(***************************************************************************)
(* Proofs about SyncIngress: which guarantees of the ledger survive        *)
(* requests that start their run without claiming it, and how far the      *)
(* others do.                                                              *)
(***************************************************************************)
EXTENDS SyncIngress, RunLedgerProofs

\* Runs that a request may start without a claim: the turns of ingress messages.
Requested(r) == r[1] = "turn" /\ SourceOf[r[2]] = "message"

\* The requests that have not started their run, as far as the store is concerned.
RequestsOK == \A r \in requests : r \in RunId /\ Requested(r)

\* What a request does to the ledger when it starts its run.
UnclaimedStart == \E r \in RunId, w \in Worker : Requested(r) /\ MarkAgentRunRunning(r, w)

\* Every step of the ledger under synchronous ingress is one of the ledger's own or
\* an unclaimed start.
LEMMA SyncSteps ==
  ASSUME RequestsOK, [SyncNext]_syncVars
  PROVE  [Next]_ledgerVars \/ UnclaimedStart
<1>1. ASSUME NEW m \in Msg, Submit(m) PROVE Next
  BY <1>1 DEF Submit, Next, Arrive
<1>2. ASSUME NEW r \in RunId, NEW w \in Worker, StartUnclaimed(r, w)
      PROVE  UNCHANGED ledgerVars \/ UnclaimedStart
  BY <1>2 DEF StartUnclaimed, RequestsOK, UnclaimedStart
<1>3. CASE UNCHANGED syncVars
  BY <1>3 DEF syncVars, ledgerVars
<1> QED BY <1>1, <1>2, <1>3 DEF SyncNext

\* A request only ever waits for the turn of its own message.
LEMMA RequestsStep ==
  ASSUME RequestsOK, [SyncNext]_syncVars
  PROVE  RequestsOK'
<1>1. ASSUME NEW m \in Msg, Submit(m) PROVE RequestsOK'
  <2>1. Turn(m) \in RunId /\ Requested(Turn(m))
    BY <1>1, IdType DEF Submit, Requested, Turn
  <2> QED BY <1>1, <2>1 DEF Submit, RequestsOK, Requested
<1>2. ASSUME NEW r \in RunId, NEW w \in Worker, StartUnclaimed(r, w) PROVE RequestsOK'
  BY <1>2 DEF StartUnclaimed, RequestsOK, Requested
<1>3. CASE requests' = requests
  BY <1>3 DEF RequestsOK, Requested
<1> QED BY <1>1, <1>2, <1>3 DEF SyncNext, syncVars

-----------------------------------------------------------------------------
(* What an unclaimed start does *)

\* It marks one active run as running and touches nothing else: which runs are
\* active, which have ended and every follow-up stay as they are.
LEMMA StartEffects ==
  ASSUME TypeOK, NEW r \in RunId, NEW w \in Worker, MarkAgentRunRunning(r, w)
  PROVE  /\ steering' = steering /\ inbound' = inbound /\ clock' = clock
         /\ Active(runs, r) /\ runs'[r].status = "running"
         /\ \A q \in RunId : q # r => runs'[q] = runs[q]
         /\ \A q \in RunId : /\ Active(runs', q) <=> Active(runs, q)
                             /\ Exists(runs', q) <=> Exists(runs, q)
                             /\ Terminal(runs', q) <=> Terminal(runs, q)
                             /\ Terminal(runs, q) => runs'[q] = runs[q]
         /\ runs' \in [RunId -> RunRecord]
<1>1. [runs[r] EXCEPT !.status = "running", !.workerId = w, !.started = TRUE] \in RunRecord
  BY DEF TypeOK, RunRecord, RunStatus, ActiveStatus
<1>2. /\ runs' \in [RunId -> RunRecord]
      /\ \A q \in RunId : q # r => runs'[q] = runs[q]
      /\ runs'[r].status = "running"
  BY <1>1 DEF MarkAgentRunRunning, TypeOK, RunRecord
<1>3. Active(runs, r) /\ steering' = steering /\ inbound' = inbound /\ clock' = clock
  BY DEF MarkAgentRunRunning
<1> QED BY <1>2, <1>3 DEF Active, Exists, Terminal, ActiveStatus, TerminalStatus

\* Records keep their shape.
LEMMA StartKeepsTypes ==
  ASSUME TypeOK, UnclaimedStart
  PROVE  TypeOK'
BY StartEffects DEF UnclaimedStart, TypeOK

\* A follow-up and its continuation still tell one story.
LEMMA StartKeepsAgreement ==
  ASSUME TypeOK, ContinuationAgrees, UnclaimedStart
  PROVE  ContinuationAgrees'
<1> PICK r \in RunId, w \in Worker : MarkAgentRunRunning(r, w)
  BY DEF UnclaimedStart
<1> SUFFICES ASSUME NEW m \in Msg PROVE Agrees(runs', steering', m)
  BY DEF ContinuationAgrees, Agrees
<1>1. Agrees(runs, steering, m) /\ Continuation(m) \in RunId
  BY IdType DEF ContinuationAgrees, Agrees
<1> QED BY <1>1, StartEffects DEF Agrees

\* Follow-ups keep their target and their place in the mailbox.
LEMMA StartKeepsMailbox ==
  ASSUME TypeOK, MailboxOK, UnclaimedStart
  PROVE  MailboxOK'
<1> PICK r \in RunId, w \in Worker : MarkAgentRunRunning(r, w)
  BY DEF UnclaimedStart
<1> QED BY StartEffects, IdType DEF MailboxOK, Placed

\* Nobody's message becomes both a turn and a follow-up.
LEMMA StartKeepsAnswers ==
  ASSUME TypeOK, AnsweredOnce, UnclaimedStart
  PROVE  AnsweredOnce'
<1> PICK r \in RunId, w \in Worker : MarkAgentRunRunning(r, w)
  BY DEF UnclaimedStart
<1> QED BY StartEffects, IdType DEF AnsweredOnce

\* No second turn of a conversation becomes active.
LEMMA StartKeepsOneTurn ==
  ASSUME TypeOK, OneTurnPerThread, UnclaimedStart
  PROVE  OneTurnPerThread'
<1> PICK r \in RunId, w \in Worker : MarkAgentRunRunning(r, w)
  BY DEF UnclaimedStart
<1> QED BY StartEffects DEF OneTurnPerThread, RunThread, Conversational

\* A claimed follow-up's run is not put back in the queue.
LEMMA StartKeepsClaims ==
  ASSUME TypeOK, MailboxOK, ClaimsFollowTheRun, UnclaimedStart
  PROVE  ClaimsFollowTheRun'
<1> PICK r \in RunId, w \in Worker : MarkAgentRunRunning(r, w)
  BY DEF UnclaimedStart
<1> SUFFICES ASSUME NEW m \in Msg, steering'[m].status = "claimed"
             PROVE  runs'[steering'[m].targetRunId].status # "queued"
  BY DEF ClaimsFollowTheRun
<1>1. steering'[m] = steering[m] /\ steering[m].targetRunId \in RunId
  BY StartEffects DEF MailboxOK, Placed
<1>2. runs[steering[m].targetRunId].status # "queued"
  BY <1>1 DEF ClaimsFollowTheRun
<1> QED BY <1>1, <1>2, StartEffects

-----------------------------------------------------------------------------
(* The guarantees that survive *)

SyncInv == TypeOK /\ ContinuationAgrees /\ MailboxOK /\ AnsweredOnce /\ OneTurnPerThread
             /\ ClaimsFollowTheRun /\ RequestsOK

\* They hold in every state that a mixture of workers and requests reaches.
LEMMA SyncCorrect == SyncSpec => []SyncInv
<1>1. SyncInit => SyncInv
  <2> SUFFICES ASSUME SyncInit PROVE SyncInv
    OBVIOUS
  <2> USE DEF SyncInit, Init
  <2>1. TypeOK
    BY DEF TypeOK, NoRun, NoSteering, RunRecord, SteeringRecord
  <2>2. \A r \in RunId : ~Exists(runs, r) /\ ~Active(runs, r) /\ ~Terminal(runs, r)
    BY DEF NoRun, Exists, Active, Terminal, ActiveStatus, TerminalStatus
  <2>3. \A m \in Msg : steering[m].status = "absent"
    BY DEF NoSteering
  <2>4. ContinuationAgrees
    BY <2>2, <2>3, IdType DEF ContinuationAgrees
  <2>5. MailboxOK
    BY <2>2, <2>3, IdType DEF MailboxOK, Placed
  <2>6. AnsweredOnce /\ OneTurnPerThread /\ ClaimsFollowTheRun
    BY <2>2, <2>3 DEF AnsweredOnce, OneTurnPerThread, ClaimsFollowTheRun
  <2>7. RequestsOK
    BY DEF RequestsOK
  <2> QED BY <2>1, <2>4, <2>5, <2>6, <2>7 DEF SyncInv
<1>2. SyncInv /\ [SyncNext]_syncVars => SyncInv'
  <2> SUFFICES ASSUME SyncInv, [SyncNext]_syncVars PROVE SyncInv'
    OBVIOUS
  <2> USE DEF SyncInv
  <2>1. [Next]_ledgerVars \/ UnclaimedStart
    BY SyncSteps
  <2>2. TypeOK'
    BY <2>1, TypeStep, StartKeepsTypes
  <2>3. ContinuationAgrees'
    BY <2>1, AgreesStep, StartKeepsAgreement
  <2>4. MailboxOK'
    BY <2>1, MailboxStep, StartKeepsMailbox
  <2>5. AnsweredOnce'
    BY <2>1, AnsweredOnceStep, StartKeepsAnswers
  <2>6. OneTurnPerThread'
    BY <2>1, OneTurnStep, StartKeepsOneTurn
  <2>7. ClaimsFollowTheRun'
    BY <2>1, ClaimsStep, StartKeepsClaims
  <2>8. RequestsOK'
    BY RequestsStep
  <2> QED BY <2>2, <2>3, <2>4, <2>5, <2>6, <2>7, <2>8
<1> QED BY <1>1, <1>2, PTL DEF SyncSpec

\* Requests that execute their own run keep a follow-up and its continuation in step:
\* no follow-up is both applied live and answered by a turn.
THEOREM SyncFollowUpsAgree == SyncSpec => []ContinuationAgrees
BY SyncCorrect, PTL DEF SyncInv

\* They never leave a live claim behind on a run that was given back.
THEOREM SyncClaimsAreReturned == SyncSpec => []ClaimsFollowTheRun
BY SyncCorrect, PTL DEF SyncInv

\* A submitted message is a turn or a follow-up, never both, though its request does
\* not wait for a worker to claim it.
THEOREM SyncMessagesAnsweredOnce == SyncSpec => []AnsweredOnce
BY SyncCorrect, PTL DEF SyncInv

\* Competing requests do not open parallel work in one thread.
THEOREM SyncOneTurnAtATime == SyncSpec => []OneTurnPerThread
BY SyncCorrect, PTL DEF SyncInv

\* A run that a stop, a worker or a recovery has ended is not brought back by the
\* request that created it and starts it late.
THEOREM SyncOutcomesAreFinal == SyncSpec => OutcomeIsFinal
<1>1. SyncInv /\ [SyncNext]_syncVars =>
        [\A r \in RunId : Terminal(runs, r) => runs'[r].status = runs[r].status]_ledgerVars
  <2> SUFFICES ASSUME SyncInv, [SyncNext]_syncVars, ~UNCHANGED ledgerVars, NEW r \in RunId
               PROVE  OutcomeKept(r)
    BY DEF OutcomeKept
  <2>1. CASE Next
    BY <2>1, OutcomeStep DEF SyncInv
  <2>2. CASE UnclaimedStart
    BY <2>2, StartEffects DEF UnclaimedStart, OutcomeKept, SyncInv
  <2> QED BY <2>1, <2>2, SyncSteps DEF SyncInv
<1> QED BY <1>1, SyncCorrect, PTL DEF SyncSpec, OutcomeIsFinal

\* Whoever ends a turn, a request's included, hands the thread over: some run of the
\* thread is active afterwards, or no follow-up waits behind an ended run.
THEOREM SyncTurnsHandOver == SyncSpec => TurnHandsOver
<1>1. SyncInv /\ [SyncNext]_syncVars =>
        [\A r \in RunId :
           Executing(runs, r) /\ Terminal(runs', r) =>
             \/ ActiveIn(runs', RunThread(r)) # {}
             \/ Stranded(runs', steering', RunThread(r)) = {}]_ledgerVars
  <2> SUFFICES ASSUME SyncInv, [SyncNext]_syncVars, ~UNCHANGED ledgerVars,
                      NEW r \in RunId, Executing(runs, r), Terminal(runs', r)
               PROVE  \/ ActiveIn(runs', RunThread(r)) # {}
                      \/ Stranded(runs', steering', RunThread(r)) = {}
    OBVIOUS
  <2>1. CASE Next
    BY <2>1, HandOverStep DEF SyncInv
  <2>2. CASE UnclaimedStart
    <3>1. Terminal(runs, r)
      BY <2>2, StartEffects DEF UnclaimedStart, SyncInv
    <3> QED BY <3>1 DEF Terminal, TerminalStatus, Executing
  <2> QED BY <2>1, <2>2, SyncSteps DEF SyncInv
<1> QED BY <1>1, SyncCorrect, PTL DEF SyncSpec, TurnHandsOver

\* A request that executes its own run leaves nobody behind either: a thread in which no
\* follow-up waits behind an ended run, unless a run is active, remains so but for the
\* card Stop of a run that is queued again.
THEOREM SyncTurnsForgetNobody == SyncSpec => NobodyIsForgotten
<1>1. SyncInv /\ [SyncNext]_syncVars
        => [\A t \in Thread : Awaited(t) => Awaited(t)' \/ QueuedRunIsStopped(t)]_ledgerVars
  <2> SUFFICES ASSUME SyncInv, [SyncNext]_syncVars, ~UNCHANGED ledgerVars, NEW t \in Thread,
                      Awaited(t), ~QueuedRunIsStopped(t)
               PROVE  Awaited(t)'
    OBVIOUS
  <2>1. CASE Next
    BY <2>1, AwaitedStep DEF SyncInv
  <2>2. CASE UnclaimedStart
    <3>1. /\ steering' = steering
          /\ \A q \in RunId : /\ Active(runs, q) => Active(runs', q)
                              /\ Terminal(runs', q) => Terminal(runs, q)
      BY <2>2, StartEffects DEF UnclaimedStart, SyncInv
    <3>2. \A m \in Msg : steering[m].status \in WaitingStatus => steering[m].targetRunId \in RunId
      BY DEF SyncInv, MailboxOK, Placed, WaitingStatus
    <3> QED BY <3>1, <3>2, CalmKeeps DEF Calm
  <2> QED BY <2>1, <2>2, SyncSteps DEF SyncInv
<1> QED BY <1>1, SyncCorrect, PTL DEF SyncSpec, NobodyIsForgotten

-----------------------------------------------------------------------------
(* How far the others survive *)

\* Of two model runs that execute on one runtime, one is the turn of an ingress message,
\* which a request may have started without a claim: routines, tasks, approvals and
\* continuations, which only workers claim, never share a runtime with each other.
OnlyRequestsShareARuntime ==
  \A q, r \in RunId :
    /\ SameRuntime(q, r) /\ Executing(runs, q) /\ Executing(runs, r)
    /\ ~ZeroModel(q) /\ ~ZeroModel(r)
    => q = r \/ Requested(q) \/ Requested(r)

\* A step of the ledger itself starts a run only beside none.
LEMMA ClaimsJoinNobody ==
  ASSUME TypeOK, OnlyRequestsShareARuntime, [Next]_ledgerVars
  PROVE  OnlyRequestsShareARuntime'
<1>1. CASE Next
  <2> SUFFICES ASSUME NEW q \in RunId, NEW r \in RunId, q # r, SameRuntime(q, r),
                      Executing(runs', q), Executing(runs', r), ~ZeroModel(q), ~ZeroModel(r)
               PROVE  Requested(q) \/ Requested(r)
    BY DEF OnlyRequestsShareARuntime, SameRuntime, Runtime, RuntimeScope, RunThread, ZeroModel, Requested
  <2>1. ASSUME NEW a \in RunId, NEW b \in RunId, NEW w \in Worker, ClaimQueuedRun(a, w), a # b,
               SameRuntime(a, b), Executing(runs', b), ~ZeroModel(a)
        PROVE  FALSE
    <3>1. runs'[b] = runs[b]
      BY <2>1 DEF ClaimQueuedRun, TypeOK
    <3>2. ~Executing(runs, b)
      BY <2>1 DEF ClaimQueuedRun, Claimable, SameRuntime
    <3> QED BY <2>1, <3>1, <3>2 DEF Executing
  <2>2. SameRuntime(r, q)
    BY DEF SameRuntime
  <2> QED BY <1>1, <2>1, <2>2, ExecutingGrows DEF OnlyRequestsShareARuntime
<1>2. CASE UNCHANGED ledgerVars
  BY <1>2 DEF ledgerVars, OnlyRequestsShareARuntime, Executing
<1> QED BY <1>1, <1>2

\* An unclaimed start may, but then the run it starts is a request's.
LEMMA StartsAreRequested ==
  ASSUME TypeOK, OnlyRequestsShareARuntime, UnclaimedStart
  PROVE  OnlyRequestsShareARuntime'
<1> PICK a \in RunId, w \in Worker : Requested(a) /\ MarkAgentRunRunning(a, w)
  BY DEF UnclaimedStart
<1>1. \A q \in RunId : q # a => runs'[q] = runs[q]
  BY StartEffects
<1> QED BY <1>1 DEF OnlyRequestsShareARuntime, Executing

\* The exclusive use of a runtime is lost to unclaimed starts only.
THEOREM RequestsAloneShareARuntime == SyncSpec => []OnlyRequestsShareARuntime
<1>1. SyncInit => OnlyRequestsShareARuntime
  BY DEF SyncInit, Init, NoRun, OnlyRequestsShareARuntime, Executing
<1>2. SyncInv /\ OnlyRequestsShareARuntime /\ [SyncNext]_syncVars => OnlyRequestsShareARuntime'
  BY SyncSteps, ClaimsJoinNobody, StartsAreRequested DEF SyncInv
<1> QED BY <1>1, <1>2, SyncCorrect, PTL DEF SyncSpec

\* A cancellation requested of a run that no request starts is not lost to a completion,
\* a requeue, a recovery or a late start.
ClaimedCancelIsFinal ==
  [][\A r \in RunId : runs[r].status = "cancel_requested" /\ ~Requested(r) =>
       runs'[r].status \in {"cancel_requested", "cancelled", "failed"}]_ledgerVars

\* Only the run that a request starts late can forget that it was to be cancelled.
THEOREM ClaimedCancelsAreFinal == SyncSpec => ClaimedCancelIsFinal
<1>1. SyncInv /\ [SyncNext]_syncVars =>
        [\A r \in RunId : runs[r].status = "cancel_requested" /\ ~Requested(r) =>
           runs'[r].status \in {"cancel_requested", "cancelled", "failed"}]_ledgerVars
  <2> SUFFICES ASSUME SyncInv, [SyncNext]_syncVars, ~UNCHANGED ledgerVars, NEW r \in RunId, ~Requested(r)
               PROVE  CancelKept(r)
    BY DEF CancelKept
  <2>1. CASE Next
    BY <2>1, OutcomeStep DEF SyncInv
  <2>2. CASE UnclaimedStart
    <3>1. runs'[r] = runs[r]
      BY <2>2, StartEffects DEF UnclaimedStart, SyncInv
    <3> QED BY <3>1 DEF CancelKept
  <2> QED BY <2>1, <2>2, SyncSteps DEF SyncInv
<1> QED BY <1>1, SyncCorrect, PTL DEF SyncSpec, ClaimedCancelIsFinal

\* A request that starts its run late forgets that its message was stopped.
StopIsForgotten ==
  \E m \in Msg : /\ Requested(Turn(m)) /\ Fates[m] = "stopping"
                 /\ Fates' = [Fates EXCEPT ![m] = "working"]

PromiseButForForgottenStops == Promise!Init /\ [][Promise!Next \/ StopIsForgotten]_Fates

\* What a late start does to the fates: the message is at work, and the others are as before.
LEMMA StartFate ==
  ASSUME SyncInv, SyncInv', UnclaimedStart
  PROVE  [Promise!Next \/ StopIsForgotten]_Fates
<1> PICK r \in RunId, w \in Worker : Requested(r) /\ MarkAgentRunRunning(r, w)
  BY DEF UnclaimedStart
<1> PICK m \in Msg : r = Turn(m)
  BY DEF RunId, Requested, Turn
<1>1. /\ runs[r].status \in ActiveStatus /\ runs'[r].status = "running"
      /\ steering' = steering /\ \A q \in RunId : q # r => runs'[q] = runs[q]
  BY StartEffects DEF SyncInv, Active
<1>2. \A n \in Msg : /\ Turn(n) \in RunId /\ Continuation(n) \in RunId
                    /\ Continuation(n) # r /\ (Turn(n) = r <=> n = m)
  BY IdType DEF Turn, Continuation
<1>3. \A n \in Msg : n # m => FateOf(n)' = FateOf(n)
  BY <1>1, <1>2 DEF FateOf, Exists
<1>4. FateOf(m)' = "working" /\ FateOf(m) = RunFate[runs[r].status]
  <2>1. Exists(runs, Turn(m)) /\ Exists(runs', Turn(m))
    BY <1>1 DEF Exists, ActiveStatus
  <2>2. ~Exists(runs, Continuation(m)) /\ ~Exists(runs', Continuation(m))
    BY <2>1 DEF SyncInv, AnsweredOnce, ContinuationAgrees, Exists
  <2>3. FateOf(m) = RunFate[runs[r].status] /\ FateOf(m)' = RunFate[runs'[r].status]
    BY <2>1, <2>2 DEF FateOf, Exists
  <2> QED BY <1>1, <2>3 DEF RunFate
<1>5. FateOf(m) \in {"waiting", "working", "stopping"}
  BY <1>1, <1>4 DEF RunFate, ActiveStatus
<1>6. /\ \A n \in Msg : Fates[n] = FateOf(n) /\ Fates'[n] = FateOf(n)'
      /\ DOMAIN Fates = Msg /\ DOMAIN Fates' = Msg
      /\ Fates = [n \in Msg |-> Fates[n]] /\ Fates' = [n \in Msg |-> Fates'[n]]
  BY DEF Fates
<1>7. CASE FateOf(m) = "stopping"
  <2>1. Fates' = [Fates EXCEPT ![m] = "working"]
    BY <1>3, <1>4, <1>6
  <2> QED BY <1>6, <1>7, <2>1 DEF StopIsForgotten
<1>8. CASE FateOf(m) \in {"waiting", "working"}
  <2>1. PromiseInv /\ PromiseInv'
    BY DEF SyncInv, PromiseInv
  <2>2. Fates' \in [Msg -> Promise!Fate] /\ Promise!OneAtATime(Fates')
    BY <2>1, FatesAreKept
  <2>3. \A n \in Msg : Fates'[n] = Fates[n] \/ Fates'[n] \in Promise!May[Fates[n]]
    BY <1>3, <1>4, <1>6, <1>8 DEF Promise!May
  <2>4. Promise!Next
    BY <2>2, <2>3 DEF Promise!Next, Fates
  <2> QED BY <2>4
<1> QED BY <1>5, <1>7, <1>8

\* With requests that execute their own run, the promise to a thread is kept but for one
\* thing: a request that starts late works on its message although it was stopped.
THEOREM SyncKeepsThePromise == SyncSpec => PromiseButForForgottenStops
<1>1. SyncInit => Promise!Init
  BY PromiseInit DEF SyncInit
<1>2. SyncInv /\ SyncInv' /\ [SyncNext]_syncVars => [Promise!Next \/ StopIsForgotten]_Fates
  <2> SUFFICES ASSUME SyncInv, SyncInv', [SyncNext]_syncVars
               PROVE  [Promise!Next \/ StopIsForgotten]_Fates
    OBVIOUS
  <2>1. CASE [Next]_ledgerVars
    BY <2>1, PromiseStep DEF SyncInv, PromiseInv
  <2>2. CASE UnclaimedStart
    BY <2>2, StartFate
  <2> QED BY <2>1, <2>2, SyncSteps DEF SyncInv
<1> QED BY <1>1, <1>2, SyncCorrect, PTL DEF SyncSpec, PromiseButForForgottenStops
=============================================================================
