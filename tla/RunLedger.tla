------------------------------ MODULE RunLedger ------------------------------
(***************************************************************************)
(* The run ledger: agent runs, the follow-up ("steering") mailbox and the  *)
(* inbound events of packages/delivery/src/file-delivery-store.ts.         *)
(*                                                                         *)
(* Every public method of the store runs inside one immediate transaction  *)
(* (mutate), so each is one action here, with the whole of its effect: the *)
(* private ...InState helpers it calls are operators over the new values.  *)
(* Who calls a method, and in which order, is left open: any worker may    *)
(* make any call at any moment.  RunWorkers closes that system.            *)
(*                                                                         *)
(* A message has a fixed thread, kind and source.  It becomes either a run *)
(* of its own, Turn(m), or a follow-up of the active run of its thread,    *)
(* which is applied live or becomes the run Continuation(m).               *)
(***************************************************************************)
EXTENDS Naturals, FiniteSets

CONSTANTS
  Msg,           \* messages, routine prompts, results: whatever asks for a turn
  Thread,        \* (platform, threadId, workspaceId, projectId) tuples
  Worker,        \* worker identities
  None,          \* "undefined"
  ThreadOf,      \* the thread a message belongs to
  ProjectOf,     \* the project a thread is bound to, or None
  KindOf,        \* which executor answers the message
  SourceOf,      \* which caller brings the message to the store
  SessionScope   \* OPENTAG_EXECUTOR_SESSION_SCOPE of the server

Kind == {"model", "thread-status", "routine-command", "memory-command"}
Source == {"message",   \* createAgentRunOrSteer by an ingress
           "result",    \* createAgentRunOrSteer by a delegated task or approval
           "routine",   \* createAgentRun by the routine or workflow scheduler
           "operator"}  \* enqueueAgentRunSteering by the admin API

ASSUME LedgerAssumption ==
  /\ ThreadOf \in [Msg -> Thread]
  /\ KindOf \in [Msg -> Kind]
  /\ SourceOf \in [Msg -> Source]
  /\ SessionScope \in {"thread", "project"}
  /\ None \notin Worker

VARIABLES
  runs,      \* agentRuns, by run id
  steering,  \* agentRunSteering, by the message it carries
  inbound,   \* inboundEvents: the status of a message's event
  clock      \* orders createdAt and nextSteeringSequence

ledgerVars == <<runs, steering, inbound, clock>>

-----------------------------------------------------------------------------
(* Records *)

RunId == {"turn", "steering"} \X Msg
Turn(m) == <<"turn", m>>
Continuation(m) == <<"steering", m>>

ActiveStatus == {"queued", "running", "cancel_requested"}
TerminalStatus == {"completed", "failed", "cancelled"}
RunStatus == ActiveStatus \cup TerminalStatus

RunRecord == [status    : RunStatus \cup {"absent"},
              workerId  : Worker \cup {None},
              started   : BOOLEAN,
              createdAt : Nat]

NoRun == [status |-> "absent", workerId |-> None, started |-> FALSE, createdAt |-> 0]

WaitingStatus == {"pending", "claimed"}
SteeringStatus == WaitingStatus \cup {"scheduled", "applied", "failed", "cancelled"}

SteeringRecord == [status      : SteeringStatus \cup {"absent"},
                   targetRunId : RunId \cup {None},
                   claimedBy   : Worker \cup {None},
                   sequence    : Nat]

NoSteering == [status |-> "absent", targetRunId |-> None, claimedBy |-> None, sequence |-> 0]

InboundStatus == {"received", "processed", "ignored", "failed"}

-----------------------------------------------------------------------------
(* What the store reads off a run *)

RunThread(r) == ThreadOf[r[2]]

\* The three executors that answer without a model skip the runtime queue.
ZeroModel(r) == KindOf[r[2]] # "model"

\* runtimeScope as createAgentRunInState leaves it: only an ingress passes one,
\* every other caller (a continuation too) gets the default.
RuntimeScope(r) ==
  CASE r[1] = "turn" /\ SourceOf[r[2]] = "message" /\ ZeroModel(r)  -> "thread"
    [] r[1] = "turn" /\ SourceOf[r[2]] = "message" /\ ~ZeroModel(r) -> SessionScope
    [] OTHER -> IF ProjectOf[RunThread(r)] = None THEN "thread" ELSE "project"

Runtime(r) == IF RuntimeScope(r) = "project" /\ ProjectOf[RunThread(r)] # None
                THEN <<"project", ProjectOf[RunThread(r)]>>
                ELSE <<"thread", RunThread(r)>>

SameRuntime(q, r) == Runtime(q) = Runtime(r)

AllowLive(m) == KindOf[m] = "model" /\ SourceOf[m] # "result"

Exists(rs, r) == rs[r].status # "absent"
Active(rs, r) == rs[r].status \in ActiveStatus
Terminal(rs, r) == rs[r].status \in TerminalStatus
ActiveIn(rs, t) == {r \in RunId : RunThread(r) = t /\ Active(rs, r)}

\* Executing: the run occupies its runtime.
Executing(rs, r) == rs[r].status \in {"running", "cancel_requested"}

\* activeRunForThread: a running one first, then the oldest.
ActiveRunForThread(r) ==
  LET A == ActiveIn(runs, RunThread(r))
      B == {q \in A : runs[q].status = "running"}
      C == IF B = {} THEN A ELSE B
  IN  r \in C /\ \A q \in C : runs[r].createdAt <= runs[q].createdAt

NewRun == [NoRun EXCEPT !.status = "queued", !.createdAt = clock]

-----------------------------------------------------------------------------
(* What happens to the mailbox and to the inbound events when runs end *)

\* Mutant: the follow-up copies the status of its run.
SteeringOutcomeCopied == [completed |-> "completed", failed |-> "failed", cancelled |-> "cancelled"]
SteeringOutcome == [completed |-> "applied", failed |-> "failed", cancelled |-> "cancelled"]
InboundOutcome == [completed |-> "processed", failed |-> "failed", cancelled |-> "ignored"]

\* Mutant: a continuation that ends leaves its follow-up scheduled.
FinishContinuationForgotten(rs, st, D) == st

\* finishContinuationSteeringInState for the runs D that just ended.
FinishContinuation(rs, st, D) ==
  [m \in Msg |-> IF Continuation(m) \in D
                   THEN [st[m] EXCEPT !.status = SteeringOutcome[rs[Continuation(m)].status]]
                   ELSE st[m]]

\* finishRunInboundInState, and the inbound half of the operator above.
FinishInbound(rs, ib, D) ==
  [m \in Msg |->
     CASE ib[m] # "absent" /\ Turn(m) \in D -> InboundOutcome[rs[Turn(m)].status]
       [] ib[m] # "absent" /\ Continuation(m) \in D -> InboundOutcome[rs[Continuation(m)].status]
       [] OTHER -> ib[m]]

\* The follow-ups of thread t that wait behind a run that has ended.
Stranded(rs, st, t) ==
  {m \in Msg : /\ ThreadOf[m] = t
               /\ st[m].status \in WaitingStatus
               /\ Terminal(rs, st[m].targetRunId)}

NextSteeringUnclaimed(rs, st, t) ==
  {m \in Stranded(rs, st, t) :
     /\ st[m].status = "pending"
     /\ ActiveIn(rs, t) = {}
     /\ \A n \in Stranded(rs, st, t) : st[m].sequence <= st[n].sequence}

\* scheduleNextSteeringInState: the follow-up that becomes the next turn of t.
NextSteering(rs, st, t) ==
  {m \in Stranded(rs, st, t) :
     /\ ActiveIn(rs, t) = {}
     /\ \A n \in Stranded(rs, st, t) : st[m].sequence <= st[n].sequence}

\* The next turns of the threads of the runs D.
NextTurns(rs, st, D) == {m \in Msg : \E r \in D : m \in NextSteering(rs, st, RunThread(r))}

Scheduled(rec) == [rec EXCEPT !.status = "scheduled", !.claimedBy = None]
Unclaimed(rec) == [rec EXCEPT !.status = "pending", !.claimedBy = None]

\* The three of them, after the runs D were given the statuses in rs; st0 is the
\* mailbox by then.
Settle(rs, st0, D) ==
  LET st   == FinishContinuation(rs, st0, D)
      next == NextTurns(rs, st, D)
  IN  /\ runs' = [r \in RunId |-> IF r[1] = "steering" /\ r[2] \in next THEN NewRun ELSE rs[r]]
      /\ steering' = [m \in Msg |-> IF m \in next THEN Scheduled(st[m]) ELSE st[m]]
      /\ inbound' = FinishInbound(rs, inbound, D)
      /\ clock' = IF next = {} THEN clock ELSE clock + 1

\* Claims on the follow-ups of the runs R go back to the mailbox.
ReleaseClaims(R) ==
  [m \in Msg |-> IF steering[m].targetRunId \in R /\ steering[m].status = "claimed"
                   THEN Unclaimed(steering[m]) ELSE steering[m]]

-----------------------------------------------------------------------------
(* Arrival *)

Init ==
  /\ runs = [r \in RunId |-> NoRun]
  /\ steering = [m \in Msg |-> NoSteering]
  /\ inbound = [m \in Msg |-> "absent"]
  /\ clock = 0

\* A redelivered event only bumps a counter: it is a stuttering step.
RecordInboundEvent(m) ==
  /\ SourceOf[m] \in {"message", "operator"}
  /\ inbound[m] = "absent"
  /\ inbound' = [inbound EXCEPT ![m] = "received"]
  /\ UNCHANGED <<runs, steering, clock>>

CreateRunInState(m) ==
  /\ runs' = [runs EXCEPT ![Turn(m)] = NewRun]
  /\ clock' = clock + 1
  /\ UNCHANGED <<steering, inbound>>

EnqueueSteeringInState(m, r) ==
  /\ steering' = [steering EXCEPT ![m] = [status |-> "pending", targetRunId |-> r,
                                          claimedBy |-> None, sequence |-> clock]]
  /\ clock' = clock + 1
  /\ UNCHANGED <<runs, inbound>>

\* Mutant: a redelivered follow-up is looked up among the runs only.
UnknownRun(m) == ~Exists(runs, Turn(m))

\* Both lookups that make a second submission of m return the first result.
Unknown(m) == ~Exists(runs, Turn(m)) /\ steering[m].status = "absent"

CreateAgentRun(m) ==
  /\ SourceOf[m] = "routine"
  /\ ~Exists(runs, Turn(m))
  /\ CreateRunInState(m)

\* forceNewRun is set for the thread-status command alone.
CreateAgentRunOrSteer(m) ==
  /\ SourceOf[m] \in {"message", "result"}
  /\ SourceOf[m] = "message" => inbound[m] # "absent"
  /\ Unknown(m)
  /\ IF KindOf[m] = "thread-status" \/ ActiveIn(runs, ThreadOf[m]) = {}
       THEN CreateRunInState(m)
       ELSE \E r \in ActiveIn(runs, ThreadOf[m]) :
              ActiveRunForThread(r) /\ EnqueueSteeringInState(m, r)

\* POST /v1/runs/:id/steer records the event first; r may be any active run.
EnqueueAgentRunSteering(m, r) ==
  /\ SourceOf[m] = "operator"
  /\ inbound[m] = "received"
  /\ steering[m].status = "absent"
  /\ r \in ActiveIn(runs, ThreadOf[m])
  /\ EnqueueSteeringInState(m, r)

-----------------------------------------------------------------------------
(* Claims and leases *)

\* Mutant: a run that is being cancelled no longer occupies its runtime.
ClaimableBesideCancelled(r) ==
  /\ runs[r].status = "queued"
  /\ \/ ZeroModel(r)
     \/ ~\E q \in RunId \ {r} : SameRuntime(q, r) /\ runs[q].status = "running"

Claimable(r) ==
  /\ runs[r].status = "queued"
  /\ \/ ZeroModel(r)
     \/ ~\E q \in RunId \ {r} : SameRuntime(q, r) /\ Executing(runs, q)

\* claimQueuedAgentRuns with its default limit of one: the oldest claimable run.
ClaimQueuedRun(r, w) ==
  /\ Claimable(r)
  /\ \A q \in RunId : Claimable(q) => runs[r].createdAt <= runs[q].createdAt
  /\ runs' = [runs EXCEPT ![r].status = "running", ![r].workerId = w, ![r].started = TRUE]
  /\ UNCHANGED <<steering, inbound, clock>>

ClaimQueuedAgentRuns(w) == \E r \in RunId : ClaimQueuedRun(r, w)

\* The test renewAgentRunLease makes; what it writes, updatedAt, is not modelled.
RenewAgentRunLease(r, w) == runs[r].status = "running" /\ runs[r].workerId = w

Released(rec) == [rec EXCEPT !.status = "queued", !.workerId = None]

\* S: the runs whose updatedAt is older than the cutoff.  How far a run's last
\* renewal lies behind the recovery is not bounded, so S is any set of them.
RecoverStaleAgentRuns(S) ==
  LET Q == {r \in S : runs[r].status = "running"}
      D == {r \in S : runs[r].status = "cancel_requested"}
  IN  /\ Q \cup D # {}
      /\ Settle([r \in RunId |-> CASE r \in Q -> Released(runs[r])
                                   [] r \in D -> [runs[r] EXCEPT !.status = "cancelled"]
                                   [] OTHER   -> runs[r]],
                ReleaseClaims(Q), D)

\* Mutant: the claims on follow-ups stay with the worker that gives the run back.
RequeueKeepingClaims(r, w) ==
  /\ RenewAgentRunLease(r, w)
  /\ runs' = [runs EXCEPT ![r] = Released(@)]
  /\ UNCHANGED <<steering, inbound, clock>>

\* A worker gives back what it still owns; otherwise nothing happens.
RequeueAgentRun(r, w) ==
  /\ RenewAgentRunLease(r, w)
  /\ runs' = [runs EXCEPT ![r] = Released(@)]
  /\ steering' = ReleaseClaims({r})
  /\ UNCHANGED <<inbound, clock>>

-----------------------------------------------------------------------------
(* The live mailbox *)

LivePending(r) ==
  {m \in Msg : steering[m].targetRunId = r /\ steering[m].status = "pending" /\ AllowLive(m)}

\* Any worker may claim for any running run: the owner is not compared.
ClaimSteering(m, r, w) ==
  /\ runs[r].status = "running"
  /\ m \in LivePending(r)
  /\ \A n \in LivePending(r) : steering[m].sequence <= steering[n].sequence
  /\ steering' = [steering EXCEPT ![m].status = "claimed", ![m].claimedBy = w]
  /\ UNCHANGED <<runs, inbound, clock>>

ClaimNextAgentRunSteering(r, w) == \E m \in Msg : ClaimSteering(m, r, w)

MarkAgentRunSteeringApplied(m) ==
  /\ steering[m].status = "claimed"
  /\ steering' = [steering EXCEPT ![m].status = "applied"]
  /\ inbound' = IF inbound[m] = "absent" THEN inbound ELSE [inbound EXCEPT ![m] = "processed"]
  /\ UNCHANGED <<runs, clock>>

-----------------------------------------------------------------------------
(* Outcomes: no caller proves it owns the run *)

UpdateAgentRunRacing(r, s) ==
  /\ Exists(runs, r)
  /\ Terminal(runs, r) => runs[r].status = s
  /\ Settle([runs EXCEPT ![r].status = s], steering, {r})

\* updateAgentRun to a terminal status: "cancellation wins" over a completion,
\* and a terminal run only accepts the status it already has.
UpdateAgentRun(r, s) ==
  LET status == IF runs[r].status = "cancel_requested" /\ s = "completed" THEN "cancelled" ELSE s
  IN  /\ Exists(runs, r)
      /\ Terminal(runs, r) => runs[r].status = s
      /\ Settle([runs EXCEPT ![r].status = status], steering, {r})

MarkAgentRunCompleted(r) == UpdateAgentRun(r, "completed")
MarkAgentRunFailed(r) == UpdateAgentRun(r, "failed")
MarkAgentRunCancelled(r) == UpdateAgentRun(r, "cancelled")

\* The separate writes that callers make on the event of a message: only in the
\* closed system, where it is known who makes them.
MarkInboundEvent(m, s) ==
  /\ inbound[m] # "absent"
  /\ inbound' = [inbound EXCEPT ![m] = s]
  /\ UNCHANGED <<runs, steering, clock>>

-----------------------------------------------------------------------------
(* Stop, take over, cancel *)

RequestAgentRunCancel(r) ==
  /\ Active(runs, r)
  /\ IF runs[r].status = "queued"
       THEN Settle([runs EXCEPT ![r].status = "cancelled"], steering, {r})
       ELSE /\ runs' = [runs EXCEPT ![r].status = "cancel_requested"]
            /\ UNCHANGED <<steering, inbound, clock>>

\* The common part of the two callers below, for the runs R of one thread and
\* the follow-ups F: what is queued ends at once and schedules nothing.
CancelActive(R, F) ==
  LET Q  == {r \in R : runs[r].status = "queued"}
      rs == [r \in RunId |-> CASE r \in Q -> [runs[r] EXCEPT !.status = "cancelled"]
                               [] r \in R \ Q -> [runs[r] EXCEPT !.status = "cancel_requested"]
                               [] OTHER -> runs[r]]
      C  == {m \in F : steering[m].status \in WaitingStatus}
  IN  /\ R \cup C # {}
      /\ runs' = rs
      /\ steering' = FinishContinuation(rs, [m \in Msg |-> IF m \in C
                                                THEN [steering[m] EXCEPT !.status = "cancelled"]
                                                ELSE steering[m]], Q)
      /\ inbound' = FinishInbound(rs, [m \in Msg |-> IF m \in C /\ inbound[m] # "absent"
                                                        THEN "ignored" ELSE inbound[m]], Q)
      /\ UNCHANGED clock

\* "/stop" in a thread: every active run and every waiting follow-up of it.
StopThread(t) ==
  CancelActive(ActiveIn(runs, t), {m \in Msg : ThreadOf[m] = t})

\* Stop or Take over on a progress card, which exists once the run has started: that
\* run, and the follow-ups addressed to it.  The handler looks at the run's status
\* before the transaction, so the run may have ended by then.
StopRun(r) ==
  /\ runs[r].started
  /\ CancelActive({r} \cap ActiveIn(runs, RunThread(r)),
                  {m \in Msg : steering[m].targetRunId = r})

-----------------------------------------------------------------------------
Arrive ==
  \E m \in Msg :
    \/ RecordInboundEvent(m)
    \/ CreateAgentRun(m)
    \/ CreateAgentRunOrSteer(m)
    \/ \E r \in RunId : EnqueueAgentRunSteering(m, r)

Work ==
  \/ \E w \in Worker :
       \/ ClaimQueuedAgentRuns(w)
       \/ \E r \in RunId : RequeueAgentRun(r, w) \/ ClaimNextAgentRunSteering(r, w)
  \/ \E m \in Msg : MarkAgentRunSteeringApplied(m)
  \/ \E r \in RunId :
       MarkAgentRunCompleted(r) \/ MarkAgentRunFailed(r) \/ MarkAgentRunCancelled(r)

Control ==
  \/ \E S \in SUBSET RunId : RecoverStaleAgentRuns(S)
  \/ \E r \in RunId : RequestAgentRunCancel(r) \/ StopRun(r)
  \/ \E t \in Thread : StopThread(t)

Next == Arrive \/ Work \/ Control

Spec == Init /\ [][Next]_ledgerVars

-----------------------------------------------------------------------------
(* Properties *)

\* Every record of the store has the shape the types of the store declare.
TypeOK ==
  /\ runs \in [RunId -> RunRecord]
  /\ steering \in [Msg -> SteeringRecord]
  /\ inbound \in [Msg -> InboundStatus \cup {"absent"}]
  /\ clock \in Nat

\* Two model runs never occupy one project runtime (or one thread) together:
\* claimQueuedAgentRuns is the only way to start one, and only a zero-model
\* command may start beside another run.
RuntimeExclusive ==
  \A q, r \in RunId :
    /\ SameRuntime(q, r) /\ Executing(runs, q) /\ Executing(runs, r)
    /\ ~ZeroModel(q) /\ ~ZeroModel(r)
    => q = r

\* Runs that come from the conversation of a thread, as opposed to the schedulers'
\* runs and to the thread-status command, which are created unconditionally.
Conversational(r) == SourceOf[r[2]] # "routine" /\ KindOf[r[2]] # "thread-status"

\* Competing ingress events cannot open parallel work in one thread: of the runs
\* of its conversation at most one is active, whatever is scheduled beside them.
OneTurnPerThread ==
  \A q, r \in RunId :
    /\ Active(runs, q) /\ Active(runs, r) /\ RunThread(q) = RunThread(r)
    /\ Conversational(q) /\ Conversational(r)
    => q = r

\* A follow-up and its continuation tell one story: the continuation exists exactly
\* from the moment the follow-up is scheduled, and when it ends the follow-up has
\* its outcome.  So no follow-up is both applied live and answered by a turn.
ContinuationAgrees ==
  \A m \in Msg :
    LET c == Continuation(m) IN
    /\ steering[m].status \in WaitingStatus \cup {"absent"} => ~Exists(runs, c)
    /\ steering[m].status = "scheduled" <=> Active(runs, c)
    /\ Terminal(runs, c) => steering[m].status = SteeringOutcome[runs[c].status]

\* A message is either a turn of its own or a follow-up, never both.
AnsweredOnce == \A m \in Msg : Exists(runs, Turn(m)) => steering[m].status = "absent"

\* A live claim is only held against a run that has not been given back: requeue
\* and stale recovery put every claim back in the mailbox.
ClaimsFollowTheRun ==
  \A m \in Msg : steering[m].status = "claimed" => runs[steering[m].targetRunId].status # "queued"

\* A run that ended stays as it ended, through late answers of other workers.
OutcomeIsFinal == [][\A r \in RunId : Terminal(runs, r) => runs'[r].status = runs[r].status]_ledgerVars

\* A requested cancellation is never lost to a completion, a requeue or a recovery.
CancelIsFinal ==
  [][\A r \in RunId : runs[r].status = "cancel_requested" =>
       runs'[r].status \in {"cancel_requested", "cancelled", "failed"}]_ledgerVars

\* Whoever ends the turn that occupied a thread hands the thread over: afterwards
\* some run of the thread is active or no follow-up waits behind an ended run.
TurnHandsOver ==
  [][\A r \in RunId :
       Executing(runs, r) /\ Terminal(runs', r) =>
         \/ ActiveIn(runs', RunThread(r)) # {}
         \/ Stranded(runs', steering', RunThread(r)) = {}]_ledgerVars

-----------------------------------------------------------------------------
(* Refinement: the fate of a message, read off its run or its follow-up *)

RunFate == [queued |-> "waiting", running |-> "working", cancel_requested |-> "stopping",
            completed |-> "answered", failed |-> "failed", cancelled |-> "dropped"]
SteeringFate == [absent |-> "unknown", pending |-> "waiting", claimed |-> "waiting",
                 applied |-> "answered", failed |-> "failed", cancelled |-> "dropped"]

FateOf(m) ==
  CASE Exists(runs, Turn(m)) -> RunFate[runs[Turn(m)].status]
    [] Exists(runs, Continuation(m)) -> RunFate[runs[Continuation(m)].status]
    [] OTHER -> SteeringFate[steering[m].status]

Promise == INSTANCE Turns WITH
  fate <- [m \in Msg |-> FateOf(m)],
  InTurn <- [m \in Msg |-> Conversational(Turn(m))]

\* The ledger implements Turns: each message has one fate, an outcome is final, a
\* stopped message is never answered, and a conversation takes one turn at a time.
KeepsThePromise == Promise!Spec

=============================================================================
