----------------------------- MODULE RunWorkers -----------------------------
(***************************************************************************)
(* The processes that execute runs, closed over the run ledger.            *)
(*                                                                         *)
(* A worker (apps/worker, or the server's inline worker) claims one run,   *)
(* executes it, checks its lease, publishes the answer and settles the run *)
(* (packages/runtime-host/src/index.ts, runAgentWorkerPass and             *)
(* executeAgentRun; packages/core/src/runtime.ts, handleMessage).  Beside  *)
(* it a monitor polls the ledger (run-control.ts).  Every await between    *)
(* two store calls is a point where other workers, operators and ingresses *)
(* act.  Workers shut down gracefully, crash, or are taken for dead while  *)
(* they live: a recovery may declare any run stale.                        *)
(***************************************************************************)
EXTENDS RunLedger

CONSTANTS
  MaxCrashes,      \* bound: processes killed without notice
  MaxShutdowns,    \* bound: SIGTERMs
  MaxRecoveries,   \* bound: stale recoveries, by a starting process or an operator
  MaxStops,        \* bound: stops, take overs and cancels
  ProviderSession, \* whether a second attempt resumes the provider's own session
  ProgressThrows   \* whether a failed progress update ends the attempt: the surfaces of
                   \* Telegram, Slack and GitHub throw, the one of Lark does not

VARIABLES
  host,     \* what each worker process is doing
  answers,  \* the answers published, each with the follow-ups its author knew (a
            \* routine that reports to nobody only keeps its result)
  budget    \* how often each bounded event has happened

vars == <<runs, steering, inbound, clock, host, answers, budget>>

Step == {"idle",
         "claimed",     \* claimQueuedAgentRuns has returned the run
         "executing",   \* inside executor.run
         "answered",    \* result in hand, first assertActive passed
         "publishing",  \* last check passed, or a command that makes none
         "published",   \* sendMessage has returned
         "settling",    \* the event is marked processed
         "failing",     \* in the catch clause
         "cancelling",  \* requeue found a requested cancellation
         "rejecting"}   \* the run is ended, the event is still to be marked failed

Abort == {"none", "cancel", "lost", "requeue"}

Idle == [step |-> "idle", run |-> None, abort |-> "none",
         received |-> {}, context |-> {}, stopping |-> FALSE]

HostRecord == [step     : Step,
               run      : RunId \cup {None},
               abort    : Abort,           \* reason of the AbortController, the first one stays
               received : SUBSET Msg,      \* follow-ups taken from the mailbox, not acknowledged
               context  : SUBSET Msg,      \* follow-ups this attempt's executor knows
               stopping : BOOLEAN]         \* beginShutdown was called

Event == {"crash", "shutdown", "recovery", "stop"}
MaxOf == [crash |-> MaxCrashes, shutdown |-> MaxShutdowns,
          recovery |-> MaxRecoveries, stop |-> MaxStops]

WorkersInit ==
  /\ Init
  /\ host = [w \in Worker |-> Idle]
  /\ answers = {}
  /\ budget = [e \in Event |-> 0]

Spend(e) == budget[e] < MaxOf[e] /\ budget' = [budget EXCEPT ![e] = @ + 1]

At(w, s) == host[w].step = s
Goto(w, s) == host' = [host EXCEPT ![w].step = s]
\* updateAgentRun as its callers see it: nothing happens to a run that has ended
\* otherwise.
Report(r, s) ==
  IF Terminal(runs, r) /\ runs[r].status # s THEN UNCHANGED ledgerVars ELSE UpdateAgentRun(r, s)

\* The process is free for the next pass; a shutdown in progress stays known.
Finished(w) == [host EXCEPT ![w] = [Idle EXCEPT !.stopping = host[w].stopping]]

-----------------------------------------------------------------------------
(* Claim and start *)

ClaimPass(w) ==
  /\ At(w, "idle") /\ ~host[w].stopping
  /\ \E r \in RunId :
       /\ ClaimQueuedRun(r, w)
       /\ host' = [host EXCEPT ![w].step = "claimed", ![w].run = r]
  /\ UNCHANGED <<answers, budget>>

\* worker_shutdown_before_execution: the run goes back, if it is still ours and
\* still running; nothing else is done with it.
ReleaseClaimed(w) ==
  /\ At(w, "claimed") /\ host[w].stopping
  /\ IF RenewAgentRunLease(host[w].run, w)
       THEN RequeueAgentRun(host[w].run, w)
       ELSE UNCHANGED ledgerVars
  /\ host' = Finished(w)
  /\ UNCHANGED <<answers, budget>>

\* The follow-ups that were reported as applied to run r while it ran.
AppliedLive(r) ==
  {m \in Msg : /\ steering[m].targetRunId = r
               /\ steering[m].status = "applied"
               /\ ~Exists(runs, Continuation(m))}

\* Mutant: the session of the first attempt is not recorded, so a second starts anew.
RememberedNothing(r) == {}

\* What the provider still knows of an earlier attempt: with its session, what was
\* acknowledged; without, nothing, since loadThreadTranscript leaves out the run
\* itself and everything received after the run was created.
Remembered(r) == IF ProviderSession THEN AppliedLive(r) ELSE {}

\* A command needs no executor, no monitor and no lease check.
BeginRun(w) ==
  /\ At(w, "claimed") /\ ~host[w].stopping
  /\ host' = IF ZeroModel(host[w].run)
               THEN [host EXCEPT ![w].step = "publishing"]
               ELSE [host EXCEPT ![w].step = "executing", ![w].context = Remembered(host[w].run)]
  /\ UNCHANGED <<ledgerVars, answers, budget>>

\* enforceRunBudget denies the run; the exception leaves the event as it is.
DenyBudget(w) ==
  LET r == host[w].run IN
  /\ At(w, "claimed") /\ ~host[w].stopping /\ ~ZeroModel(r)
  /\ Report(r, IF SourceOf[r[2]] = "routine" THEN "failed" ELSE "cancelled")
  /\ host' = Finished(w)
  /\ UNCHANGED <<answers, budget>>

-----------------------------------------------------------------------------
(* The monitor and the lease checks *)

Monitored(w) == host[w].step \in {"executing", "answered", "publishing", "published", "settling"}
                /\ ~ZeroModel(host[w].run)

\* What a look at the run tells its executing worker.
Verdict(w) ==
  LET run == runs[host[w].run] IN
  CASE run.status \in {"cancel_requested", "cancelled"} -> "cancel"
    [] run.status = "running" /\ run.workerId = w -> "none"
    [] OTHER -> "lost"

Monitor(w) ==
  /\ Monitored(w) /\ host[w].abort = "none"
  /\ Verdict(w) # "none"
  /\ host' = [host EXCEPT ![w].abort = Verdict(w)]
  /\ UNCHANGED <<ledgerVars, answers, budget>>

\* assertActive: passes to step s, or aborts and throws.
AssertActive(w, s) ==
  LET abort == IF host[w].abort # "none" THEN host[w].abort ELSE Verdict(w) IN
  host' = [host EXCEPT ![w].abort = abort, ![w].step = IF abort = "none" THEN s ELSE "failing"]

-----------------------------------------------------------------------------
(* The executor *)

ReceiveFollowUp(w) ==
  /\ At(w, "executing") /\ host[w].abort = "none"
  /\ \E m \in Msg :
       /\ ClaimSteering(m, host[w].run, w)
       /\ host' = [host EXCEPT ![w].received = @ \cup {m}]
  /\ UNCHANGED <<answers, budget>>

\* The executor has taken the follow-up in; the acknowledgement throws when the
\* claim was taken back in the meantime.
AcknowledgeFollowUp(w) ==
  /\ At(w, "executing")
  /\ \E m \in host[w].received :
       \/ /\ steering[m].status \in {"claimed", "applied"}
          /\ IF steering[m].status = "claimed" THEN MarkAgentRunSteeringApplied(m)
                                               ELSE UNCHANGED ledgerVars
          /\ host' = [host EXCEPT ![w].received = @ \ {m}, ![w].context = @ \cup {m}]
       \/ /\ steering[m].status \notin {"claimed", "applied"}
          /\ Goto(w, "failing")
          /\ UNCHANGED ledgerVars
  /\ UNCHANGED <<answers, budget>>

ExecutorReturns(w) ==
  /\ At(w, "executing")
  /\ AssertActive(w, "answered")
  /\ UNCHANGED <<ledgerVars, answers, budget>>

ExecutorFails(w) ==
  /\ At(w, "executing")
  /\ Goto(w, "failing")
  /\ UNCHANGED <<ledgerVars, answers, budget>>

-----------------------------------------------------------------------------
(* Publish and settle *)

LastCheck(w) ==
  /\ At(w, "answered")
  /\ AssertActive(w, "publishing")
  /\ UNCHANGED <<ledgerVars, answers, budget>>

Publish(w) ==
  /\ At(w, "publishing")
  /\ answers' = answers \cup {[run |-> host[w].run, worker |-> w, knew |-> host[w].context,
                               nth |-> Cardinality({a \in answers : a.run = host[w].run})]}
  /\ Goto(w, "published")
  /\ UNCHANGED <<ledgerVars, budget>>

\* Mutant: a message that could not be sent counts as sent.
PublishFailsQuietly(w) ==
  /\ At(w, "publishing")
  /\ Goto(w, "published")
  /\ UNCHANGED <<ledgerVars, answers, budget>>

PublishFails(w) ==
  /\ At(w, "publishing")
  /\ Goto(w, "failing")
  /\ UNCHANGED <<ledgerVars, answers, budget>>

\* progress.update before the last check, progress.complete after the answer.
ProgressFails(w) ==
  /\ ProgressThrows
  /\ At(w, "answered") \/ At(w, "published")
  /\ ~ZeroModel(host[w].run)
  /\ Goto(w, "failing")
  /\ UNCHANGED <<ledgerVars, answers, budget>>

MarkEvent(w, s) ==
  LET m == host[w].run[2] IN
  IF inbound[m] = "absent" THEN UNCHANGED ledgerVars ELSE MarkInboundEvent(m, s)

MarkRunInboundProcessed(w) ==
  /\ At(w, "published")
  /\ MarkEvent(w, "processed")
  /\ Goto(w, "settling")
  /\ UNCHANGED <<answers, budget>>

Complete(w) ==
  /\ At(w, "settling")
  /\ Report(host[w].run, "completed")
  /\ host' = Finished(w)
  /\ UNCHANGED <<answers, budget>>

-----------------------------------------------------------------------------
(* The catch clause of executeAgentRun *)

\* "Another worker owns the durable lease; this process must not mutate it."
AbandonLost(w) ==
  /\ At(w, "failing") /\ host[w].abort = "lost"
  /\ host' = Finished(w)
  /\ UNCHANGED <<ledgerVars, answers, budget>>

\* Mutant: the run of a worker that shuts down is left to the next recovery.
GiveBackToRecovery(w) ==
  /\ At(w, "failing") /\ host[w].abort = "requeue"
  /\ host' = Finished(w)
  /\ UNCHANGED <<ledgerVars, answers, budget>>

GiveBack(w) ==
  LET r == host[w].run IN
  /\ At(w, "failing") /\ host[w].abort = "requeue"
  /\ IF RenewAgentRunLease(r, w)
       THEN RequeueAgentRun(r, w) /\ host' = Finished(w)
       ELSE /\ UNCHANGED ledgerVars
            /\ IF runs[r].status = "cancel_requested" THEN Goto(w, "cancelling")
                                                      ELSE host' = Finished(w)
  /\ UNCHANGED <<answers, budget>>

SettleFailure(w) ==
  /\ \/ At(w, "cancelling") /\ Report(host[w].run, "cancelled")
     \/ At(w, "failing") /\ host[w].abort = "cancel" /\ Report(host[w].run, "cancelled")
     \/ At(w, "failing") /\ host[w].abort = "none" /\ Report(host[w].run, "failed")
  /\ Goto(w, "rejecting")
  /\ UNCHANGED <<answers, budget>>

MarkRunInboundFailed(w) ==
  /\ At(w, "rejecting")
  /\ MarkEvent(w, "failed")
  /\ host' = Finished(w)
  /\ UNCHANGED <<answers, budget>>

-----------------------------------------------------------------------------
(* The environment *)

\* beginShutdown aborts every run that has a controller.
BeginShutdown(w) ==
  /\ ~host[w].stopping
  /\ Spend("shutdown")
  /\ host' = [host EXCEPT ![w].stopping = TRUE,
                          ![w].abort = IF Monitored(w) /\ @ = "none" THEN "requeue" ELSE @]
  /\ UNCHANGED <<ledgerVars, answers>>

\* waitForIdle, exit, and the supervisor starts the process again.
Restart(w) ==
  /\ At(w, "idle") /\ host[w].stopping
  /\ host' = [host EXCEPT ![w] = Idle]
  /\ UNCHANGED <<ledgerVars, answers, budget>>

Crash(w) ==
  /\ ~At(w, "idle")
  /\ Spend("crash")
  /\ host' = [host EXCEPT ![w] = Idle]
  /\ UNCHANGED <<ledgerVars, answers>>

Recover ==
  /\ Spend("recovery")
  /\ \E S \in SUBSET {r \in RunId : Executing(runs, r)} : RecoverStaleAgentRuns(S)
  /\ UNCHANGED <<host, answers>>

Ingress ==
  /\ Arrive
  /\ UNCHANGED <<host, answers, budget>>

Stop ==
  /\ Spend("stop")
  /\ \/ \E r \in RunId : RequestAgentRunCancel(r) \/ StopRun(r)
     \/ \E t \in Thread : StopThread(t)
  /\ UNCHANGED <<host, answers>>

Progress(w) ==
  \/ ClaimPass(w) \/ ReleaseClaimed(w) \/ BeginRun(w)
  \/ ExecutorReturns(w) \/ LastCheck(w)
  \/ Publish(w) \/ MarkRunInboundProcessed(w) \/ Complete(w)
  \/ AbandonLost(w) \/ GiveBack(w) \/ SettleFailure(w) \/ MarkRunInboundFailed(w)
  \/ Restart(w)

WorkersNext ==
  \/ \E w \in Worker :
       \/ Progress(w)
       \/ DenyBudget(w) \/ Monitor(w)
       \/ ReceiveFollowUp(w) \/ AcknowledgeFollowUp(w)
       \/ ExecutorFails(w) \/ PublishFails(w) \/ ProgressFails(w)
       \/ BeginShutdown(w) \/ Crash(w)
  \/ Recover \/ Ingress \/ Stop

WorkersSpec == WorkersInit /\ [][WorkersNext]_vars

\* A worker process keeps running: its loop claims again and again, every call of
\* the store returns, and an executor ends (it has a timeout).  Nothing is assumed
\* of ingresses, operators, crashes or recoveries.
FairWorkers == WorkersSpec /\ \A w \in Worker : WF_vars(Progress(w))

-----------------------------------------------------------------------------
(* Properties *)

\* The processes are in one of the states described above.
WorkersTypeOK ==
  /\ TypeOK
  /\ host \in [Worker -> HostRecord]
  /\ answers \subseteq [run : RunId, worker : Worker, knew : SUBSET Msg, nth : Nat]
  /\ budget \in [Event -> Nat]

\* A run that is marked running is in the hands of the worker named on it, but for
\* one run per crash: neither a shutdown, a stop, a failing executor nor a recovery
\* that came too early leaves a run running that nobody executes.
RunningHasExecutor ==
  Cardinality({r \in RunId : /\ runs[r].status = "running"
                             /\ ~\E w \in Worker : runs[r].workerId = w /\ host[w].run = r})
    <= budget["crash"]

\* What the ledger calls done was done, through crashes and recoveries: a completed
\* run has an answer, and so has a processed event, unless a turn took it in live.
DoneWasAnswered ==
  /\ \A r \in RunId : runs[r].status = "completed" => \E a \in answers : a.run = r
  /\ \A m \in Msg : inbound[m] = "processed" =>
       \/ \E a \in answers : a.run \in {Turn(m), Continuation(m)}
       \/ steering[m].status = "applied"

\* Nor does a worker execute a run that another worker executes, crashes or not,
\* until a recovery takes a run from a worker that lives.
NoTwoExecutors ==
  budget["recovery"] = 0 =>
    \A v, w \in Worker : v # w /\ host[v].run # None => host[v].run # host[w].run

\* Both together: who executes a run, and that it is one.
OneExecutorPerRun == RunningHasExecutor /\ NoTwoExecutors

\* With the provider's session a restart loses no follow-up: while no lease is lost,
\* every answer knows the follow-ups that were reported as applied to its run.
SessionKeepsFollowUps ==
  [][ProviderSession /\ budget["recovery"] = 0 =>
       \A a \in answers' \ answers : AppliedLive(a.run) \subseteq a.knew]_vars

Settled(m) == \/ Terminal(runs, Turn(m))
              \/ steering[m].status \in {"applied", "failed", "cancelled"}

\* Every message the store accepted gets its outcome.
EveryMessageSettles == \A m \in Msg : (~Unknown(m)) ~> Settled(m)

=============================================================================
