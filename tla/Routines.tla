------------------------------- MODULE Routines -------------------------------
(***************************************************************************)
(* Standing work.  What is due is staged as an execution, a scheduler        *)
(* claims it and makes an agent run of it, the run's outcome is copied back, *)
(* and consecutive failures are announced.  The server and the scheduler     *)
(* process tick side by side, people edit, pause and delete, hosts die.      *)
(*                                                                         *)
(* A tick reconciles, announces, claims and enqueues, and then reconciles    *)
(* and announces again: with the next tick, a cycle of the three.            *)
(*                                                                         *)
(* Sources: packages/routines/src/file-routine-store.ts and schedule.ts,     *)
(* packages/runtime-host/src/routine-scheduler.ts.                           *)
(***************************************************************************)
EXTENDS Hosts, Integers, FiniteSets

CONSTANTS RoutineHost,        \* the hosts that run a scheduler
          LastExecution,      \* executions are 1 .. LastExecution, as created
          Every,              \* minutes between two runs of a repeating routine
          LastMoment,         \* where the clock stops
          FailureThreshold, NoticeAttempts,
          MaxTroubles         \* edits and crashes

ASSUME RoutineBounds == RoutineHost \subseteq Host /\ LastExecution \in Nat /\ LastMoment \in Nat
ASSUME EveryIsPositive == Every \in Nat \ {0}
ASSUME FailureThresholdIsPositive == FailureThreshold \in Nat \ {0}

VARIABLES moment,             \* the clock
          routine,            \* the routine, which is one
          execution,          \* status of every execution
          about,              \* its trigger, slot, time and policy version
          routineRun,         \* the agent run made of it
          notice,             \* the notification of an execution
          noticeTries,
          told,               \* notices the outbox has a delivered receipt of
          scheduler,          \* what each host is doing
          troubles

routineVars == <<moment, routine, execution, about, routineRun, notice,
                 noticeTries, told, scheduler, troubles>>

Execution == 1 .. LastExecution
Never == LastMoment + Every + 1     \* no next run
ExecutionStatus == {"pending", "claimed", "queued", "running", "completed",
                    "failed", "cancelled"}
TerminalExecution == {"completed", "failed", "cancelled"}
NoticeStatus == {"pending", "claimed", "delivered", "failed", "cancelled"}
\* "lapsed" is claimed, but too long ago; "resting" is pending, but not due again.
Unclaimed == {"pending", "lapsed"}
Unsettled == Unclaimed \cup {"claimed", "resting"}
NothingStaged == [trigger |-> "none", slot |-> 0, at |-> 0, policy |-> 0]
NoNotice == [kind |-> "none", status |-> "none"]

\* Where a host is in its tick, the executions or notices left of its batch, and
\* the run status it read for the one at hand.
TickAt(p) == [at |-> p, todo |-> {}, read |-> "none"]
TickPhase == {"tick", "reconcile", "reconciled", "notify", "announce", "sent",
              "unsent", "claim", "enqueue", "created"}
PartAfter == [reconcile |-> "notify", announce |-> "claim", enqueue |-> "tick"]
Ticking(h, p) == scheduler[h].at = p
TurnsTo(h, p) == scheduler' = [scheduler EXCEPT ![h].at = p]
WorksOff(h, p, S) ==
  scheduler' = [scheduler EXCEPT ![h] = IF S = {} THEN TickAt(PartAfter[p])
                                         ELSE [at |-> p, todo |-> S, read |-> "none"]]

\* The item at hand: claims go oldest first, the listing of executions newest first.
OldestOf(S) == CHOOSE x \in S : \A y \in S : x <= y
NewestOf(S) == CHOOSE x \in S : \A y \in S : x >= y
DoneWith(h, x, p) == WorksOff(h, p, scheduler[h].todo \ {x})

(***************************************************************************)
(* The store.                                                              *)
(***************************************************************************)

Staged == {e \in Execution : execution[e] # "absent"}

\* The executions of the routine count in the order they were created; those
\* not over yet do not count.
ConsecutiveFailuresBefore(e) ==
  LET counted == {f \in 1 .. (e - 1) : /\ execution[f] \in TerminalExecution
                                       /\ about[f].policy = about[e].policy}
      after == {f \in counted : execution[f] # "failed"} IN
  Cardinality({f \in counted : \A g \in after : g < f})

\* maybeCreateNotification, for an execution that ends with status s.
NoticeFor(e, s) ==
  LET before == ConsecutiveFailuresBefore(e)
      kind == CASE s = "failed" /\ before + 1 = FailureThreshold -> "failure"
                [] s = "completed" /\ before >= FailureThreshold -> "recovery"
                [] OTHER -> "none" IN
  IF kind = "none" \/ notice[e].kind = kind
    THEN notice ELSE [notice EXCEPT ![e] = [kind |-> kind, status |-> "pending"]]

CancelPendingExecutions ==
  [e \in Execution |-> IF execution[e] \in Unsettled THEN "cancelled" ELSE execution[e]]
CancelPendingNotifications ==
  [e \in Execution |-> IF notice[e].status \in Unsettled
                         THEN [notice[e] EXCEPT !.status = "cancelled"] ELSE notice[e]]

NextRunAt(repeats) == IF repeats THEN {moment + Every} ELSE (moment + 1) .. LastMoment

\* A new execution takes the next place.
StageExecution(trigger, slot) ==
  LET e == Cardinality(Staged) + 1 IN
  /\ e \in Execution
  /\ execution' = [execution EXCEPT ![e] = "pending"]
  /\ about' = [about EXCEPT ![e] = [trigger |-> trigger, slot |-> slot, at |-> moment,
                                    policy |-> routine.policy]]

(***************************************************************************)
(* People and time.                                                        *)
(***************************************************************************)

TimePasses ==
  /\ moment < LastMoment
  /\ moment' = moment + 1
  /\ UNCHANGED <<routine, execution, about, routineRun, notice, noticeTries,
                 told, scheduler, troubles>>

\* The schedule, the switch, the route and the policy are edited at once; a next
\* run that is still right is kept.
UpsertRoutine ==
  /\ ~routine.deleted /\ troubles < MaxTroubles
  /\ troubles' = troubles + 1
  /\ \E enabled, repeats, rescheduled, rerouted \in BOOLEAN :
       /\ routine.repeats # repeats => rescheduled
       /\ \E next \in IF ~enabled THEN {Never}
                      ELSE IF routine.enabled /\ routine.nextRunAt # Never /\ ~rescheduled
                        THEN {routine.nextRunAt}
                        ELSE NextRunAt(repeats) :
            routine' = [routine EXCEPT !.enabled = enabled, !.repeats = repeats,
                          !.nextRunAt = next, !.policy = IF rerouted THEN @ + 1 ELSE @]
       /\ execution' = IF enabled THEN execution ELSE CancelPendingExecutions
       /\ notice' = IF enabled /\ ~rerouted THEN notice ELSE CancelPendingNotifications
  /\ UNCHANGED <<moment, about, routineRun, noticeTries, told, scheduler>>

\* Switching it to what it is already does nothing.
SetRoutineEnabled ==
  /\ ~routine.deleted /\ troubles < MaxTroubles
  /\ troubles' = troubles + 1
  /\ \E next \in IF routine.enabled THEN {Never} ELSE NextRunAt(routine.repeats) :
       routine' = [routine EXCEPT !.enabled = ~@, !.nextRunAt = next]
  /\ IF routine.enabled
       THEN execution' = CancelPendingExecutions /\ notice' = CancelPendingNotifications
       ELSE UNCHANGED <<execution, notice>>
  /\ UNCHANGED <<moment, about, routineRun, noticeTries, told, scheduler>>

DeleteRoutine ==
  /\ ~routine.deleted /\ troubles < MaxTroubles
  /\ troubles' = troubles + 1
  /\ routine' = [routine EXCEPT !.enabled = FALSE, !.nextRunAt = Never, !.deleted = TRUE]
  /\ execution' = CancelPendingExecutions
  /\ notice' = CancelPendingNotifications
  /\ UNCHANGED <<moment, about, routineRun, noticeTries, told, scheduler>>

TriggerRoutine ==
  /\ ~routine.deleted /\ troubles < MaxTroubles
  /\ troubles' = troubles + 1
  /\ StageExecution("manual", moment)
  /\ UNCHANGED <<moment, routine, routineRun, notice, noticeTries, told,
                 scheduler>>

\* The run goes its way in the run ledger.
RunMoves(e) ==
  /\ \/ routineRun[e] = "queued" /\ routineRun' = [routineRun EXCEPT ![e] = "running"]
     \/ /\ routineRun[e] = "running"
        /\ \E s \in TerminalExecution : routineRun' = [routineRun EXCEPT ![e] = s]
  /\ UNCHANGED <<moment, routine, execution, about, notice, noticeTries, told,
                 scheduler, troubles>>

(***************************************************************************)
(* The schedulers.                                                         *)
(***************************************************************************)

\* One execution for however many times were missed.
StageDue ==
  /\ routine.enabled /\ routine.nextRunAt <= moment
  /\ IF \E e \in Staged : about[e].trigger = "scheduled" /\ about[e].slot = routine.nextRunAt
       THEN UNCHANGED <<execution, about>>
       ELSE StageExecution("scheduled", routine.nextRunAt)
  /\ routine' = IF routine.repeats THEN [routine EXCEPT !.nextRunAt = moment + Every]
                  ELSE [routine EXCEPT !.enabled = FALSE, !.nextRunAt = Never]
  /\ UNCHANGED <<moment, routineRun, notice, noticeTries, told, scheduler,
                 troubles>>

\* A claim gets too old, its host dead or only slow; a rest is over.
ClaimLapses(e) ==
  /\ \/ /\ execution[e] = "claimed"
        /\ execution' = [execution EXCEPT ![e] = "lapsed"]
        /\ UNCHANGED notice
     \/ /\ notice[e].status = "claimed"
        /\ notice' = [notice EXCEPT ![e].status = "lapsed"]
        /\ UNCHANGED execution
     \/ /\ notice[e].status = "resting"
        /\ notice' = [notice EXCEPT ![e].status = "pending"]
        /\ UNCHANGED execution
  /\ UNCHANGED <<moment, routine, about, routineRun, noticeTries, told,
                 scheduler, troubles>>

\* Nothing compares the claimer later.
ClaimExecutions(h) ==
  LET batch == {e \in Execution : execution[e] \in Unclaimed} IN
  /\ Ticking(h, "claim")
  /\ execution' = [e \in Execution |-> IF e \in batch THEN "claimed" ELSE execution[e]]
  /\ WorksOff(h, "enqueue", batch)
  /\ UNCHANGED <<moment, routine, about, routineRun, notice, noticeTries,
                 told, troubles>>

\* enqueueClaim: the run's id is made from the execution's, so there is one.
CreateRun(h) ==
  LET e == OldestOf(scheduler[h].todo) IN
  /\ Ticking(h, "enqueue")
  /\ routineRun' = IF routineRun[e] = "none" THEN [routineRun EXCEPT ![e] = "queued"]
                                             ELSE routineRun
  /\ TurnsTo(h, "created")
  /\ UNCHANGED <<moment, routine, execution, about, notice, noticeTries, told,
                 troubles>>

\* The destination is bound to another project by now, or the store refuses.
MarkExecutionFailed(h) ==
  LET e == OldestOf(scheduler[h].todo) IN
  /\ Ticking(h, "enqueue")
  /\ execution' = [execution EXCEPT ![e] = "failed"]
  /\ notice' = NoticeFor(e, "failed")
  /\ DoneWith(h, e, "enqueue")
  /\ UNCHANGED <<moment, routine, about, routineRun, noticeTries, told,
                 troubles>>

MarkExecutionQueued(h) ==
  LET e == OldestOf(scheduler[h].todo) IN
  /\ Ticking(h, "created")
  /\ execution' = [execution EXCEPT ![e] = "queued"]
  /\ DoneWith(h, e, "enqueue")
  /\ UNCHANGED <<moment, routine, about, routineRun, notice, noticeTries,
                 told, troubles>>

\* Only an execution whose run is known to it is looked up.
HasRun(e) == execution[e] \in {"queued", "running"}
ReconcileExecutions(h) ==
  /\ Ticking(h, "tick")
  /\ WorksOff(h, "reconcile", {e \in Execution : HasRun(e)})
  /\ UNCHANGED <<moment, routine, execution, about, routineRun, notice,
                 noticeTries, told, troubles>>

ReadRun(h) ==
  LET e == NewestOf(scheduler[h].todo) IN
  /\ Ticking(h, "reconcile")
  /\ scheduler' = [scheduler EXCEPT ![h].at = "reconciled", ![h].read = routineRun[e]]
  /\ UNCHANGED <<moment, routine, execution, about, routineRun, notice,
                 noticeTries, told, troubles>>

\* Mutant: a run that ended counts as completed.
ReconcileRunEnded(h) ==
  LET e == NewestOf(scheduler[h].todo)
      s == scheduler[h].read IN
  /\ Ticking(h, "reconciled")
  /\ execution' = [execution EXCEPT ![e] =
                    IF s \in TerminalExecution THEN "completed" ELSE s]
  /\ notice' = IF s \in TerminalExecution THEN NoticeFor(e, s) ELSE notice
  /\ DoneWith(h, e, "reconcile")
  /\ UNCHANGED <<moment, routine, about, routineRun, noticeTries, told,
                 troubles>>

\* The status read before is written, whatever the execution has become.
ReconcileRun(h) ==
  LET e == NewestOf(scheduler[h].todo)
      s == scheduler[h].read IN
  /\ Ticking(h, "reconciled")
  /\ execution' = [execution EXCEPT ![e] = s]
  /\ notice' = IF s \in TerminalExecution THEN NoticeFor(e, s) ELSE notice
  /\ DoneWith(h, e, "reconcile")
  /\ UNCHANGED <<moment, routine, about, routineRun, noticeTries, told,
                 troubles>>

\* Mutant: a notice whose host died is not taken over.
ClaimNotificationsOnce(h) ==
  LET ready == {e \in Execution : notice[e].status = "pending"}
      valid == {e \in ready : ~routine.deleted /\ about[e].policy = routine.policy} IN
  /\ Ticking(h, "notify")
  /\ notice' = [e \in Execution |->
                  IF e \in valid THEN [notice[e] EXCEPT !.status = "claimed"]
                  ELSE IF e \in ready THEN [notice[e] EXCEPT !.status = "cancelled"]
                  ELSE notice[e]]
  /\ noticeTries' = [e \in Execution |-> noticeTries[e] + (IF e \in valid THEN 1 ELSE 0)]
  /\ WorksOff(h, "announce", valid)
  /\ UNCHANGED <<moment, routine, execution, about, routineRun, told,
                 troubles>>

\* A notice of another policy or of a deleted routine is cancelled.
ClaimNotifications(h) ==
  LET ready == {e \in Execution : notice[e].status \in Unclaimed}
      valid == {e \in ready : ~routine.deleted /\ about[e].policy = routine.policy} IN
  /\ Ticking(h, "notify")
  /\ notice' = [e \in Execution |->
                  IF e \in valid THEN [notice[e] EXCEPT !.status = "claimed"]
                  ELSE IF e \in ready THEN [notice[e] EXCEPT !.status = "cancelled"]
                  ELSE notice[e]]
  /\ noticeTries' = [e \in Execution |-> noticeTries[e] + (IF e \in valid THEN 1 ELSE 0)]
  /\ WorksOff(h, "announce", valid)
  /\ UNCHANGED <<moment, routine, execution, about, routineRun, told,
                 troubles>>

\* What the outbox has a delivered receipt of is not sent again; a call that
\* fails, with its one attempt, leaves none.
SendNotification(h) ==
  LET e == OldestOf(scheduler[h].todo) IN
  /\ Ticking(h, "announce")
  /\ \/ told' = told \cup {e} /\ TurnsTo(h, "sent")
     \/ e \notin told /\ UNCHANGED told /\ TurnsTo(h, "unsent")
  /\ UNCHANGED <<moment, routine, execution, about, routineRun, notice,
                 noticeTries, troubles>>

MarkNotification(h) ==
  LET e == OldestOf(scheduler[h].todo)
      retried == IF noticeTries[e] >= NoticeAttempts THEN "failed" ELSE "resting" IN
  /\ \/ Ticking(h, "sent") /\ notice' = [notice EXCEPT ![e].status = "delivered"]
     \/ Ticking(h, "unsent") /\ notice' = [notice EXCEPT ![e].status = retried]
  /\ DoneWith(h, e, "announce")
  /\ UNCHANGED <<moment, routine, execution, about, routineRun, noticeTries,
                 told, troubles>>

SchedulerCrashes(h) ==
  /\ ~Ticking(h, "tick") /\ troubles < MaxTroubles
  /\ troubles' = troubles + 1
  /\ scheduler' = [scheduler EXCEPT ![h] = TickAt("tick")]
  /\ UNCHANGED <<moment, routine, execution, about, routineRun, notice,
                 noticeTries, told>>

RoutineInit ==
  /\ moment = 0
  /\ routine \in [enabled : {TRUE}, deleted : {FALSE}, repeats : BOOLEAN,
                  nextRunAt : {Every}, policy : {0}]
  /\ execution = [e \in Execution |-> "absent"]
  /\ about = [e \in Execution |-> NothingStaged]
  /\ routineRun = [e \in Execution |-> "none"]
  /\ notice = [e \in Execution |-> NoNotice]
  /\ noticeTries = [e \in Execution |-> 0]
  /\ told = {}
  /\ scheduler = [h \in Host |-> TickAt("tick")]
  /\ troubles = 0

SchedulerStep(h) ==
  \/ ReconcileExecutions(h) \/ ClaimNotifications(h) \/ ClaimExecutions(h)
  \/ CreateRun(h) \/ MarkExecutionFailed(h) \/ MarkExecutionQueued(h)
  \/ ReadRun(h) \/ ReconcileRun(h)
  \/ SendNotification(h) \/ MarkNotification(h)

RoutineNext ==
  \/ TimePasses \/ UpsertRoutine \/ SetRoutineEnabled \/ DeleteRoutine \/ TriggerRoutine
  \/ StageDue
  \/ \E e \in Execution : RunMoves(e) \/ ClaimLapses(e)
  \/ \E h \in RoutineHost : SchedulerStep(h) \/ SchedulerCrashes(h)

RoutineSpec == RoutineInit /\ [][RoutineNext]_routineVars

\* A live host ticks again and again, time passes for claims, and the workers
\* see to the runs.
RoutineTime == \E e \in Execution : RunMoves(e) \/ ClaimLapses(e)
FairRoutines ==
  /\ RoutineSpec
  /\ WF_routineVars(RoutineTime)
  /\ \A h \in RoutineHost : WF_routineVars(SchedulerStep(h))

(***************************************************************************)
(* Properties.                                                             *)
(***************************************************************************)

\* The types of the variables.
RoutineTypeOK ==
  /\ moment \in 0 .. LastMoment
  /\ routine \in [enabled : BOOLEAN, deleted : BOOLEAN, repeats : BOOLEAN,
                  nextRunAt : 0 .. Never, policy : Nat]
  /\ execution \in [Execution -> ExecutionStatus \cup {"absent", "lapsed"}]
  /\ about \in [Execution -> [trigger : {"none", "manual", "scheduled"}, slot : Nat,
                              at : Nat, policy : Nat]]
  /\ routineRun \in [Execution -> {"none", "queued", "running"} \cup TerminalExecution]
  /\ notice \in [Execution -> [kind : {"failure", "recovery"}, status : NoticeStatus \cup {"lapsed", "resting"}]
                                \cup {NoNotice}]
  /\ noticeTries \in [Execution -> Nat]
  /\ told \subseteq Execution
  /\ scheduler \in [Host -> [at : TickPhase, todo : SUBSET Execution,
                       read : {"none", "queued", "running"} \cup TerminalExecution]]
  /\ troubles \in Nat

\* What is reported as completed was run to completion.
CompletedMeansRan ==
  \A e \in Execution : execution[e] = "completed" => routineRun[e] = "completed"

\* Every execution comes to an end, and the notice of it, if one is due, is sent,
\* given up or withdrawn.
NoticeIsOver(e) ==
  notice[e] = NoNotice \/ notice[e].status \in {"delivered", "failed", "cancelled"}
EveryRoutineSettles ==
  \A e \in Execution :
    e \in Staged ~> (execution[e] \in TerminalExecution /\ NoticeIsOver(e))
=============================================================================
