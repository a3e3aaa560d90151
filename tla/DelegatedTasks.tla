---------------------------- MODULE DelegatedTasks ----------------------------
(***************************************************************************)
(* Asynchronous delegation.  A run hands a task to another agent; a worker's *)
(* pass claims it for a lease, executes it, records the outcome and starts a *)
(* continuation of the run that asked.  Leases lapse under slow workers,     *)
(* operators cancel, workers die, and every pass first starts the            *)
(* continuations an earlier one did not get to.                              *)
(*                                                                         *)
(* Sources: packages/config/src/file-delegated-agent-task-store.ts,          *)
(* packages/runtime-host/src/delegated-agent-tasks.ts and index.ts.          *)
(***************************************************************************)
EXTENDS Hosts, Naturals

CONSTANTS Task,
          TaskAttempts,      \* maxAttempts (3)
          MaxTaskCrashes

ASSUME TaskAttemptsIsPositive == TaskAttempts \in Nat \ {0}
ASSUME NoneIsNoTask == None \notin Task

VARIABLES task,              \* status of every task
          taskTries,
          taskHolder,        \* claimedBy
          resting,           \* queued tasks whose retry is not due
          resumed,           \* tasks whose continuation run exists
          marked,            \* tasks with a continuationRunId
          usage,             \* how often the spend of a task was recorded
          delegate,          \* what each host is doing
          taskCrashes

taskVars == <<task, taskTries, taskHolder, resting, resumed, marked, usage,
              delegate, taskCrashes>>

TerminalTask == {"completed", "failed", "cancelled", "stale"}
ReportedTask == TerminalTask \ {"cancelled"}
\* "lapsed" is claimed, but longer ago than the lease.
Claimed == {"claimed", "lapsed"}

\* Where a host is in its pass, the list it works off (the continuations that
\* are missing, then the tasks it claimed), what is left of it and the task begun.
PassAt(p) == [at |-> p, list |-> p, left |-> {}, on |-> None]
PassPhase == {"start", "resume", "claim", "execute", "running", "ran", "erred",
              "completed", "report", "mark"}
PassAfter == [resume |-> "claim", execute |-> "start"]
Delegating(h, p) == delegate[h].at = p
PassesTo(h, p) == delegate' = [delegate EXCEPT ![h].at = p]
WorksThrough(h, l, S) ==
  delegate' = [delegate EXCEPT ![h] =
                 IF S = {} THEN PassAt(PassAfter[l])
                           ELSE [at |-> l, list |-> l, left |-> S, on |-> None]]
TakesUp(h, t, p) ==
  /\ t \in delegate[h].left
  /\ delegate' = [delegate EXCEPT ![h].at = p, ![h].left = @ \ {t}, ![h].on = t]
NextOfList(h) == WorksThrough(h, delegate[h].list, delegate[h].left)

(***************************************************************************)
(* The store.                                                              *)
(***************************************************************************)

CreateTask(t) ==
  /\ task[t] = "absent"
  /\ task' = [task EXCEPT ![t] = "queued"]
  /\ UNCHANGED <<taskTries, taskHolder, resting, resumed, marked, usage,
                 delegate, taskCrashes>>

\* What is queued and due or claimed too long ago, unless its attempts are used up.
ClaimableTask(t) ==
  /\ taskTries[t] < TaskAttempts
  /\ task[t] = "lapsed" \/ (task[t] = "queued" /\ t \notin resting)

ClaimTasks(h) ==
  LET taken == {t \in Task : ClaimableTask(t)} IN
  /\ task' = [t \in Task |-> IF t \in taken THEN "claimed" ELSE task[t]]
  /\ taskHolder' = [t \in Task |-> IF t \in taken THEN h ELSE taskHolder[t]]
  /\ taskTries' = [t \in Task |-> IF t \in taken THEN taskTries[t] + 1 ELSE taskTries[t]]
  /\ WorksThrough(h, "execute", taken)

HoldsTask(t, h) == task[t] \in Claimed /\ taskHolder[t] = h

CancelTask(t) ==
  /\ task[t] \in Claimed \cup {"queued"}
  /\ task' = [task EXCEPT ![t] = "cancelled"]
  /\ UNCHANGED <<taskTries, taskHolder, resting, resumed, marked, usage,
                 delegate, taskCrashes>>

\* A lease runs out, of a dead worker or a slow one; a rest is over.
LeaseLapses(t) ==
  /\ task[t] = "claimed"
  /\ task' = [task EXCEPT ![t] = "lapsed"]
  /\ UNCHANGED <<taskTries, taskHolder, resting, resumed, marked, usage,
                 delegate, taskCrashes>>

RestIsOver(t) ==
  /\ t \in resting
  /\ resting' = resting \ {t}
  /\ UNCHANGED <<task, taskTries, taskHolder, resumed, marked, usage,
                 delegate, taskCrashes>>

(***************************************************************************)
(* The pass.                                                               *)
(***************************************************************************)

\* Mutant: only successes are continued by a later pass.
ListContinuationsOfSuccess(h) ==
  /\ Delegating(h, "start")
  /\ WorksThrough(h, "resume", {t \in Task : task[t] = "completed" /\ t \notin marked})
  /\ UNCHANGED <<task, taskTries, taskHolder, resting, resumed, marked, usage,
                 taskCrashes>>

\* scheduleTerminalContinuations: what ended without a continuation.
ListContinuations(h) ==
  /\ Delegating(h, "start")
  /\ WorksThrough(h, "resume", {t \in Task : task[t] \in ReportedTask /\ t \notin marked})
  /\ UNCHANGED <<task, taskTries, taskHolder, resting, resumed, marked, usage,
                 taskCrashes>>

NextContinuation(h) ==
  /\ Delegating(h, "resume")
  /\ \E t \in Task : TakesUp(h, t, "report")
  /\ UNCHANGED <<task, taskTries, taskHolder, resting, resumed, marked, usage,
                 taskCrashes>>

ClaimBatch(h) ==
  /\ Delegating(h, "claim")
  /\ ClaimTasks(h)
  /\ UNCHANGED <<resting, resumed, marked, usage, taskCrashes>>

\* executeTask: cancelled meanwhile; or the agent, the route or the executor is
\* not what was approved; or it runs, within the ceiling of the approval.
BeginTask(h) ==
  /\ Delegating(h, "execute")
  /\ \E t \in Task :
       IF task[t] = "cancelled"
         THEN /\ t \in delegate[h].left
              /\ WorksThrough(h, "execute", delegate[h].left \ {t})
              /\ UNCHANGED task
         ELSE \/ TakesUp(h, t, "running") /\ UNCHANGED task
              \/ IF HoldsTask(t, h)
                   THEN TakesUp(h, t, "report") /\ task' = [task EXCEPT ![t] = "stale"]
                   ELSE TakesUp(h, t, "erred") /\ UNCHANGED task
  /\ UNCHANGED <<taskTries, taskHolder, resting, resumed, marked, usage,
                 taskCrashes>>

\* The agent ends, fails, or is aborted by the timeout, a cancel or a shutdown.
DelegateRuns(h) ==
  /\ Delegating(h, "running")
  /\ PassesTo(h, "ran") \/ PassesTo(h, "erred")
  /\ UNCHANGED <<task, taskTries, taskHolder, resting, resumed, marked, usage,
                 taskCrashes>>

\* Mutant: the pass goes on to record the spend when its claim is gone.
CompleteTaskUnfenced(h) ==
  LET t == delegate[h].on IN
  /\ Delegating(h, "ran")
  /\ IF HoldsTask(t, h)
       THEN task' = [task EXCEPT ![t] = "completed"] /\ PassesTo(h, "completed")
       ELSE /\ UNCHANGED task
            /\ IF task[t] = "cancelled" THEN NextOfList(h) ELSE PassesTo(h, "completed")
  /\ UNCHANGED <<taskTries, taskHolder, resting, resumed, marked, usage,
                 taskCrashes>>

CompleteTask(h) ==
  LET t == delegate[h].on IN
  /\ Delegating(h, "ran")
  /\ IF HoldsTask(t, h)
       THEN task' = [task EXCEPT ![t] = "completed"] /\ PassesTo(h, "completed")
       ELSE /\ UNCHANGED task
            /\ IF task[t] = "cancelled" THEN NextOfList(h) ELSE PassesTo(h, "erred")
  /\ UNCHANGED <<taskTries, taskHolder, resting, resumed, marked, usage,
                 taskCrashes>>

\* recordAgentRunUsage, under a key made from the task.
RecordUsage(h) ==
  LET t == delegate[h].on IN
  /\ Delegating(h, "completed")
  /\ usage' = [usage EXCEPT ![t] = @ + 1]
  /\ PassesTo(h, "report")
  /\ UNCHANGED <<task, taskTries, taskHolder, resting, resumed, marked,
                 taskCrashes>>

\* An error: retried later or failed for good.  A claim that was lost makes retry
\* throw, which ends the pass and leaves the rest of the batch claimed.
RetryTask(h) ==
  LET t == delegate[h].on
      last == taskTries[t] >= TaskAttempts IN
  /\ Delegating(h, "erred")
  /\ IF HoldsTask(t, h)
       THEN /\ task' = [task EXCEPT ![t] = IF last THEN "failed" ELSE "queued"]
            /\ taskHolder' = [taskHolder EXCEPT ![t] = None]
            /\ resting' = IF last THEN resting ELSE resting \cup {t}
            /\ IF last THEN PassesTo(h, "report") ELSE NextOfList(h)
       ELSE /\ UNCHANGED <<task, taskHolder, resting>>
            /\ IF task[t] = "cancelled" THEN NextOfList(h)
               ELSE delegate' = [delegate EXCEPT ![h] = PassAt("start")]
  /\ UNCHANGED <<taskTries, resumed, marked, usage, taskCrashes>>

\* onCompleted: a run or a steering with an id made from the task's.
ScheduleContinuation(h) ==
  /\ Delegating(h, "report")
  /\ resumed' = resumed \cup {delegate[h].on}
  /\ PassesTo(h, "mark")
  /\ UNCHANGED <<task, taskTries, taskHolder, resting, marked, usage,
                 taskCrashes>>

MarkContinuation(h) ==
  LET t == delegate[h].on IN
  /\ Delegating(h, "mark")
  /\ marked' = IF task[t] \in ReportedTask THEN marked \cup {t} ELSE marked
  /\ NextOfList(h)
  /\ UNCHANGED <<task, taskTries, taskHolder, resting, resumed, usage,
                 taskCrashes>>

\* The worker dies or is told to stop between two tasks; or one of its calls of
\* a store fails after the outcome: the retry then loses its claim.
DelegateCrashes(h) ==
  /\ ~Delegating(h, "start") /\ taskCrashes < MaxTaskCrashes
  /\ taskCrashes' = taskCrashes + 1
  /\ delegate' = [delegate EXCEPT ![h] = PassAt("start")]
  /\ UNCHANGED <<task, taskTries, taskHolder, resting, resumed, marked, usage>>

TaskInit ==
  /\ task = [t \in Task |-> "absent"]
  /\ taskTries = [t \in Task |-> 0]
  /\ taskHolder = [t \in Task |-> None]
  /\ resting = {} /\ resumed = {} /\ marked = {}
  /\ usage = [t \in Task |-> 0]
  /\ delegate = [h \in Host |-> PassAt("start")]
  /\ taskCrashes = 0

DelegateStep(h) ==
  \/ ListContinuations(h) \/ NextContinuation(h) \/ ClaimBatch(h) \/ BeginTask(h)
  \/ DelegateRuns(h) \/ CompleteTask(h) \/ RecordUsage(h) \/ RetryTask(h)
  \/ ScheduleContinuation(h) \/ MarkContinuation(h)

TaskNext ==
  \/ \E t \in Task : CreateTask(t) \/ CancelTask(t) \/ LeaseLapses(t) \/ RestIsOver(t)
  \/ \E h \in Host : DelegateStep(h) \/ DelegateCrashes(h)

TaskSpec == TaskInit /\ [][TaskNext]_taskVars

\* Passes repeat while a worker lives; leases and rests run out.
TaskTime == \E t \in Task : LeaseLapses(t) \/ RestIsOver(t)
FairTasks ==
  /\ TaskSpec
  /\ WF_taskVars(TaskTime)
  /\ \A h \in Host : WF_taskVars(DelegateStep(h))

(***************************************************************************)
(* Properties.                                                             *)
(***************************************************************************)

\* The types of the variables.
TaskTypeOK ==
  /\ task \in [Task -> {"absent", "queued"} \cup Claimed \cup TerminalTask]
  /\ taskTries \in [Task -> 0 .. TaskAttempts]
  /\ taskHolder \in [Task -> Host \cup {None}]
  /\ resting \subseteq Task /\ resumed \subseteq Task /\ marked \subseteq Task
  /\ usage \in [Task -> Nat]
  /\ delegate \in [Host -> [at : PassPhase, list : PassPhase, left : SUBSET Task,
                            on : Task \cup {None}]]
  /\ taskCrashes \in Nat

\* The spend of a delegation is recorded once and for a completed task only, also
\* when two workers, one behind its lease, both executed it.
SpentOnce ==
  \A t \in Task : usage[t] <= 1 /\ (usage[t] = 1 => task[t] = "completed")

\* The run that asked goes on with the outcome that stands: nobody continues a
\* task that is still open or that an operator cancelled.
ContinuesWithOutcome == \A t \in resumed : task[t] \in ReportedTask

\* Every task ends, and every outcome but a cancel reaches the run that asked, also
\* when the worker dies between recording and scheduling it.  The exception is a
\* task whose last attempt died with its worker, which nobody claims again.
LeftClaimed(t) == task[t] \in Claimed /\ taskTries[t] >= TaskAttempts
EveryTaskEnds ==
  \A t \in Task :
    task[t] = "queued" ~> (task[t] = "cancelled" \/ t \in marked \/ LeftClaimed(t))
=============================================================================
