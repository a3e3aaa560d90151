------------------------------ MODULE Workflows ------------------------------
(***************************************************************************)
(* Workflow executions.  A trigger makes an execution of a saved graph; a    *)
(* coordinator's tick first copies the state of the nodes' runs back, then   *)
(* claims the nodes that are ready and gives each a run.  Several            *)
(* coordinators share the store, claims are taken over when they lapse, and  *)
(* operators cancel executions and retry failed nodes.                       *)
(*                                                                         *)
(* Sources: packages/workflows/src/file-workflow-store.ts,                   *)
(* packages/runtime-host/src/workflow-coordinator.ts, apps/server.           *)
(***************************************************************************)
EXTENDS Hosts, FiniteSets, Naturals

CONSTANTS Flow,                 \* executions of the workflow
          Node,
          DependsOn,             \* the nodes each node waits for
          NodeRetries,           \* bound: retries an operator asks of a node
          MaxCoordinatorTroubles \* bound: crashes, refused runs and nodes retried

\* normalizeWorkflowNodes refuses graphs with cycles: every set of nodes has
\* one that waits for none of the others.
ASSUME GraphIsAcyclic ==
  /\ DependsOn \in [Node -> SUBSET Node]
  /\ \A S \in SUBSET Node : S # {} => \E n \in S : DependsOn[n] \cap S = {}

ASSUME NodeRetriesIsNat == NodeRetries \in Nat

\* There are only so many executions and nodes, and so much goes wrong.
ASSUME WorkflowBounds ==
  IsFiniteSet(Flow) /\ IsFiniteSet(Node) /\ MaxCoordinatorTroubles \in Nat

VARIABLES flow,             \* status of every execution
          node,                  \* status of every node of every execution
          retryCount,
          nodeRun,               \* the attempt whose run the node names, or 0
          workflowRun,           \* status of the run of every attempt
          coordinator,           \* what each host is doing
          coordinatorTroubles

workflowVars == <<flow, node, retryCount, nodeRun, workflowRun,
                  coordinator, coordinatorTroubles>>

Item == Flow \X Node
Attempt == 1 .. NodeRetries + 1
AttemptRun == Item \X Attempt

TerminalNode == {"completed", "failed", "skipped", "cancelled"}
TerminalWorkflow == {"completed", "failed", "cancelled"}
TerminalRun == {"completed", "failed", "cancelled"}
\* "lapsed" is claimed, but longer ago than claims are honoured.
ClaimedNode == {"claimed", "lapsed"}

\* A host works off a list of node runs; "on" is the one in hand and "saw" the
\* status it read of it.
CoordinatorAt(p, S) == [at |-> p, left |-> S, on |-> None, saw |-> None]
Coordinates(h, p) == coordinator[h].at = p
OnRun(h) == coordinator[h].on
TakesRun(h, r, p, seen) ==
  /\ r \in coordinator[h].left
  /\ coordinator' = [coordinator EXCEPT ![h] =
       [at |-> p, left |-> @.left \ {r}, on |-> r, saw |-> seen]]
CoordinatorTo(h, p) == coordinator' = [coordinator EXCEPT ![h].at = p]
ReturnsTo(h, p) ==
  coordinator' = [coordinator EXCEPT ![h] = CoordinatorAt(p, @.left)]

(***************************************************************************)
(* The store.                                                              *)
(***************************************************************************)

\* updateExecutionState, for the executions E and the node states nd: what
\* waits for a node that did not complete is skipped ...
Skipped(nd, e) ==
  LET blocked[n \in Node] ==
        \E d \in DependsOn[n] :
          \/ nd[<<e, d>>] \in {"failed", "skipped", "cancelled"}
          \/ nd[<<e, d>>] = "pending" /\ blocked[d]
  IN  {n \in Node : nd[<<e, n>>] = "pending" /\ blocked[n]}

Swept(nd, E) ==
  [i \in Item |-> IF i[1] \in E /\ flow[i[1]] # "cancelled"
                     /\ i[2] \in Skipped(nd, i[1])
                    THEN "skipped" ELSE nd[i]]

\* ... and the execution has the status its nodes add up to.
StatusOf(nd, e) ==
  LET found == {nd[<<e, n>>] : n \in Node} IN
  IF found \subseteq TerminalNode
    THEN IF found = {"completed"} THEN "completed" ELSE "failed"
    ELSE IF found = {"pending"} THEN "pending" ELSE "running"

Standing(nd, E) ==
  [e \in Flow |-> IF e \in E /\ flow[e] \notin {"absent", "cancelled"}
                         THEN StatusOf(nd, e) ELSE flow[e]]

UpdateExecutionState(nd, E) ==
  /\ node' = Swept(nd, E)
  /\ flow' = Standing(node', E)

TriggerExecution(e) ==
  /\ flow[e] = "absent"
  /\ flow' = [flow EXCEPT ![e] = "pending"]
  /\ UNCHANGED <<node, retryCount, nodeRun, workflowRun, coordinator,
                 coordinatorTroubles>>

NodeClaimLapses(i) ==
  /\ node[i] = "claimed"
  /\ node' = [node EXCEPT ![i] = "lapsed"]
  /\ UNCHANGED <<flow, retryCount, nodeRun, workflowRun, coordinator,
                 coordinatorTroubles>>

\* Mutant: a claim that grew old is left alone.
ClaimableNodeOnce(nd, e, n) ==
  \/ /\ nd[<<e, n>>] = "pending"
     /\ \A d \in DependsOn[n] : nd[<<e, d>>] = "completed"

\* Ready nodes and lapsed claims of the executions that are not over.
ClaimableNode(nd, e, n) ==
  \/ nd[<<e, n>>] = "lapsed"
  \/ /\ nd[<<e, n>>] = "pending"
     /\ \A d \in DependsOn[n] : nd[<<e, d>>] = "completed"

\* The attempt a run is made for.
AttemptOf(i) == retryCount[i] + 1

ClaimReadyNodes(h) ==
  LET swept == Swept(node, Flow)
      now   == Standing(swept, Flow)
      taken == {i \in Item : /\ now[i[1]] \in {"pending", "running"}
                             /\ ClaimableNode(swept, i[1], i[2])} IN
  /\ Coordinates(h, "claim")
  /\ node' = [i \in Item |-> IF i \in taken THEN "claimed" ELSE swept[i]]
  /\ flow' = [e \in Flow |-> IF \E i \in taken : i[1] = e THEN "running"
                                                                  ELSE now[e]]
  /\ coordinator' = [coordinator EXCEPT ![h] =
       CoordinatorAt("enqueue", {<<i, AttemptOf(i)>> : i \in taken})]
  /\ UNCHANGED <<retryCount, nodeRun, workflowRun, coordinatorTroubles>>

\* reconcileNodeRun looks the node up by its run and overwrites its status.
ReconcileNodeRun(i, a, status) ==
  IF nodeRun[i] = a /\ flow[i[1]] # "cancelled" /\ node[i] # "cancelled"
    THEN UpdateExecutionState([node EXCEPT ![i] = status], {i[1]})
    ELSE UNCHANGED <<node, flow>>

\* What is not over ends as cancelled; the runs it names are to be stopped.
CancelExecution(h, e) ==
  LET live == {i \in Item : /\ i[1] = e
                            /\ nodeRun[i] # 0
                            /\ \/ node[i] \in ClaimedNode \cup {"queued", "running"}
                               \/ /\ flow[e] = "cancelled"
                                  /\ node[i] = "cancelled"} IN
  /\ Coordinates(h, "start")
  /\ flow[e] \notin {"absent", "completed", "failed"}
  /\ node' = [i \in Item |-> IF i[1] = e /\ node[i] \notin TerminalNode
                               THEN "cancelled" ELSE node[i]]
  /\ flow' = [flow EXCEPT ![e] = "cancelled"]
  /\ coordinator' = [coordinator EXCEPT ![h] =
       CoordinatorAt("stop", {<<i, nodeRun[i]>> : i \in live})]
  /\ UNCHANGED <<retryCount, nodeRun, workflowRun, coordinatorTroubles>>

Upstream == LET up[n \in Node] == DependsOn[n] \cup UNION {up[d] : d \in DependsOn[n]}
            IN  up

\* The bound on what goes wrong in a behaviour.
MoreTrouble ==
  coordinatorTroubles + Cardinality({i \in Item : retryCount[i] > 0})
    < MaxCoordinatorTroubles

\* The node and what was skipped below it start over, under a new attempt.
RetryNode(e, n) ==
  /\ flow[e] = "failed"
  /\ node[<<e, n>>] = "failed"
  /\ retryCount[<<e, n>>] < NodeRetries /\ MoreTrouble
  /\ LET reset == {i \in Item : /\ i[1] = e
                                /\ \/ i[2] = n
                                   \/ n \in Upstream[i[2]] /\ node[i] = "skipped"} IN
     /\ node' = [i \in Item |-> IF i \in reset THEN "pending" ELSE node[i]]
     /\ nodeRun' = [i \in Item |-> IF i \in reset THEN 0 ELSE nodeRun[i]]
  /\ retryCount' = [retryCount EXCEPT ![<<e, n>>] = @ + 1]
  /\ flow' = [flow EXCEPT ![e] = "pending"]
  /\ UNCHANGED <<workflowRun, coordinator, coordinatorTroubles>>

(***************************************************************************)
(* The runs, as the run ledger treats them.                                *)
(***************************************************************************)

Requested(s) ==
  CASE s = "queued" -> "cancelled" [] s = "running" -> "cancel_requested" [] OTHER -> s

RunAdvances(r) ==
  /\ \E s \in {"running", "completed", "failed", "cancelled"} :
       /\ CASE workflowRun[r] = "queued" -> s = "running"
            [] workflowRun[r] = "running" -> s \in {"completed", "failed"}
            [] workflowRun[r] = "cancel_requested" -> s = "cancelled"
            [] OTHER -> FALSE
       /\ workflowRun' = [workflowRun EXCEPT ![r] = s]
  /\ UNCHANGED <<flow, node, retryCount, nodeRun, coordinator,
                 coordinatorTroubles>>

(***************************************************************************)
(* One tick: reconcile, claim, enqueue.  The reconciliation that closes the  *)
(* tick is the one that opens the next.                                      *)
(***************************************************************************)

\* The executions are listed first and worked off after.
ListNodeRuns(h) ==
  /\ Coordinates(h, "start")
  /\ coordinator' = [coordinator EXCEPT ![h] =
       CoordinatorAt("reconcile",
         {<<i, nodeRun[i]>> : i \in {j \in Item : /\ nodeRun[j] # 0
                                                  /\ node[j] \notin TerminalNode}})]
  /\ UNCHANGED <<flow, node, retryCount, nodeRun, workflowRun,
                 coordinatorTroubles>>

ReadNodeRun(h) ==
  /\ Coordinates(h, "reconcile")
  /\ \E r \in coordinator[h].left :
       TakesRun(h, r, "read",
                IF workflowRun[r] = "cancel_requested" THEN "running" ELSE workflowRun[r])
  /\ UNCHANGED <<flow, node, retryCount, nodeRun, workflowRun,
                 coordinatorTroubles>>

WriteNodeRun(h) ==
  /\ Coordinates(h, "read")
  /\ ReconcileNodeRun(OnRun(h)[1], OnRun(h)[2], coordinator[h].saw)
  /\ ReturnsTo(h, "reconcile")
  /\ UNCHANGED <<retryCount, nodeRun, workflowRun, coordinatorTroubles>>

\* A list is done: reconciliation goes on to claim, the others end.
NextList(h) ==
  /\ coordinator[h].at \in {"reconcile", "enqueue", "stop"}
  /\ coordinator[h].left = {}
  /\ ReturnsTo(h, IF Coordinates(h, "reconcile") THEN "claim" ELSE "start")
  /\ UNCHANGED <<flow, node, retryCount, nodeRun, workflowRun,
                 coordinatorTroubles>>

\* The id of the run is that of the attempt: creating it again changes nothing.
CreateNodeRun(h) ==
  /\ Coordinates(h, "enqueue")
  /\ \E r \in coordinator[h].left :
       /\ TakesRun(h, r, "created", None)
       /\ workflowRun' = [workflowRun EXCEPT ![r] = IF @ = "absent" THEN "queued" ELSE @]
  /\ UNCHANGED <<flow, node, retryCount, nodeRun, coordinatorTroubles>>

TroubleStrikes ==
  /\ MoreTrouble
  /\ coordinatorTroubles' = coordinatorTroubles + 1

\* The destination has lost its binding, or the store fails.
NodeRunRefused(h) ==
  /\ Coordinates(h, "enqueue")
  /\ \E r \in coordinator[h].left : TakesRun(h, r, "withdrawn", None)
  /\ TroubleStrikes
  /\ UNCHANGED <<flow, node, retryCount, nodeRun, workflowRun>>

\* Any claim will do, this host's or another's ...
MarkNodeQueued(h) ==
  LET i == OnRun(h)[1] IN
  /\ Coordinates(h, "created")
  /\ IF node[i] \in ClaimedNode
       THEN /\ UpdateExecutionState([node EXCEPT ![i] = "queued"], {i[1]})
            /\ nodeRun' = [nodeRun EXCEPT ![i] = OnRun(h)[2]]
            /\ ReturnsTo(h, "enqueue")
       ELSE /\ CoordinatorTo(h, "unwanted")
            /\ UNCHANGED <<node, flow, nodeRun>>
  /\ UNCHANGED <<retryCount, workflowRun, coordinatorTroubles>>

\* Mutant: the run nobody wants any more is left to run.
WithdrawNothing(h) ==
  /\ Coordinates(h, "unwanted")
  /\ CoordinatorTo(h, "withdrawn")
  /\ UNCHANGED <<flow, node, retryCount, nodeRun, workflowRun, coordinatorTroubles>>

\* ... and without one the run is withdrawn and the node failed.
WithdrawNodeRun(h) ==
  /\ Coordinates(h, "unwanted")
  /\ workflowRun' = [workflowRun EXCEPT ![OnRun(h)] = Requested(@)]
  /\ CoordinatorTo(h, "withdrawn")
  /\ UNCHANGED <<flow, node, retryCount, nodeRun, coordinatorTroubles>>

MarkNodeFailed(h) ==
  LET i == OnRun(h)[1] IN
  /\ Coordinates(h, "withdrawn")
  /\ IF node[i] \in TerminalNode
       THEN UNCHANGED <<node, flow>>
       ELSE UpdateExecutionState([node EXCEPT ![i] = "failed"], {i[1]})
  /\ ReturnsTo(h, "enqueue")
  /\ UNCHANGED <<retryCount, nodeRun, workflowRun, coordinatorTroubles>>

\* The operator's request goes on to the runs the cancelled nodes named.
StopNodeRun(h) ==
  /\ Coordinates(h, "stop")
  /\ \E r \in coordinator[h].left :
       /\ coordinator' = [coordinator EXCEPT ![h].left = @ \ {r}]
       /\ workflowRun' = [workflowRun EXCEPT ![r] = Requested(@)]
  /\ UNCHANGED <<flow, node, retryCount, nodeRun, coordinatorTroubles>>

CoordinatorCrashes(h) ==
  /\ ~Coordinates(h, "start")
  /\ TroubleStrikes
  /\ coordinator' = [coordinator EXCEPT ![h] = CoordinatorAt("start", {})]
  /\ UNCHANGED <<flow, node, retryCount, nodeRun, workflowRun>>

WorkflowInit ==
  /\ flow = [e \in Flow |-> "absent"]
  /\ node = [i \in Item |-> "pending"]
  /\ retryCount = [i \in Item |-> 0]
  /\ nodeRun = [i \in Item |-> 0]
  /\ workflowRun = [r \in AttemptRun |-> "absent"]
  /\ coordinator = [h \in Host |-> CoordinatorAt("start", {})]
  /\ coordinatorTroubles = 0

Tick(h) ==
  \/ ListNodeRuns(h) \/ ReadNodeRun(h) \/ WriteNodeRun(h) \/ NextList(h)
  \/ ClaimReadyNodes(h) \/ CreateNodeRun(h) \/ MarkNodeQueued(h)
  \/ WithdrawNodeRun(h) \/ MarkNodeFailed(h) \/ StopNodeRun(h)

WorkflowNext ==
  \/ \E e \in Flow : \/ TriggerExecution(e)
                     \/ \E n \in Node : RetryNode(e, n)
                     \/ \E h \in Host : CancelExecution(h, e)
  \/ \E i \in Item : NodeClaimLapses(i)
  \/ \E r \in AttemptRun : RunAdvances(r)
  \/ \E h \in Host : Tick(h) \/ NodeRunRefused(h) \/ CoordinatorCrashes(h)

WorkflowSpec == WorkflowInit /\ [][WorkflowNext]_workflowVars

\* Coordinators tick on a timer and work a list off; runs end, as the run workers
\* see to it; a claim that stays grows old.
WorkflowTime ==
  \/ \E r \in AttemptRun : RunAdvances(r)
  \/ \E i \in Item : NodeClaimLapses(i)
FairWorkflows ==
  /\ WorkflowSpec
  /\ WF_workflowVars(WorkflowTime)
  /\ \A h \in Host : WF_workflowVars(Tick(h))

-----------------------------------------------------------------------------
(* Properties *)

\* The variables have their types.
WorkflowTypeOK ==
  /\ flow \in [Flow -> {"absent", "pending", "running"} \cup TerminalWorkflow]
  /\ node \in [Item -> {"pending", "queued", "running"} \cup ClaimedNode \cup TerminalNode]
  /\ retryCount \in [Item -> 0 .. NodeRetries]
  /\ nodeRun \in [Item -> {0} \cup Attempt]
  /\ workflowRun \in [AttemptRun -> {"absent", "queued", "running", "cancel_requested"}
                                       \cup TerminalRun]
  /\ \A h \in Host : /\ coordinator[h].left \subseteq AttemptRun
                     /\ coordinator[h].on \in AttemptRun \cup {None}
  /\ coordinatorTroubles \in 0 .. MaxCoordinatorTroubles

\* Multiple owner-fenced coordinators: a run is stopped only for an execution
\* that an operator cancelled.
OnlyCancelledExecutionsStop ==
  \A r \in AttemptRun :
    workflowRun[r] \in {"cancel_requested", "cancelled"} => flow[r[1][1]] = "cancelled"

\* Every execution completes, fails or is cancelled.
EveryExecutionIsOver ==
  \A e \in Flow : (flow[e] # "absent") ~> (flow[e] \in TerminalWorkflow)

\* Cancelling stops every run of the execution, those a coordinator was about to
\* queue too: once no host is at work, without a crash or a refusal, no run goes on.
\* The code keeps this for the nodes that were not retried: the host that held a claim
\* on an earlier attempt fails the node of a later one, whose run is then forgotten.
CancellationReachesRuns ==
  (coordinatorTroubles = 0 /\ \A h \in Host : coordinator[h].at = "start") =>
    \A i \in Item, a \in Attempt :
      flow[i[1]] = "cancelled" /\ retryCount[i] = 0 =>
        workflowRun[<<i, a>>] \notin {"queued", "running"}
=============================================================================
