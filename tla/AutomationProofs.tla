---------------------------- MODULE AutomationProofs ----------------------------
(***************************************************************************)
(* Proofs about Workflows, for any graph, executions, coordinators and       *)
(* retries; about Routines, FileStores and CodexTurn.                         *)
(***************************************************************************)
EXTENDS Workflows, Routines, FileStores, CodexTurn,
        FiniteSetTheorems, WellFoundedInduction, TLAPS

\* A set of numbers that is not empty has a least one, and if it is bounded a greatest.
LEMMA LeastNumber ==
  ASSUME NEW T \in SUBSET Nat, T # {}
  PROVE  \E t \in T : \A u \in T : ~(u < t)
<1> DEFINE Less == OpToRel(<, Nat)
<1>1. \A ss \in Nat \X Nat : ss[1] < ss[2] => ss \in Less
  BY Zenon DEF OpToRel
<1>2. IsWellFoundedOn(Less, Nat)
  BY NatLessThanWellFounded, Zenon
<1> HIDE DEF Less
<1>3. \A x, y \in Nat : x < y => <<x, y>> \in Less
  BY <1>1
<1>4. PICK t \in T : \A u \in T : ~(<<u, t>> \in Less)
  BY <1>2, WFMin, Zenon
<1> QED BY <1>3, <1>4

LEMMA GreatestNumber ==
  ASSUME NEW n, n \in Nat, NEW S \in SUBSET (1 .. n), S # {}
  PROVE  \E x \in S : \A y \in S : x >= y
<1> DEFINE T == {n - x : x \in S}
<1>1. T \subseteq Nat
  <2>1. \A x \in S : n - x \in Nat
    OBVIOUS
  <2> QED BY <2>1
<1>2. T # {} /\ \A x \in S : n - x \in T
  OBVIOUS
<1> HIDE DEF T
<1>3. PICK t \in T : \A u \in T : ~(u < t)
  BY <1>1, <1>2, LeastNumber
<1>4. PICK x \in S : t = n - x
  BY DEF T
<1>5. \A y \in S : ~(n - y < n - x)
  BY <1>2, <1>3, <1>4
<1>6. \A y \in S : x >= y
  BY <1>5
<1> QED BY <1>6

-----------------------------------------------------------------------------
(***************************************************************************)
(* The workflows.  Until something goes wrong, the run of a node that was     *)
(* not retried is in somebody's hands: the host that made it has not told the  *)
(* node yet, or the node names it and its execution is not cancelled, or the    *)
(* request of the cancellation is on its way.  That a run ended is read long    *)
(* before it is written, so that a final status stays is part of it.            *)
(***************************************************************************)

CoordinatorPhase == {"start", "reconcile", "read", "claim", "enqueue", "created",
                     "unwanted", "withdrawn", "stop"}
RunStatus == {"absent", "queued", "running", "cancel_requested"} \cup TerminalRun
NodeStatus == {"pending", "queued", "running"} \cup ClaimedNode \cup TerminalNode
FlowStatus == {"absent", "pending", "running"} \cup TerminalWorkflow
CoordinatorState == [at : CoordinatorPhase, left : SUBSET AttemptRun,
                     on : AttemptRun \cup {None}, saw : RunStatus \cup {None}]

WorkflowShape ==
  /\ flow \in [Flow -> FlowStatus]
  /\ node \in [Item -> NodeStatus]
  /\ retryCount \in [Item -> 0 .. NodeRetries]
  /\ nodeRun \in [Item -> {0} \cup Attempt]
  /\ workflowRun \in [AttemptRun -> RunStatus]
  /\ coordinator \in [Host -> CoordinatorState]
  /\ coordinatorTroubles \in Nat

\* A run there is, one that is not of a later attempt than the node has, one that goes
\* on, one that is over or asked to stop.
Known(r) == workflowRun[r] # "absent"
NotBeyond(r) == r[2] <= retryCount[r[1]] + 1
Live(r) == workflowRun[r] \in {"queued", "running"}
Stopping(r) == workflowRun[r] \in {"cancel_requested"} \cup TerminalRun

CoordinatorAgrees(h) ==
  LET C == coordinator[h] IN
  /\ \A r \in C.left : NotBeyond(r)
  /\ C.at \in {"read", "created", "unwanted", "withdrawn"} =>
       C.on \in AttemptRun /\ NotBeyond(C.on)
  /\ C.at \in {"reconcile", "read"} => \A r \in C.left : Known(r)
  /\ C.at \in {"read", "created", "unwanted"} => Known(C.on)
  /\ C.at = "read" => /\ C.saw \in {"queued", "running"} \cup TerminalRun
                      /\ C.saw \in TerminalRun => workflowRun[C.on] = C.saw
  /\ C.at = "withdrawn" /\ coordinatorTroubles = 0 => Stopping(C.on)

NodeAgrees(i) ==
  /\ nodeRun[i] # 0 => Known(<<i, nodeRun[i]>>)
  /\ flow[i[1]] = "cancelled" => node[i] \in TerminalNode

\* Who answers for the run of a first attempt.
HeldBy(h, i) == coordinator[h].at \in {"created", "unwanted"} /\ coordinator[h].on = <<i, 1>>
StoppedBy(h, i) == coordinator[h].at = "stop" /\ <<i, 1>> \in coordinator[h].left
Named(i) == nodeRun[i] = 1 /\ node[i] \in {"queued", "running"} /\ flow[i[1]] # "cancelled"
Covered(i) ==
  coordinatorTroubles = 0 /\ retryCount[i] = 0 /\ Live(<<i, 1>>) =>
    \/ \E h \in Host : HeldBy(h, i)
    \/ Named(i)
    \/ flow[i[1]] = "cancelled" /\ \E h \in Host : StoppedBy(h, i)

WorkflowInv ==
  /\ WorkflowShape
  /\ \A h \in Host : CoordinatorAgrees(h)
  /\ \A i \in Item : NodeAgrees(i) /\ Covered(i)
  /\ \A r \in AttemptRun : Known(r) => NotBeyond(r)

\* What every step does to the runs: none disappears, and one that is over, or to be
\* stopped, remains so.
Onward ==
  /\ \A r \in AttemptRun : /\ Known(r) => Known(r)'
                           /\ workflowRun[r] \in TerminalRun => workflowRun'[r] = workflowRun[r]
                           /\ Stopping(r) => Stopping(r)'
  /\ \A i \in Item : retryCount[i] <= retryCount'[i]
  /\ coordinatorTroubles' = 0 => coordinatorTroubles = 0

LEMMA AttemptsAreNumbers ==
  /\ 1 \in Attempt /\ Attempt \subseteq Nat /\ 0 .. NodeRetries \subseteq Nat
  /\ \A k \in 0 .. NodeRetries : k + 1 \in Attempt
  /\ \A i \in Item, a \in Attempt : <<i, a>> \in AttemptRun /\ i[1] \in Flow /\ i[2] \in Node
  /\ \A r \in AttemptRun : r[1] \in Item /\ r[2] \in Attempt /\ r = <<r[1], r[2]>>
BY NodeRetriesIsNat DEF Attempt, AttemptRun, Item

LEMMA WorkflowStep ==
  ASSUME WorkflowInv, WorkflowShape', Onward,
         \A h \in Host : coordinator'[h] = coordinator[h] \/ CoordinatorAgrees(h)',
         \A i \in Item : NodeAgrees(i)' /\ Covered(i)',
         \A r \in AttemptRun : Known(r)' => Known(r) \/ NotBeyond(r)'
  PROVE  WorkflowInv'
<1>1. ASSUME NEW r \in AttemptRun, NotBeyond(r) PROVE NotBeyond(r)'
  <2>1. /\ r[1] \in Item /\ r[2] \in Nat
        /\ retryCount[r[1]] \in Nat /\ retryCount'[r[1]] \in Nat
    BY AttemptsAreNumbers DEF WorkflowInv, WorkflowShape
  <2> QED BY <1>1, <2>1 DEF Onward, NotBeyond
<1>2. ASSUME NEW h \in Host, coordinator'[h] = coordinator[h] PROVE CoordinatorAgrees(h)'
  <2>1. CoordinatorAgrees(h) /\ coordinator[h].left \subseteq AttemptRun
    BY DEF WorkflowInv, WorkflowShape, CoordinatorState
  <2> DEFINE C == coordinator[h]
  <2>2. /\ \A r \in C.left : NotBeyond(r)'
        /\ C.at \in {"reconcile", "read"} => \A r \in C.left : Known(r)'
    BY <1>1, <2>1 DEF CoordinatorAgrees, Onward
  <2>3. C.at \in {"read", "created", "unwanted", "withdrawn"} =>
          C.on \in AttemptRun /\ NotBeyond(C.on)'
    BY <1>1, <1>2, <2>1 DEF CoordinatorAgrees
  <2>4. C.at \in {"read", "created", "unwanted"} => Known(C.on)'
    BY <1>2, <2>1, <2>3 DEF CoordinatorAgrees, Onward
  <2>5. C.at = "read" => /\ C.saw \in {"queued", "running"} \cup TerminalRun
                         /\ C.saw \in TerminalRun => workflowRun'[C.on] = C.saw
    BY <1>2, <2>1, <2>3 DEF CoordinatorAgrees, Onward
  <2>6. C.at = "withdrawn" /\ coordinatorTroubles' = 0 => Stopping(C.on)'
    BY <1>2, <2>1, <2>3 DEF CoordinatorAgrees, Onward
  <2> QED BY <1>2, <2>2, <2>3, <2>4, <2>5, <2>6 DEF CoordinatorAgrees
<1>3. ASSUME NEW r \in AttemptRun, Known(r)' PROVE NotBeyond(r)'
  BY <1>1, <1>3 DEF WorkflowInv
<1> QED BY <1>2, <1>3 DEF WorkflowInv

\* The run of a node is still answered for when whoever answered for it still does.
LEMMA CoveredStays ==
  ASSUME Onward, NEW i \in Item, Covered(i),
         retryCount[i] \in Nat, retryCount'[i] \in Nat,
         Live(<<i, 1>>)' => Live(<<i, 1>>),
         \A h \in Host : HeldBy(h, i) => HeldBy(h, i)',
         \A h \in Host : StoppedBy(h, i) => StoppedBy(h, i)',
         Named(i) => Named(i)',
         flow[i[1]] = "cancelled" => flow'[i[1]] = "cancelled"
  PROVE  Covered(i)'
<1>1. retryCount'[i] = 0 => retryCount[i] = 0
  BY DEF Onward
<1> QED BY <1>1 DEF Covered, Onward

\* The other hosts stay where they are.
CoordinatesOn(h, W) ==
  /\ coordinator' \in [Host -> CoordinatorState]
  /\ coordinator'[h] = W
  /\ \A g \in Host \ {h} : coordinator'[g] = coordinator[g]

LEMMA CoordinatorMove ==
  ASSUME WorkflowShape, NEW h \in Host, NEW W \in CoordinatorState,
         coordinator' = [coordinator EXCEPT ![h] = W]
  PROVE  CoordinatesOn(h, W)
BY DEF WorkflowShape, CoordinatesOn

LEMMA AtAPhase ==
  \A p \in CoordinatorPhase, S \in SUBSET AttemptRun :
    /\ CoordinatorAt(p, S) \in CoordinatorState
    /\ CoordinatorAt(p, S).at = p /\ CoordinatorAt(p, S).left = S
BY DEF CoordinatorAt, CoordinatorState

\* A host that holds or stops no run moves, and neither the runs nor the nodes do.
LEMMA QuietMove ==
  ASSUME WorkflowInv, NEW h \in Host, NEW W \in CoordinatorState, CoordinatesOn(h, W),
         UNCHANGED <<flow, node, retryCount, nodeRun, workflowRun, coordinatorTroubles>>,
         coordinator[h].at \notin {"created", "unwanted"},
         coordinator[h].at = "stop" => coordinator[h].left = {},
         CoordinatorAgrees(h)'
  PROVE  WorkflowInv'
<1>1. WorkflowShape'
  BY DEF WorkflowInv, WorkflowShape, CoordinatesOn
<1>2. Onward
  <2>1. \A i \in Item : retryCount[i] \in Nat
    BY AttemptsAreNumbers DEF WorkflowInv, WorkflowShape
  <2> QED BY <2>1 DEF Onward, Known, Stopping
<1>3. ASSUME NEW i \in Item PROVE NodeAgrees(i)' /\ Covered(i)'
  <2>1. NodeAgrees(i) /\ Covered(i) /\ retryCount[i] \in Nat
    BY AttemptsAreNumbers DEF WorkflowInv, WorkflowShape
  <2>2. NodeAgrees(i)'
    BY <2>1 DEF NodeAgrees, Known
  <2>3. \A g \in Host : /\ HeldBy(g, i) => HeldBy(g, i)'
                        /\ StoppedBy(g, i) => StoppedBy(g, i)'
    BY DEF HeldBy, StoppedBy, CoordinatesOn
  <2>4. (Named(i) => Named(i)') /\ (Live(<<i, 1>>)' => Live(<<i, 1>>))
    BY DEF Named, Live
  <2>5. Covered(i)'
    BY <1>2, <2>1, <2>3, <2>4, CoveredStays
  <2> QED BY <2>2, <2>5
<1>4. \A g \in Host : coordinator'[g] = coordinator[g] \/ CoordinatorAgrees(g)'
  BY DEF CoordinatesOn
<1>5. \A r \in AttemptRun : Known(r)' => Known(r)
  BY DEF Known
<1> QED BY <1>1, <1>2, <1>3, <1>4, <1>5, WorkflowStep

LEMMA ListsStep ==
  ASSUME WorkflowInv, NEW h \in Host, ListNodeRuns(h) \/ ReadNodeRun(h) \/ NextList(h)
  PROVE  WorkflowInv'
<1>1. /\ coordinator[h] \in CoordinatorState /\ CoordinatorAgrees(h)
      /\ coordinator[h].left \subseteq AttemptRun /\ WorkflowShape
  BY DEF WorkflowInv, WorkflowShape, CoordinatorState
<1>2. UNCHANGED <<flow, node, retryCount, nodeRun, workflowRun, coordinatorTroubles>>
  BY DEF ListNodeRuns, ReadNodeRun, NextList
<1>3. CASE ListNodeRuns(h)
  <2> DEFINE S == {<<j, nodeRun[j]>> : j \in {j \in Item : nodeRun[j] # 0
                                                          /\ node[j] \notin TerminalNode}}
             W == CoordinatorAt("reconcile", S)
  <2>1. \A j \in Item : nodeRun[j] # 0 =>
          <<j, nodeRun[j]>> \in AttemptRun /\ Known(<<j, nodeRun[j]>>)
    BY <1>1, AttemptsAreNumbers DEF WorkflowInv, WorkflowShape, NodeAgrees
  <2>2. S \in SUBSET AttemptRun /\ \A r \in S : Known(r) /\ NotBeyond(r)
    BY <2>1 DEF WorkflowInv
  <2>3. coordinator' = [coordinator EXCEPT ![h] = W] /\ coordinator[h].at = "start"
    BY <1>3 DEF ListNodeRuns, Coordinates
  <2> HIDE DEF S
  <2>4. W \in CoordinatorState /\ W.at = "reconcile" /\ W.left = S
    BY <2>2, AtAPhase DEF CoordinatorPhase
  <2> HIDE DEF W
  <2>5. CoordinatesOn(h, W)
    BY <1>1, <2>3, <2>4, CoordinatorMove
  <2>6. CoordinatorAgrees(h)'
    BY <1>2, <2>2, <2>4, <2>5 DEF CoordinatesOn, CoordinatorAgrees, Known, NotBeyond
  <2> QED BY <1>2, <2>3, <2>4, <2>5, <2>6, QuietMove
<1>4. CASE ReadNodeRun(h)
  <2>1. PICK r \in coordinator[h].left :
          TakesRun(h, r, "read", IF workflowRun[r] = "cancel_requested"
                                   THEN "running" ELSE workflowRun[r])
    BY <1>4 DEF ReadNodeRun
  <2> DEFINE s == IF workflowRun[r] = "cancel_requested" THEN "running" ELSE workflowRun[r]
             W == [at |-> "read", left |-> coordinator[h].left \ {r}, on |-> r, saw |-> s]
  <2>2. coordinator[h].at = "reconcile" /\ r \in AttemptRun /\ Known(r) /\ NotBeyond(r)
    BY <1>1, <1>4 DEF ReadNodeRun, Coordinates, CoordinatorAgrees
  <2>3. /\ s \in {"queued", "running"} \cup TerminalRun /\ s \in RunStatus
        /\ s \in TerminalRun => workflowRun[r] = s
    BY <1>1, <2>2 DEF WorkflowShape, RunStatus, Known, TerminalRun
  <2>4. coordinator' = [coordinator EXCEPT ![h] = W]
    BY <1>1, <2>1 DEF TakesRun, WorkflowShape
  <2> HIDE DEF s
  <2>5. /\ W \in CoordinatorState /\ W.at = "read" /\ W.on = r /\ W.saw = s
        /\ W.left = coordinator[h].left \ {r}
    BY <1>1, <2>2, <2>3 DEF CoordinatorState, CoordinatorPhase
  <2> HIDE DEF W
  <2>6. CoordinatesOn(h, W)
    BY <1>1, <2>4, <2>5, CoordinatorMove
  <2>7. CoordinatorAgrees(h)'
    BY <1>1, <1>2, <2>2, <2>3, <2>5, <2>6 DEF CoordinatesOn, CoordinatorAgrees, Known, NotBeyond
  <2> QED BY <1>2, <2>2, <2>5, <2>6, <2>7, QuietMove
<1>5. CASE NextList(h)
  <2>1. PICK p \in {"claim", "start"} : ReturnsTo(h, p)
    BY <1>5 DEF NextList
  <2>2. /\ coordinator[h].left = {} /\ coordinator[h].at \in {"reconcile", "enqueue", "stop"}
    BY <1>5 DEF NextList
  <2> DEFINE W == CoordinatorAt(p, {})
  <2>3. coordinator' = [coordinator EXCEPT ![h] = W]
    BY <1>1, <2>1, <2>2 DEF ReturnsTo, WorkflowShape
  <2>4. W \in CoordinatorState /\ W.at = p /\ W.left = {}
    BY AtAPhase DEF CoordinatorPhase
  <2> HIDE DEF W
  <2>5. CoordinatesOn(h, W)
    BY <1>1, <2>3, <2>4, CoordinatorMove
  <2>6. CoordinatorAgrees(h)'
    BY <2>4, <2>5 DEF CoordinatesOn, CoordinatorAgrees
  <2> QED BY <1>2, <2>2, <2>4, <2>5, <2>6, QuietMove
<1> QED BY <1>3, <1>4, <1>5

\* Where only the runs change, a run is moved on by nobody who answers for it, made by
\* the host that holds it, or withdrawn.
LEMMA RunStep ==
  ASSUME WorkflowInv, WorkflowShape',
         UNCHANGED <<flow, node, retryCount, nodeRun, coordinatorTroubles>>,
         \A r \in AttemptRun : Known(r) => Known(r)',
         \A r \in AttemptRun : workflowRun[r] \in TerminalRun => workflowRun'[r] = workflowRun[r],
         \A r \in AttemptRun : Stopping(r) => Stopping(r)',
         \A r \in AttemptRun : Known(r)' => Known(r) \/ NotBeyond(r),
         \A h \in Host : coordinator'[h] = coordinator[h] \/ CoordinatorAgrees(h)',
         \A i \in Item :
           \/ \E h \in Host : HeldBy(h, i)'
           \/ ~Live(<<i, 1>>)'
           \/ /\ Live(<<i, 1>>)
              /\ \A h \in Host : (HeldBy(h, i) => HeldBy(h, i)')
                                 /\ (StoppedBy(h, i) => StoppedBy(h, i)')
  PROVE  WorkflowInv'
<1>1. \A i \in Item : retryCount[i] \in Nat
  BY AttemptsAreNumbers DEF WorkflowInv, WorkflowShape
<1>2. Onward
  BY <1>1 DEF Onward
<1>3. ASSUME NEW i \in Item PROVE NodeAgrees(i)' /\ Covered(i)'
  <2>1. NodeAgrees(i) /\ Covered(i) /\ retryCount[i] \in Nat /\ nodeRun[i] \in {0} \cup Attempt
    BY <1>1 DEF WorkflowInv, WorkflowShape
  <2>2. nodeRun[i] # 0 => <<i, nodeRun[i]>> \in AttemptRun
    BY <2>1, AttemptsAreNumbers
  <2>3. NodeAgrees(i)'
    BY <2>1, <2>2 DEF NodeAgrees
  <2>4. Named(i) => Named(i)'
    BY DEF Named
  <2>5. CASE (\E h \in Host : HeldBy(h, i)') \/ ~Live(<<i, 1>>)'
    BY <2>3, <2>5 DEF Covered
  <2>6. CASE /\ Live(<<i, 1>>)
             /\ \A h \in Host : (HeldBy(h, i) => HeldBy(h, i)')
                                /\ (StoppedBy(h, i) => StoppedBy(h, i)')
    BY <1>2, <2>1, <2>3, <2>4, <2>6, CoveredStays
  <2> QED BY <2>5, <2>6
<1>4. \A r \in AttemptRun : Known(r)' => Known(r) \/ NotBeyond(r)'
  BY DEF NotBeyond
<1> QED BY <1>2, <1>3, <1>4, WorkflowStep

LEMMA AdvancesStep ==
  ASSUME WorkflowInv, NEW r \in AttemptRun, RunAdvances(r)
  PROVE  WorkflowInv'
<1>1. /\ UNCHANGED <<flow, node, retryCount, nodeRun, coordinator, coordinatorTroubles>>
      /\ WorkflowShape
  BY DEF RunAdvances, WorkflowInv
<1>2. PICK s \in {"running", "completed", "failed", "cancelled"} :
        /\ workflowRun' = [workflowRun EXCEPT ![r] = s]
        /\ \/ workflowRun[r] = "queued" /\ s = "running"
           \/ workflowRun[r] = "running" /\ s \in {"completed", "failed"}
           \/ workflowRun[r] = "cancel_requested" /\ s = "cancelled"
  BY DEF RunAdvances
<1>3. WorkflowShape'
  BY <1>1, <1>2 DEF WorkflowShape, RunStatus, TerminalRun
<1>4. /\ \A q \in AttemptRun : Known(q) => Known(q)'
      /\ \A q \in AttemptRun : workflowRun[q] \in TerminalRun => workflowRun'[q] = workflowRun[q]
      /\ \A q \in AttemptRun : Stopping(q) => Stopping(q)'
      /\ \A q \in AttemptRun : Known(q)' => Known(q)
      /\ \A q \in AttemptRun : Live(q)' => Live(q)
  BY <1>1, <1>2 DEF WorkflowShape, TerminalRun, Known, Stopping, Live
<1>5. \A i \in Item : <<i, 1>> \in AttemptRun
  BY AttemptsAreNumbers
<1>6. \A i \in Item, h \in Host : (HeldBy(h, i) => HeldBy(h, i)')
                                  /\ (StoppedBy(h, i) => StoppedBy(h, i)')
  BY <1>1 DEF HeldBy, StoppedBy
<1> QED BY <1>1, <1>3, <1>4, <1>5, <1>6, RunStep

LEMMA CreateStep ==
  ASSUME WorkflowInv, NEW h \in Host, CreateNodeRun(h)
  PROVE  WorkflowInv'
<1>1. /\ coordinator[h] \in CoordinatorState /\ CoordinatorAgrees(h)
      /\ coordinator[h].left \subseteq AttemptRun /\ WorkflowShape
      /\ coordinator[h].at = "enqueue"
  BY DEF WorkflowInv, WorkflowShape, CoordinatorState, CreateNodeRun, Coordinates
<1>2. UNCHANGED <<flow, node, retryCount, nodeRun, coordinatorTroubles>>
  BY DEF CreateNodeRun
<1>3. PICK r \in coordinator[h].left :
        /\ TakesRun(h, r, "created", None)
        /\ workflowRun' = [workflowRun EXCEPT ![r] = IF workflowRun[r] = "absent"
                                                       THEN "queued" ELSE workflowRun[r]]
  BY <1>1 DEF CreateNodeRun, WorkflowShape
<1>4. r \in AttemptRun /\ NotBeyond(r)
  BY <1>1 DEF CoordinatorAgrees
<1> DEFINE W == [at |-> "created", left |-> coordinator[h].left \ {r}, on |-> r, saw |-> None]
<1>5. coordinator' = [coordinator EXCEPT ![h] = W]
  BY <1>1, <1>3 DEF TakesRun, WorkflowShape
<1>6. /\ W \in CoordinatorState /\ W.at = "created" /\ W.on = r
      /\ W.left = coordinator[h].left \ {r}
  BY <1>1, <1>4 DEF CoordinatorState, CoordinatorPhase
<1> HIDE DEF W
<1>7. CoordinatesOn(h, W)
  BY <1>1, <1>5, <1>6, CoordinatorMove
<1>8. WorkflowShape'
  <2>1. workflowRun' \in [AttemptRun -> RunStatus]
    BY <1>1, <1>3 DEF WorkflowShape, RunStatus
  <2> QED BY <1>1, <1>2, <1>7, <2>1 DEF WorkflowShape, CoordinatesOn
<1>9. /\ \A q \in AttemptRun : Known(q) => Known(q)'
      /\ \A q \in AttemptRun : workflowRun[q] \in TerminalRun => workflowRun'[q] = workflowRun[q]
      /\ \A q \in AttemptRun : Stopping(q) => Stopping(q)'
      /\ \A q \in AttemptRun : Known(q)' => Known(q) \/ NotBeyond(q)
      /\ \A q \in AttemptRun \ {r} : Live(q)' => Live(q)
      /\ workflowRun'[r] # "absent"
  BY <1>1, <1>3, <1>4 DEF WorkflowShape, TerminalRun, Known, Stopping, Live
<1>10. CoordinatorAgrees(h)'
  BY <1>1, <1>2, <1>4, <1>6, <1>7, <1>9 DEF CoordinatesOn, CoordinatorAgrees, Known, NotBeyond
<1>11. \A g \in Host : coordinator'[g] = coordinator[g] \/ CoordinatorAgrees(g)'
  BY <1>7, <1>10 DEF CoordinatesOn
<1>12. ASSUME NEW i \in Item
       PROVE  \/ \E g \in Host : HeldBy(g, i)'
              \/ ~Live(<<i, 1>>)'
              \/ /\ Live(<<i, 1>>)
                 /\ \A g \in Host : (HeldBy(g, i) => HeldBy(g, i)')
                                    /\ (StoppedBy(g, i) => StoppedBy(g, i)')
  <2>1. CASE r = <<i, 1>>
    BY <1>6, <1>7, <2>1 DEF CoordinatesOn, HeldBy
  <2>2. CASE r # <<i, 1>>
    <3>1. Live(<<i, 1>>)' => Live(<<i, 1>>)
      BY <1>9, <2>2, AttemptsAreNumbers
    <3>2. \A g \in Host : (HeldBy(g, i) => HeldBy(g, i)')
                          /\ (StoppedBy(g, i) => StoppedBy(g, i)')
      BY <1>1, <1>7 DEF CoordinatesOn, HeldBy, StoppedBy
    <3> QED BY <3>1, <3>2
  <2> QED BY <2>1, <2>2
<1> QED BY <1>2, <1>8, <1>9, <1>11, <1>12, RunStep

LEMMA RequestedStops ==
  \A s \in RunStatus : /\ Requested(s) \in RunStatus
                       /\ s # "absent" => Requested(s) \in {"cancel_requested"} \cup TerminalRun
                       /\ s = "absent" => Requested(s) = "absent"
                       /\ s \in TerminalRun => Requested(s) = s
                       /\ s \in {"cancel_requested"} \cup TerminalRun
                            => Requested(s) \in {"cancel_requested"} \cup TerminalRun
                       /\ Requested(s) \notin {"queued", "running"}
BY DEF Requested, RunStatus, TerminalRun

LEMMA RequestKeeps ==
  ASSUME WorkflowShape, NEW r \in AttemptRun,
         workflowRun' = [workflowRun EXCEPT ![r] = Requested(workflowRun[r])]
  PROVE  /\ workflowRun' \in [AttemptRun -> RunStatus]
         /\ \A q \in AttemptRun : Known(q) => Known(q)'
         /\ \A q \in AttemptRun : workflowRun[q] \in TerminalRun => workflowRun'[q] = workflowRun[q]
         /\ \A q \in AttemptRun : Stopping(q) => Stopping(q)'
         /\ \A q \in AttemptRun : Known(q)' => Known(q)
         /\ \A q \in AttemptRun : Live(q)' => Live(q)
         /\ ~Live(r)'
         /\ Known(r) => Stopping(r)'
<1>1. workflowRun \in [AttemptRun -> RunStatus] /\ workflowRun[r] \in RunStatus
  BY DEF WorkflowShape
<1> DEFINE s == Requested(workflowRun[r])
<1>2. /\ s \in RunStatus
      /\ workflowRun[r] # "absent" => s \in {"cancel_requested"} \cup TerminalRun
      /\ workflowRun[r] = "absent" => s = "absent"
      /\ workflowRun[r] \in TerminalRun => s = workflowRun[r]
      /\ workflowRun[r] \in {"cancel_requested"} \cup TerminalRun
           => s \in {"cancel_requested"} \cup TerminalRun
      /\ s \notin {"queued", "running"}
  BY <1>1, RequestedStops
<1> HIDE DEF s
<1>3. /\ workflowRun'[r] = s /\ \A q \in AttemptRun \ {r} : workflowRun'[q] = workflowRun[q]
      /\ workflowRun' \in [AttemptRun -> RunStatus]
  BY <1>1, <1>2 DEF s
<1>4. \A q \in AttemptRun : Known(q) => Known(q)'
  BY <1>2, <1>3 DEF Known, TerminalRun
<1>5. \A q \in AttemptRun : workflowRun[q] \in TerminalRun => workflowRun'[q] = workflowRun[q]
  BY <1>2, <1>3
<1>6. \A q \in AttemptRun : Stopping(q) => Stopping(q)'
  BY <1>2, <1>3 DEF Stopping
<1>7. \A q \in AttemptRun : (Known(q)' => Known(q)) /\ (Live(q)' => Live(q))
  BY <1>2, <1>3 DEF Known, Live
<1>8. ~Live(r)' /\ (Known(r) => Stopping(r)')
  BY <1>2, <1>3 DEF Known, Live, Stopping
<1> QED BY <1>3, <1>4, <1>5, <1>6, <1>7, <1>8

LEMMA WithdrawStep ==
  ASSUME WorkflowInv, NEW h \in Host, WithdrawNodeRun(h)
  PROVE  WorkflowInv'
<1>0. PICK r \in AttemptRun : r = coordinator[h].on
  BY DEF WorkflowInv, WithdrawNodeRun, Coordinates, CoordinatorAgrees
<1> DEFINE W == [coordinator[h] EXCEPT !.at = "withdrawn"]
<1>1. /\ coordinator[h] \in CoordinatorState /\ CoordinatorAgrees(h) /\ WorkflowShape
      /\ coordinator[h].at = "unwanted" /\ NotBeyond(r) /\ Known(r)
  BY <1>0 DEF WorkflowInv, WorkflowShape, WithdrawNodeRun, Coordinates, CoordinatorAgrees
<1>2. /\ UNCHANGED <<flow, node, retryCount, nodeRun, coordinatorTroubles>>
      /\ workflowRun' = [workflowRun EXCEPT ![r] = Requested(workflowRun[r])]
  BY <1>0, <1>1 DEF WithdrawNodeRun, OnRun, WorkflowShape
<1>3. coordinator' = [coordinator EXCEPT ![h] = W]
  BY <1>1 DEF WithdrawNodeRun, CoordinatorTo, WorkflowShape
<1>4. /\ W \in CoordinatorState /\ W.at = "withdrawn" /\ W.on = r
      /\ W.left = coordinator[h].left
  BY <1>0, <1>1 DEF CoordinatorState, CoordinatorPhase
<1> HIDE DEF W
<1>5. CoordinatesOn(h, W)
  BY <1>1, <1>3, <1>4, CoordinatorMove
<1>6. /\ workflowRun' \in [AttemptRun -> RunStatus]
      /\ \A q \in AttemptRun : Known(q) => Known(q)'
      /\ \A q \in AttemptRun : workflowRun[q] \in TerminalRun => workflowRun'[q] = workflowRun[q]
      /\ \A q \in AttemptRun : Stopping(q) => Stopping(q)'
      /\ \A q \in AttemptRun : Known(q)' => Known(q)
      /\ \A q \in AttemptRun : Live(q)' => Live(q)
      /\ ~Live(r)'
      /\ Stopping(r)'
  BY <1>1, <1>2, RequestKeeps
<1>7. WorkflowShape'
  BY <1>1, <1>2, <1>5, <1>6 DEF WorkflowShape, CoordinatesOn
<1>8. CoordinatorAgrees(h)'
  BY <1>1, <1>2, <1>4, <1>5, <1>6 DEF CoordinatesOn, CoordinatorAgrees, NotBeyond
<1>9. \A g \in Host : coordinator'[g] = coordinator[g] \/ CoordinatorAgrees(g)'
  BY <1>5, <1>8 DEF CoordinatesOn
<1>10. ASSUME NEW i \in Item, Live(<<i, 1>>)'
       PROVE  /\ Live(<<i, 1>>)
              /\ \A g \in Host : (HeldBy(g, i) => HeldBy(g, i)')
                                 /\ (StoppedBy(g, i) => StoppedBy(g, i)')
  <2>1. r # <<i, 1>>
    BY <1>6, <1>10 DEF Live
  <2>2. Live(<<i, 1>>)
    BY <1>6, <1>10, AttemptsAreNumbers
  <2>3. \A g \in Host : (HeldBy(g, i) => HeldBy(g, i)')
                        /\ (StoppedBy(g, i) => StoppedBy(g, i)')
    BY <1>0, <1>1, <1>5, <2>1 DEF CoordinatesOn, HeldBy, StoppedBy
  <2> QED BY <2>2, <2>3
<1> QED BY <1>2, <1>6, <1>7, <1>9, <1>10, RunStep

LEMMA StopStep ==
  ASSUME WorkflowInv, NEW h \in Host, StopNodeRun(h)
  PROVE  WorkflowInv'
<1>1. /\ coordinator[h] \in CoordinatorState /\ CoordinatorAgrees(h) /\ WorkflowShape
      /\ coordinator[h].at = "stop" /\ coordinator[h].left \subseteq AttemptRun
  BY DEF WorkflowInv, WorkflowShape, StopNodeRun, Coordinates, CoordinatorState
<1>2. UNCHANGED <<flow, node, retryCount, nodeRun, coordinatorTroubles>>
  BY DEF StopNodeRun
<1>3. PICK r \in coordinator[h].left :
        /\ coordinator' = [coordinator EXCEPT ![h].left = coordinator[h].left \ {r}]
        /\ workflowRun' = [workflowRun EXCEPT ![r] = Requested(workflowRun[r])]
  BY <1>1 DEF StopNodeRun, WorkflowShape
<1> DEFINE W == [coordinator[h] EXCEPT !.left = coordinator[h].left \ {r}]
<1>4. /\ W \in CoordinatorState /\ W.at = "stop"
      /\ W.left = coordinator[h].left \ {r}
  BY <1>1 DEF CoordinatorState
<1>5. CoordinatesOn(h, W)
  <2>1. coordinator' = [coordinator EXCEPT ![h] = W]
    BY <1>1, <1>3 DEF WorkflowShape
  <2> HIDE DEF W
  <2> QED BY <1>1, <1>4, <2>1, CoordinatorMove
<1> HIDE DEF W
<1>6. /\ workflowRun' \in [AttemptRun -> RunStatus]
      /\ \A q \in AttemptRun : Known(q) => Known(q)'
      /\ \A q \in AttemptRun : workflowRun[q] \in TerminalRun => workflowRun'[q] = workflowRun[q]
      /\ \A q \in AttemptRun : Stopping(q) => Stopping(q)'
      /\ \A q \in AttemptRun : Known(q)' => Known(q)
      /\ \A q \in AttemptRun : Live(q)' => Live(q)
      /\ ~Live(r)'
  BY <1>1, <1>3, RequestKeeps
<1>7. WorkflowShape'
  BY <1>1, <1>2, <1>5, <1>6 DEF WorkflowShape, CoordinatesOn
<1>8. CoordinatorAgrees(h)'
  BY <1>1, <1>2, <1>4, <1>5 DEF CoordinatesOn, CoordinatorAgrees, NotBeyond
<1>9. \A g \in Host : coordinator'[g] = coordinator[g] \/ CoordinatorAgrees(g)'
  BY <1>5, <1>8 DEF CoordinatesOn
<1>10. ASSUME NEW i \in Item, Live(<<i, 1>>)'
       PROVE  /\ Live(<<i, 1>>)
              /\ \A g \in Host : (HeldBy(g, i) => HeldBy(g, i)')
                                 /\ (StoppedBy(g, i) => StoppedBy(g, i)')
  <2>1. r # <<i, 1>>
    BY <1>6, <1>10 DEF Live
  <2>2. Live(<<i, 1>>)
    BY <1>6, <1>10, AttemptsAreNumbers
  <2>3. \A g \in Host : (HeldBy(g, i) => HeldBy(g, i)')
                        /\ (StoppedBy(g, i) => StoppedBy(g, i)')
    BY <1>1, <1>4, <1>5, <2>1 DEF CoordinatesOn, HeldBy, StoppedBy
  <2> QED BY <2>2, <2>3
<1> QED BY <1>2, <1>6, <1>7, <1>9, <1>10, RunStep

\* Once something went wrong only the types and what was read are left to keep.
LEMMA TroubleStep ==
  ASSUME WorkflowInv, NEW h \in Host, NodeRunRefused(h) \/ CoordinatorCrashes(h)
  PROVE  WorkflowInv'
<1>1. /\ coordinator[h] \in CoordinatorState /\ CoordinatorAgrees(h) /\ WorkflowShape
      /\ coordinator[h].left \subseteq AttemptRun /\ coordinatorTroubles \in Nat
  BY DEF WorkflowInv, WorkflowShape, CoordinatorState
<1>2. /\ UNCHANGED <<flow, node, retryCount, nodeRun, workflowRun>>
      /\ coordinatorTroubles' = coordinatorTroubles + 1
  BY DEF NodeRunRefused, CoordinatorCrashes, TroubleStrikes
<1>3. coordinatorTroubles' \in Nat /\ coordinatorTroubles' # 0
  BY <1>1, <1>2
<1>4. PICK W \in CoordinatorState :
        /\ coordinator' = [coordinator EXCEPT ![h] = W]
        /\ \/ W.at = "start" /\ W.left = {}
           \/ /\ W.at = "withdrawn" /\ W.on \in coordinator[h].left
              /\ W.left \subseteq coordinator[h].left
  <2>1. CASE NodeRunRefused(h)
    <3>1. PICK r \in coordinator[h].left : TakesRun(h, r, "withdrawn", None)
      BY <2>1 DEF NodeRunRefused
    <3> DEFINE W == [at |-> "withdrawn", left |-> coordinator[h].left \ {r}, on |-> r,
                     saw |-> None]
    <3>2. coordinator' = [coordinator EXCEPT ![h] = W]
      BY <1>1, <3>1 DEF TakesRun, WorkflowShape
    <3>3. /\ W \in CoordinatorState /\ W.at = "withdrawn" /\ W.on = r
          /\ W.left = coordinator[h].left \ {r}
      BY <1>1 DEF CoordinatorState, CoordinatorPhase
    <3> HIDE DEF W
    <3> QED BY <3>2, <3>3
  <2>2. CASE CoordinatorCrashes(h)
    BY <2>2, AtAPhase DEF CoordinatorCrashes, CoordinatorPhase
  <2> QED BY <2>1, <2>2
<1>5. CoordinatesOn(h, W)
  BY <1>1, <1>4, CoordinatorMove
<1>6. WorkflowShape'
  BY <1>1, <1>2, <1>3, <1>5 DEF WorkflowShape, CoordinatesOn
<1>7. CoordinatorAgrees(h)'
  <2>1. /\ \A r \in W.left : NotBeyond(r)
        /\ W.at = "withdrawn" => W.on \in AttemptRun /\ NotBeyond(W.on)
        /\ W.at \in {"start", "withdrawn"}
    BY <1>1, <1>4 DEF CoordinatorAgrees
  <2>2. coordinator'[h] = W
    BY <1>5 DEF CoordinatesOn
  <2> QED BY <1>2, <1>3, <2>1, <2>2 DEF CoordinatorAgrees, NotBeyond
<1>8. Onward
  <2>1. \A i \in Item : retryCount[i] \in Nat
    BY <1>1, AttemptsAreNumbers DEF WorkflowShape
  <2> QED BY <1>2, <1>3, <2>1 DEF Onward, Known, Stopping
<1>9. ASSUME NEW i \in Item PROVE NodeAgrees(i)' /\ Covered(i)'
  <2>1. NodeAgrees(i)'
    BY <1>2 DEF WorkflowInv, NodeAgrees, Known
  <2> QED BY <1>3, <2>1 DEF Covered
<1>10. \A r \in AttemptRun : Known(r)' => Known(r)
  BY <1>2 DEF Known
<1>11. \A g \in Host : coordinator'[g] = coordinator[g] \/ CoordinatorAgrees(g)'
  BY <1>5, <1>7 DEF CoordinatesOn
<1> QED BY <1>6, <1>8, <1>9, <1>10, <1>11, WorkflowStep

\* Where the runs and the retries stay, and whoever holds or stops a run goes on to,
\* a node is named as before or nobody is left to be.
LEMMA NodeStep ==
  ASSUME WorkflowInv, WorkflowShape',
         UNCHANGED <<retryCount, workflowRun, coordinatorTroubles>>,
         \A h \in Host : coordinator'[h] = coordinator[h] \/ CoordinatorAgrees(h)',
         \A i \in Item : NodeAgrees(i)',
         \A i \in Item :
           coordinatorTroubles = 0 /\ retryCount[i] = 0 /\ Live(<<i, 1>>) =>
             \/ \E h \in Host : HeldBy(h, i)'
             \/ Named(i)'
             \/ flow'[i[1]] = "cancelled" /\ \E h \in Host : StoppedBy(h, i)'
  PROVE  WorkflowInv'
<1>1. \A i \in Item : retryCount[i] \in Nat
  BY AttemptsAreNumbers DEF WorkflowInv, WorkflowShape
<1>2. Onward
  BY <1>1 DEF Onward, Known, Stopping
<1>3. \A i \in Item : Covered(i)'
  BY DEF Covered, Live
<1>4. \A r \in AttemptRun : Known(r)' => Known(r)
  BY DEF Known
<1> QED BY <1>2, <1>3, <1>4, WorkflowStep

LEMMA TriggersStep ==
  ASSUME WorkflowInv,
         (\E e \in Flow : TriggerExecution(e)) \/ (\E i \in Item : NodeClaimLapses(i))
  PROVE  WorkflowInv'
<1>1. /\ WorkflowShape
      /\ UNCHANGED <<retryCount, nodeRun, workflowRun, coordinator, coordinatorTroubles>>
  BY DEF TriggerExecution, NodeClaimLapses, WorkflowInv
<1>2. /\ flow' \in [Flow -> FlowStatus] /\ node' \in [Item -> NodeStatus]
      /\ \A e \in Flow : flow'[e] = "cancelled" <=> flow[e] = "cancelled"
      /\ \A i \in Item : \/ node'[i] = node[i]
                         \/ node[i] = "claimed" /\ node'[i] = "lapsed"
  <2>1. CASE \E e \in Flow : TriggerExecution(e)
    BY <1>1, <2>1 DEF TriggerExecution, WorkflowShape, FlowStatus
  <2>2. CASE \E i \in Item : NodeClaimLapses(i)
    BY <1>1, <2>2 DEF NodeClaimLapses, WorkflowShape, NodeStatus, ClaimedNode
  <2> QED BY <2>1, <2>2
<1>3. WorkflowShape'
  BY <1>1, <1>2 DEF WorkflowShape
<1>4. ASSUME NEW i \in Item
      PROVE  /\ NodeAgrees(i)'
             /\ coordinatorTroubles = 0 /\ retryCount[i] = 0 /\ Live(<<i, 1>>) =>
                  \/ \E h \in Host : HeldBy(h, i)'
                  \/ Named(i)'
                  \/ flow'[i[1]] = "cancelled" /\ \E h \in Host : StoppedBy(h, i)'
  <2>1. NodeAgrees(i) /\ Covered(i) /\ i[1] \in Flow
    BY DEF WorkflowInv, Item
  <2>2. NodeAgrees(i)'
    BY <1>1, <1>2, <2>1 DEF NodeAgrees, Known, TerminalNode
  <2>3. Named(i) => Named(i)'
    BY <1>1, <1>2, <2>1 DEF Named
  <2>4. \A h \in Host : (HeldBy(h, i) => HeldBy(h, i)') /\ (StoppedBy(h, i) => StoppedBy(h, i)')
    BY <1>1 DEF HeldBy, StoppedBy
  <2> QED BY <1>2, <2>1, <2>2, <2>3, <2>4 DEF Covered
<1> QED BY <1>1, <1>3, <1>4, NodeStep

\* updateExecutionState: only what is pending is skipped, and nothing that is cancelled
\* is touched or comes to be.
LEMMA SweptKeeps ==
  ASSUME WorkflowShape, NEW nd \in [Item -> NodeStatus], NEW E \in SUBSET Flow
  PROVE  /\ Swept(nd, E) \in [Item -> NodeStatus]
         /\ \A i \in Item : \/ Swept(nd, E)[i] = nd[i]
                            \/ /\ nd[i] = "pending" /\ Swept(nd, E)[i] = "skipped"
                               /\ flow[i[1]] # "cancelled"
<1>1. ASSUME NEW i \in Item, i[2] \in Skipped(nd, i[1]) PROVE nd[i] = "pending"
  BY <1>1 DEF Skipped, Item
<1>2. \A i \in Item : \/ Swept(nd, E)[i] = nd[i]
                      \/ /\ nd[i] = "pending" /\ Swept(nd, E)[i] = "skipped"
                         /\ flow[i[1]] # "cancelled"
  BY <1>1 DEF Swept
<1>3. DOMAIN Swept(nd, E) = Item /\ Swept(nd, E) = [i \in Item |-> Swept(nd, E)[i]]
  BY DEF Swept
<1>4. \A i \in Item : Swept(nd, E)[i] \in NodeStatus
  BY <1>2 DEF NodeStatus, TerminalNode
<1> HIDE DEF Swept
<1> QED BY <1>2, <1>3, <1>4

LEMMA StandingKeeps ==
  ASSUME WorkflowShape, NEW nd, NEW E \in SUBSET Flow
  PROVE  /\ Standing(nd, E) \in [Flow -> FlowStatus]
         /\ \A e \in Flow : Standing(nd, E)[e] = "cancelled" <=> flow[e] = "cancelled"
<1>1. \A e \in Flow : StatusOf(nd, e) \in {"completed", "failed", "pending", "running"}
  BY DEF StatusOf
<1> HIDE DEF StatusOf
<1> QED BY <1>1 DEF Standing, WorkflowShape, FlowStatus, TerminalWorkflow

LEMMA UpdateKeeps ==
  ASSUME WorkflowShape, NEW nd \in [Item -> NodeStatus], NEW e \in Flow,
         UpdateExecutionState(nd, {e})
  PROVE  /\ node' \in [Item -> NodeStatus] /\ flow' \in [Flow -> FlowStatus]
         /\ \A f \in Flow : flow'[f] = "cancelled" <=> flow[f] = "cancelled"
         /\ \A i \in Item : \/ node'[i] = nd[i]
                            \/ /\ nd[i] = "pending" /\ node'[i] = "skipped"
                               /\ flow[i[1]] # "cancelled"
BY SweptKeeps, StandingKeeps DEF UpdateExecutionState

\* What WriteNodeRun, MarkNodeQueued and MarkNodeFailed have in common: one node that is
\* not over in an execution that is not cancelled, or has a run that is over, changes.
LEMMA WriteStep ==
  ASSUME WorkflowInv, NEW h \in Host, NEW W \in CoordinatorState, CoordinatesOn(h, W),
         NEW i \in Item, NEW s \in NodeStatus, flow[i[1]] # "cancelled",
         UpdateExecutionState([node EXCEPT ![i] = s], {i[1]}),
         UNCHANGED <<retryCount, workflowRun, coordinatorTroubles>>,
         nodeRun' \in [Item -> {0} \cup Attempt],
         \A j \in Item \ {i} : nodeRun'[j] = nodeRun[j],
         nodeRun'[i] # 0 => Known(<<i, nodeRun'[i]>>),
         CoordinatorAgrees(h)',
         coordinator[h].at # "stop",
         \A j \in Item \ {i} : ~HeldBy(h, j),
         coordinatorTroubles = 0 /\ retryCount[i] = 0 /\ Live(<<i, 1>>) =>
           \/ s \in {"queued", "running"} /\ nodeRun'[i] = 1
           \/ \E g \in Host : HeldBy(g, i)'
  PROVE  WorkflowInv'
<1>1. WorkflowShape /\ i[1] \in Flow /\ node \in [Item -> NodeStatus]
  BY DEF WorkflowInv, WorkflowShape, Item
<1> DEFINE nd == [node EXCEPT ![i] = s]
<1>2. nd \in [Item -> NodeStatus] /\ nd[i] = s /\ \A j \in Item \ {i} : nd[j] = node[j]
  BY <1>1
<1> HIDE DEF nd
<1>3. /\ node' \in [Item -> NodeStatus] /\ flow' \in [Flow -> FlowStatus]
      /\ \A f \in Flow : flow'[f] = "cancelled" <=> flow[f] = "cancelled"
      /\ \A j \in Item : \/ node'[j] = nd[j]
                         \/ /\ nd[j] = "pending" /\ node'[j] = "skipped"
                            /\ flow[j[1]] # "cancelled"
  BY <1>1, <1>2, UpdateKeeps DEF nd
<1>4. WorkflowShape'
  BY <1>1, <1>3 DEF WorkflowShape, CoordinatesOn
<1>5. ASSUME NEW j \in Item PROVE NodeAgrees(j)'
  <2>1. NodeAgrees(j) /\ j[1] \in Flow
    BY DEF WorkflowInv, Item
  <2>2. nodeRun'[j] # 0 => workflowRun'[<<j, nodeRun'[j]>>] # "absent"
    BY <2>1 DEF NodeAgrees, Known
  <2>3. flow'[j[1]] = "cancelled" => node'[j] \in TerminalNode
    BY <1>2, <1>3, <2>1 DEF NodeAgrees, TerminalNode
  <2> QED BY <2>2, <2>3 DEF NodeAgrees, Known
<1>6. ASSUME NEW j \in Item, coordinatorTroubles = 0, retryCount[j] = 0, Live(<<j, 1>>)
      PROVE  \/ \E g \in Host : HeldBy(g, j)'
             \/ Named(j)'
             \/ flow'[j[1]] = "cancelled" /\ \E g \in Host : StoppedBy(g, j)'
  <2>1. Covered(j) /\ j[1] \in Flow
    BY DEF WorkflowInv, Item
  <2>2. CASE j = i
    BY <1>1, <1>2, <1>3, <1>6, <2>2 DEF Named
  <2>3. CASE j # i
    <3>1. Named(j) => Named(j)'
      BY <1>2, <1>3, <2>1, <2>3 DEF Named
    <3>2. \A g \in Host : (HeldBy(g, j) => HeldBy(g, j)') /\ (StoppedBy(g, j) => StoppedBy(g, j)')
      BY <2>3 DEF HeldBy, StoppedBy, CoordinatesOn
    <3> QED BY <1>3, <1>6, <2>1, <3>1, <3>2 DEF Covered
  <2> QED BY <2>2, <2>3
<1>7. \A g \in Host : coordinator'[g] = coordinator[g] \/ CoordinatorAgrees(g)'
  BY DEF CoordinatesOn
<1> QED BY <1>4, <1>5, <1>6, <1>7, NodeStep

LEMMA WriteNodeStep ==
  ASSUME WorkflowInv, NEW h \in Host, WriteNodeRun(h)
  PROVE  WorkflowInv'
<1>1. PICK r \in AttemptRun : r = coordinator[h].on
  BY DEF WorkflowInv, WriteNodeRun, Coordinates, CoordinatorAgrees
<1> DEFINE i == r[1]
           s == coordinator[h].saw
           W == CoordinatorAt("reconcile", coordinator[h].left)
<1>2. /\ coordinator[h] \in CoordinatorState /\ CoordinatorAgrees(h) /\ WorkflowShape
      /\ coordinator[h].at = "read" /\ coordinator[h].left \subseteq AttemptRun
      /\ i \in Item /\ r = <<i, r[2]>> /\ r[2] \in Attempt /\ NotBeyond(r)
      /\ NodeAgrees(i) /\ retryCount[i] \in Nat
  BY <1>1, AttemptsAreNumbers
     DEF WorkflowInv, WorkflowShape, WriteNodeRun, Coordinates, CoordinatorAgrees, CoordinatorState
<1>3. /\ UNCHANGED <<retryCount, nodeRun, workflowRun, coordinatorTroubles>>
      /\ coordinator' = [coordinator EXCEPT ![h] = W]
  BY <1>2 DEF WriteNodeRun, ReturnsTo, WorkflowShape
<1>4. W \in CoordinatorState /\ W.at = "reconcile" /\ W.left = coordinator[h].left
  BY <1>2, AtAPhase DEF CoordinatorPhase
<1> HIDE DEF W
<1>5. CoordinatesOn(h, W)
  BY <1>2, <1>3, <1>4, CoordinatorMove
<1>6. CoordinatorAgrees(h)'
  BY <1>2, <1>3, <1>4, <1>5 DEF CoordinatesOn, CoordinatorAgrees, NotBeyond, Known
<1>7. CASE nodeRun[i] = r[2] /\ flow[i[1]] # "cancelled" /\ node[i] # "cancelled"
  <2>1. UpdateExecutionState([node EXCEPT ![i] = s], {i[1]})
    BY <1>1, <1>7 DEF WriteNodeRun, ReconcileNodeRun, OnRun
  <2>2. /\ s \in {"queued", "running"} \cup TerminalRun
        /\ s \in TerminalRun => workflowRun[r] = s
    BY <1>1, <1>2 DEF CoordinatorAgrees
  <2>3. PICK t \in NodeStatus : t = s
    BY <2>2 DEF NodeStatus, TerminalRun, TerminalNode
  <2>4. nodeRun'[i] # 0 => Known(<<i, nodeRun'[i]>>)
    BY <1>2, <1>3 DEF NodeAgrees
  <2>5. coordinatorTroubles = 0 /\ retryCount[i] = 0 /\ Live(<<i, 1>>) =>
          t \in {"queued", "running"} /\ nodeRun'[i] = 1
    <3>1. retryCount[i] = 0 => r[2] = 1
      BY <1>2 DEF NotBeyond, Attempt
    <3> QED BY <1>2, <1>3, <1>7, <2>2, <2>3, <3>1 DEF Live, TerminalRun
  <2>6. nodeRun' \in [Item -> {0} \cup Attempt] /\ \A j \in Item \ {i} : nodeRun'[j] = nodeRun[j]
    BY <1>2, <1>3 DEF WorkflowShape
  <2>7. \A j \in Item \ {i} : ~HeldBy(h, j)
    BY <1>2 DEF HeldBy
  <2>8. UpdateExecutionState([node EXCEPT ![i] = t], {i[1]})
    BY <2>1, <2>3
  <2> HIDE DEF i, s
  <2> QED BY <1>2, <1>3, <1>4, <1>5, <1>6, <1>7, <2>4, <2>5, <2>6, <2>7, <2>8, WriteStep
<1>8. CASE ~(nodeRun[i] = r[2] /\ flow[i[1]] # "cancelled" /\ node[i] # "cancelled")
  <2>1. UNCHANGED <<node, flow>>
    BY <1>1, <1>8 DEF WriteNodeRun, ReconcileNodeRun, OnRun
  <2> QED BY <1>2, <1>3, <1>4, <1>5, <1>6, <2>1, QuietMove
<1> QED BY <1>7, <1>8

LEMMA QueuedStep ==
  ASSUME WorkflowInv, NEW h \in Host, MarkNodeQueued(h)
  PROVE  WorkflowInv'
<1>1. PICK r \in AttemptRun : r = coordinator[h].on
  BY DEF WorkflowInv, MarkNodeQueued, Coordinates, CoordinatorAgrees
<1> DEFINE i == r[1]
<1>2. /\ coordinator[h] \in CoordinatorState /\ CoordinatorAgrees(h) /\ WorkflowShape
      /\ coordinator[h].at = "created" /\ coordinator[h].left \subseteq AttemptRun
      /\ i \in Item /\ r = <<i, r[2]>> /\ r[2] \in Attempt /\ NotBeyond(r) /\ Known(r)
      /\ NodeAgrees(i) /\ retryCount[i] \in Nat
  BY <1>1, AttemptsAreNumbers
     DEF WorkflowInv, WorkflowShape, MarkNodeQueued, Coordinates, CoordinatorAgrees,
         CoordinatorState
<1>3. UNCHANGED <<retryCount, workflowRun, coordinatorTroubles>>
  BY DEF MarkNodeQueued
<1>4. CASE node[i] \in ClaimedNode
  <2> DEFINE W == CoordinatorAt("enqueue", coordinator[h].left)
  <2>1. /\ UpdateExecutionState([node EXCEPT ![i] = "queued"], {i[1]})
        /\ nodeRun' = [nodeRun EXCEPT ![i] = r[2]]
        /\ coordinator' = [coordinator EXCEPT ![h] = W]
    BY <1>1, <1>2, <1>4 DEF MarkNodeQueued, OnRun, ReturnsTo, WorkflowShape
  <2>2. W \in CoordinatorState /\ W.at = "enqueue" /\ W.left = coordinator[h].left
    BY <1>2, AtAPhase DEF CoordinatorPhase
  <2> HIDE DEF W
  <2>3. CoordinatesOn(h, W)
    BY <1>2, <2>1, <2>2, CoordinatorMove
  <2>4. CoordinatorAgrees(h)'
    BY <1>2, <1>3, <2>2, <2>3 DEF CoordinatesOn, CoordinatorAgrees, NotBeyond
  <2>5. flow[i[1]] # "cancelled"
    BY <1>2, <1>4 DEF NodeAgrees, ClaimedNode, TerminalNode
  <2>6. /\ nodeRun' \in [Item -> {0} \cup Attempt] /\ nodeRun'[i] = r[2]
        /\ \A j \in Item \ {i} : nodeRun'[j] = nodeRun[j]
    BY <1>2, <2>1 DEF WorkflowShape
  <2>7. nodeRun'[i] # 0 => Known(<<i, nodeRun'[i]>>)
    BY <1>2, <2>6
  <2>8. retryCount[i] = 0 => nodeRun'[i] = 1
    BY <1>2, <2>6 DEF NotBeyond, Attempt
  <2>9. \A j \in Item \ {i} : ~HeldBy(h, j)
    BY <1>1, <1>2 DEF HeldBy
  <2>10. "queued" \in NodeStatus
    BY DEF NodeStatus
  <2> HIDE DEF i
  <2> QED BY <1>2, <1>3, <2>1, <2>2, <2>3, <2>4, <2>5, <2>6, <2>7, <2>8, <2>9, <2>10, WriteStep
<1>5. CASE node[i] \notin ClaimedNode
  <2> DEFINE W == [coordinator[h] EXCEPT !.at = "unwanted"]
  <2>1. /\ UNCHANGED <<node, flow, nodeRun>>
        /\ coordinator' = [coordinator EXCEPT ![h] = W]
    BY <1>1, <1>2, <1>5 DEF MarkNodeQueued, OnRun, CoordinatorTo, WorkflowShape
  <2>2. /\ W \in CoordinatorState /\ W.at = "unwanted" /\ W.left = coordinator[h].left
        /\ W.on = coordinator[h].on
    BY <1>2 DEF CoordinatorState, CoordinatorPhase
  <2> HIDE DEF W
  <2>3. CoordinatesOn(h, W)
    BY <1>2, <2>1, <2>2, CoordinatorMove
  <2>4. CoordinatorAgrees(h)'
    BY <1>1, <1>2, <1>3, <2>2, <2>3 DEF CoordinatesOn, CoordinatorAgrees, NotBeyond, Known
  <2>5. WorkflowShape'
    BY <1>2, <1>3, <2>1, <2>3 DEF WorkflowShape, CoordinatesOn
  <2>6. \A j \in Item, g \in Host : (HeldBy(g, j) => HeldBy(g, j)')
                                   /\ (StoppedBy(g, j) => StoppedBy(g, j)')
    BY <1>2, <2>2, <2>3 DEF HeldBy, StoppedBy, CoordinatesOn
  <2>7. \A j \in Item : NodeAgrees(j)' /\ (Named(j) => Named(j)')
    BY <1>3, <2>1 DEF WorkflowInv, NodeAgrees, Named, Known
  <2>8. \A g \in Host : coordinator'[g] = coordinator[g] \/ CoordinatorAgrees(g)'
    BY <2>3, <2>4 DEF CoordinatesOn
  <2>9. ASSUME NEW j \in Item, coordinatorTroubles = 0, retryCount[j] = 0, Live(<<j, 1>>)
        PROVE  \/ \E g \in Host : HeldBy(g, j)'
               \/ Named(j)'
               \/ flow'[j[1]] = "cancelled" /\ \E g \in Host : StoppedBy(g, j)'
    <3>1. Covered(j)
      BY DEF WorkflowInv
    <3> QED BY <2>1, <2>6, <2>7, <2>9, <3>1 DEF Covered
  <2> QED BY <1>3, <2>5, <2>7, <2>8, <2>9, NodeStep
<1> QED BY <1>4, <1>5

LEMMA FailedStep ==
  ASSUME WorkflowInv, NEW h \in Host, MarkNodeFailed(h)
  PROVE  WorkflowInv'
<1>1. PICK r \in AttemptRun : r = coordinator[h].on
  BY DEF WorkflowInv, MarkNodeFailed, Coordinates, CoordinatorAgrees
<1> DEFINE i == r[1]
           W == CoordinatorAt("enqueue", coordinator[h].left)
<1>2. /\ coordinator[h] \in CoordinatorState /\ CoordinatorAgrees(h) /\ WorkflowShape
      /\ coordinator[h].at = "withdrawn" /\ coordinator[h].left \subseteq AttemptRun
      /\ i \in Item /\ r = <<i, r[2]>> /\ r[2] \in Attempt /\ NotBeyond(r)
      /\ NodeAgrees(i) /\ retryCount[i] \in Nat
      /\ coordinatorTroubles = 0 => Stopping(r)
  BY <1>1, AttemptsAreNumbers
     DEF WorkflowInv, WorkflowShape, MarkNodeFailed, Coordinates, CoordinatorAgrees,
         CoordinatorState
<1>3. /\ UNCHANGED <<retryCount, nodeRun, workflowRun, coordinatorTroubles>>
      /\ coordinator' = [coordinator EXCEPT ![h] = W]
  BY <1>2 DEF MarkNodeFailed, ReturnsTo, WorkflowShape
<1>4. W \in CoordinatorState /\ W.at = "enqueue" /\ W.left = coordinator[h].left
  BY <1>2, AtAPhase DEF CoordinatorPhase
<1> HIDE DEF W
<1>5. CoordinatesOn(h, W)
  BY <1>2, <1>3, <1>4, CoordinatorMove
<1>6. CoordinatorAgrees(h)'
  BY <1>2, <1>3, <1>4, <1>5 DEF CoordinatesOn, CoordinatorAgrees, NotBeyond
<1>7. CASE node[i] \notin TerminalNode
  <2>1. UpdateExecutionState([node EXCEPT ![i] = "failed"], {i[1]})
    BY <1>1, <1>7 DEF MarkNodeFailed, OnRun
  <2>2. flow[i[1]] # "cancelled"
    BY <1>2, <1>7 DEF NodeAgrees
  <2>3. nodeRun'[i] # 0 => Known(<<i, nodeRun'[i]>>)
    BY <1>2, <1>3 DEF NodeAgrees
  <2>4. ~(coordinatorTroubles = 0 /\ retryCount[i] = 0 /\ Live(<<i, 1>>))
    <3>1. retryCount[i] = 0 => r[2] = 1
      BY <1>2 DEF NotBeyond, Attempt
    <3>2. Stopping(r) => ~Live(r)
      BY DEF Stopping, Live, TerminalRun
    <3> QED BY <1>2, <3>1, <3>2
  <2>5. nodeRun' \in [Item -> {0} \cup Attempt] /\ \A j \in Item \ {i} : nodeRun'[j] = nodeRun[j]
    BY <1>2, <1>3 DEF WorkflowShape
  <2>6. \A j \in Item \ {i} : ~HeldBy(h, j)
    BY <1>2 DEF HeldBy
  <2>7. "failed" \in NodeStatus
    BY DEF NodeStatus, TerminalNode
  <2> HIDE DEF i
  <2> QED BY <1>2, <1>3, <1>4, <1>5, <1>6, <2>1, <2>2, <2>3, <2>4, <2>5, <2>6, <2>7, WriteStep
<1>8. CASE node[i] \in TerminalNode
  <2>1. UNCHANGED <<node, flow>>
    BY <1>1, <1>8 DEF MarkNodeFailed, OnRun
  <2> QED BY <1>2, <1>3, <1>4, <1>5, <1>6, <2>1, QuietMove
<1> QED BY <1>7, <1>8

LEMMA ClaimStep ==
  ASSUME WorkflowInv, NEW h \in Host, ClaimReadyNodes(h)
  PROVE  WorkflowInv'
<1> DEFINE swept == Swept(node, Flow)
           now == Standing(swept, Flow)
           taken == {i \in Item : /\ now[i[1]] \in {"pending", "running"}
                                  /\ ClaimableNode(swept, i[1], i[2])}
           S == {<<i, AttemptOf(i)>> : i \in taken}
           W == CoordinatorAt("enqueue", S)
<1>1. /\ WorkflowShape /\ node \in [Item -> NodeStatus] /\ coordinator[h].at = "claim"
      /\ UNCHANGED <<retryCount, nodeRun, workflowRun, coordinatorTroubles>>
  BY DEF WorkflowInv, WorkflowShape, ClaimReadyNodes, Coordinates
<1>2. /\ node' = [i \in Item |-> IF i \in taken THEN "claimed" ELSE swept[i]]
      /\ flow' = [e \in Flow |-> IF \E i \in taken : i[1] = e THEN "running" ELSE now[e]]
      /\ coordinator' = [coordinator EXCEPT ![h] = W]
  BY DEF ClaimReadyNodes
<1>3. /\ swept \in [Item -> NodeStatus]
      /\ \A i \in Item : \/ swept[i] = node[i]
                         \/ /\ node[i] = "pending" /\ swept[i] = "skipped"
                            /\ flow[i[1]] # "cancelled"
  BY <1>1, SweptKeeps
<1>4. /\ now \in [Flow -> FlowStatus]
      /\ \A e \in Flow : now[e] = "cancelled" <=> flow[e] = "cancelled"
  BY <1>1, StandingKeeps
<1>5. \A i \in taken : /\ swept[i] \in {"lapsed", "pending"} /\ i \in Item
                       /\ now[i[1]] # "cancelled"
  <2> HIDE DEF swept, now
  <2>1. \A i \in Item : i = <<i[1], i[2]>>
    BY DEF Item
  <2> QED BY <2>1 DEF ClaimableNode
<1>6. S \in SUBSET AttemptRun /\ \A r \in S : NotBeyond(r)
  <2>1. \A i \in Item : <<i, AttemptOf(i)>> \in AttemptRun /\ NotBeyond(<<i, AttemptOf(i)>>)
    <3> TAKE i \in Item
    <3>1. retryCount[i] \in 0 .. NodeRetries
      BY <1>1 DEF WorkflowShape
    <3>2. AttemptOf(i) \in Attempt /\ AttemptOf(i) = retryCount[i] + 1
      BY <3>1, AttemptsAreNumbers DEF AttemptOf
    <3>3. retryCount[i] + 1 \in Nat
      BY <3>2, AttemptsAreNumbers
    <3> QED BY <3>2, <3>3, AttemptsAreNumbers DEF NotBeyond
  <2> HIDE DEF swept, now
  <2> QED BY <1>5, <2>1
<1> HIDE DEF swept, now, taken, S
<1>7. W \in CoordinatorState /\ W.at = "enqueue" /\ W.left = S
  BY <1>6, AtAPhase DEF CoordinatorPhase
<1> HIDE DEF W
<1>8. CoordinatesOn(h, W)
  BY <1>1, <1>2, <1>7, CoordinatorMove
<1>9. CoordinatorAgrees(h)'
  BY <1>1, <1>6, <1>7, <1>8 DEF CoordinatesOn, CoordinatorAgrees, NotBeyond
<1>10. /\ node' \in [Item -> NodeStatus] /\ flow' \in [Flow -> FlowStatus]
       /\ \A e \in Flow : flow'[e] = "cancelled" <=> flow[e] = "cancelled"
       /\ \A i \in Item : node[i] \in {"queued", "running"} \cup TerminalNode => node'[i] = node[i]
       /\ \A i \in Item : flow[i[1]] = "cancelled" => node'[i] = node[i]
  <2>1. node' \in [Item -> NodeStatus]
    BY <1>2, <1>3 DEF NodeStatus, ClaimedNode
  <2>2. /\ flow' \in [Flow -> FlowStatus]
        /\ \A e \in Flow : flow'[e] = "cancelled" <=> flow[e] = "cancelled"
    BY <1>2, <1>4, <1>5 DEF FlowStatus
  <2>3. \A i \in Item : i[1] \in Flow
    BY DEF Item
  <2>4. \A i \in Item : node[i] \in {"queued", "running"} \cup TerminalNode => node'[i] = node[i]
    BY <1>2, <1>3, <1>5 DEF TerminalNode
  <2>5. \A i \in Item : flow[i[1]] = "cancelled" => node'[i] = node[i]
    BY <1>2, <1>3, <1>4, <1>5, <2>3
  <2> QED BY <2>1, <2>2, <2>4, <2>5
<1>11. WorkflowShape'
  BY <1>1, <1>8, <1>10 DEF WorkflowShape, CoordinatesOn
<1>12. ASSUME NEW i \in Item
       PROVE  /\ NodeAgrees(i)'
              /\ coordinatorTroubles = 0 /\ retryCount[i] = 0 /\ Live(<<i, 1>>) =>
                   \/ \E g \in Host : HeldBy(g, i)'
                   \/ Named(i)'
                   \/ flow'[i[1]] = "cancelled" /\ \E g \in Host : StoppedBy(g, i)'
  <2>1. NodeAgrees(i) /\ Covered(i) /\ i[1] \in Flow
    BY DEF WorkflowInv, Item
  <2>2. NodeAgrees(i)'
    BY <1>1, <1>10, <2>1 DEF NodeAgrees, Known
  <2>3. Named(i) => Named(i)'
    BY <1>1, <1>10, <2>1 DEF Named
  <2>4. \A g \in Host : (HeldBy(g, i) => HeldBy(g, i)') /\ (StoppedBy(g, i) => StoppedBy(g, i)')
    BY <1>1, <1>8 DEF HeldBy, StoppedBy, CoordinatesOn
  <2> QED BY <1>10, <2>1, <2>2, <2>3, <2>4 DEF Covered
<1>13. \A g \in Host : coordinator'[g] = coordinator[g] \/ CoordinatorAgrees(g)'
  BY <1>8, <1>9 DEF CoordinatesOn
<1> QED BY <1>1, <1>11, <1>12, <1>13, NodeStep

\* A cancellation lists the runs its nodes name; those still held are withdrawn by
\* their holders.
LEMMA CancelStep ==
  ASSUME WorkflowInv, NEW h \in Host, NEW e \in Flow, CancelExecution(h, e)
  PROVE  WorkflowInv'
<1> DEFINE live == {i \in Item : /\ i[1] = e
                                 /\ nodeRun[i] # 0
                                 /\ \/ node[i] \in ClaimedNode \cup {"queued", "running"}
                                    \/ /\ flow[e] = "cancelled"
                                       /\ node[i] = "cancelled"}
           S == {<<i, nodeRun[i]>> : i \in live}
           W == CoordinatorAt("stop", S)
<1>1. /\ WorkflowShape /\ coordinator[h].at = "start"
      /\ UNCHANGED <<retryCount, nodeRun, workflowRun, coordinatorTroubles>>
  BY DEF WorkflowInv, CancelExecution, Coordinates
<1>2. /\ node' = [i \in Item |-> IF i[1] = e /\ node[i] \notin TerminalNode
                                   THEN "cancelled" ELSE node[i]]
      /\ flow' = [flow EXCEPT ![e] = "cancelled"]
      /\ coordinator' = [coordinator EXCEPT ![h] = W]
  BY DEF CancelExecution
<1>3. /\ \A i \in live : i \in Item /\ nodeRun[i] # 0
      /\ \A i \in Item : i[1] = e /\ nodeRun[i] # 0 /\ node[i] \in {"queued", "running"}
                           => i \in live
  OBVIOUS
<1>4. /\ S \in SUBSET AttemptRun /\ \A r \in S : NotBeyond(r)
      /\ \A i \in live : <<i, nodeRun[i]>> \in S
  <2>1. \A i \in live : <<i, nodeRun[i]>> \in AttemptRun /\ NotBeyond(<<i, nodeRun[i]>>)
    <3> TAKE i \in live
    <3>1. /\ i \in Item /\ nodeRun[i] \in Attempt /\ Known(<<i, nodeRun[i]>>)
      BY <1>1, <1>3 DEF WorkflowInv, WorkflowShape, NodeAgrees
    <3> QED BY <3>1, AttemptsAreNumbers DEF WorkflowInv
  <2> HIDE DEF live
  <2> QED BY <2>1
<1> HIDE DEF live, S
<1>5. W \in CoordinatorState /\ W.at = "stop" /\ W.left = S
  BY <1>4, AtAPhase DEF CoordinatorPhase
<1> HIDE DEF W
<1>6. CoordinatesOn(h, W)
  BY <1>1, <1>2, <1>5, CoordinatorMove
<1>7. CoordinatorAgrees(h)'
  BY <1>1, <1>4, <1>5, <1>6 DEF CoordinatesOn, CoordinatorAgrees, NotBeyond
<1>8. /\ node' \in [Item -> NodeStatus] /\ flow' \in [Flow -> FlowStatus]
      /\ flow'[e] = "cancelled" /\ \A f \in Flow \ {e} : flow'[f] = flow[f]
      /\ \A i \in Item : i[1] = e => node'[i] \in TerminalNode
      /\ \A i \in Item : i[1] # e => node'[i] = node[i]
  BY <1>1, <1>2 DEF WorkflowShape, NodeStatus, FlowStatus, TerminalNode, TerminalWorkflow
<1>9. WorkflowShape'
  BY <1>1, <1>6, <1>8 DEF WorkflowShape, CoordinatesOn
<1>10. ASSUME NEW i \in Item PROVE NodeAgrees(i)'
  <2>1. NodeAgrees(i) /\ i[1] \in Flow
    BY DEF WorkflowInv, Item
  <2> QED BY <1>1, <1>8, <2>1 DEF NodeAgrees, Known
<1>11. ASSUME NEW i \in Item, coordinatorTroubles = 0, retryCount[i] = 0, Live(<<i, 1>>)
       PROVE  \/ \E g \in Host : HeldBy(g, i)'
              \/ Named(i)'
              \/ flow'[i[1]] = "cancelled" /\ \E g \in Host : StoppedBy(g, i)'
  <2>1. Covered(i) /\ i[1] \in Flow
    BY DEF WorkflowInv, Item
  <2>2. \A g \in Host : (HeldBy(g, i) => HeldBy(g, i)') /\ (StoppedBy(g, i) => StoppedBy(g, i)')
    BY <1>1, <1>6 DEF HeldBy, StoppedBy, CoordinatesOn
  <2>3. CASE \E g \in Host : HeldBy(g, i)
    BY <2>2, <2>3
  <2>4. CASE flow[i[1]] = "cancelled" /\ \E g \in Host : StoppedBy(g, i)
    BY <1>8, <2>1, <2>2, <2>4
  <2>5. CASE Named(i) /\ i[1] # e
    BY <1>1, <1>8, <2>1, <2>5 DEF Named
  <2>6. CASE Named(i) /\ i[1] = e
    <3>1. <<i, 1>> \in S
      BY <1>3, <1>4, <2>6 DEF Named
    <3>2. StoppedBy(h, i)'
      BY <1>5, <1>6, <3>1 DEF StoppedBy, CoordinatesOn
    <3> QED BY <1>8, <2>6, <3>2
  <2> QED BY <1>11, <2>1, <2>3, <2>4, <2>5, <2>6 DEF Covered
<1>12. \A g \in Host : coordinator'[g] = coordinator[g] \/ CoordinatorAgrees(g)'
  BY <1>6, <1>7 DEF CoordinatesOn
<1> QED BY <1>1, <1>9, <1>10, <1>11, <1>12, NodeStep

\* A retry takes the node out of what the property says; what was skipped below it
\* had no run that a node named.
LEMMA RetryStep ==
  ASSUME WorkflowInv, NEW e \in Flow, NEW n \in Node, RetryNode(e, n)
  PROVE  WorkflowInv'
<1>1. /\ WorkflowShape /\ flow[e] = "failed" /\ node[<<e, n>>] = "failed"
      /\ UNCHANGED <<workflowRun, coordinator, coordinatorTroubles>>
      /\ <<e, n>> \in Item /\ retryCount[<<e, n>>] \in 0 .. NodeRetries
      /\ retryCount[<<e, n>>] < NodeRetries
  BY DEF WorkflowInv, WorkflowShape, RetryNode, Item
<1>2. PICK reset \in SUBSET Item :
        /\ \A i \in reset : i[1] = e /\ (i = <<e, n>> \/ node[i] = "skipped")
        /\ node' = [i \in Item |-> IF i \in reset THEN "pending" ELSE node[i]]
        /\ nodeRun' = [i \in Item |-> IF i \in reset THEN 0 ELSE nodeRun[i]]
  <2> DEFINE R == {i \in Item : /\ i[1] = e
                                /\ \/ i[2] = n
                                   \/ n \in Upstream[i[2]] /\ node[i] = "skipped"}
  <2>1. /\ node' = [i \in Item |-> IF i \in R THEN "pending" ELSE node[i]]
        /\ nodeRun' = [i \in Item |-> IF i \in R THEN 0 ELSE nodeRun[i]]
    BY DEF RetryNode
  <2>2. \A i \in R : i[1] = e /\ (i = <<e, n>> \/ node[i] = "skipped")
    BY DEF Item
  <2>3. R \in SUBSET Item
    OBVIOUS
  <2> HIDE DEF R
  <2> QED BY <2>1, <2>2, <2>3
<1>3. /\ retryCount' = [retryCount EXCEPT ![<<e, n>>] = retryCount[<<e, n>>] + 1]
      /\ flow' = [flow EXCEPT ![e] = "pending"]
  BY <1>1 DEF RetryNode, WorkflowShape
<1>4. retryCount[<<e, n>>] + 1 \in 0 .. NodeRetries /\ retryCount[<<e, n>>] + 1 # 0
  BY <1>1, NodeRetriesIsNat
<1>5. /\ retryCount' \in [Item -> 0 .. NodeRetries]
      /\ retryCount'[<<e, n>>] = retryCount[<<e, n>>] + 1
      /\ \A i \in Item \ {<<e, n>>} : retryCount'[i] = retryCount[i]
  BY <1>1, <1>3, <1>4 DEF WorkflowShape
<1>6. /\ node' \in [Item -> NodeStatus] /\ nodeRun' \in [Item -> {0} \cup Attempt]
      /\ flow' \in [Flow -> FlowStatus]
      /\ \A f \in Flow : flow'[f] = "cancelled" <=> flow[f] = "cancelled"
      /\ \A f \in Flow \ {e} : flow'[f] = flow[f]
  BY <1>1, <1>2, <1>3 DEF WorkflowShape, NodeStatus, FlowStatus
<1>7. WorkflowShape'
  BY <1>1, <1>5, <1>6 DEF WorkflowShape
<1>8. Onward
  <2>1. \A i \in Item : retryCount[i] \in Nat
    BY <1>1, AttemptsAreNumbers DEF WorkflowShape
  <2>2. \A i \in Item : retryCount[i] <= retryCount'[i]
    BY <1>5, <2>1
  <2> QED BY <1>1, <2>2 DEF Onward, Known, Stopping
<1>9. ASSUME NEW i \in Item PROVE NodeAgrees(i)'
  <2>1. NodeAgrees(i) /\ i[1] \in Flow
    BY DEF WorkflowInv, Item
  <2>2. nodeRun'[i] # 0 => workflowRun'[<<i, nodeRun'[i]>>] # "absent"
    BY <1>1, <1>2, <2>1 DEF NodeAgrees, Known
  <2>3. flow'[i[1]] = "cancelled" => node'[i] \in TerminalNode
    BY <1>1, <1>2, <1>6, <2>1 DEF NodeAgrees
  <2> QED BY <2>2, <2>3 DEF NodeAgrees, Known
<1>10. ASSUME NEW i \in Item PROVE Covered(i)'
  <2>1. CASE i = <<e, n>>
    BY <1>4, <1>5, <2>1 DEF Covered
  <2>2. CASE i # <<e, n>>
    <3>1. Covered(i) /\ i[1] \in Flow
      BY DEF WorkflowInv, Item
    <3>2. Named(i) => Named(i)'
      BY <1>2, <1>6, <2>2, <3>1 DEF Named
    <3>3. \A g \in Host : (HeldBy(g, i) => HeldBy(g, i)') /\ (StoppedBy(g, i) => StoppedBy(g, i)')
      BY <1>1 DEF HeldBy, StoppedBy
    <3>4. retryCount'[i] = retryCount[i]
      BY <1>5, <2>2
    <3>5. Live(<<i, 1>>)' => Live(<<i, 1>>)
      BY <1>1 DEF Live
    <3> QED BY <1>1, <1>6, <3>1, <3>2, <3>3, <3>4, <3>5 DEF Covered
  <2> QED BY <2>1, <2>2
<1>11. \A r \in AttemptRun : Known(r)' => Known(r)
  BY <1>1 DEF Known
<1>12. \A g \in Host : coordinator'[g] = coordinator[g]
  BY <1>1
<1> QED BY <1>7, <1>8, <1>9, <1>10, <1>11, <1>12, WorkflowStep

LEMMA WorkflowInvHolds == WorkflowSpec => []WorkflowInv
<1>1. WorkflowInit => WorkflowInv
  <2> SUFFICES ASSUME WorkflowInit PROVE WorkflowInv
    OBVIOUS
  <2>1. /\ coordinator \in [Host -> CoordinatorState]
        /\ \A h \in Host : coordinator[h].at = "start" /\ coordinator[h].left = {}
    BY AtAPhase DEF WorkflowInit, CoordinatorPhase
  <2>2. WorkflowShape
    BY <2>1, NodeRetriesIsNat DEF WorkflowInit, WorkflowShape, FlowStatus, NodeStatus, RunStatus
  <2>3. \A h \in Host : CoordinatorAgrees(h)
    BY <2>1 DEF CoordinatorAgrees
  <2>4. \A r \in AttemptRun : ~Known(r) /\ ~Live(r)
    BY DEF WorkflowInit, Known, Live
  <2>5. \A i \in Item : NodeAgrees(i) /\ Covered(i)
    <3> TAKE i \in Item
    <3>1. i[1] \in Flow
      BY DEF Item
    <3>2. NodeAgrees(i)
      BY <3>1 DEF WorkflowInit, NodeAgrees
    <3>3. ~Live(<<i, 1>>)
      BY <2>4, AttemptsAreNumbers
    <3> QED BY <3>2, <3>3 DEF Covered
  <2> QED BY <2>2, <2>3, <2>4, <2>5 DEF WorkflowInv
<1>2. WorkflowInv /\ [WorkflowNext]_workflowVars => WorkflowInv'
  <2> SUFFICES ASSUME WorkflowInv, [WorkflowNext]_workflowVars PROVE WorkflowInv'
    OBVIOUS
  <2>1. CASE UNCHANGED workflowVars
    <3>1. UNCHANGED <<flow, node, retryCount, nodeRun, workflowRun, coordinator,
                      coordinatorTroubles>>
      BY <2>1 DEF workflowVars
    <3>2. WorkflowShape'
      BY <3>1 DEF WorkflowInv, WorkflowShape
    <3>3. \A i \in Item : NodeAgrees(i)'
      BY <3>1 DEF WorkflowInv, NodeAgrees, Known
    <3>4. \A i \in Item : (Named(i) => Named(i)')
                          /\ \A h \in Host : (HeldBy(h, i) => HeldBy(h, i)')
                                             /\ (StoppedBy(h, i) => StoppedBy(h, i)')
      BY <3>1 DEF Named, HeldBy, StoppedBy
    <3>5. ASSUME NEW i \in Item, coordinatorTroubles = 0, retryCount[i] = 0, Live(<<i, 1>>)
          PROVE  \/ \E g \in Host : HeldBy(g, i)'
                 \/ Named(i)'
                 \/ flow'[i[1]] = "cancelled" /\ \E g \in Host : StoppedBy(g, i)'
      <4>1. Covered(i)
        BY DEF WorkflowInv
      <4> QED BY <3>1, <3>4, <3>5, <4>1 DEF Covered
    <3> QED BY <3>1, <3>2, <3>3, <3>5, NodeStep
  <2>2. CASE \E e \in Flow : \/ TriggerExecution(e)
                             \/ \E n \in Node : RetryNode(e, n)
                             \/ \E h \in Host : CancelExecution(h, e)
    BY <2>2, TriggersStep, RetryStep, CancelStep
  <2>3. CASE \E i \in Item : NodeClaimLapses(i)
    BY <2>3, TriggersStep
  <2>4. CASE \E r \in AttemptRun : RunAdvances(r)
    BY <2>4, AdvancesStep
  <2>5. CASE \E h \in Host : Tick(h) \/ NodeRunRefused(h) \/ CoordinatorCrashes(h)
    <3>1. PICK h \in Host : Tick(h) \/ NodeRunRefused(h) \/ CoordinatorCrashes(h)
      BY <2>5
    <3>2. CASE NodeRunRefused(h) \/ CoordinatorCrashes(h)
      BY <3>2, TroubleStep
    <3>3. CASE ListNodeRuns(h) \/ ReadNodeRun(h) \/ NextList(h)
      BY <3>3, ListsStep
    <3>4. CASE WriteNodeRun(h) \/ MarkNodeQueued(h) \/ MarkNodeFailed(h)
      BY <3>4, WriteNodeStep, QueuedStep, FailedStep
    <3>5. CASE ClaimReadyNodes(h) \/ CreateNodeRun(h) \/ WithdrawNodeRun(h) \/ StopNodeRun(h)
      BY <3>5, ClaimStep, CreateStep, WithdrawStep, StopStep
    <3> QED BY <3>1, <3>2, <3>3, <3>4, <3>5 DEF Tick
  <2> QED BY <2>1, <2>2, <2>3, <2>4, <2>5 DEF WorkflowNext
<1> QED BY <1>1, <1>2, PTL DEF WorkflowSpec

\* For any graph and any number of executions, nodes, coordinators and retries: once
\* the hosts are at rest, nothing having crashed or been refused, no run of a cancelled
\* execution goes on, that of a retried node excepted.
THEOREM CancellationStopsTheRuns == WorkflowSpec => []CancellationReachesRuns
<1>1. WorkflowInv => CancellationReachesRuns
  <2> SUFFICES ASSUME WorkflowInv, coordinatorTroubles = 0,
                      \A h \in Host : coordinator[h].at = "start",
                      NEW i \in Item, NEW a \in Attempt, flow[i[1]] = "cancelled",
                      retryCount[i] = 0, workflowRun[<<i, a>>] \in {"queued", "running"}
               PROVE  FALSE
    BY DEF CancellationReachesRuns
  <2>1. <<i, a>> \in AttemptRun /\ Known(<<i, a>>)
    BY AttemptsAreNumbers DEF Known
  <2>2. NotBeyond(<<i, a>>)
    BY <2>1 DEF WorkflowInv
  <2>3. a = 1
    BY <2>2, AttemptsAreNumbers DEF NotBeyond, Attempt
  <2>4. Covered(i) /\ Live(<<i, 1>>)
    BY <2>3 DEF WorkflowInv, Live
  <2> QED BY <2>4 DEF Covered, HeldBy, StoppedBy, Named
<1> QED BY <1>1, WorkflowInvHolds, PTL

\* What goes wrong is counted up to its bound.
Counted == coordinatorTroubles \in 0 .. MaxCoordinatorTroubles

LEMMA TroublesCounted == WorkflowSpec => []Counted
<1>1. WorkflowInit => Counted
  BY WorkflowBounds DEF WorkflowInit, Counted
<1>2. Counted /\ [WorkflowNext]_workflowVars => Counted'
  <2> SUFFICES ASSUME Counted, [WorkflowNext]_workflowVars PROVE Counted'
    OBVIOUS
  <2>1. coordinatorTroubles \in Nat /\ MaxCoordinatorTroubles \in Nat
    BY WorkflowBounds DEF Counted
  <2>2. ASSUME TroubleStrikes PROVE Counted'
    <3> DEFINE retried == {i \in Item : retryCount[i] > 0}
    <3>1. IsFiniteSet(Item)
      BY WorkflowBounds, FS_Product DEF Item
    <3>2. Cardinality(retried) \in Nat
      BY <3>1, FS_Subset, FS_CardinalityType
    <3>3. /\ coordinatorTroubles + Cardinality(retried) < MaxCoordinatorTroubles
          /\ coordinatorTroubles' = coordinatorTroubles + 1
      BY <2>2 DEF TroubleStrikes, MoreTrouble
    <3> HIDE DEF retried
    <3> QED BY <2>1, <3>2, <3>3 DEF Counted
  <2>3. \/ UNCHANGED coordinatorTroubles
        \/ TroubleStrikes
    BY DEF WorkflowNext, TriggerExecution, RetryNode, CancelExecution, NodeClaimLapses,
           RunAdvances, Tick, NodeRunRefused, CoordinatorCrashes, workflowVars,
           ClaimReadyNodes, CreateNodeRun, MarkNodeQueued, WithdrawNodeRun, MarkNodeFailed,
           ListNodeRuns, ReadNodeRun, WriteNodeRun, StopNodeRun, NextList
  <2> QED BY <2>2, <2>3 DEF Counted
<1> QED BY <1>1, <1>2, PTL DEF WorkflowSpec

\* The variables of the workflows have their types (file-workflow-store.ts,
\* workflow-coordinator.ts), for any graph and any number of hosts.
THEOREM WorkflowTypeCorrect == WorkflowSpec => []WorkflowTypeOK
<1>1. WorkflowInv /\ Counted => WorkflowTypeOK
  BY DEF WorkflowInv, WorkflowShape, Counted, WorkflowTypeOK, FlowStatus, NodeStatus,
         RunStatus, CoordinatorState
<1> QED BY <1>1, WorkflowInvHolds, TroublesCounted, PTL

-----------------------------------------------------------------------------
(***************************************************************************)
(* The routines.  The status a scheduler read of a run is a fact about the    *)
(* run as long as it is a final one, since a run that ended stays as it is:    *)
(* so what is copied into the execution later is still true of the run, even   *)
(* when the execution was cancelled or staged anew in between.                *)
(***************************************************************************)

RunRead == {"none", "queued", "running"} \cup TerminalExecution
TickState == [at : TickPhase, todo : SUBSET Execution, read : RunRead]

ReadIsTrue(h) ==
  /\ scheduler[h].at = "reconcile" => scheduler[h].todo # {}
  /\ scheduler[h].at = "reconciled" /\ scheduler[h].read = "completed" =>
       \A e \in Execution : e = NewestOf(scheduler[h].todo) => routineRun[e] = "completed"

RoutineInv ==
  /\ execution \in [Execution -> ExecutionStatus \cup {"absent", "lapsed"} \cup RunRead]
  /\ routineRun \in [Execution -> RunRead]
  /\ scheduler \in [Host -> TickState]
  /\ \A h \in Host : ReadIsTrue(h)
  /\ CompletedMeansRan

LEMMA IdleTick == \A p \in TickPhase : TickAt(p) \in TickState /\ TickAt(p).at = p
BY DEF TickAt, TickState, RunRead

\* The other hosts stay where they are.
TicksOn(h, W) ==
  /\ scheduler' \in [Host -> TickState]
  /\ scheduler'[h] = W
  /\ \A g \in Host \ {h} : scheduler'[g] = scheduler[g]

LEMMA TickMove ==
  ASSUME RoutineInv, NEW h \in Host, NEW W \in TickState,
         scheduler' = [scheduler EXCEPT ![h] = W]
  PROVE  TicksOn(h, W)
BY DEF RoutineInv, TicksOn

\* A batch begins or goes on; none of its steps is right behind a read.
LEMMA WorksOffMove ==
  ASSUME RoutineInv, NEW h \in Host, NEW p \in {"reconcile", "announce", "enqueue"},
         NEW S \in SUBSET Execution, WorksOff(h, p, S)
  PROVE  /\ scheduler' \in [Host -> TickState]
         /\ scheduler'[h].at # "reconciled"
         /\ scheduler'[h].at = "reconcile" => scheduler'[h].todo # {}
         /\ \A g \in Host \ {h} : scheduler'[g] = scheduler[g]
<1> DEFINE W == IF S = {} THEN TickAt(PartAfter[p]) ELSE [at |-> p, todo |-> S, read |-> "none"]
<1>1. PartAfter[p] \in TickPhase /\ PartAfter[p] \notin {"reconcile", "reconciled"}
  BY DEF PartAfter, TickPhase
<1>2. /\ W \in TickState /\ W.at # "reconciled"
      /\ W.at = "reconcile" => W.todo # {}
  <2>1. [at |-> p, todo |-> S, read |-> "none"] \in TickState
    BY DEF TickState, TickPhase, RunRead
  <2>2. CASE S = {}
    BY <1>1, <2>2, IdleTick
  <2>3. CASE S # {}
    BY <2>1, <2>3
  <2> QED BY <2>2, <2>3
<1>3. scheduler' = [scheduler EXCEPT ![h] = W]
  BY DEF WorksOff
<1> HIDE DEF W
<1> QED BY <1>2, <1>3, TickMove DEF TicksOn

\* A step that takes no host behind a read, ends no execution as completed and
\* leaves every completed run as it is.
LEMMA TickFrame ==
  ASSUME RoutineInv,
         execution' \in [Execution -> ExecutionStatus \cup {"absent", "lapsed"} \cup RunRead],
         routineRun' \in [Execution -> RunRead],
         scheduler' \in [Host -> TickState],
         \A e \in Execution : execution'[e] = "completed" => execution[e] = "completed",
         \A e \in Execution : routineRun[e] = "completed" => routineRun'[e] = "completed",
         \A h \in Host : \/ scheduler'[h] = scheduler[h]
                         \/ /\ scheduler'[h].at # "reconciled"
                            /\ scheduler'[h].at = "reconcile" => scheduler'[h].todo # {}
  PROVE  RoutineInv'
<1>1. ASSUME NEW h \in Host PROVE ReadIsTrue(h)'
  <2>1. ReadIsTrue(h)
    BY DEF RoutineInv
  <2> QED BY <2>1 DEF ReadIsTrue
<1>2. CompletedMeansRan'
  BY DEF RoutineInv, CompletedMeansRan
<1> QED BY <1>1, <1>2 DEF RoutineInv

LEMMA CancelledPending ==
  ASSUME RoutineInv
  PROVE  /\ CancelPendingExecutions \in
              [Execution -> ExecutionStatus \cup {"absent", "lapsed"} \cup RunRead]
         /\ \A e \in Execution : CancelPendingExecutions[e] = "completed"
                                   => execution[e] = "completed"
BY DEF RoutineInv, CancelPendingExecutions, ExecutionStatus

\* What people, the clock and the due work change.
LEMMA RoutineChanges ==
  ASSUME RoutineInv,
         \/ TimePasses \/ UpsertRoutine \/ SetRoutineEnabled \/ DeleteRoutine
         \/ TriggerRoutine \/ StageDue \/ \E e \in Execution : ClaimLapses(e)
  PROVE  RoutineInv'
<1>1. UNCHANGED <<routineRun, scheduler>>
  BY DEF TimePasses, UpsertRoutine, SetRoutineEnabled, DeleteRoutine, TriggerRoutine,
         StageDue, ClaimLapses
<1>2. \/ execution' \in {execution, CancelPendingExecutions}
      \/ \E e \in Execution : execution' \in {[execution EXCEPT ![e] = "pending"],
                                              [execution EXCEPT ![e] = "lapsed"]}
  <2>1. CASE TimePasses \/ SetRoutineEnabled \/ DeleteRoutine
    BY <2>1 DEF TimePasses, SetRoutineEnabled, DeleteRoutine
  <2>2. CASE UpsertRoutine
    BY <2>2 DEF UpsertRoutine
  <2>3. CASE TriggerRoutine \/ StageDue
    BY <2>3 DEF TriggerRoutine, StageDue, StageExecution
  <2>4. CASE \E e \in Execution : ClaimLapses(e)
    BY <2>4 DEF ClaimLapses
  <2> QED BY <2>1, <2>2, <2>3, <2>4
<1>3. /\ execution' \in [Execution -> ExecutionStatus \cup {"absent", "lapsed"} \cup RunRead]
      /\ \A e \in Execution : execution'[e] = "completed" => execution[e] = "completed"
  BY <1>2, CancelledPending DEF RoutineInv, ExecutionStatus
<1> QED BY <1>1, <1>3, TickFrame DEF RoutineInv

LEMMA RunMovesStep ==
  ASSUME RoutineInv, NEW e \in Execution, RunMoves(e)
  PROVE  RoutineInv'
<1>1. /\ routineRun' \in [Execution -> RunRead]
      /\ \A f \in Execution : routineRun[f] = "completed" => routineRun'[f] = "completed"
  BY DEF RunMoves, RoutineInv, RunRead
<1>2. UNCHANGED <<execution, scheduler>>
  BY DEF RunMoves
<1> QED BY <1>1, <1>2, TickFrame DEF RoutineInv

\* The parts of a tick that write no outcome of a run.
LEMMA TickStep ==
  ASSUME RoutineInv, NEW h \in Host,
         \/ ReconcileExecutions(h) \/ ClaimNotifications(h) \/ ClaimExecutions(h)
         \/ CreateRun(h) \/ MarkExecutionFailed(h) \/ MarkExecutionQueued(h)
         \/ SendNotification(h) \/ MarkNotification(h) \/ SchedulerCrashes(h)
  PROVE  RoutineInv'
<1>1. scheduler[h] \in TickState /\ scheduler[h].todo \subseteq Execution
  BY DEF RoutineInv, TickState
<1>2. /\ scheduler' \in [Host -> TickState]
      /\ scheduler'[h].at # "reconciled"
      /\ scheduler'[h].at = "reconcile" => scheduler'[h].todo # {}
      /\ \A g \in Host \ {h} : scheduler'[g] = scheduler[g]
  <2>1. CASE ReconcileExecutions(h)
    BY <2>1, WorksOffMove DEF ReconcileExecutions
  <2>2. CASE ClaimNotifications(h)
    BY <2>2, WorksOffMove DEF ClaimNotifications
  <2>3. CASE ClaimExecutions(h)
    BY <2>3, WorksOffMove DEF ClaimExecutions
  <2>4. CASE MarkExecutionFailed(h) \/ MarkExecutionQueued(h)
    <3>1. PICK e : DoneWith(h, e, "enqueue")
      BY <2>4 DEF MarkExecutionFailed, MarkExecutionQueued
    <3> QED BY <1>1, <3>1, WorksOffMove DEF DoneWith
  <2>5. CASE MarkNotification(h)
    <3>1. PICK e : DoneWith(h, e, "announce")
      BY <2>5 DEF MarkNotification
    <3> QED BY <1>1, <3>1, WorksOffMove DEF DoneWith
  <2>6. CASE CreateRun(h) \/ SendNotification(h)
    <3>1. PICK p \in {"created", "sent", "unsent"} : TurnsTo(h, p)
      BY <2>6 DEF CreateRun, SendNotification
    <3>2. /\ [scheduler[h] EXCEPT !.at = p] \in TickState
          /\ [scheduler[h] EXCEPT !.at = p].at = p
      BY <1>1 DEF TickState, TickPhase
    <3>3. scheduler' = [scheduler EXCEPT ![h] = [scheduler[h] EXCEPT !.at = p]]
      BY <3>1 DEF TurnsTo
    <3> QED BY <3>2, <3>3, TickMove DEF TicksOn
  <2>7. CASE SchedulerCrashes(h)
    BY <2>7, IdleTick, TickMove DEF SchedulerCrashes, TicksOn, TickPhase
  <2> QED BY <2>1, <2>2, <2>3, <2>4, <2>5, <2>6, <2>7
<1>3. /\ routineRun' \in [Execution -> RunRead]
      /\ \A f \in Execution : routineRun[f] = "completed" => routineRun'[f] = "completed"
  <2>1. CASE CreateRun(h)
    BY <2>1 DEF CreateRun, RoutineInv, RunRead
  <2>2. CASE ~CreateRun(h)
    BY <2>2 DEF ReconcileExecutions, ClaimNotifications, ClaimExecutions, MarkExecutionFailed,
                MarkExecutionQueued, SendNotification, MarkNotification, SchedulerCrashes,
                RoutineInv
  <2> QED BY <2>1, <2>2
<1>4. /\ execution' \in [Execution -> ExecutionStatus \cup {"absent", "lapsed"} \cup RunRead]
      /\ \A f \in Execution : execution'[f] = "completed" => execution[f] = "completed"
  <2>1. CASE ClaimExecutions(h)
    BY <2>1 DEF ClaimExecutions, RoutineInv, ExecutionStatus
  <2>2. CASE MarkExecutionFailed(h)
    BY <2>2 DEF MarkExecutionFailed, RoutineInv, ExecutionStatus
  <2>3. CASE MarkExecutionQueued(h)
    BY <2>3 DEF MarkExecutionQueued, RoutineInv, ExecutionStatus
  <2>4. CASE \/ ReconcileExecutions(h) \/ ClaimNotifications(h) \/ CreateRun(h)
             \/ SendNotification(h) \/ MarkNotification(h) \/ SchedulerCrashes(h)
    BY <2>4 DEF ReconcileExecutions, ClaimNotifications, CreateRun, SendNotification,
                MarkNotification, SchedulerCrashes, RoutineInv
  <2> QED BY <2>1, <2>2, <2>3, <2>4
<1> QED BY <1>2, <1>3, <1>4, TickFrame

LEMMA ReadRunStep ==
  ASSUME RoutineInv, NEW h \in Host, ReadRun(h)
  PROVE  RoutineInv'
<1> DEFINE e == NewestOf(scheduler[h].todo)
           W == [scheduler[h] EXCEPT !.at = "reconciled", !.read = routineRun[e]]
<1>1. scheduler[h] \in TickState /\ scheduler[h].at = "reconcile" /\ ReadIsTrue(h)
  BY DEF RoutineInv, ReadRun, Ticking
<1>2. e \in Execution
  <2>1. \E x \in scheduler[h].todo : \A y \in scheduler[h].todo : x >= y
    BY <1>1, GreatestNumber, RoutineBounds DEF ReadIsTrue, TickState, Execution
  <2>2. NewestOf(scheduler[h].todo) \in scheduler[h].todo
    BY <2>1 DEF NewestOf
  <2> QED BY <1>1, <2>2 DEF TickState
<1>3. routineRun[e] \in RunRead
  BY <1>2 DEF RoutineInv
<1>4. /\ W \in TickState /\ W.at = "reconciled" /\ W.read = routineRun[e]
      /\ W.todo = scheduler[h].todo
  BY <1>1, <1>3 DEF TickState, TickPhase
<1>5. scheduler' = [scheduler EXCEPT ![h] = W] /\ UNCHANGED <<execution, routineRun>>
  BY DEF ReadRun
<1> HIDE DEF W
<1>6. TicksOn(h, W)
  BY <1>4, <1>5, TickMove
<1>7. ReadIsTrue(h)'
  BY <1>4, <1>5, <1>6 DEF TicksOn, ReadIsTrue
<1>8. ASSUME NEW g \in Host \ {h} PROVE ReadIsTrue(g)'
  <2>1. ReadIsTrue(g)
    BY DEF RoutineInv
  <2> QED BY <1>5, <1>6, <2>1 DEF TicksOn, ReadIsTrue
<1>9. CompletedMeansRan'
  BY <1>5 DEF RoutineInv, CompletedMeansRan
<1> QED BY <1>5, <1>6, <1>7, <1>8, <1>9 DEF RoutineInv, TicksOn

\* The outcome is written from what was read, however long ago.
LEMMA ReconcileStep ==
  ASSUME RoutineInv, NEW h \in Host, ReconcileRun(h)
  PROVE  RoutineInv'
<1> DEFINE e == NewestOf(scheduler[h].todo)
           s == scheduler[h].read
<1>1. /\ scheduler[h] \in TickState /\ scheduler[h].at = "reconciled" /\ ReadIsTrue(h)
      /\ s \in RunRead
  BY DEF RoutineInv, ReconcileRun, Ticking, TickState
<1>2. /\ execution' = [execution EXCEPT ![e] = s] /\ UNCHANGED routineRun
      /\ DoneWith(h, e, "reconcile")
  BY DEF ReconcileRun
<1>3. s = "completed" => \A f \in Execution : f = e => routineRun[f] = "completed"
  BY <1>1 DEF ReadIsTrue
<1> HIDE DEF e, s
<1>4. CompletedMeansRan'
  BY <1>2, <1>3 DEF RoutineInv, CompletedMeansRan
<1>5. execution' \in [Execution -> ExecutionStatus \cup {"absent", "lapsed"} \cup RunRead]
  BY <1>1, <1>2 DEF RoutineInv
<1>6. /\ scheduler' \in [Host -> TickState]
      /\ scheduler'[h].at # "reconciled"
      /\ scheduler'[h].at = "reconcile" => scheduler'[h].todo # {}
      /\ \A g \in Host \ {h} : scheduler'[g] = scheduler[g]
  <2>1. scheduler[h].todo \ {e} \in SUBSET Execution
    BY <1>1 DEF TickState
  <2>2. WorksOff(h, "reconcile", scheduler[h].todo \ {e})
    BY <1>2 DEF DoneWith
  <2> QED BY <2>1, <2>2, WorksOffMove
<1>7. ASSUME NEW g \in Host PROVE ReadIsTrue(g)'
  <2>1. ReadIsTrue(g)
    BY DEF RoutineInv
  <2> QED BY <1>2, <1>6, <2>1 DEF ReadIsTrue
<1> QED BY <1>2, <1>4, <1>5, <1>6, <1>7 DEF RoutineInv

LEMMA RoutineInvHolds == RoutineSpec => []RoutineInv
<1>1. RoutineInit => RoutineInv
  <2> SUFFICES ASSUME RoutineInit PROVE RoutineInv
    OBVIOUS
  <2>1. scheduler \in [Host -> TickState] /\ \A h \in Host : scheduler[h].at = "tick"
    BY IdleTick DEF RoutineInit, TickPhase
  <2>2. \A h \in Host : ReadIsTrue(h)
    BY <2>1 DEF ReadIsTrue
  <2>3. /\ execution \in [Execution -> ExecutionStatus \cup {"absent", "lapsed"} \cup RunRead]
        /\ routineRun \in [Execution -> RunRead] /\ CompletedMeansRan
    BY DEF RoutineInit, RunRead, CompletedMeansRan
  <2> QED BY <2>1, <2>2, <2>3 DEF RoutineInv
<1>2. RoutineInv /\ [RoutineNext]_routineVars => RoutineInv'
  <2> SUFFICES ASSUME RoutineInv, [RoutineNext]_routineVars PROVE RoutineInv'
    OBVIOUS
  <2>1. CASE UNCHANGED routineVars
    <3>1. UNCHANGED <<execution, routineRun, scheduler>>
      BY <2>1 DEF routineVars
    <3> QED BY <3>1, TickFrame DEF RoutineInv
  <2>2. CASE \E h \in RoutineHost : SchedulerStep(h) \/ SchedulerCrashes(h)
    <3>1. PICK h \in Host : SchedulerStep(h) \/ SchedulerCrashes(h)
      BY <2>2, RoutineBounds
    <3> QED BY <3>1, TickStep, ReadRunStep, ReconcileStep DEF SchedulerStep
  <2> QED BY <2>1, <2>2, RoutineChanges, RunMovesStep DEF RoutineNext
<1> QED BY <1>1, <1>2, PTL DEF RoutineSpec

\* However the schedulers interleave and die, and however often the routine is edited,
\* paused, deleted and triggered, no execution is reported as completed whose agent run
\* did not complete.
THEOREM CompletionsAreTrue == RoutineSpec => []CompletedMeansRan
<1>1. RoutineInv => CompletedMeansRan
  BY DEF RoutineInv
<1> QED BY <1>1, RoutineInvHolds, PTL

-----------------------------------------------------------------------------
(***************************************************************************)
(* The types of the routines.  A notice is only written on where one was      *)
(* made, and a status is only copied from a run that was created: both take   *)
(* what a scheduler still has to do, which may be older than the tables.      *)
(***************************************************************************)

Working == {"reconcile", "reconciled", "announce", "sent", "unsent", "enqueue", "created"}
Announcing == {"announce", "sent", "unsent"}

Noticed(e) == notice[e] # NoNotice
HasARun(e) == routineRun[e] # "none"

TickAgrees(h) ==
  LET S == scheduler[h] IN
  /\ S.at \in Working => S.todo # {}
  /\ S.at \in Announcing => \A e \in S.todo : Noticed(e)
  /\ S.at = "created" => HasARun(OldestOf(S.todo))
  /\ S.at \in {"reconcile", "reconciled"} => \A e \in S.todo : HasARun(e)
  /\ S.at = "reconciled" => S.read # "none"

RoutineShape ==
  /\ RoutineTypeOK
  /\ \A h \in Host : TickAgrees(h)
  /\ \A e \in Execution : execution[e] \in {"queued", "running"} => HasARun(e)

Notice == [kind : {"failure", "recovery"}, status : NoticeStatus \cup {"lapsed", "resting"}]
            \cup {NoNotice}
Staging == [trigger : {"none", "manual", "scheduled"}, slot : Nat, at : Nat, policy : Nat]

RoutineRecord == [enabled : BOOLEAN, deleted : BOOLEAN, repeats : BOOLEAN,
                  nextRunAt : 0 .. Never, policy : Nat]

\* The item at hand is one of those left.
LEMMA ItemAtHand ==
  ASSUME NEW S \in SUBSET Execution, S # {}
  PROVE  OldestOf(S) \in S /\ NewestOf(S) \in S
<1>0. Execution \subseteq Nat /\ LastExecution \in Nat
  BY RoutineBounds DEF Execution
<1>1. \E x \in S : \A y \in S : x <= y
  <2>1. PICK x \in S : \A y \in S : ~(y < x)
    BY <1>0, LeastNumber
  <2> QED BY <1>0, <2>1
<1>2. \E x \in S : \A y \in S : x >= y
  BY <1>0, GreatestNumber DEF Execution
<1> QED BY <1>1, <1>2 DEF OldestOf, NewestOf

\* What the steps do to the tables, for the steps of the schedulers: nothing that was
\* made disappears.
Grows ==
  /\ \A e \in Execution : Noticed(e) => Noticed(e)'
  /\ \A e \in Execution : HasARun(e) => HasARun(e)'
  /\ \A e \in Execution : execution'[e] \in {"queued", "running"} => HasARun(e)'

LEMMA ShapeFrame ==
  ASSUME RoutineShape, RoutineTypeOK', Grows,
         \A h \in Host : scheduler'[h] = scheduler[h] \/ TickAgrees(h)'
  PROVE  RoutineShape'
<1>1. ASSUME NEW h \in Host PROVE TickAgrees(h)'
  <2>1. CASE scheduler'[h] = scheduler[h]
    <3>1. TickAgrees(h) /\ scheduler[h].todo \subseteq Execution
      BY DEF RoutineShape, RoutineTypeOK
    <3>2. scheduler[h].at = "created" => OldestOf(scheduler[h].todo) \in Execution
      <4>1. scheduler[h].at = "created" => scheduler[h].todo # {}
        BY <3>1 DEF TickAgrees, Working
      <4> QED BY <3>1, <4>1, ItemAtHand
    <3>3. \A e \in Execution : (Noticed(e) => Noticed(e)') /\ (HasARun(e) => HasARun(e)')
      BY DEF Grows
    <3>4. (scheduler[h].at \in Working => scheduler[h].todo # {})
      BY <3>1 DEF TickAgrees
    <3>5. scheduler[h].at \in Announcing => \A e \in scheduler[h].todo : Noticed(e)'
      BY <3>1, <3>3 DEF TickAgrees
    <3>6. scheduler[h].at \in {"reconcile", "reconciled"} => \A e \in scheduler[h].todo : HasARun(e)'
      BY <3>1, <3>3 DEF TickAgrees
    <3>7. scheduler[h].at = "created" => HasARun(OldestOf(scheduler[h].todo))'
      <4>1. scheduler[h].at = "created" => HasARun(OldestOf(scheduler[h].todo))
        BY <3>1 DEF TickAgrees
      <4> QED BY <2>1, <3>2, <3>3, <4>1 DEF HasARun
    <3>8. scheduler[h].at = "reconciled" => scheduler[h].read # "none"
      BY <3>1 DEF TickAgrees
    <3> QED BY <2>1, <3>4, <3>5, <3>6, <3>7, <3>8 DEF TickAgrees
  <2> QED BY <2>1
<1> QED BY <1>1 DEF RoutineShape, Grows

\* The types of the tables, and of what the hosts are doing.
RoutineTypes ==
  /\ moment \in 0 .. LastMoment
  /\ routine \in RoutineRecord
  /\ execution \in [Execution -> ExecutionStatus \cup {"absent", "lapsed"}]
  /\ about \in [Execution -> Staging]
  /\ routineRun \in [Execution -> RunRead]
  /\ notice \in [Execution -> Notice]
  /\ noticeTries \in [Execution -> Nat]
  /\ told \subseteq Execution
  /\ scheduler \in [Host -> TickState]
  /\ troubles \in Nat

LEMMA TypesSplit == (RoutineTypeOK <=> RoutineTypes) /\ (RoutineTypeOK' <=> RoutineTypes')
BY DEF RoutineTypes, RoutineTypeOK, RoutineRecord, Staging, RunRead, Notice, TickState

LEMMA Cancelled ==
  ASSUME RoutineTypeOK
  PROVE  /\ CancelPendingExecutions \in [Execution -> ExecutionStatus \cup {"absent", "lapsed"}]
         /\ \A e \in Execution : CancelPendingExecutions[e] \in {"queued", "running"} =>
                                   execution[e] = CancelPendingExecutions[e]
         /\ CancelPendingNotifications \in [Execution -> Notice]
         /\ \A e \in Execution : Noticed(e) => CancelPendingNotifications[e] # NoNotice
<1>1. ASSUME NEW e \in Execution
      PROVE  /\ CancelPendingNotifications[e] \in Notice
             /\ Noticed(e) => CancelPendingNotifications[e] # NoNotice
  <2>1. notice[e] \in Notice
    BY DEF RoutineTypeOK, Notice
  <2>2. CASE notice[e].status \in Unsettled
    <3>1. notice[e] \in [kind : {"failure", "recovery"}, status : NoticeStatus \cup {"lapsed", "resting"}]
      BY <2>1, <2>2 DEF Notice, NoNotice, Unsettled, Unclaimed
    <3>2. CancelPendingNotifications[e] = [notice[e] EXCEPT !.status = "cancelled"]
      BY <2>2 DEF CancelPendingNotifications
    <3> QED BY <3>1, <3>2 DEF Notice, NoNotice, NoticeStatus
  <2>3. CASE notice[e].status \notin Unsettled
    BY <2>1, <2>3 DEF CancelPendingNotifications, Noticed
  <2> QED BY <2>2, <2>3
<1>2. CancelPendingNotifications \in [Execution -> Notice]
  BY <1>1 DEF CancelPendingNotifications
<1>3. CancelPendingExecutions \in [Execution -> ExecutionStatus \cup {"absent", "lapsed"}]
  BY DEF RoutineTypeOK, CancelPendingExecutions, ExecutionStatus
<1>4. \A e \in Execution : CancelPendingExecutions[e] \in {"queued", "running"} =>
                             execution[e] = CancelPendingExecutions[e]
  BY DEF CancelPendingExecutions
<1> QED BY <1>1, <1>2, <1>3, <1>4

LEMMA NextRuns ==
  ASSUME RoutineTypeOK, NEW repeats \in BOOLEAN
  PROVE  /\ NextRunAt(repeats) \subseteq 0 .. Never /\ Never \in 0 .. Never
         /\ moment \in Nat /\ moment + Every \in 0 .. Never
BY RoutineBounds, EveryIsPositive DEF RoutineTypeOK, NextRunAt, Never

\* The routine's own record after an edit.
LEMMA RoutineEdited ==
  ASSUME RoutineTypeOK, NEW b \in BOOLEAN, NEW c \in BOOLEAN, NEW n \in 0 .. Never, NEW k \in Nat
  PROVE  [routine EXCEPT !.enabled = b, !.repeats = c, !.nextRunAt = n, !.policy = k] \in RoutineRecord
BY DEF RoutineTypeOK, RoutineRecord

LEMMA RoutineSwitched ==
  ASSUME RoutineTypeOK, NEW b \in BOOLEAN, NEW n \in 0 .. Never
  PROVE  /\ [routine EXCEPT !.enabled = b, !.nextRunAt = n] \in RoutineRecord
         /\ [routine EXCEPT !.enabled = b, !.nextRunAt = n, !.deleted = TRUE] \in RoutineRecord
BY DEF RoutineTypeOK, RoutineRecord

LEMMA RoutineMoved ==
  ASSUME RoutineTypeOK, NEW n \in 0 .. Never
  PROVE  [routine EXCEPT !.nextRunAt = n] \in RoutineRecord
BY DEF RoutineTypeOK, RoutineRecord

LEMMA StagedTypes ==
  ASSUME RoutineTypeOK, NEW t \in {"manual", "scheduled"}, NEW s \in Nat, StageExecution(t, s)
  PROVE  /\ execution' \in [Execution -> ExecutionStatus \cup {"absent", "lapsed"}]
         /\ about' \in [Execution -> Staging]
         /\ \A e \in Execution : execution'[e] \in {"queued", "running"} => execution'[e] = execution[e]
<1>1. moment \in Nat /\ routine.policy \in Nat
  BY RoutineBounds DEF RoutineTypeOK
<1>2. [trigger |-> t, slot |-> s, at |-> moment, policy |-> routine.policy] \in Staging
  BY <1>1 DEF Staging
<1>3. PICK e \in Execution :
        /\ execution' = [execution EXCEPT ![e] = "pending"]
        /\ about' = [about EXCEPT ![e] = [trigger |-> t, slot |-> s, at |-> moment,
                                          policy |-> routine.policy]]
  BY DEF StageExecution
<1> QED BY <1>2, <1>3 DEF RoutineTypeOK, ExecutionStatus, Staging

\* People and the clock.
LEMMA PeopleShape ==
  ASSUME RoutineShape, TimePasses \/ UpsertRoutine \/ SetRoutineEnabled \/ DeleteRoutine
  PROVE  RoutineShape'
<1>0. RoutineTypeOK
  BY DEF RoutineShape
<1>1. UNCHANGED <<about, routineRun, noticeTries, told, scheduler>>
  BY DEF TimePasses, UpsertRoutine, SetRoutineEnabled, DeleteRoutine
<1>2. moment' \in 0 .. LastMoment /\ troubles' \in Nat
  <2>1. moment \in 0 .. LastMoment /\ troubles \in Nat
    BY <1>0, TypesSplit DEF RoutineTypes
  <2>2. \/ moment < LastMoment /\ moment' = moment + 1 /\ troubles' = troubles
        \/ moment' = moment /\ troubles' = troubles + 1
    BY DEF TimePasses, UpsertRoutine, SetRoutineEnabled, DeleteRoutine
  <2> QED BY <2>1, <2>2, RoutineBounds
<1>3. routine' \in RoutineRecord
  <2>1. CASE TimePasses
    BY <1>0, <2>1, TypesSplit DEF TimePasses, RoutineTypes
  <2>2. CASE UpsertRoutine
    <3>1. /\ routine.enabled \in BOOLEAN /\ routine.policy \in Nat /\ routine.policy + 1 \in Nat
          /\ routine.nextRunAt \in 0 .. Never
      BY <1>0 DEF RoutineTypeOK
    <3>a. PICK enabled, repeats, rerouted \in BOOLEAN :
            \E next \in {Never, routine.nextRunAt} \cup NextRunAt(repeats) :
              routine' = [routine EXCEPT !.enabled = enabled, !.repeats = repeats,
                            !.nextRunAt = next, !.policy = IF rerouted THEN @ + 1 ELSE @]
      <4>1. PICK enabled, repeats, rescheduled, rerouted \in BOOLEAN :
              \E next \in IF ~enabled THEN {Never}
                      ELSE IF routine.enabled /\ routine.nextRunAt # Never /\ ~rescheduled
                        THEN {routine.nextRunAt}
                        ELSE NextRunAt(repeats) :
                routine' = [routine EXCEPT !.enabled = enabled, !.repeats = repeats,
                              !.nextRunAt = next, !.policy = IF rerouted THEN @ + 1 ELSE @]
        BY <2>2 DEF UpsertRoutine
      <4> QED BY <4>1
    <3>2. PICK next \in {Never, routine.nextRunAt} \cup NextRunAt(repeats) :
            routine' = [routine EXCEPT !.enabled = enabled, !.repeats = repeats,
                          !.nextRunAt = next, !.policy = IF rerouted THEN @ + 1 ELSE @]
      BY <3>a
    <3>3. next \in 0 .. Never
      BY <1>0, <3>1, <3>2, NextRuns
    <3>4. PICK k \in Nat : routine' = [routine EXCEPT !.enabled = enabled, !.repeats = repeats,
                                         !.nextRunAt = next, !.policy = k]
      BY <3>1, <3>2
    <3>5. [routine EXCEPT !.enabled = enabled, !.repeats = repeats, !.nextRunAt = next,
             !.policy = k] \in RoutineRecord
      BY <1>0, <3>3, RoutineEdited
    <3> QED BY <3>4, <3>5
  <2>3. CASE SetRoutineEnabled
    <3>1. routine.enabled \in BOOLEAN /\ routine.repeats \in BOOLEAN
      BY <1>0 DEF RoutineTypeOK
    <3>2. PICK next \in {Never} \cup NextRunAt(routine.repeats) :
            routine' = [routine EXCEPT !.enabled = ~routine.enabled, !.nextRunAt = next]
      BY <2>3 DEF SetRoutineEnabled
    <3>3. next \in 0 .. Never
      BY <1>0, <3>1, <3>2, NextRuns
    <3>4. PICK b \in BOOLEAN : b = ~routine.enabled
      BY Zenon
    <3>5. [routine EXCEPT !.enabled = b, !.nextRunAt = next] \in RoutineRecord
      BY <1>0, <3>3, RoutineSwitched
    <3> QED BY <3>2, <3>4, <3>5
  <2>4. CASE DeleteRoutine
    <3>1. Never \in 0 .. Never
      BY <1>0, NextRuns
    <3>2. [routine EXCEPT !.enabled = FALSE, !.nextRunAt = Never, !.deleted = TRUE] \in RoutineRecord
      BY <1>0, <3>1, RoutineSwitched
    <3> QED BY <2>4, <3>2 DEF DeleteRoutine
  <2> QED BY <2>1, <2>2, <2>3, <2>4
<1>4. execution' \in {execution, CancelPendingExecutions} /\ notice' \in {notice, CancelPendingNotifications}
  <2>1. CASE TimePasses
    BY <2>1 DEF TimePasses
  <2>2. CASE UpsertRoutine
    BY <2>2 DEF UpsertRoutine
  <2>3. CASE SetRoutineEnabled \/ DeleteRoutine
    BY <2>3 DEF SetRoutineEnabled, DeleteRoutine
  <2> QED BY <2>1, <2>2, <2>3
<1>5. /\ execution' \in [Execution -> ExecutionStatus \cup {"absent", "lapsed"}]
      /\ notice' \in [Execution -> Notice]
      /\ \A e \in Execution : Noticed(e) => Noticed(e)'
      /\ \A e \in Execution : execution'[e] \in {"queued", "running"} => execution[e] = execution'[e]
  BY <1>0, <1>4, Cancelled, TypesSplit DEF Noticed, RoutineTypes
<1>6. RoutineTypeOK'
  BY <1>0, <1>1, <1>2, <1>3, <1>5, TypesSplit DEF RoutineTypes
<1>7. Grows
  BY <1>1, <1>5 DEF Grows, HasARun, RoutineShape
<1> QED BY <1>1, <1>6, <1>7, ShapeFrame

\* Work that becomes due or is asked for, runs that go on, claims that get old.
LEMMA StagingShape ==
  ASSUME RoutineShape,
         TriggerRoutine \/ StageDue \/ \E e \in Execution : RunMoves(e) \/ ClaimLapses(e)
  PROVE  RoutineShape'
<1>0. RoutineTypeOK /\ moment \in Nat /\ routine.nextRunAt \in Nat
  <2>1. RoutineTypeOK
    BY DEF RoutineShape
  <2>2. Never \in Nat
    BY RoutineBounds, EveryIsPositive DEF Never
  <2> QED BY <2>1, <2>2, RoutineBounds DEF RoutineTypeOK
<1>1. UNCHANGED <<moment, noticeTries, told, scheduler>>
  BY DEF TriggerRoutine, StageDue, RunMoves, ClaimLapses
<1>2. routine' \in RoutineRecord /\ troubles' \in Nat
  <2>1. CASE StageDue
    <3>1. moment + Every \in 0 .. Never /\ Never \in 0 .. Never
      BY <1>0, NextRuns
    <3>2. /\ [routine EXCEPT !.enabled = FALSE, !.nextRunAt = Never] \in RoutineRecord
          /\ [routine EXCEPT !.nextRunAt = moment + Every] \in RoutineRecord
      BY <1>0, <3>1, RoutineSwitched, RoutineMoved
    <3>3. routine' \in RoutineRecord
      BY <2>1, <3>2 DEF StageDue
    <3>4. troubles' = troubles
      BY <2>1 DEF StageDue
    <3> QED BY <1>0, <3>3, <3>4, TypesSplit DEF RoutineTypes
  <2>2. CASE ~StageDue
    <3>1. routine' = routine /\ troubles' \in {troubles, troubles + 1}
      BY <2>2 DEF TriggerRoutine, RunMoves, ClaimLapses
    <3> QED BY <1>0, <3>1, TypesSplit DEF RoutineTypes
  <2> QED BY <2>1, <2>2
<1>3. /\ execution' \in [Execution -> ExecutionStatus \cup {"absent", "lapsed"}]
      /\ about' \in [Execution -> Staging]
      /\ \A e \in Execution : execution'[e] \in {"queued", "running"} => execution'[e] = execution[e]
  <2>1. CASE UNCHANGED <<execution, about>>
    BY <1>0, <2>1, TypesSplit DEF RoutineTypes
  <2>2. CASE \/ StageExecution("manual", moment)
             \/ StageExecution("scheduled", routine.nextRunAt)
    BY <1>0, <2>2, StagedTypes
  <2>3. CASE \E e \in Execution : ClaimLapses(e)
    BY <1>0, <2>3 DEF ClaimLapses, RoutineTypeOK, ExecutionStatus, Staging
  <2> QED BY <2>1, <2>2, <2>3 DEF TriggerRoutine, StageDue, RunMoves
<1>4. /\ routineRun' \in [Execution -> RunRead]
      /\ \A e \in Execution : HasARun(e) => HasARun(e)'
  <2>1. CASE \E e \in Execution : RunMoves(e)
    BY <1>0, <2>1, TypesSplit DEF RunMoves, RunRead, HasARun, TerminalExecution, RoutineTypes
  <2>2. CASE UNCHANGED routineRun
    BY <1>0, <2>2, TypesSplit DEF HasARun, RoutineTypes
  <2> QED BY <2>1, <2>2 DEF TriggerRoutine, StageDue, ClaimLapses
<1>5. /\ notice' \in [Execution -> Notice]
      /\ \A e \in Execution : Noticed(e) => Noticed(e)'
  <2>1. CASE UNCHANGED notice
    BY <1>0, <2>1, TypesSplit DEF Noticed, RoutineTypes
  <2>2. ASSUME NEW e \in Execution, NEW s \in {"lapsed", "pending"},
               notice[e].status \in {"claimed", "resting"}, notice' = [notice EXCEPT ![e].status = s]
        PROVE  notice' \in [Execution -> Notice] /\ \A f \in Execution : Noticed(f) => Noticed(f)'
    <3>1. notice[e] \in [kind : {"failure", "recovery"}, status : NoticeStatus \cup {"lapsed", "resting"}]
      BY <1>0, <2>2 DEF RoutineTypeOK, NoNotice
    <3>2. [notice[e] EXCEPT !.status = s] \in Notice /\ [notice[e] EXCEPT !.status = s] # NoNotice
      BY <3>1 DEF Notice, NoNotice, NoticeStatus
    <3> QED BY <1>0, <2>2, <3>2, TypesSplit DEF Noticed, RoutineTypes
  <2> QED BY <2>1, <2>2 DEF TriggerRoutine, StageDue, RunMoves, ClaimLapses
<1>6. RoutineTypeOK'
  BY <1>0, <1>1, <1>2, <1>3, <1>4, <1>5, TypesSplit DEF RoutineTypes
<1>7. Grows
  BY <1>3, <1>4, <1>5 DEF Grows, RoutineShape, HasARun
<1> QED BY <1>1, <1>6, <1>7, ShapeFrame

\* What a scheduler has in front of it.
LEMMA AtHand ==
  ASSUME RoutineShape, NEW h \in Host
  PROVE  /\ scheduler[h] \in TickState /\ scheduler[h].todo \in SUBSET Execution
         /\ TickAgrees(h)
         /\ scheduler[h].at \in Working =>
              /\ OldestOf(scheduler[h].todo) \in scheduler[h].todo
              /\ NewestOf(scheduler[h].todo) \in scheduler[h].todo
<1>1. scheduler[h] \in TickState /\ TickAgrees(h)
  BY TypesSplit DEF RoutineShape, RoutineTypes
<1>2. scheduler[h].todo \in SUBSET Execution
  BY <1>1 DEF TickState
<1>3. scheduler[h].at \in Working => scheduler[h].todo # {}
  BY <1>1 DEF TickAgrees
<1> QED BY <1>1, <1>2, <1>3, ItemAtHand

\* A host takes a next state that agrees with the tables.
LEMMA SchedulerTakes ==
  ASSUME RoutineShape, NEW h \in Host, NEW W \in TickState,
         scheduler' = [scheduler EXCEPT ![h] = W]
  PROVE  /\ scheduler' \in [Host -> TickState]
         /\ scheduler'[h] = W
         /\ \A g \in Host \ {h} : scheduler'[g] = scheduler[g]
BY TypesSplit DEF RoutineShape, RoutineTypes

Rest(h, p, S) ==
  /\ p \in {"reconcile", "announce", "enqueue"}
  /\ S \in SUBSET Execution
  /\ p = "announce" => \A e \in S : Noticed(e)'
  /\ p = "reconcile" => \A e \in S : HasARun(e)'

LEMMA WorksOffAgrees ==
  ASSUME RoutineShape, NEW h \in Host, NEW p, NEW S, WorksOff(h, p, S), Rest(h, p, S)
  PROVE  /\ scheduler' \in [Host -> TickState]
         /\ \A g \in Host : scheduler'[g] = scheduler[g] \/ TickAgrees(g)'
<1> DEFINE W == IF S = {} THEN TickAt(PartAfter[p]) ELSE [at |-> p, todo |-> S, read |-> "none"]
<1>1. /\ PartAfter[p] \in TickPhase
      /\ PartAfter[p] \notin Working
  BY DEF Rest, PartAfter, TickPhase, Working
<1>2. /\ W \in TickState
      /\ W = TickAt(PartAfter[p]) \/ (S # {} /\ W = [at |-> p, todo |-> S, read |-> "none"])
  <2>1. [at |-> p, todo |-> S, read |-> "none"] \in TickState
    BY DEF Rest, TickState, TickPhase, RunRead
  <2>2. TickAt(PartAfter[p]) \in TickState
    BY <1>1, IdleTick
  <2> QED BY <2>1, <2>2
<1>3. scheduler' = [scheduler EXCEPT ![h] = W]
  BY DEF WorksOff
<1> HIDE DEF W
<1>4. /\ scheduler' \in [Host -> TickState]
      /\ scheduler'[h] = W
      /\ \A g \in Host \ {h} : scheduler'[g] = scheduler[g]
  BY <1>2, <1>3, SchedulerTakes
<1>5. TickAgrees(h)'
  <2>1. CASE W = TickAt(PartAfter[p])
    <3>1. W.at \notin Working
      BY <1>1, <2>1, IdleTick
    <3> QED BY <1>4, <3>1 DEF TickAgrees, Working, Announcing
  <2>2. CASE S # {} /\ W = [at |-> p, todo |-> S, read |-> "none"]
    <3>1. W.at = p /\ W.todo = S
      BY <2>2
    <3>2. W.at \in Announcing => p = "announce"
      BY <3>1 DEF Rest, Announcing
    <3>3. W.at # "created" /\ W.at # "reconciled"
      BY <3>1 DEF Rest
    <3> QED BY <1>4, <2>2, <3>1, <3>2, <3>3 DEF TickAgrees, Rest
  <2> QED BY <1>2, <2>1, <2>2
<1> QED BY <1>4, <1>5

\* A notice that is due is one, and none that is there goes.
LEMMA NoticeIsMade ==
  ASSUME RoutineTypeOK, NEW e \in Execution, NEW s
  PROVE  /\ NoticeFor(e, s) \in [Execution -> Notice]
         /\ \A f \in Execution : Noticed(f) => NoticeFor(e, s)[f] # NoNotice
<1> DEFINE kind == LET before == ConsecutiveFailuresBefore(e) IN
                   CASE s = "failed" /\ before + 1 = FailureThreshold -> "failure"
                     [] s = "completed" /\ before >= FailureThreshold -> "recovery"
                     [] OTHER -> "none"
<1>1. kind \in {"failure", "recovery", "none"}
  <2> DEFINE before == ConsecutiveFailuresBefore(e)
  <2> HIDE DEF before
  <2>1. (CASE s = "failed" /\ before + 1 = FailureThreshold -> "failure"
           [] s = "completed" /\ before >= FailureThreshold -> "recovery"
           [] OTHER -> "none") \in {"failure", "recovery", "none"}
    OBVIOUS
  <2> QED BY <2>1 DEF before
<1>2. NoticeFor(e, s) = IF kind = "none" \/ notice[e].kind = kind THEN notice
                          ELSE [notice EXCEPT ![e] = [kind |-> kind, status |-> "pending"]]
  BY Zenon DEF NoticeFor
<1> HIDE DEF kind
<1>3. notice \in [Execution -> Notice]
  BY TypesSplit DEF RoutineTypes
<1>4. CASE NoticeFor(e, s) = notice
  BY <1>3, <1>4 DEF Noticed
<1>5. CASE kind # "none" /\ NoticeFor(e, s) = [notice EXCEPT ![e] = [kind |-> kind, status |-> "pending"]]
  <2>1. [kind |-> kind, status |-> "pending"] \in Notice /\ [kind |-> kind, status |-> "pending"] # NoNotice
    BY <1>1, <1>5 DEF Notice, NoNotice, NoticeStatus
  <2> QED BY <1>3, <1>5, <2>1 DEF Noticed
<1> QED BY <1>2, <1>4, <1>5

\* A scheduler looks at the runs of the executions under way.
LEMMA LookingShape ==
  ASSUME RoutineShape, NEW h \in Host, ReconcileExecutions(h) \/ ReadRun(h)
  PROVE  RoutineShape'
<1>0. RoutineTypeOK
  BY DEF RoutineShape
<1>1. UNCHANGED <<moment, routine, execution, about, routineRun, notice, noticeTries, told, troubles>>
  BY DEF ReconcileExecutions, ReadRun
<1>2. /\ scheduler' \in [Host -> TickState]
      /\ \A g \in Host : scheduler'[g] = scheduler[g] \/ TickAgrees(g)'
  <2>1. CASE ReconcileExecutions(h)
    <3> DEFINE S == {e \in Execution : HasRun(e)}
    <3>1. S \in SUBSET Execution /\ \A e \in S : HasARun(e)'
      BY <1>1 DEF HasRun, RoutineShape, HasARun
    <3>2. WorksOff(h, "reconcile", S)
      BY <2>1 DEF ReconcileExecutions
    <3> HIDE DEF S
    <3>3. Rest(h, "reconcile", S)
      BY <3>1 DEF Rest
    <3> QED BY <3>2, <3>3, WorksOffAgrees
  <2>2. CASE ReadRun(h)
    <3> DEFINE S == scheduler[h]
               e == NewestOf(S.todo)
               W == [S EXCEPT !.at = "reconciled", !.read = routineRun[e]]
    <3>1. S.at = "reconcile" /\ scheduler' = [scheduler EXCEPT ![h] = W]
      BY <2>2 DEF ReadRun, Ticking
    <3>2. S \in TickState /\ TickAgrees(h) /\ e \in S.todo /\ S.todo \subseteq Execution
      BY <3>1, AtHand DEF Working
    <3>3. e \in Execution /\ HasARun(e) /\ routineRun[e] \in RunRead /\ S.todo # {}
          /\ \A x \in S.todo : HasARun(x)
      BY <1>0, <3>1, <3>2, TypesSplit DEF RoutineTypes, TickAgrees
    <3> HIDE DEF S, e
    <3>4. /\ W \in TickState
          /\ W.at = "reconciled" /\ W.todo = S.todo /\ W.read = routineRun[e]
      BY <3>2, <3>3 DEF TickState, TickPhase
    <3> HIDE DEF W
    <3>5. /\ scheduler' \in [Host -> TickState]
          /\ scheduler'[h] = W
          /\ \A g \in Host \ {h} : scheduler'[g] = scheduler[g]
      BY <3>1, <3>4, SchedulerTakes
    <3>6. TickAgrees(h)'
      BY <1>1, <3>3, <3>4, <3>5 DEF TickAgrees, HasARun, Announcing
    <3> QED BY <3>5, <3>6
  <2> QED BY <2>1, <2>2
<1>3. RoutineTypeOK'
  BY <1>0, <1>1, <1>2, TypesSplit DEF RoutineTypes
<1>4. Grows
  BY <1>1 DEF Grows, RoutineShape, HasARun, Noticed
<1> QED BY <1>2, <1>3, <1>4, ShapeFrame

\* A scheduler ends or moves an execution.
LEMMA MovingShape ==
  ASSUME RoutineShape, NEW h \in Host,
         ReconcileRun(h) \/ MarkExecutionFailed(h) \/ MarkExecutionQueued(h)
  PROVE  RoutineShape'
<1>0. RoutineTypeOK
  BY DEF RoutineShape
<1>1. UNCHANGED <<moment, routine, about, routineRun, noticeTries, told, troubles>>
  BY DEF ReconcileRun, MarkExecutionFailed, MarkExecutionQueued
<1>2. PICK e \in scheduler[h].todo, p \in {"reconcile", "enqueue"}, s \in RunRead \ {"none"} :
        /\ execution' = [execution EXCEPT ![e] = s]
        /\ notice' = notice \/ notice' = NoticeFor(e, s)
        /\ DoneWith(h, e, p)
        /\ p = "reconcile" => \A x \in scheduler[h].todo : HasARun(x)
        /\ s \in {"queued", "running"} => HasARun(e)
  <2>1. CASE ReconcileRun(h)
    <3> DEFINE e == NewestOf(scheduler[h].todo)
               s == scheduler[h].read
    <3>1. scheduler[h].at = "reconciled"
      BY <2>1 DEF ReconcileRun, Ticking
    <3>2. e \in scheduler[h].todo /\ (\A x \in scheduler[h].todo : HasARun(x))
          /\ s \in RunRead \ {"none"}
      BY <3>1, AtHand DEF Working, TickAgrees, TickState
    <3>3. /\ execution' = [execution EXCEPT ![e] = s]
          /\ notice' = notice \/ notice' = NoticeFor(e, s)
          /\ DoneWith(h, e, "reconcile")
      BY <2>1 DEF ReconcileRun
    <3> HIDE DEF e, s
    <3> QED BY <3>2, <3>3
  <2>2. CASE MarkExecutionFailed(h)
    <3> DEFINE e == OldestOf(scheduler[h].todo)
    <3>1. scheduler[h].at = "enqueue"
      BY <2>2 DEF MarkExecutionFailed, Ticking
    <3>2. e \in scheduler[h].todo /\ "failed" \in RunRead \ {"none"}
      BY <3>1, AtHand DEF Working, RunRead, TerminalExecution
    <3>3. /\ execution' = [execution EXCEPT ![e] = "failed"]
          /\ notice' = NoticeFor(e, "failed")
          /\ DoneWith(h, e, "enqueue")
      BY <2>2 DEF MarkExecutionFailed
    <3> HIDE DEF e
    <3> QED BY <3>2, <3>3
  <2>3. CASE MarkExecutionQueued(h)
    <3> DEFINE e == OldestOf(scheduler[h].todo)
    <3>1. scheduler[h].at = "created"
      BY <2>3 DEF MarkExecutionQueued, Ticking
    <3>2. e \in scheduler[h].todo /\ "queued" \in RunRead \ {"none"} /\ HasARun(e)
      BY <3>1, AtHand DEF Working, RunRead, TickAgrees
    <3>3. /\ execution' = [execution EXCEPT ![e] = "queued"]
          /\ notice' = notice
          /\ DoneWith(h, e, "enqueue")
      BY <2>3 DEF MarkExecutionQueued
    <3> HIDE DEF e
    <3> QED BY <3>2, <3>3
  <2> QED BY <2>1, <2>2, <2>3
<1>3. e \in Execution /\ scheduler[h].todo \in SUBSET Execution
  BY <1>2, AtHand
<1>4. /\ notice' \in [Execution -> Notice]
      /\ \A f \in Execution : Noticed(f) => Noticed(f)'
  <2>1. CASE notice' = notice
    BY <1>0, <2>1, TypesSplit DEF RoutineTypes, Noticed
  <2>2. CASE notice' = NoticeFor(e, s)
    BY <1>0, <1>3, <2>2, NoticeIsMade DEF Noticed
  <2> QED BY <1>2, <2>1, <2>2
<1>5. /\ execution' \in [Execution -> ExecutionStatus \cup {"absent", "lapsed"}]
      /\ \A f \in Execution : execution'[f] \in {"queued", "running"} =>
                                f = e \/ execution[f] = execution'[f]
      /\ execution'[e] \in {"queued", "running"} => HasARun(e)
  BY <1>0, <1>2, <1>3, TypesSplit DEF RoutineTypes, RunRead, ExecutionStatus, TerminalExecution
<1>6. /\ scheduler' \in [Host -> TickState]
      /\ \A g \in Host : scheduler'[g] = scheduler[g] \/ TickAgrees(g)'
  <2>1. WorksOff(h, p, scheduler[h].todo \ {e})
    BY <1>2 DEF DoneWith
  <2>2. Rest(h, p, scheduler[h].todo \ {e})
    BY <1>1, <1>2, <1>3 DEF Rest, HasARun
  <2> QED BY <2>1, <2>2, WorksOffAgrees
<1>7. RoutineTypeOK'
  BY <1>0, <1>1, <1>4, <1>5, <1>6, TypesSplit DEF RoutineTypes
<1>8. Grows
  BY <1>1, <1>4, <1>5 DEF Grows, RoutineShape, HasARun
<1> QED BY <1>6, <1>7, <1>8, ShapeFrame

\* A scheduler takes what is due.
LEMMA ClaimingShape ==
  ASSUME RoutineShape, NEW h \in Host, ClaimExecutions(h) \/ ClaimNotifications(h)
  PROVE  RoutineShape'
<1>0. RoutineTypeOK
  BY DEF RoutineShape
<1>1. UNCHANGED <<moment, routine, about, routineRun, told, troubles>>
  BY DEF ClaimExecutions, ClaimNotifications
<1>2. CASE ClaimExecutions(h)
  <2> DEFINE S == {e \in Execution : execution[e] \in Unclaimed}
  <2>1. /\ execution' = [e \in Execution |-> IF e \in S THEN "claimed" ELSE execution[e]]
        /\ WorksOff(h, "enqueue", S)
        /\ UNCHANGED <<notice, noticeTries>>
    BY <1>2 DEF ClaimExecutions
  <2>2. S \in SUBSET Execution
    OBVIOUS
  <2> HIDE DEF S
  <2>3. Rest(h, "enqueue", S)
    BY <2>2 DEF Rest
  <2>4. /\ scheduler' \in [Host -> TickState]
        /\ \A g \in Host : scheduler'[g] = scheduler[g] \/ TickAgrees(g)'
    BY <2>1, <2>3, WorksOffAgrees
  <2>5. execution' \in [Execution -> ExecutionStatus \cup {"absent", "lapsed"}]
    BY <1>0, <2>1, TypesSplit DEF RoutineTypes, ExecutionStatus
  <2>6. RoutineTypeOK'
    BY <1>0, <1>1, <2>1, <2>4, <2>5, TypesSplit DEF RoutineTypes
  <2>7. Grows
    BY <1>1, <2>1 DEF Grows, RoutineShape, HasARun, Noticed
  <2> QED BY <2>4, <2>6, <2>7, ShapeFrame
<1>3. CASE ClaimNotifications(h)
  <2> DEFINE ready == {e \in Execution : notice[e].status \in Unclaimed}
             S == {e \in ready : ~routine.deleted /\ about[e].policy = routine.policy}
  <2>1. /\ notice' = [e \in Execution |->
                        IF e \in S THEN [notice[e] EXCEPT !.status = "claimed"]
                        ELSE IF e \in ready THEN [notice[e] EXCEPT !.status = "cancelled"]
                        ELSE notice[e]]
        /\ noticeTries' = [e \in Execution |-> noticeTries[e] + (IF e \in S THEN 1 ELSE 0)]
        /\ WorksOff(h, "announce", S)
        /\ UNCHANGED execution
    BY <1>3 DEF ClaimNotifications
  <2>2. /\ S \in SUBSET Execution /\ S \subseteq ready
        /\ \A e \in ready : notice[e].status \in Unclaimed
    OBVIOUS
  <2> HIDE DEF ready, S
  <2>3. ASSUME NEW e \in Execution
        PROVE  /\ notice'[e] \in Notice
               /\ Noticed(e) => notice'[e] # NoNotice
               /\ e \in S => notice'[e] # NoNotice
    <3>1. notice[e] \in Notice
      BY <1>0, TypesSplit DEF RoutineTypes
    <3>2. CASE e \in ready
      <4>1. notice[e] \in [kind : {"failure", "recovery"}, status : NoticeStatus \cup {"lapsed", "resting"}]
        BY <2>2, <3>1, <3>2 DEF Notice, NoNotice, Unclaimed
      <4>2. PICK st \in {"claimed", "cancelled"} : notice'[e] = [notice[e] EXCEPT !.status = st]
        BY <2>1, <3>2
      <4>3. [notice[e] EXCEPT !.status = st] \in Notice /\ [notice[e] EXCEPT !.status = st] # NoNotice
        BY <4>1 DEF Notice, NoNotice, NoticeStatus
      <4> QED BY <4>2, <4>3
    <3>3. CASE e \notin ready
      <4>1. notice'[e] = notice[e] /\ e \notin S
        BY <2>1, <2>2, <3>3
      <4> QED BY <3>1, <4>1 DEF Noticed
    <3> QED BY <3>2, <3>3
  <2>4. notice' \in [Execution -> Notice]
    BY <2>1, <2>3
  <2>5. noticeTries' \in [Execution -> Nat]
    <3>1. noticeTries \in [Execution -> Nat]
      BY <1>0, TypesSplit DEF RoutineTypes
    <3>2. \A e \in Execution : noticeTries[e] + (IF e \in S THEN 1 ELSE 0) \in Nat
      BY <3>1
    <3> QED BY <2>1, <3>2
  <2>6. Rest(h, "announce", S)
    BY <2>2, <2>3 DEF Rest, Noticed
  <2>7. /\ scheduler' \in [Host -> TickState]
        /\ \A g \in Host : scheduler'[g] = scheduler[g] \/ TickAgrees(g)'
    BY <2>1, <2>6, WorksOffAgrees
  <2>8. RoutineTypeOK'
    BY <1>0, <1>1, <2>1, <2>4, <2>5, <2>7, TypesSplit DEF RoutineTypes
  <2>9. Grows
    BY <1>1, <2>1, <2>3 DEF Grows, RoutineShape, HasARun, Noticed
  <2> QED BY <2>7, <2>8, <2>9, ShapeFrame
<1> QED BY <1>2, <1>3

\* The run of an execution is made.
LEMMA CreateRunShape ==
  ASSUME RoutineShape, NEW h \in Host, CreateRun(h)
  PROVE  RoutineShape'
<1>0. RoutineTypeOK
  BY DEF RoutineShape
<1>1. UNCHANGED <<moment, routine, execution, about, notice, noticeTries, told, troubles>>
  BY DEF CreateRun
<1> DEFINE S == scheduler[h]
           e == OldestOf(S.todo)
           W == [S EXCEPT !.at = "created"]
<1>2. /\ S.at = "enqueue"
      /\ scheduler' = [scheduler EXCEPT ![h] = W]
      /\ routineRun' = IF routineRun[e] = "none" THEN [routineRun EXCEPT ![e] = "queued"]
                                                 ELSE routineRun
  BY DEF CreateRun, Ticking, TurnsTo
<1>3. S \in TickState /\ e \in S.todo /\ S.todo \in SUBSET Execution
  BY <1>2, AtHand DEF Working
<1> HIDE DEF S, e
<1>4. W \in TickState /\ W.at = "created" /\ W.todo = S.todo
  BY <1>3 DEF TickState, TickPhase
<1> HIDE DEF W
<1>5. /\ scheduler' \in [Host -> TickState]
      /\ scheduler'[h] = W
      /\ \A g \in Host \ {h} : scheduler'[g] = scheduler[g]
  BY <1>2, <1>4, SchedulerTakes
<1>6. /\ routineRun' \in [Execution -> RunRead]
      /\ routineRun'[e] # "none"
      /\ \A f \in Execution : HasARun(f) => HasARun(f)'
  <2>1. routineRun \in [Execution -> RunRead] /\ "queued" \in RunRead /\ e \in Execution
    BY <1>0, <1>3, TypesSplit DEF RoutineTypes, RunRead
  <2> QED BY <1>2, <2>1 DEF HasARun
<1>7. TickAgrees(h)'
  <2>1. OldestOf(scheduler'[h].todo) = e
    BY <1>4, <1>5 DEF e
  <2>2. scheduler'[h].todo # {}
    BY <1>3, <1>4, <1>5
  <2>3. scheduler'[h].at = "created"
    BY <1>4, <1>5
  <2> QED BY <1>6, <2>1, <2>2, <2>3 DEF TickAgrees, HasARun, Announcing
<1>8. RoutineTypeOK'
  BY <1>0, <1>1, <1>5, <1>6, TypesSplit DEF RoutineTypes
<1>9. Grows
  BY <1>1, <1>6 DEF Grows, RoutineShape, HasARun, Noticed
<1> QED BY <1>5, <1>7, <1>8, <1>9, ShapeFrame

\* A notice is sent, and written off.
LEMMA AnnouncingShape ==
  ASSUME RoutineShape, NEW h \in Host, SendNotification(h) \/ MarkNotification(h)
  PROVE  RoutineShape'
<1>0. RoutineTypeOK
  BY DEF RoutineShape
<1>1. UNCHANGED <<moment, routine, execution, about, routineRun, noticeTries, troubles>>
  BY DEF SendNotification, MarkNotification
<1> DEFINE S == scheduler[h]
           e == OldestOf(S.todo)
<1>2. S.at \in Announcing
  BY DEF SendNotification, MarkNotification, Ticking, Announcing
<1>3. /\ S \in TickState /\ e \in S.todo /\ S.todo \in SUBSET Execution
      /\ \A x \in S.todo : Noticed(x)
  BY <1>2, AtHand DEF Working, Announcing, TickAgrees
<1>4. e \in Execution
  BY <1>3
<1>5. CASE SendNotification(h)
  <2>1. PICK p \in {"sent", "unsent"} : /\ scheduler' = [scheduler EXCEPT ![h] = [S EXCEPT !.at = p]]
                                        /\ told' = told \/ told' = told \cup {e}
                                        /\ notice' = notice
    BY <1>5 DEF SendNotification, TurnsTo
  <2> DEFINE W == [S EXCEPT !.at = p]
  <2> HIDE DEF S, e
  <2>2. W \in TickState /\ W.at = p /\ W.todo = S.todo
    BY <1>3 DEF TickState, TickPhase
  <2>3. scheduler' = [scheduler EXCEPT ![h] = W]
    BY <2>1
  <2> HIDE DEF W
  <2>4. /\ scheduler' \in [Host -> TickState]
        /\ scheduler'[h] = W
        /\ \A g \in Host \ {h} : scheduler'[g] = scheduler[g]
    BY <2>2, <2>3, SchedulerTakes
  <2>5. TickAgrees(h)'
    BY <1>3, <2>1, <2>2, <2>4 DEF TickAgrees, Noticed
  <2>6. told' \subseteq Execution
    BY <1>0, <1>4, <2>1, TypesSplit DEF RoutineTypes
  <2>7. RoutineTypeOK'
    BY <1>0, <1>1, <2>1, <2>4, <2>6, TypesSplit DEF RoutineTypes
  <2>8. Grows
    BY <1>1, <2>1 DEF Grows, RoutineShape, HasARun, Noticed
  <2> QED BY <2>4, <2>5, <2>7, <2>8, ShapeFrame
<1>6. CASE MarkNotification(h)
  <2>1. PICK st \in {"delivered", "failed", "resting"} : notice' = [notice EXCEPT ![e].status = st]
    BY <1>6 DEF MarkNotification
  <2>2. DoneWith(h, e, "announce") /\ told' = told
    BY <1>6 DEF MarkNotification
  <2>3. WorksOff(h, "announce", S.todo \ {e})
    BY <2>2 DEF DoneWith
  <2> HIDE DEF S, e
  <2>4. notice \in [Execution -> Notice] /\ notice[e] # NoNotice
    BY <1>0, <1>3, TypesSplit DEF RoutineTypes, Noticed
  <2>5. notice[e] \in [kind : {"failure", "recovery"}, status : NoticeStatus \cup {"lapsed", "resting"}]
    BY <1>4, <2>4 DEF Notice
  <2>6. [notice[e] EXCEPT !.status = st] \in Notice /\ [notice[e] EXCEPT !.status = st] # NoNotice
    BY <2>5 DEF Notice, NoNotice, NoticeStatus
  <2>7. /\ notice' \in [Execution -> Notice]
        /\ \A f \in Execution : Noticed(f) => Noticed(f)'
    BY <1>4, <2>1, <2>4, <2>6 DEF Noticed
  <2>8. Rest(h, "announce", S.todo \ {e})
    BY <1>3, <2>7 DEF Rest
  <2>9. /\ scheduler' \in [Host -> TickState]
        /\ \A g \in Host : scheduler'[g] = scheduler[g] \/ TickAgrees(g)'
    BY <2>3, <2>8, WorksOffAgrees
  <2>10. RoutineTypeOK'
    BY <1>0, <1>1, <2>2, <2>7, <2>9, TypesSplit DEF RoutineTypes
  <2>11. Grows
    BY <1>1, <2>7 DEF Grows, RoutineShape, HasARun, Noticed
  <2> QED BY <2>9, <2>10, <2>11, ShapeFrame
<1> QED BY <1>5, <1>6

LEMMA SchedulerCrashShape ==
  ASSUME RoutineShape, NEW h \in Host, SchedulerCrashes(h)
  PROVE  RoutineShape'
<1>0. RoutineTypeOK
  BY DEF RoutineShape
<1>1. UNCHANGED <<moment, routine, execution, about, routineRun, notice, noticeTries, told>>
  BY DEF SchedulerCrashes
<1>2. TickAt("tick") \in TickState /\ TickAt("tick").at = "tick"
  BY IdleTick DEF TickPhase
<1>3. scheduler' = [scheduler EXCEPT ![h] = TickAt("tick")] /\ troubles' = troubles + 1
  BY DEF SchedulerCrashes
<1>4. /\ scheduler' \in [Host -> TickState]
      /\ scheduler'[h] = TickAt("tick")
      /\ \A g \in Host \ {h} : scheduler'[g] = scheduler[g]
  BY <1>2, <1>3, SchedulerTakes
<1>5. TickAgrees(h)'
  BY <1>2, <1>4 DEF TickAgrees, Working, Announcing
<1>6. RoutineTypeOK'
  BY <1>0, <1>1, <1>3, <1>4, TypesSplit DEF RoutineTypes
<1>7. Grows
  BY <1>1 DEF Grows, RoutineShape, HasARun, Noticed
<1> QED BY <1>4, <1>5, <1>6, <1>7, ShapeFrame

LEMMA RoutineShapeHolds == RoutineSpec => []RoutineShape
<1>1. RoutineInit => RoutineShape
  <2> SUFFICES ASSUME RoutineInit PROVE RoutineShape
    OBVIOUS
  <2>1. /\ moment \in 0 .. LastMoment /\ routine \in RoutineRecord
        /\ told \subseteq Execution /\ troubles \in Nat
    <3>1. LastMoment \in Nat /\ Every \in Nat \ {0} /\ Never \in Nat /\ Every \in 0 .. Never
      BY RoutineBounds, EveryIsPositive DEF Never
    <3>2. moment = 0 /\ told = {} /\ troubles = 0
      BY DEF RoutineInit
    <3>3. routine \in RoutineRecord
      <4>1. PICK b \in BOOLEAN :
              routine = [enabled |-> TRUE, deleted |-> FALSE, repeats |-> b,
                         nextRunAt |-> Every, policy |-> 0]
        BY DEF RoutineInit
      <4>2. [enabled |-> TRUE, deleted |-> FALSE, repeats |-> b,
             nextRunAt |-> Every, policy |-> 0] \in RoutineRecord
        BY <3>1 DEF RoutineRecord
      <4> QED BY <4>1, <4>2
    <3> QED BY <3>1, <3>2, <3>3
  <2>2. /\ execution \in [Execution -> ExecutionStatus \cup {"absent", "lapsed"}]
        /\ routineRun \in [Execution -> RunRead]
        /\ notice \in [Execution -> Notice]
        /\ noticeTries \in [Execution -> Nat]
    BY DEF RoutineInit, Notice, RunRead
  <2>3. about \in [Execution -> Staging]
    BY DEF RoutineInit, Staging, NothingStaged
  <2>4. TickAt("tick") \in TickState /\ TickAt("tick").at = "tick"
    BY IdleTick DEF TickPhase
  <2>5. scheduler \in [Host -> TickState] /\ \A h \in Host : TickAgrees(h)
    BY <2>4 DEF RoutineInit, TickAgrees, Working, Announcing
  <2>6. \A e \in Execution : execution[e] \in {"queued", "running"} => HasARun(e)
    BY DEF RoutineInit
  <2> QED BY <2>1, <2>2, <2>3, <2>5, <2>6, TypesSplit DEF RoutineShape, RoutineTypes
<1>2. RoutineShape /\ [RoutineNext]_routineVars => RoutineShape'
  <2> SUFFICES ASSUME RoutineShape, [RoutineNext]_routineVars PROVE RoutineShape'
    OBVIOUS
  <2>1. CASE TimePasses \/ UpsertRoutine \/ SetRoutineEnabled \/ DeleteRoutine
    BY <2>1, PeopleShape
  <2>2. CASE TriggerRoutine \/ StageDue \/ \E e \in Execution : RunMoves(e) \/ ClaimLapses(e)
    BY <2>2, StagingShape
  <2>3. ASSUME NEW h \in RoutineHost, SchedulerStep(h) \/ SchedulerCrashes(h)
        PROVE  RoutineShape'
    <3>1. h \in Host
      BY RoutineBounds
    <3> QED BY <2>3, <3>1, LookingShape, MovingShape, ClaimingShape, CreateRunShape,
               AnnouncingShape, SchedulerCrashShape DEF SchedulerStep
  <2>4. CASE UNCHANGED routineVars
    BY <2>4 DEF routineVars, RoutineShape, RoutineTypeOK, TickAgrees, Noticed, HasARun
  <2> QED BY <2>1, <2>2, <2>3, <2>4 DEF RoutineNext
<1> QED BY <1>1, <1>2, PTL DEF RoutineSpec

\* The variables of the routines have their types (file-routine-store.ts, schedule.ts,
\* routine-scheduler.ts), however many hosts tick and whatever people do meanwhile.
THEOREM RoutineTypeCorrect == RoutineSpec => []RoutineTypeOK
<1>1. RoutineShape => RoutineTypeOK
  BY DEF RoutineShape
<1> QED BY <1>1, RoutineShapeHolds, PTL

-----------------------------------------------------------------------------
(***************************************************************************)
(* The files.  While at most one lock was removed as stale, the process that  *)
(* is between its lock and its answer is the one the lock names; it reads     *)
(* what is there and nobody else writes.  Before that first removal whoever    *)
(* found a lock old still faces the same lock.                                *)
(***************************************************************************)

Holding == {"own", "load", "save", "release", "remove"}
WriterState == [at : WriterPhase, update : Update \cup {None}, number : Nat,
                copy : SUBSET Update, old : {"unread", "yes", "no"},
                dead : {"unread", "yes", "no"}]

WriterAgrees(h) ==
  LET W == writer[h] IN
  /\ W.at # "idle" => W.update \in Update
  /\ W.at = "break" => W.old = "yes"
  /\ breaks <= 1 =>
       /\ W.at \in Holding => lock.host = h /\ lock.number = W.number /\ ~lock.old
       /\ W.at = "save" => W.copy = file
       /\ W.at \in {"release", "remove"} => W.update \in file
       /\ breaks = 0 /\ W.at \in {"inspect", "break"} /\ W.old = "yes" => lock.old

FilesInv ==
  /\ FileTypeOK
  /\ \A h \in Host : WriterAgrees(h)
  /\ WrittenStays

WriterMoves(h, W) ==
  /\ writer' \in [Host -> WriterState]
  /\ writer'[h] = W
  /\ \A g \in Host \ {h} : writer'[g] = writer[g]

LEMMA WriterMove ==
  ASSUME FileTypeOK, NEW h \in Host, NEW W \in WriterState,
         writer' = [writer EXCEPT ![h] = W]
  PROVE  WriterMoves(h, W)
BY DEF FileTypeOK, WriterMoves, WriterState

LEMMA NoWriterIsAWriter == NoWriter \in WriterState /\ NoWriter.at = "idle"
BY DEF NoWriter, WriterState, WriterPhase

\* The steps of one process that leave the file and the lock alone.
LEMMA WriterStep ==
  ASSUME FilesInv, NEW h \in Host, NEW W \in WriterState, WriterMoves(h, W),
         UNCHANGED <<file, lock, locks, written, breaks>>,
         lives' \in [Host -> Nat], storeCrashes' \in Nat, WriterAgrees(h)'
  PROVE  FilesInv'
<1>1. FileTypeOK'
  BY DEF FilesInv, FileTypeOK, WriterMoves, WriterState
<1>2. \A g \in Host : WriterAgrees(g)'
  BY DEF FilesInv, WriterMoves, WriterAgrees
<1> QED BY <1>1, <1>2 DEF FilesInv, WrittenStays

LEMMA QuietFileStep ==
  ASSUME FilesInv, NEW h \in Host,
         \/ \E u \in Update : Mutate(h, u)
         \/ Load(h) \/ StatLock(h) \/ ReadOwner(h) \/ Judge(h) \/ TryAgain(h)
         \/ LockTimeout(h) \/ WriterDies(h)
  PROVE  FilesInv'
<1>1. /\ writer \in [Host -> WriterState] /\ writer[h] \in WriterState /\ WriterAgrees(h)
      /\ lives \in [Host -> Nat] /\ storeCrashes \in Nat
      /\ file \subseteq Update /\ lock.old \in BOOLEAN
  BY DEF FilesInv, FileTypeOK, WriterState
<1>2. /\ UNCHANGED <<file, lock, locks, written, breaks>>
      /\ lives' \in [Host -> Nat] /\ storeCrashes' \in Nat
  BY <1>1 DEF Mutate, Load, StatLock, ReadOwner, Judge, TryAgain, LockTimeout, WriterDies, Goes
<1> DEFINE W == writer'[h]
<1>3. /\ W \in WriterState /\ WriterMoves(h, W)
  <2>1. PICK V \in WriterState : writer' = [writer EXCEPT ![h] = V]
    <3>1. CASE \E u \in Update : Mutate(h, u)
      <4>1. PICK u \in Update : writer' = [writer EXCEPT ![h].at = "open", ![h].update = u]
        BY <3>1 DEF Mutate
      <4>2. [writer[h] EXCEPT !.at = "open", !.update = u] \in WriterState
        BY <1>1 DEF WriterState, WriterPhase
      <4> QED BY <1>1, <4>1, <4>2
    <3>2. CASE Load(h)
      <4>1. [writer[h] EXCEPT !.at = "save", !.copy = file] \in WriterState
        BY <1>1 DEF WriterState, WriterPhase
      <4> QED BY <1>1, <3>2, <4>1 DEF Load
    <3>3. CASE StatLock(h)
      <4>1. [writer[h] EXCEPT !.old = Answers(lock.old)] \in WriterState
        BY <1>1 DEF WriterState, Answers
      <4> QED BY <1>1, <3>3, <4>1 DEF StatLock
    <3>4. CASE ReadOwner(h)
      <4>1. [writer[h] EXCEPT !.dead = Answers(lock # Unlocked /\ OwnerIsDead)] \in WriterState
        BY <1>1 DEF WriterState, Answers
      <4> QED BY <1>1, <3>4, <4>1 DEF ReadOwner
    <3>5. CASE Judge(h) \/ TryAgain(h)
      <4>1. \A p \in WriterPhase : [writer[h] EXCEPT !.at = p] \in WriterState
        BY <1>1 DEF WriterState
      <4>2. PICK p \in WriterPhase : Goes(h, p)
        BY <3>5 DEF Judge, TryAgain, WriterPhase
      <4> QED BY <1>1, <4>1, <4>2 DEF Goes
    <3>6. CASE LockTimeout(h) \/ WriterDies(h)
      BY <3>6, NoWriterIsAWriter DEF LockTimeout, WriterDies
    <3> QED BY <3>1, <3>2, <3>3, <3>4, <3>5, <3>6
  <2>2. WriterMoves(h, V)
    BY <2>1, WriterMove DEF FilesInv
  <2> QED BY <2>2 DEF WriterMoves
<1>4. WriterAgrees(h)'
  <2>1. CASE \E u \in Update : Mutate(h, u)
    <3>1. PICK u \in Update : Mutate(h, u)
      BY <2>1
    <3>2. writer'[h] = [writer[h] EXCEPT !.at = "open", !.update = u]
      BY <1>1, <3>1 DEF Mutate
    <3>3. /\ writer'[h].at = "open" /\ writer'[h].update = u
          /\ writer'[h].old = writer[h].old /\ writer'[h].number = writer[h].number
          /\ writer[h].at = "idle"
      BY <1>1, <3>1, <3>2 DEF Mutate, At_, WriterState
    <3> QED BY <1>1, <1>2, <3>3 DEF WriterAgrees, Holding
  <2>2. CASE Load(h)
    BY <1>1, <1>2, <2>2 DEF Load, At_, WriterAgrees, Holding, WriterState
  <2>3. CASE StatLock(h)
    BY <1>1, <1>2, <2>3 DEF StatLock, At_, WriterAgrees, Answers, Holding, WriterState
  <2>4. CASE ReadOwner(h)
    BY <1>1, <1>2, <2>4 DEF ReadOwner, At_, WriterAgrees, Holding, WriterState
  <2>5. CASE Judge(h) \/ TryAgain(h)
    BY <1>1, <1>2, <2>5 DEF Judge, TryAgain, Goes, At_, WriterAgrees, Holding, WriterState
  <2>6. CASE LockTimeout(h) \/ WriterDies(h)
    <3>1. writer'[h] = NoWriter
      BY <1>1, <2>6 DEF LockTimeout, WriterDies
    <3> QED BY <3>1, NoWriterIsAWriter DEF WriterAgrees, Holding
  <2> QED BY <2>1, <2>2, <2>3, <2>4, <2>5, <2>6
<1> HIDE DEF W
<1> QED BY <1>2, <1>3, <1>4, WriterStep

\* A process that holds the lock is the only one.
LEMMA OneHolder ==
  ASSUME FilesInv, breaks <= 1, NEW h \in Host, writer[h].at \in Holding,
         NEW g \in Host, writer[g].at \in Holding
  PROVE  g = h
BY DEF FilesInv, WriterAgrees

LEMMA LockStep ==
  ASSUME FilesInv, NEW h \in Host, OpenLock(h) \/ WriteOwner(h)
  PROVE  FilesInv'
<1>1. /\ writer \in [Host -> WriterState] /\ writer[h] \in WriterState /\ WriterAgrees(h)
      /\ lives \in [Host -> Nat] /\ lives[h] \in Nat /\ locks \in Nat /\ breaks \in Nat
      /\ lock \in [number : Nat, host : Host \cup {None}, life : Nat, old : BOOLEAN]
  BY DEF FilesInv, FileTypeOK, WriterState
<1>2. UNCHANGED <<file, lives, written, breaks, storeCrashes>>
  BY DEF OpenLock, WriteOwner
<1>3. CASE OpenLock(h) /\ lock = Unlocked
  <2> DEFINE V == [writer[h] EXCEPT !.at = "own", !.number = locks + 1]
  <2>0. locks + 1 \in Nat
    BY <1>1
  <2>1. V \in WriterState /\ V.at = "own" /\ V.number = locks + 1 /\ V.update = writer[h].update
    BY <1>1, <2>0 DEF WriterState, WriterPhase
  <2>2. /\ writer' = [writer EXCEPT ![h] = V] /\ writer[h].at = "open"
        /\ lock' = [number |-> locks + 1, host |-> h, life |-> 0, old |-> FALSE]
        /\ locks' = locks + 1
    BY <1>1, <1>3 DEF OpenLock, At_
  <2> HIDE DEF V
  <2>3. WriterMoves(h, V)
    BY <2>1, <2>2, WriterMove DEF FilesInv
  <2>4. FileTypeOK'
    BY <1>1, <1>2, <2>2, <2>3 DEF FilesInv, FileTypeOK, WriterMoves, WriterState
  <2>5. WriterAgrees(h)'
    BY <1>1, <1>2, <2>1, <2>2, <2>3 DEF WriterMoves, WriterAgrees, Holding
  <2>6. ASSUME NEW g \in Host \ {h} PROVE WriterAgrees(g)'
    <3>1. WriterAgrees(g) /\ writer'[g] = writer[g] /\ lock.host = None /\ lock.old = FALSE /\ g # None
      BY <1>3, <2>3, NoneIsNoHost DEF FilesInv, WriterMoves, Unlocked
    <3> QED BY <1>2, <2>2, <3>1 DEF WriterAgrees, Holding
  <2> QED BY <1>2, <2>4, <2>5, <2>6 DEF FilesInv, WrittenStays
<1>4. CASE OpenLock(h) /\ lock # Unlocked
  <2> DEFINE V == [writer[h] EXCEPT !.at = "inspect", !.old = "unread", !.dead = "unread"]
  <2>1. V \in WriterState /\ V.at = "inspect" /\ V.old = "unread" /\ V.update = writer[h].update
    BY <1>1 DEF WriterState, WriterPhase
  <2>2. /\ writer' = [writer EXCEPT ![h] = V] /\ writer[h].at = "open"
        /\ UNCHANGED <<lock, locks>>
    BY <1>1, <1>4 DEF OpenLock, At_
  <2> HIDE DEF V
  <2>3. WriterMoves(h, V)
    BY <2>1, <2>2, WriterMove DEF FilesInv
  <2>4. WriterAgrees(h)'
    BY <1>1, <1>2, <2>1, <2>2, <2>3 DEF WriterMoves, WriterAgrees, Holding
  <2> QED BY <1>1, <1>2, <2>1, <2>2, <2>3, <2>4, WriterStep DEF FilesInv, FileTypeOK
<1>5. CASE WriteOwner(h)
  <2> DEFINE V == [writer[h] EXCEPT !.at = "load"]
  <2>1. V \in WriterState /\ V.at = "load" /\ V.number = writer[h].number /\ V.update = writer[h].update
    BY <1>1 DEF WriterState, WriterPhase
  <2>2. /\ writer' = [writer EXCEPT ![h] = V] /\ writer[h].at = "own" /\ locks' = locks
        /\ lock' = IF lock.number = writer[h].number
                     THEN [lock EXCEPT !.life = lives[h]] ELSE lock
    BY <1>1, <1>5 DEF WriteOwner, Goes, At_
  <2> HIDE DEF V
  <2>3. WriterMoves(h, V)
    BY <2>1, <2>2, WriterMove DEF FilesInv
  <2>4. /\ lock'.number = lock.number /\ lock'.host = lock.host /\ lock'.old = lock.old
        /\ lock' \in [number : Nat, host : Host \cup {None}, life : Nat, old : BOOLEAN]
    BY <1>1, <2>2
  <2>5. FileTypeOK'
    BY <1>1, <1>2, <2>2, <2>3, <2>4 DEF FilesInv, FileTypeOK, WriterMoves, WriterState
  <2>6. WriterAgrees(h)'
    BY <1>1, <1>2, <2>1, <2>2, <2>3, <2>4 DEF WriterMoves, WriterAgrees, Holding
  <2>7. ASSUME NEW g \in Host \ {h} PROVE WriterAgrees(g)'
    <3>1. WriterAgrees(g) /\ writer'[g] = writer[g]
      BY <2>3 DEF FilesInv, WriterMoves
    <3> QED BY <1>2, <2>4, <3>1 DEF WriterAgrees
  <2> QED BY <1>2, <2>5, <2>6, <2>7 DEF FilesInv, WrittenStays
<1> QED BY <1>3, <1>4, <1>5

LEMMA SaveStep ==
  ASSUME FilesInv, NEW h \in Host, Save(h)
  PROVE  FilesInv'
<1>1. /\ writer \in [Host -> WriterState] /\ writer[h] \in WriterState /\ WriterAgrees(h)
      /\ breaks \in Nat
  BY DEF FilesInv, FileTypeOK, WriterState
<1> DEFINE V == [writer[h] EXCEPT !.at = "release"]
<1>2. /\ V \in WriterState /\ V.at = "release" /\ V.number = writer[h].number
      /\ V.update = writer[h].update
  BY <1>1 DEF WriterState, WriterPhase
<1>3. /\ writer' = [writer EXCEPT ![h] = V] /\ writer[h].at = "save"
      /\ file' = writer[h].copy \cup {writer[h].update}
      /\ UNCHANGED <<lock, locks, lives, written, breaks, storeCrashes>>
  BY <1>1 DEF Save, Goes, At_
<1> HIDE DEF V
<1>4. WriterMoves(h, V)
  BY <1>2, <1>3, WriterMove DEF FilesInv
<1>5. writer[h].update \in Update /\ file' \subseteq Update
  BY <1>1, <1>3 DEF WriterAgrees, WriterState
<1>6. FileTypeOK'
  BY <1>3, <1>4, <1>5 DEF FilesInv, FileTypeOK, WriterMoves, WriterState
<1>7. breaks <= 1 => file' = file \cup {writer[h].update}
  BY <1>1, <1>3 DEF WriterAgrees
<1>8. WriterAgrees(h)'
  BY <1>1, <1>2, <1>3, <1>4, <1>5, <1>7 DEF WriterMoves, WriterAgrees, Holding
<1>9. ASSUME NEW g \in Host \ {h} PROVE WriterAgrees(g)'
  <2>1. WriterAgrees(g) /\ writer'[g] = writer[g]
    BY <1>4 DEF FilesInv, WriterMoves
  <2>2. breaks <= 1 => writer[g].at \notin Holding
    BY <1>3, OneHolder DEF Holding
  <2> QED BY <1>3, <2>1, <2>2 DEF WriterAgrees, Holding
<1>10. WrittenStays'
  BY <1>3, <1>7 DEF FilesInv, WrittenStays
<1> QED BY <1>6, <1>8, <1>9, <1>10 DEF FilesInv

LEMMA ReleaseStep ==
  ASSUME FilesInv, NEW h \in Host, Release(h) \/ RemoveLock(h)
  PROVE  FilesInv'
<1>1. /\ writer \in [Host -> WriterState] /\ writer[h] \in WriterState /\ WriterAgrees(h)
      /\ breaks \in Nat /\ lives \in [Host -> Nat] /\ storeCrashes \in Nat
  BY DEF FilesInv, FileTypeOK, WriterState
<1>2. UNCHANGED <<file, locks, lives, breaks, storeCrashes>>
  BY DEF Release, RemoveLock
<1>3. CASE Release(h) /\ lock.number = writer[h].number /\ lock.life # 0
  <2> DEFINE V == [writer[h] EXCEPT !.at = "remove"]
  <2>1. /\ V \in WriterState /\ V.at = "remove" /\ V.number = writer[h].number
        /\ V.update = writer[h].update
    BY <1>1 DEF WriterState, WriterPhase
  <2>2. /\ writer' = [writer EXCEPT ![h] = V] /\ writer[h].at = "release"
        /\ UNCHANGED <<lock, written>>
    BY <1>1, <1>3 DEF Release, Goes, At_
  <2> HIDE DEF V
  <2>3. WriterMoves(h, V)
    BY <2>1, <2>2, WriterMove DEF FilesInv
  <2>4. WriterAgrees(h)'
    BY <1>1, <1>2, <2>1, <2>2, <2>3 DEF WriterMoves, WriterAgrees, Holding
  <2> QED BY <1>1, <1>2, <2>1, <2>2, <2>3, <2>4, WriterStep
<1>4. CASE \/ RemoveLock(h)
           \/ Release(h) /\ ~(lock.number = writer[h].number /\ lock.life # 0)
  <2>1. /\ Done(h) /\ writer[h].at \in {"release", "remove"}
        /\ \/ lock' = lock
           \/ writer[h].at = "remove" /\ lock' = Unlocked
    <3>1. CASE RemoveLock(h)
      BY <3>1 DEF RemoveLock, At_
    <3>2. CASE Release(h) /\ ~(lock.number = writer[h].number /\ lock.life # 0)
      BY <3>2 DEF Release, At_
    <3> QED BY <1>4, <3>1, <3>2
  <2>2. WriterMoves(h, NoWriter)
    BY <2>1, WriterMove, NoWriterIsAWriter DEF Done, FilesInv
  <2>3. written' = written \cup {writer[h].update} /\ writer[h].update \in Update
    BY <1>1, <2>1 DEF Done, WriterAgrees
  <2>4. lock' \in [number : Nat, host : Host \cup {None}, life : Nat, old : BOOLEAN]
    <3>1. Unlocked \in [number : Nat, host : Host \cup {None}, life : Nat, old : BOOLEAN]
      BY DEF Unlocked
    <3>2. lock \in [number : Nat, host : Host \cup {None}, life : Nat, old : BOOLEAN]
      BY DEF FilesInv, FileTypeOK
    <3> QED BY <2>1, <3>1, <3>2
  <2>5. FileTypeOK'
    BY <1>2, <2>2, <2>3, <2>4 DEF FilesInv, FileTypeOK, WriterMoves, WriterState
  <2>6. WriterAgrees(h)'
    BY <2>2, NoWriterIsAWriter DEF WriterMoves, WriterAgrees, Holding
  <2>7. ASSUME NEW g \in Host \ {h} PROVE WriterAgrees(g)'
    <3>1. WriterAgrees(g) /\ writer'[g] = writer[g]
      BY <2>2 DEF FilesInv, WriterMoves
    <3>2. breaks <= 1 => writer[g].at \notin Holding /\ ~lock.old
      BY <1>1, <2>1, OneHolder DEF Holding, WriterAgrees
    <3> QED BY <1>1, <1>2, <2>1, <3>1, <3>2 DEF WriterAgrees, Holding
  <2>8. WrittenStays'
    BY <1>1, <1>2, <2>1, <2>3 DEF FilesInv, WrittenStays, WriterAgrees
  <2> QED BY <2>5, <2>6, <2>7, <2>8 DEF FilesInv
<1> QED BY <1>3, <1>4

LEMMA BreakStep ==
  ASSUME FilesInv, NEW h \in Host, BreakLock(h)
  PROVE  FilesInv'
<1>1. /\ writer \in [Host -> WriterState] /\ writer[h] \in WriterState /\ WriterAgrees(h)
      /\ breaks \in Nat
  BY DEF FilesInv, FileTypeOK, WriterState
<1> DEFINE V == [writer[h] EXCEPT !.at = "open"]
<1>2. V \in WriterState /\ V.at = "open" /\ V.update = writer[h].update
  BY <1>1 DEF WriterState, WriterPhase
<1>3. /\ writer' = [writer EXCEPT ![h] = V] /\ writer[h].at = "break"
      /\ lock' = Unlocked /\ breaks' = breaks + 1
      /\ UNCHANGED <<file, locks, lives, written, storeCrashes>>
  BY <1>1 DEF BreakLock, Goes, At_
<1> HIDE DEF V
<1>4. WriterMoves(h, V)
  BY <1>2, <1>3, WriterMove DEF FilesInv
<1>5. FileTypeOK'
  BY <1>1, <1>3, <1>4 DEF FilesInv, FileTypeOK, WriterMoves, WriterState, Unlocked
<1>6. /\ breaks' \in Nat /\ breaks' # 0 /\ (breaks' <= 1 => breaks = 0 /\ breaks <= 1)
  BY <1>1, <1>3
<1>7. breaks' <= 1 => lock.old
  BY <1>1, <1>3, <1>6 DEF WriterAgrees
<1>8. WriterAgrees(h)'
  BY <1>1, <1>2, <1>3, <1>4, <1>6 DEF WriterMoves, WriterAgrees, Holding
<1>9. ASSUME NEW g \in Host \ {h} PROVE WriterAgrees(g)'
  <2>1. WriterAgrees(g) /\ writer'[g] = writer[g]
    BY <1>4 DEF FilesInv, WriterMoves
  <2>2. breaks' <= 1 => writer[g].at \notin Holding
    BY <1>6, <1>7, <2>1 DEF WriterAgrees
  <2> QED BY <1>3, <1>6, <2>1, <2>2 DEF WriterAgrees, Holding
<1>10. WrittenStays'
  BY <1>3, <1>6 DEF FilesInv, WrittenStays
<1> QED BY <1>5, <1>8, <1>9, <1>10 DEF FilesInv

LEMMA AgeStep ==
  ASSUME FilesInv, LockAges
  PROVE  FilesInv'
<1>1. /\ lock' = [lock EXCEPT !.old = TRUE] /\ writer[lock.host].number # lock.number
      /\ UNCHANGED <<file, locks, lives, writer, written, breaks, storeCrashes>>
  BY DEF LockAges
<1>2. /\ lock'.number = lock.number /\ lock'.host = lock.host /\ lock'.old
      /\ lock' \in [number : Nat, host : Host \cup {None}, life : Nat, old : BOOLEAN]
  BY <1>1 DEF FilesInv, FileTypeOK
<1>3. FileTypeOK'
  BY <1>1, <1>2 DEF FilesInv, FileTypeOK
<1>4. ASSUME NEW g \in Host PROVE WriterAgrees(g)'
  <2>1. WriterAgrees(g)
    BY DEF FilesInv
  <2>2. breaks <= 1 => writer[g].at \notin Holding
    BY <1>1, <2>1 DEF WriterAgrees
  <2> QED BY <1>1, <1>2, <2>1, <2>2 DEF WriterAgrees, Holding
<1> QED BY <1>1, <1>3, <1>4 DEF FilesInv, WrittenStays

LEMMA FilesInvHolds == FileSpec => []FilesInv
<1>1. FileInit => FilesInv
  <2> SUFFICES ASSUME FileInit PROVE FilesInv
    OBVIOUS
  <2>1. FileTypeOK
    BY NoWriterIsAWriter DEF FileInit, FileTypeOK, Unlocked, WriterState
  <2>2. ASSUME NEW h \in Host PROVE WriterAgrees(h)
    BY NoWriterIsAWriter DEF FileInit, WriterAgrees, Holding
  <2> QED BY <2>1, <2>2 DEF FilesInv, FileInit, WrittenStays
<1>2. FilesInv /\ [FileNext]_fileVars => FilesInv'
  <2> SUFFICES ASSUME FilesInv, [FileNext]_fileVars PROVE FilesInv'
    OBVIOUS
  <2>1. CASE UNCHANGED fileVars
    <3>1. FileTypeOK' /\ WrittenStays'
      BY <2>1 DEF fileVars, FilesInv, FileTypeOK, WrittenStays
    <3>2. \A h \in Host : WriterAgrees(h)'
      BY <2>1 DEF fileVars, FilesInv, WriterAgrees
    <3> QED BY <3>1, <3>2 DEF FilesInv
  <2> QED BY <2>1, QuietFileStep, LockStep, SaveStep, ReleaseStep, BreakStep, AgeStep
             DEF FileNext
<1> QED BY <1>1, <1>2, PTL DEF FileSpec

\* However many processes write a file, wait for its lock, time out, are killed and
\* start again, no update that was answered is lost before a second lock is removed.
THEOREM WrittenIsKept == FileSpec => []WrittenStays
<1>1. FilesInv => WrittenStays
  BY DEF FilesInv
<1> QED BY <1>1, FilesInvHolds, PTL

\* The file, its lock and the writers keep their declared shape.
THEOREM FileTypeCorrect == FileSpec => []FileTypeOK
<1>1. FilesInv => FileTypeOK
  BY DEF FilesInv
<1> QED BY <1>1, FilesInvHolds, PTL

-----------------------------------------------------------------------------
(***************************************************************************)
(* The turn of a provider.  Forwarding starts once, with the first turn, and   *)
(* whoever forwards waits for the answer to the follow-up in hand: so there is  *)
(* at most one such request in the pipe, and its answer is about that one.      *)
(* Turns the provider makes to compact are none of those the run was told of.   *)
(***************************************************************************)

TurnOr0 == 0 .. LastTurn
Forwarded == FollowUp \cup {"none"}
AnswerValue == {"none", "ok", "refused", "error", "skipped", "closed"}
NoteKind == TurnEnd \cup {"started", "compacted"}
AskLine == [q : Request, turn : TurnOr0, on : Forwarded]
AnswerLine == [q : Request, what : {"ok", "refused"}, turn : TurnOr0]
NoteLine == [q : {"none"}, what : NoteKind, turn : TurnOr0]
OutLine == AnswerLine \cup NoteLine
NoteRead == [what : NoteKind, turn : TurnOr0]
ServerState == [alive : BOOLEAN, turn : TurnOr0, kind : {"turn", "compact", "confirmed"},
                last : TurnOr0, took : SUBSET (Forwarded \X TurnOr0),
                ended : Seq(TurnOr0 \X TurnEnd)]

TurnShape ==
  /\ codex \in CodexPhase
  /\ outcome \in TurnEnd \cup {"none", "aborted"}
  /\ turnId \in TurnOr0 /\ activeTurn \in TurnOr0 /\ compactTurn \in TurnOr0
  /\ recovered \in BOOLEAN
PumpShape ==
  /\ pump \in [at : PumpPhase, on : Forwarded]
  /\ mailbox \in [FollowUp -> {"absent", "waiting", "claimed", "applied"}]
SignalShape == aborted \in BOOLEAN /\ steeringOff \in BOOLEAN /\ turnOff \in BOOLEAN
RequestShape ==
  /\ pending \subseteq Request
  /\ answer \in [Request -> AnswerValue]
  /\ stdin \in Seq(AskLine)
ReadShape == answeredTurn \in TurnOr0 /\ notes \in Seq(NoteRead)
PipeShape ==
  /\ stdout \in Seq(OutLine)
  /\ link \in {"open", "failed", "closed"}
  /\ server \in ServerState

CodexShape == TurnShape /\ PumpShape /\ SignalShape /\ RequestShape /\ ReadShape /\ PipeShape

LEMMA TurnNumbers ==
  /\ 0 \in TurnOr0 /\ Turn \subseteq TurnOr0 /\ TurnOr0 \subseteq Nat
  /\ \A n \in TurnOr0 : n # 0 <=> n \in Turn
  /\ "none" \in Forwarded
BY LastTurnIsPositive DEF TurnOr0, Turn, Forwarded

\* The state of a group stays typed when the group stays.
LEMMA GroupsStay ==
  /\ TurnShape /\ UNCHANGED turnVars => TurnShape'
  /\ PumpShape /\ UNCHANGED pumpVars => PumpShape'
  /\ SignalShape /\ UNCHANGED signals => SignalShape'
  /\ RequestShape /\ UNCHANGED requests => RequestShape'
  /\ ReadShape /\ UNCHANGED readVars => ReadShape'
  /\ PipeShape /\ UNCHANGED pipe => PipeShape'
BY DEF TurnShape, turnVars, PumpShape, pumpVars, SignalShape, signals, RequestShape, requests,
       ReadShape, readVars, PipeShape, pipe

\* A request is in the pipe and waited for, or refused at once.
Asked(q, n, f) ==
  \/ pending' = pending \cup {q} /\ stdin' = Append(stdin, [q |-> q, turn |-> n, on |-> f])
  \/ answer'[q] = "error" /\ UNCHANGED <<pending, stdin>>

LEMMA AskKeeps ==
  ASSUME RequestShape, NEW q \in Request, NEW n \in TurnOr0, NEW f \in Forwarded, Ask(q, n, f)
  PROVE  /\ RequestShape' /\ Asked(q, n, f)
         /\ answer'[q] \in {"none", "error"}
         /\ \A p \in Request \ {q} : answer'[p] = answer[p]
<1>1. [q |-> q, turn |-> n, on |-> f] \in AskLine
  BY DEF AskLine
<1>2. CASE link = "open"
  BY <1>1, <1>2 DEF Ask, Asked, RequestShape, AnswerValue
<1>3. CASE link # "open"
  BY <1>3 DEF Ask, Asked, RequestShape, AnswerValue
<1> QED BY <1>2, <1>3

LEMMA InterruptKeeps ==
  ASSUME RequestShape, TurnShape, NEW q \in Request, Interrupts(q)
  PROVE  /\ RequestShape'
         /\ \/ activeTurn # 0 /\ Asked(q, activeTurn, "none") /\ answer'[q] \in {"none", "error"}
            \/ activeTurn = 0 /\ answer'[q] = "skipped" /\ UNCHANGED <<pending, stdin>>
         /\ \A p \in Request \ {q} : answer'[p] = answer[p]
<1>1. CASE activeTurn # 0
  <2>1. PICK n \in TurnOr0 : n = activeTurn
    BY DEF TurnShape
  <2>2. Ask(q, n, "none")
    BY <1>1, <2>1 DEF Interrupts
  <2>3. "none" \in Forwarded
    BY DEF Forwarded
  <2> QED BY <1>1, <2>1, <2>2, <2>3, AskKeeps
<1>2. CASE activeTurn = 0
  BY <1>2 DEF Interrupts, RequestShape, AnswerValue
<1> QED BY <1>1, <1>2

LEMMA RequestNames ==
  /\ {"thread", "turn", "steer", "compact", "interrupt", "interrupt_now", "interrupt_steer"}
       = Request
  /\ "none" \notin Request
BY DEF Request

LEMMA TurnActionsShape ==
  ASSUME CodexShape, RunAppServer
  PROVE  CodexShape'
<1>1. TurnShape /\ PumpShape /\ SignalShape /\ RequestShape /\ ReadShape /\ PipeShape
  BY DEF CodexShape
<1>2. CASE StartOrResume
  <2>1. PumpShape' /\ SignalShape' /\ ReadShape' /\ PipeShape'
    BY <1>1, <1>2, GroupsStay DEF StartOrResume
  <2>2. TurnShape'
    BY <1>1, <1>2 DEF StartOrResume, TurnShape, CodexPhase
  <2>3. RequestShape'
    BY <1>1, <1>2, AskKeeps, TurnNumbers, RequestNames DEF StartOrResume
  <2> QED BY <2>1, <2>2, <2>3 DEF CodexShape
<1>3. CASE ThreadStarted
  <2>1. PumpShape' /\ SignalShape' /\ ReadShape' /\ PipeShape'
    BY <1>1, <1>3, GroupsStay DEF ThreadStarted
  <2>2. TurnShape'
    BY <1>1, <1>3 DEF ThreadStarted, TurnShape, CodexPhase, TurnEnd
  <2>3. RequestShape'
    BY <1>1, <1>3, GroupsStay, AskKeeps, TurnNumbers, RequestNames DEF ThreadStarted
  <2> QED BY <2>1, <2>2, <2>3 DEF CodexShape
<1>4. CASE TurnStarted
  <2>1. ReadShape' /\ PipeShape'
    BY <1>1, <1>4, GroupsStay DEF TurnStarted
  <2>2. TurnShape'
    BY <1>1, <1>4 DEF TurnStarted, TurnShape, ReadShape, CodexPhase, TurnEnd
  <2>3. PumpShape'
    BY <1>1, <1>4, TurnNumbers DEF TurnStarted, PumpShape, PumpPhase
  <2>4. SignalShape'
    BY <1>1, <1>4 DEF TurnStarted, SignalShape
  <2>5. RequestShape'
    <3>1. PICK n \in TurnOr0 : n = answeredTurn
      BY <1>1 DEF ReadShape
    <3>2. UNCHANGED requests \/ Ask("interrupt_now", n, "none")
      BY <1>4, <3>1 DEF TurnStarted
    <3> QED BY <1>1, <3>2, GroupsStay, AskKeeps, TurnNumbers, RequestNames
  <2> QED BY <2>1, <2>2, <2>3, <2>4, <2>5 DEF CodexShape
<1>5. CASE TurnInterrupted \/ StreamBreaks
  <2>1. PumpShape' /\ RequestShape' /\ ReadShape' /\ PipeShape'
    BY <1>1, <1>5, GroupsStay DEF TurnInterrupted, StreamBreaks
  <2>2. TurnShape' /\ SignalShape'
    BY <1>1, <1>5 DEF TurnInterrupted, StreamBreaks, TurnShape, SignalShape, CodexPhase, TurnEnd
  <2> QED BY <2>1, <2>2 DEF CodexShape
<1>6. CASE ReadNotification
  <2>1. PumpShape' /\ RequestShape' /\ PipeShape'
    BY <1>1, <1>6, GroupsStay DEF ReadNotification
  <2>2. TurnShape' /\ SignalShape'
    BY <1>1, <1>6, TurnNumbers DEF ReadNotification, TurnShape, SignalShape, CodexPhase
  <2>3. ReadShape'
    BY <1>1, <1>6 DEF ReadNotification, ReadShape
  <2> QED BY <2>1, <2>2, <2>3 DEF CodexShape
<1>7. CASE TurnSettles
  <2>1. PumpShape' /\ SignalShape' /\ ReadShape' /\ PipeShape'
    BY <1>1, <1>7, GroupsStay DEF TurnSettles
  <2>2. TurnShape'
    BY <1>1, <1>7 DEF TurnSettles, TurnShape, CodexPhase
  <2>3. RequestShape'
    BY <1>1, <1>7, GroupsStay, AskKeeps, TurnNumbers, RequestNames DEF TurnSettles
  <2> QED BY <2>1, <2>2, <2>3 DEF CodexShape
<1>8. CASE CompactStarted
  <2>1. PumpShape' /\ SignalShape' /\ RequestShape' /\ ReadShape' /\ PipeShape'
    BY <1>1, <1>8, GroupsStay DEF CompactStarted
  <2>2. TurnShape'
    BY <1>1, <1>8, TurnNumbers DEF CompactStarted, TurnShape, CodexPhase
  <2> QED BY <2>1, <2>2 DEF CodexShape
<1>9. ASSUME NEW ok \in BOOLEAN, Compacted(ok), UNCHANGED turnId PROVE TurnShape' /\ RequestShape'
  <2>1. TurnShape'
    BY <1>1, <1>9, TurnNumbers DEF Compacted, TurnShape, CodexPhase
  <2>2. RequestShape'
    BY <1>1, <1>9, GroupsStay, AskKeeps, TurnNumbers, RequestNames DEF Compacted
  <2> QED BY <2>1, <2>2
<1>10. CASE CompactReads
  <2>1. PumpShape' /\ SignalShape' /\ PipeShape'
    BY <1>1, <1>10, GroupsStay DEF CompactReads
  <2>2. ReadShape' /\ UNCHANGED turnId
    BY <1>1, <1>10 DEF CompactReads, ReadShape
  <2>3. TurnShape' /\ RequestShape'
    <3>1. Head(notes) \in NoteRead
      BY <1>1, <1>10 DEF CompactReads, ReadShape
    <3>2. CASE Head(notes).what = "started"
      <4>1. /\ compactTurn' = Head(notes).turn /\ activeTurn' = Head(notes).turn
            /\ UNCHANGED <<codex, outcome, recovered, requests>>
        BY <1>10, <3>2 DEF CompactReads
      <4>2. TurnShape'
        BY <1>1, <2>2, <3>1, <4>1 DEF TurnShape, NoteRead
      <4> QED BY <1>1, <4>1, <4>2, GroupsStay
    <3>3. CASE Head(notes).what # "started" /\ compactTurn \in {0, Head(notes).turn}
      BY <1>9, <1>10, <2>2, <3>3 DEF CompactReads
    <3>4. CASE Head(notes).what # "started" /\ compactTurn \notin {0, Head(notes).turn}
      <4>1. UNCHANGED turnVars /\ UNCHANGED requests
        BY <1>10, <2>2, <3>4 DEF CompactReads, turnVars
      <4> QED BY <1>1, <4>1, GroupsStay
    <3> QED BY <3>2, <3>3, <3>4
  <2> QED BY <2>1, <2>2, <2>3 DEF CodexShape
<1>11. CASE CompactBreaks
  <2>1. PumpShape' /\ SignalShape' /\ ReadShape' /\ PipeShape'
    BY <1>1, <1>11, GroupsStay DEF CompactBreaks
  <2>2. TurnShape' /\ RequestShape'
    BY <1>9, <1>11 DEF CompactBreaks
  <2> QED BY <2>1, <2>2 DEF CodexShape
<1>12. CASE CloseSession
  <2>1. PumpShape' /\ ReadShape'
    BY <1>1, <1>12, GroupsStay DEF CloseSession
  <2>2. TurnShape'
    BY <1>1, <1>12 DEF CloseSession, TurnShape, CodexPhase, TurnEnd
  <2>3. SignalShape' /\ RequestShape'
    BY <1>1, <1>12 DEF CloseSession, SignalShape, RequestShape, AnswerValue
  <2>4. PipeShape'
    BY <1>1, <1>12 DEF CloseSession, PipeShape, ServerState
  <2> QED BY <2>1, <2>2, <2>3, <2>4 DEF CodexShape
<1> QED BY <1>2, <1>3, <1>4, <1>5, <1>6, <1>7, <1>8, <1>10, <1>11, <1>12 DEF RunAppServer

\* What the provider does with the request r, n being the next turn.
Served(r, n) ==
  \/ stdout' = Append(stdout, Line(r.q, "refused", 0)) /\ UNCHANGED server
  \/ r.q = "thread" /\ stdout' = Append(stdout, Line(r.q, "ok", 0)) /\ UNCHANGED server
  \/ /\ r.q = "turn" /\ server.turn = 0 /\ n \in Turn
     /\ server' = [server EXCEPT !.turn = n, !.last = n, !.kind = "turn"]
     /\ stdout' = Append(stdout, Line(r.q, "ok", n))
  \/ /\ r.q = "compact" /\ server.turn = 0 /\ n \in Turn
     /\ server' = [server EXCEPT !.turn = n, !.last = n, !.kind = "compact"]
     /\ stdout' = stdout \o <<Line(r.q, "ok", 0), Note("started", n)>>
  \/ /\ r.q = "steer" /\ server.turn = r.turn
     /\ server' = [server EXCEPT !.took = server.took \cup {<<r.on, r.turn>>}]
     /\ stdout' = Append(stdout, Line(r.q, "ok", r.turn))
  \/ /\ r.q \in {"interrupt", "interrupt_now", "interrupt_steer"}
     /\ server.turn = r.turn
     /\ server' = [server EXCEPT !.turn = 0,
                       !.ended = Append(server.ended, <<r.turn, "interrupted">>)]
     /\ stdout' = stdout \o <<Line(r.q, "ok", 0), Note("interrupted", r.turn)>>

LEMMA OtherActionsShape ==
  ASSUME CodexShape,
         \/ PumpSteering \/ Abort \/ \E f \in FollowUp : FollowUpArrives(f)
         \/ HandleLine \/ ServerExits \/ \E q \in Request : RequestTimesOut(q)
         \/ ServerAnswers \/ ServerConfirms \/ ServerEndsTurn \/ ServerDies
  PROVE  CodexShape'
<1>1. TurnShape /\ PumpShape /\ SignalShape /\ RequestShape /\ ReadShape /\ PipeShape
  BY DEF CodexShape
<1>2. CASE PumpReceives \/ PumpAcknowledges \/ \E f \in FollowUp : FollowUpArrives(f)
  <2>1. TurnShape' /\ SignalShape' /\ RequestShape' /\ ReadShape' /\ PipeShape'
    BY <1>1, <1>2, GroupsStay DEF PumpReceives, PumpAcknowledges, FollowUpArrives
  <2>2. PumpShape'
    BY <1>1, <1>2 DEF PumpReceives, PumpAcknowledges, FollowUpArrives, PumpTo, PumpShape,
                      PumpPhase, Forwarded
  <2> QED BY <2>1, <2>2 DEF CodexShape
<1>3. CASE PumpSteers
  <2>1. TurnShape' /\ SignalShape' /\ ReadShape' /\ PipeShape'
    BY <1>1, <1>3, GroupsStay DEF PumpSteers
  <2>2. PumpShape'
    BY <1>1, <1>3 DEF PumpSteers, PumpTo, PumpShape, PumpPhase
  <2>3. RequestShape'
    <3>1. PICK n \in TurnOr0, f \in Forwarded : n = activeTurn /\ f = pump.on
      BY <1>1 DEF TurnShape, PumpShape
    <3>2. UNCHANGED requests \/ Ask("steer", n, f)
      BY <1>3, <3>1 DEF PumpSteers
    <3> QED BY <1>1, <3>2, GroupsStay, AskKeeps, RequestNames
  <2> QED BY <2>1, <2>2, <2>3 DEF CodexShape
<1>4. CASE PumpHears
  <2>1. TurnShape' /\ ReadShape' /\ PipeShape'
    BY <1>1, <1>4, GroupsStay DEF PumpHears
  <2>2. PumpShape' /\ SignalShape'
    BY <1>1, <1>4 DEF PumpHears, PumpTo, PumpShape, SignalShape, PumpPhase
  <2>3. RequestShape'
    <3>1. UNCHANGED requests \/ Interrupts("interrupt_steer")
      BY <1>4 DEF PumpHears
    <3> QED BY <1>1, <3>1, GroupsStay, InterruptKeeps, RequestNames
  <2> QED BY <2>1, <2>2, <2>3 DEF CodexShape
<1>5. CASE Abort
  <2>1. TurnShape' /\ PumpShape' /\ ReadShape' /\ PipeShape'
    BY <1>1, <1>5, GroupsStay DEF Abort
  <2>2. SignalShape'
    BY <1>1, <1>5 DEF Abort, SignalShape
  <2>3. RequestShape'
    BY <1>1, <1>5, InterruptKeeps, RequestNames DEF Abort
  <2> QED BY <2>1, <2>2, <2>3 DEF CodexShape
<1>6. CASE HandleLine
  <2>1. TurnShape' /\ PumpShape' /\ SignalShape'
    BY <1>1, <1>6, GroupsStay DEF HandleLine
  <2>2. PipeShape' /\ UNCHANGED stdin /\ Head(stdout) \in OutLine
    BY <1>1, <1>6 DEF HandleLine, PipeShape
  <2>3. CASE Head(stdout).q \in pending
    <3>1. Head(stdout) \in AnswerLine
      BY <1>1, <2>2, <2>3, RequestNames DEF OutLine, NoteLine, RequestShape
    <3>0. Head(stdout).q # "none"
      BY <3>1, RequestNames DEF AnswerLine
    <3>2. /\ pending' \subseteq pending /\ UNCHANGED notes
          /\ answer' = [answer EXCEPT ![Head(stdout).q] = Head(stdout).what]
          /\ answeredTurn' \in {Head(stdout).turn, answeredTurn}
      BY <1>6, <2>3, <3>0 DEF HandleLine
    <3> QED BY <1>1, <2>1, <2>2, <3>1, <3>2
            DEF CodexShape, RequestShape, ReadShape, AnswerLine, AnswerValue
  <2>4. CASE Head(stdout).q = "none"
    <3>1. Head(stdout) \in NoteLine /\ Head(stdout).q \notin pending
      BY <1>1, <2>2, <2>4, RequestNames DEF OutLine, AnswerLine, RequestShape
    <3>2. [what |-> Head(stdout).what, turn |-> Head(stdout).turn] \in NoteRead
      BY <3>1 DEF NoteLine, NoteRead
    <3>3. /\ notes' = Append(notes, [what |-> Head(stdout).what, turn |-> Head(stdout).turn])
          /\ UNCHANGED <<pending, answer, answeredTurn>>
      BY <1>6, <2>4, <3>1 DEF HandleLine
    <3> QED BY <1>1, <2>1, <2>2, <3>2, <3>3 DEF CodexShape, RequestShape, ReadShape
  <2>5. CASE Head(stdout).q \notin pending /\ Head(stdout).q # "none"
    <3>1. UNCHANGED <<pending, answer, answeredTurn, notes>>
      BY <1>6, <2>5 DEF HandleLine
    <3> QED BY <1>1, <2>1, <2>2, <3>1 DEF CodexShape, RequestShape, ReadShape
  <2> QED BY <2>3, <2>4, <2>5
<1>7. CASE ServerExits
  <2>1. TurnShape' /\ PumpShape' /\ SignalShape' /\ ReadShape'
    BY <1>1, <1>7, GroupsStay DEF ServerExits
  <2>2. RequestShape' /\ PipeShape'
    BY <1>1, <1>7 DEF ServerExits, RequestShape, PipeShape, AnswerValue
  <2> QED BY <2>1, <2>2 DEF CodexShape
<1>8. CASE \E q \in Request : RequestTimesOut(q)
  <2>1. TurnShape' /\ PumpShape' /\ SignalShape' /\ ReadShape' /\ PipeShape'
    BY <1>1, <1>8, GroupsStay DEF RequestTimesOut
  <2>2. RequestShape'
    BY <1>1, <1>8 DEF RequestTimesOut, RequestShape, AnswerValue
  <2> QED BY <2>1, <2>2 DEF CodexShape
<1>9. CASE ServerAnswers
  <2>1. TurnShape' /\ PumpShape' /\ SignalShape' /\ ReadShape'
    BY <1>1, <1>9, GroupsStay DEF ServerAnswers
  <2>2. RequestShape' /\ Head(stdin) \in AskLine
    BY <1>1, <1>9 DEF ServerAnswers, RequestShape
  <2>0. UNCHANGED link
    BY <1>9 DEF ServerAnswers
  <2> DEFINE r == Head(stdin)
             n == server.last + 1
  <2>3. /\ r.q \in Request /\ r.turn \in TurnOr0 /\ r.on \in Forwarded
        /\ server \in ServerState /\ stdout \in Seq(OutLine) /\ server.last \in Nat
    BY <1>1, <2>2, TurnNumbers DEF AskLine, PipeShape, ServerState
  <2>4. \A w \in {"ok", "refused"}, t \in TurnOr0 : Line(r.q, w, t) \in OutLine
    BY <2>3 DEF Line, OutLine, AnswerLine
  <2>5. \A w \in {"started", "interrupted"}, t \in TurnOr0 : Note(w, t) \in OutLine
    BY DEF Note, Line, OutLine, NoteLine, NoteKind, TurnEnd
  <2>6. ASSUME stdout' = Append(stdout, Line(r.q, "refused", 0)) /\ UNCHANGED server
        PROVE  PipeShape'
    BY <1>1, <2>0, <2>3, <2>4, <2>6, TurnNumbers DEF PipeShape
  <2>7. ASSUME r.q = "thread" /\ stdout' = Append(stdout, Line(r.q, "ok", 0)) /\ UNCHANGED server
        PROVE  PipeShape'
    BY <1>1, <2>0, <2>3, <2>4, <2>7, TurnNumbers DEF PipeShape
  <2>8. ASSUME /\ r.q = "turn" /\ server.turn = 0 /\ n \in Turn
               /\ server' = [server EXCEPT !.turn = n, !.last = n, !.kind = "turn"]
               /\ stdout' = Append(stdout, Line(r.q, "ok", n))
        PROVE  PipeShape'
    <3>1. server' \in ServerState
      BY <2>3, <2>8, TurnNumbers DEF ServerState
    <3>2. stdout' \in Seq(OutLine)
      BY <2>3, <2>4, <2>8, TurnNumbers
    <3> QED BY <1>1, <2>0, <3>1, <3>2 DEF PipeShape
  <2>9. ASSUME /\ r.q = "compact" /\ server.turn = 0 /\ n \in Turn
               /\ server' = [server EXCEPT !.turn = n, !.last = n, !.kind = "compact"]
               /\ stdout' = stdout \o <<Line(r.q, "ok", 0), Note("started", n)>>
        PROVE  PipeShape'
    <3>1. server' \in ServerState
      BY <2>3, <2>9, TurnNumbers DEF ServerState
    <3>2. Line(r.q, "ok", 0) \in OutLine /\ Note("started", n) \in OutLine
      BY <2>4, <2>5, <2>9, TurnNumbers
    <3>3. stdout' \in Seq(OutLine)
      BY <2>3, <2>9, <3>2
    <3> QED BY <1>1, <2>0, <3>1, <3>3 DEF PipeShape
  <2>10. ASSUME /\ r.q = "steer" /\ server.turn = r.turn
                /\ server' = [server EXCEPT !.took = server.took \cup {<<r.on, r.turn>>}]
                /\ stdout' = Append(stdout, Line(r.q, "ok", r.turn))
        PROVE  PipeShape'
    <3>0. server.took \cup {<<r.on, r.turn>>} \in SUBSET (Forwarded \X TurnOr0)
      BY <2>3 DEF ServerState
    <3>1. server' \in ServerState
      BY <2>3, <2>10, <3>0 DEF ServerState
    <3>2. stdout' \in Seq(OutLine)
      BY <2>3, <2>4, <2>10
    <3> QED BY <1>1, <2>0, <3>1, <3>2 DEF PipeShape
  <2>11. ASSUME /\ r.q \in {"interrupt", "interrupt_now", "interrupt_steer"}
                /\ server.turn = r.turn
                /\ server' = [server EXCEPT !.turn = 0,
                                  !.ended = Append(server.ended, <<r.turn, "interrupted">>)]
                /\ stdout' = stdout \o <<Line(r.q, "ok", 0), Note("interrupted", r.turn)>>
        PROVE  PipeShape'
    <3>1. <<r.turn, "interrupted">> \in TurnOr0 \X TurnEnd
      BY <2>3 DEF TurnEnd
    <3>2. server.ended \in Seq(TurnOr0 \X TurnEnd)
      BY <2>3 DEF ServerState
    <3>3. Append(server.ended, <<r.turn, "interrupted">>) \in Seq(TurnOr0 \X TurnEnd)
      BY <3>1, <3>2
    <3>4. server' \in ServerState
      BY <2>3, <2>11, <3>3, TurnNumbers DEF ServerState
    <3>5. Line(r.q, "ok", 0) \in OutLine /\ Note("interrupted", r.turn) \in OutLine
      BY <2>3, <2>4, <2>5, TurnNumbers
    <3>6. stdout' \in Seq(OutLine)
      BY <2>3, <2>11, <3>5
    <3> QED BY <1>1, <2>0, <3>4, <3>6 DEF PipeShape
  <2>12. PipeShape'
    <3>1. Served(r, n)
      BY <1>9 DEF ServerAnswers, Served
    <3> QED BY <2>6, <2>7, <2>8, <2>9, <2>10, <2>11, <3>1 DEF Served
  <2> QED BY <2>1, <2>2, <2>12 DEF CodexShape
<1>10. CASE ServerConfirms \/ ServerEndsTurn \/ ServerDies
  <2>1. TurnShape' /\ PumpShape' /\ SignalShape' /\ RequestShape' /\ ReadShape'
    BY <1>1, <1>10, GroupsStay DEF ServerConfirms, ServerEndsTurn, ServerDies
  <2>2. \A w \in NoteKind, t \in TurnOr0 : Note(w, t) \in OutLine
    BY DEF Note, Line, OutLine, NoteLine
  <2>3. server \in ServerState /\ stdout \in Seq(OutLine) /\ server.turn \in TurnOr0
    BY <1>1 DEF PipeShape, ServerState
  <2>4. CASE ServerConfirms
    <3>1. /\ server' = [server EXCEPT !.kind = "confirmed"]
          /\ stdout' = Append(stdout, Note("compacted", server.turn)) /\ UNCHANGED link
      BY <2>4 DEF ServerConfirms
    <3>2. server' \in ServerState
      BY <2>3, <3>1 DEF ServerState
    <3>3. stdout' \in Seq(OutLine)
      BY <2>2, <2>3, <3>1 DEF NoteKind
    <3> QED BY <1>1, <2>1, <3>1, <3>2, <3>3 DEF CodexShape, PipeShape
  <2>5. CASE ServerEndsTurn
    <3>1. PICK w \in TurnEnd :
            /\ server' = [server EXCEPT !.turn = 0,
                                 !.ended = Append(server.ended, <<server.turn, w>>)]
            /\ stdout' = Append(stdout, Note(w, server.turn)) /\ UNCHANGED link
      BY <2>5 DEF ServerEndsTurn, TurnEnd
    <3>2. Append(server.ended, <<server.turn, w>>) \in Seq(TurnOr0 \X TurnEnd)
      <4>1. server.ended \in Seq(TurnOr0 \X TurnEnd) /\ <<server.turn, w>> \in TurnOr0 \X TurnEnd
        BY <2>3 DEF ServerState
      <4> QED BY <4>1
    <3>3. server' \in ServerState
      BY <2>3, <3>1, <3>2, TurnNumbers DEF ServerState
    <3>4. stdout' \in Seq(OutLine)
      BY <2>2, <2>3, <3>1 DEF NoteKind
    <3> QED BY <1>1, <2>1, <3>1, <3>3, <3>4 DEF CodexShape, PipeShape
  <2>6. CASE ServerDies
    BY <1>1, <2>1, <2>6 DEF CodexShape, PipeShape, ServerDies, ServerState
  <2> QED BY <1>10, <2>4, <2>5, <2>6
<1> QED BY <1>2, <1>3, <1>4, <1>5, <1>6, <1>7, <1>8, <1>9, <1>10 DEF PumpSteering

LEMMA CodexShapeHolds == CodexSpec => []CodexShape
<1>1. CodexInit => CodexShape
  <2> SUFFICES ASSUME CodexInit PROVE CodexShape
    OBVIOUS
  <2>1. /\ <<>> \in Seq(AskLine) /\ <<>> \in Seq(OutLine) /\ <<>> \in Seq(NoteRead)
        /\ <<>> \in Seq(TurnOr0 \X TurnEnd)
    OBVIOUS
  <2>2. server \in ServerState
    BY <2>1, TurnNumbers DEF CodexInit, ServerState
  <2>3. TurnShape /\ PumpShape /\ SignalShape
    BY TurnNumbers DEF CodexInit, TurnShape, PumpShape, SignalShape, CodexPhase, PumpPhase
  <2>4. RequestShape /\ ReadShape /\ PipeShape
    BY <2>1, <2>2, TurnNumbers DEF CodexInit, RequestShape, ReadShape, PipeShape, AnswerValue
  <2> QED BY <2>3, <2>4 DEF CodexShape
<1>2. CodexShape /\ [CodexNext]_codexVars => CodexShape'
  <2> SUFFICES ASSUME CodexShape, [CodexNext]_codexVars PROVE CodexShape'
    OBVIOUS
  <2>1. CASE UNCHANGED codexVars
    BY <2>1, GroupsStay DEF codexVars, CodexShape
  <2>2. CASE CodexNext
    BY <2>2, TurnActionsShape, OtherActionsShape DEF CodexNext
  <2> QED BY <2>1, <2>2
<1> QED BY <1>1, <1>2, PTL DEF CodexSpec

\* The turn, the forwarding, the requests and the session keep their declared shape.
THEOREM CodexTypeCorrect == CodexSpec => []CodexTypeOK
<1>1. CodexShape => CodexTypeOK
  BY DEF CodexShape, TurnShape, PumpShape, SignalShape, RequestShape, ReadShape, PipeShape,
         CodexTypeOK, TurnOr0, Forwarded, AnswerValue
<1> QED BY <1>1, CodexShapeHolds, PTL

\* The lines in a pipe, and the requests to steer among them.
LinesOf(s) == {s[k] : k \in 1 .. Len(s)}
NoSteer(s) == \A k \in 1 .. Len(s) : s[k].q # "steer"
OneSteer(s) == \A j, k \in 1 .. Len(s) : s[j].q = "steer" /\ s[k].q = "steer" => j = k

LEMMA LinesAppended ==
  ASSUME NEW S, NEW s \in Seq(S), NEW x \in S
  PROVE  /\ LinesOf(Append(s, x)) = LinesOf(s) \cup {x}
         /\ NoSteer(s) /\ x.q # "steer" => NoSteer(Append(s, x))
         /\ OneSteer(s) /\ x.q # "steer" => OneSteer(Append(s, x))
         /\ NoSteer(s) => OneSteer(Append(s, x))
<1> DEFINE t == Append(s, x)
<1>1. /\ Len(s) \in Nat /\ Len(t) = Len(s) + 1 /\ t[Len(s) + 1] = x
      /\ \A k \in 1 .. Len(s) : t[k] = s[k]
  OBVIOUS
<1>2. \A k \in 1 .. Len(t) : k \in 1 .. Len(s) \/ k = Len(s) + 1
  BY <1>1
<1>3. /\ \A k \in 1 .. Len(s) : k \in 1 .. Len(t)
      /\ Len(s) + 1 \in 1 .. Len(t)
  BY <1>1
<1> HIDE DEF t
<1>4. LinesOf(t) = LinesOf(s) \cup {x}
  BY <1>1, <1>2, <1>3 DEF LinesOf
<1>5. NoSteer(s) /\ x.q # "steer" => NoSteer(t)
  BY <1>1, <1>2 DEF NoSteer
<1>6. OneSteer(s) /\ x.q # "steer" => OneSteer(t)
  BY <1>1, <1>2 DEF OneSteer
<1>7. NoSteer(s) => OneSteer(t)
  BY <1>1, <1>2 DEF OneSteer, NoSteer
<1> QED BY <1>4, <1>5, <1>6, <1>7 DEF t

LEMMA LinesTaken ==
  ASSUME NEW S, NEW s \in Seq(S), s # <<>>
  PROVE  /\ LinesOf(Tail(s)) \subseteq LinesOf(s) /\ Head(s) \in LinesOf(s)
         /\ NoSteer(s) => NoSteer(Tail(s)) /\ Head(s).q # "steer"
         /\ OneSteer(s) => OneSteer(Tail(s))
         /\ OneSteer(s) /\ Head(s).q = "steer" => NoSteer(Tail(s))
<1> DEFINE t == Tail(s)
<1>1. /\ Len(s) \in Nat \ {0} /\ Len(t) = Len(s) - 1 /\ Head(s) = s[1]
      /\ \A k \in 1 .. Len(t) : t[k] = s[k + 1]
  OBVIOUS
<1>2. /\ 1 \in 1 .. Len(s)
      /\ \A k \in 1 .. Len(t) : k + 1 \in 1 .. Len(s) /\ k + 1 # 1 /\ k \in Int
  BY <1>1
<1> HIDE DEF t
<1>3. LinesOf(t) \subseteq LinesOf(s) /\ Head(s) \in LinesOf(s)
  BY <1>1, <1>2 DEF LinesOf
<1>4. NoSteer(s) => NoSteer(t) /\ Head(s).q # "steer"
  BY <1>1, <1>2 DEF NoSteer
<1>5. OneSteer(s) => OneSteer(t)
  <2> SUFFICES ASSUME OneSteer(s), NEW j \in 1 .. Len(t), NEW k \in 1 .. Len(t),
                      t[j].q = "steer", t[k].q = "steer"
               PROVE  j = k
    BY DEF OneSteer
  <2>1. j + 1 = k + 1
    BY <1>1, <1>2 DEF OneSteer
  <2> QED BY <1>2, <2>1
<1>6. OneSteer(s) /\ Head(s).q = "steer" => NoSteer(t)
  BY <1>1, <1>2 DEF NoSteer, OneSteer
<1> QED BY <1>3, <1>4, <1>5, <1>6 DEF t

LEMMA TwoAppended ==
  ASSUME NEW S, NEW s \in Seq(S), NEW x \in S, NEW y \in S
  PROVE  s \o <<x, y>> = Append(Append(s, x), y)
OBVIOUS

LEMMA NoLines == LinesOf(<<>>) = {} /\ NoSteer(<<>>) /\ OneSteer(<<>>)
BY DEF LinesOf, NoSteer, OneSteer

(***************************************************************************)
(* What has to hold of the forwarding, and of the turns.                    *)
(***************************************************************************)

Taken(f) == \E n \in Turn : <<f, n>> \in server.took
NothingForwarded == NoSteer(stdin) /\ NoSteer(stdout) /\ "steer" \notin pending
BeforeForwarding == codex \in {"idle", "thread"} \/ (codex = "turn" /\ ~recovered)

SteerAgrees ==
  /\ codex \in {"idle", "thread", "turn", "compact", "compacting", "close", "ended"}
       => pump.at = "off"
  /\ BeforeForwarding \/ pump.at \in {"receive", "send", "acknowledge"} => NothingForwarded
  /\ pump.at \in {"send", "steering", "acknowledge"} => pump.on \in FollowUp
  /\ pump.at = "steering" /\ "steer" \in pending =>
       /\ OneSteer(stdin) /\ OneSteer(stdout) /\ (NoSteer(stdin) \/ NoSteer(stdout))
       /\ \A x \in LinesOf(stdin) : x.q = "steer" => x.on = pump.on /\ x.turn \in Turn
       /\ \A x \in LinesOf(stdout) : x.q = "steer" /\ x.what = "ok" => Taken(pump.on)
  /\ pump.at = "steering" /\ "steer" \notin pending /\ answer["steer"] = "ok" =>
       NothingForwarded /\ Taken(pump.on)
  /\ pump.at = "acknowledge" => Taken(pump.on)
  /\ AcknowledgedWasTaken

\* A request that was answered, or could not be made; the turns announced as
\* compactions, and those the run was or will be told of.
Settled(q) == q \notin pending /\ answer[q] \in {"ok", "refused", "error"}
Started(c) ==
  \/ \E x \in LinesOf(stdout) : x.q = "none" /\ x.what = "started" /\ x.turn = c
  \/ \E x \in LinesOf(notes) : x.what = "started" /\ x.turn = c
Ran(c) ==
  \/ c \in {turnId, answeredTurn}
  \/ \E x \in LinesOf(stdout) : x.q # "none" /\ x.turn = c
  \/ \E x \in LinesOf(stdin) : x.q = "steer" /\ x.turn = c

CompactionsApart ==
  \A c \in TurnOr0 : /\ Started(c) => c # 0 /\ ~Ran(c)
                     /\ Started(c) \/ Ran(c) => c <= server.last

TurnsAgree ==
  /\ outcome = "aborted" => aborted \/ turnOff
  /\ codex = "interrupting" => aborted
  /\ codex # "ended" => \A q \in Request : answer[q] # "closed"
  /\ answer["interrupt_now"] # "skipped"
  /\ aborted /\ answer["interrupt"] = "skipped" /\ activeTurn = turnId /\ turnId # 0
       /\ codex # "interrupting" => Settled("interrupt_now")
  /\ codex \notin {"compacting", "close", "ended"} => activeTurn \in {0, turnId}
  /\ codex = "compacting" => compactTurn \in {0, activeTurn}
  /\ codex = "ended" /\ outcome = "aborted" /\ activeTurn = turnId /\ turnId # 0 =>
       Settled("interrupt") \/ Settled("interrupt_now")
  /\ CompactionsApart

\* The ways in which a step leaves all this alone.
SteersStayIn ==
  /\ NoSteer(stdin) => NoSteer(stdin')
  /\ OneSteer(stdin) => OneSteer(stdin')
  /\ \A x \in LinesOf(stdin') : x.q = "steer" => x \in LinesOf(stdin)
SteersStayOut ==
  /\ NoSteer(stdout) => NoSteer(stdout')
  /\ OneSteer(stdout) => OneSteer(stdout')
  /\ \A x \in LinesOf(stdout') : x.q = "steer" => x \in LinesOf(stdout)
  /\ server.took \subseteq server'.took
SteerAnswerStays ==
  /\ "steer" \in pending' => "steer" \in pending
  /\ "steer" \notin pending' /\ answer'["steer"] = "ok" =>
       "steer" \notin pending /\ answer["steer"] = "ok"
InterruptStays(q) ==
  /\ Settled(q) => q \notin pending' /\ answer'[q] \in {"ok", "refused", "error"}
  /\ answer'[q] = "skipped" => answer[q] = "skipped"
NoneCloses == \A q \in Request : answer'[q] = "closed" => answer[q] = "closed"
RequestsStay ==
  /\ SteersStayIn /\ SteerAnswerStays /\ NoneCloses
  /\ InterruptStays("interrupt") /\ InterruptStays("interrupt_now")
TurnsStay ==
  /\ \A c \in TurnOr0 : (Started(c)' => Started(c)) /\ (Ran(c)' => Ran(c))
  /\ server'.last = server.last

LEMMA SteerFrame ==
  ASSUME SteerAgrees, UNCHANGED pump, SteersStayIn, SteersStayOut, SteerAnswerStays,
         \A f \in FollowUp : mailbox'[f] = "applied" => mailbox[f] = "applied",
         BeforeForwarding' => BeforeForwarding,
         codex' \in {"idle", "thread", "turn", "compact", "compacting", "close", "ended"}
           => pump.at = "off"
  PROVE  SteerAgrees'
<1>1. \A f : Taken(f) => Taken(f)'
  BY DEF Taken, SteersStayOut
<1>2. NothingForwarded => NothingForwarded'
  BY DEF NothingForwarded, SteersStayIn, SteersStayOut, SteerAnswerStays
<1>3. AcknowledgedWasTaken'
  BY <1>1 DEF SteerAgrees, AcknowledgedWasTaken, Taken
<1>4. BeforeForwarding' \/ pump'.at \in {"receive", "send", "acknowledge"} => NothingForwarded'
  BY <1>2 DEF SteerAgrees
<1>5. pump'.at = "steering" /\ "steer" \in pending' =>
        /\ OneSteer(stdin') /\ OneSteer(stdout') /\ (NoSteer(stdin') \/ NoSteer(stdout'))
        /\ \A x \in LinesOf(stdin') : x.q = "steer" => x.on = pump'.on /\ x.turn \in Turn
        /\ \A x \in LinesOf(stdout') : x.q = "steer" /\ x.what = "ok" => Taken(pump.on)'
  BY <1>1 DEF SteerAgrees, SteersStayIn, SteersStayOut, SteerAnswerStays
<1>6. pump'.at = "steering" /\ "steer" \notin pending' /\ answer'["steer"] = "ok" =>
        NothingForwarded' /\ Taken(pump.on)'
  BY <1>1, <1>2 DEF SteerAgrees, SteerAnswerStays
<1>7. pump'.at = "acknowledge" => Taken(pump.on)'
  BY <1>1 DEF SteerAgrees
<1>8. pump'.at \in {"send", "steering", "acknowledge"} => pump'.on \in FollowUp
  BY DEF SteerAgrees
<1> QED BY <1>3, <1>4, <1>5, <1>6, <1>7, <1>8 DEF SteerAgrees

LEMMA ApartStays == CompactionsApart /\ TurnsStay => CompactionsApart'
BY DEF CompactionsApart, TurnsStay

LEMMA TurnsFrame ==
  ASSUME TurnsAgree, UNCHANGED turnVars, UNCHANGED aborted, turnOff => turnOff', CompactionsApart',
         NoneCloses, InterruptStays("interrupt"), InterruptStays("interrupt_now")
  PROVE  TurnsAgree'
<1>1. UNCHANGED <<codex, outcome, turnId, activeTurn, compactTurn, recovered>>
  BY DEF turnVars
<1>2. codex' # "ended" => \A q \in Request : answer'[q] # "closed"
  BY <1>1 DEF TurnsAgree, NoneCloses
<1> QED BY <1>1, <1>2 DEF TurnsAgree, InterruptStays, Settled

LEMMA UnchangedStays ==
  ASSUME UNCHANGED requests
  PROVE  RequestsStay
BY DEF requests, RequestsStay, SteersStayIn, SteerAnswerStays, NoneCloses, InterruptStays, Settled

LEMMA AskStays ==
  ASSUME RequestShape, NEW q \in Request, NEW n \in TurnOr0, NEW f \in Forwarded,
         Asked(q, n, f), answer'[q] \in {"none", "error"},
         \A p \in Request \ {q} : answer'[p] = answer[p], q # "steer"
  PROVE  /\ SteersStayIn /\ SteerAnswerStays /\ NoneCloses
         /\ \A p \in Request \ {q} : InterruptStays(p)
         /\ answer'[q] # "skipped"
<1>1. CASE pending' = pending \cup {q} /\ stdin' = Append(stdin, [q |-> q, turn |-> n, on |-> f])
  <2>1. [q |-> q, turn |-> n, on |-> f] \in AskLine
    BY DEF AskLine
  <2>2. SteersStayIn
    BY <1>1, <2>1, LinesAppended DEF SteersStayIn, RequestShape
  <2>3. SteerAnswerStays /\ NoneCloses
    BY <1>1, RequestNames DEF SteerAnswerStays, NoneCloses
  <2> QED BY <1>1, <2>2, <2>3 DEF InterruptStays, Settled
<1>2. CASE UNCHANGED <<pending, stdin>>
  BY <1>2, RequestNames DEF SteersStayIn, SteerAnswerStays, NoneCloses, InterruptStays, Settled
<1> QED BY <1>1, <1>2 DEF Asked

LEMMA RequestsOfTheTurn ==
  ASSUME RequestShape,
         \/ UNCHANGED requests
         \/ Ask("thread", 0, "none") \/ Ask("turn", 0, "none") \/ Ask("compact", 0, "none")
  PROVE  RequestsStay
<1>1. CASE UNCHANGED requests
  BY <1>1, UnchangedStays
<1>2. CASE Ask("thread", 0, "none") \/ Ask("turn", 0, "none") \/ Ask("compact", 0, "none")
  <2>1. PICK q \in {"thread", "turn", "compact"} : Ask(q, 0, "none")
    BY <1>2
  <2>2. q \in Request /\ q \notin {"steer", "interrupt", "interrupt_now"}
    BY DEF Request
  <2>3. /\ Asked(q, 0, "none") /\ answer'[q] \in {"none", "error"}
        /\ \A p \in Request \ {q} : answer'[p] = answer[p]
    BY <2>1, <2>2, AskKeeps, TurnNumbers
  <2>4. /\ SteersStayIn /\ SteerAnswerStays /\ NoneCloses
        /\ \A p \in Request \ {q} : InterruptStays(p)
    BY <2>2, <2>3, AskStays, TurnNumbers
  <2> QED BY <2>2, <2>4, RequestNames DEF RequestsStay
<1> QED BY <1>1, <1>2

\* The pipe's other end, and what was read of it.
LEMMA PipeStays ==
  ASSUME UNCHANGED <<stdout, server, answeredTurn, turnId>>, SteersStayIn,
         \A x \in LinesOf(notes') : x \in LinesOf(notes)
  PROVE  SteersStayOut /\ TurnsStay
BY DEF SteersStayOut, SteersStayIn, TurnsStay, Started, Ran

\* A step of the turn that starts none.
LEMMA TurnGoesOn ==
  ASSUME SteerAgrees, TurnsAgree, RequestsStay, UNCHANGED pumpVars,
         UNCHANGED <<stdout, server, answeredTurn, turnId, aborted, turnOff>>,
         \A x \in LinesOf(notes') : x \in LinesOf(notes),
         BeforeForwarding' => BeforeForwarding,
         codex # "ended", codex' \notin {"ended", "interrupting"},
         codex' \in {"idle", "thread", "turn", "compact", "compacting", "close"}
           => pump.at = "off",
         outcome' = "aborted" => aborted \/ turnOff,
         activeTurn' = turnId /\ turnId # 0 =>
           Settled("interrupt_now") \/ (activeTurn = turnId /\ codex # "interrupting"),
         codex' \notin {"compacting", "close"} => activeTurn' \in {0, turnId},
         codex' = "compacting" => compactTurn' \in {0, activeTurn'}
  PROVE  SteerAgrees' /\ TurnsAgree'
<1>1. /\ SteersStayIn /\ SteerAnswerStays /\ NoneCloses
      /\ InterruptStays("interrupt") /\ InterruptStays("interrupt_now")
  BY DEF RequestsStay
<1>2. SteersStayOut /\ TurnsStay
  BY <1>1, PipeStays
<1>3. SteerAgrees'
  BY <1>1, <1>2, SteerFrame DEF pumpVars
<1>4. CompactionsApart'
  BY <1>2, ApartStays DEF TurnsAgree
<1>5. \A q \in Request : answer'[q] # "closed"
  BY <1>1 DEF TurnsAgree, NoneCloses
<1>6. aborted /\ answer'["interrupt"] = "skipped" /\ activeTurn' = turnId /\ turnId # 0
        => Settled("interrupt_now")'
  BY <1>1 DEF TurnsAgree, InterruptStays, Settled
<1>7. answer'["interrupt_now"] # "skipped"
  BY <1>1 DEF TurnsAgree, InterruptStays
<1>8. TurnsAgree'
  BY <1>4, <1>5, <1>6, <1>7 DEF TurnsAgree
<1> QED BY <1>3, <1>8

LEMMA TurnActionsAgree ==
  ASSUME CodexShape, SteerAgrees, TurnsAgree,
         \/ StartOrResume \/ ThreadStarted \/ TurnInterrupted \/ ReadNotification
         \/ StreamBreaks \/ TurnSettles \/ CompactStarted \/ CompactReads \/ CompactBreaks
  PROVE  SteerAgrees' /\ TurnsAgree'
<1>1. RequestShape /\ TurnShape /\ ReadShape
  BY DEF CodexShape
<1>2. CASE StartOrResume \/ ThreadStarted
  <2>1. RequestsStay
    BY <1>1, <1>2, RequestsOfTheTurn DEF StartOrResume, ThreadStarted
  <2>2. /\ UNCHANGED <<pumpVars, stdout, server, answeredTurn, notes>>
        /\ UNCHANGED <<turnId, activeTurn, aborted, turnOff>>
        /\ codex \in {"idle", "thread"} /\ codex' \in {"thread", "turn", "close"}
        /\ outcome' = outcome \/ outcome' = "failed"
    BY <1>2 DEF StartOrResume, ThreadStarted, pipe, readVars, signals
  <2>3. BeforeForwarding /\ pump.at = "off"
    BY <2>2 DEF SteerAgrees, BeforeForwarding
  <2>4. activeTurn \in {0, turnId} /\ (outcome' = "aborted" => aborted \/ turnOff)
    BY <2>2 DEF TurnsAgree
  <2> QED BY <2>1, <2>2, <2>3, <2>4, TurnGoesOn
<1>3. CASE TurnInterrupted
  <2>1. RequestsStay
    BY <1>3, UnchangedStays DEF TurnInterrupted
  <2>2. /\ UNCHANGED <<pumpVars, stdout, server, answeredTurn, notes>>
        /\ UNCHANGED <<turnId, activeTurn, aborted, turnOff>>
        /\ codex = "interrupting" /\ codex' = "settle"
    BY <1>3 DEF TurnInterrupted, pipe, readVars
  <2>3. Settled("interrupt_now") /\ aborted /\ activeTurn \in {0, turnId}
    BY <1>1, <1>3, <2>2, RequestNames
       DEF TurnsAgree, TurnInterrupted, Answered, Settled, RequestShape, AnswerValue
  <2>4. ~BeforeForwarding'
    BY <2>2 DEF BeforeForwarding
  <2> QED BY <2>1, <2>2, <2>3, <2>4, TurnGoesOn
<1>4. CASE ReadNotification
  <2>1. RequestsStay
    BY <1>4, UnchangedStays DEF ReadNotification
  <2>2. /\ UNCHANGED <<pumpVars, stdout, server, answeredTurn>>
        /\ UNCHANGED <<turnId, aborted, turnOff>>
        /\ codex = "stream" /\ codex' \in {"stream", "settle"}
        /\ activeTurn' \in {0, activeTurn}
        /\ outcome' = outcome \/ outcome' \in TurnEnd
    BY <1>4 DEF ReadNotification, pipe
  <2>3. \A x \in LinesOf(notes') : x \in LinesOf(notes)
    BY <1>1, <1>4, LinesTaken DEF ReadNotification, ReadShape
  <2>4. activeTurn \in {0, turnId} /\ (outcome' = "aborted" => aborted \/ turnOff)
    BY <2>2 DEF TurnsAgree, TurnEnd
  <2>5. ~BeforeForwarding'
    BY <2>2 DEF BeforeForwarding
  <2> QED BY <2>1, <2>2, <2>3, <2>4, <2>5, TurnGoesOn
<1>5. CASE StreamBreaks
  <2>1. RequestsStay
    BY <1>5, UnchangedStays DEF StreamBreaks
  <2>2. /\ UNCHANGED <<pumpVars, stdout, server, answeredTurn, notes>>
        /\ UNCHANGED <<turnId, activeTurn, aborted, turnOff>>
        /\ codex = "stream" /\ codex' = "settle"
        /\ outcome' = "aborted" => aborted \/ turnOff
    BY <1>5 DEF StreamBreaks, pipe, readVars
  <2>3. activeTurn \in {0, turnId}
    BY <2>2 DEF TurnsAgree
  <2>4. ~BeforeForwarding'
    BY <2>2 DEF BeforeForwarding
  <2> QED BY <2>1, <2>2, <2>3, <2>4, TurnGoesOn
<1>6. CASE TurnSettles \/ CompactStarted
  <2>1. RequestsStay
    BY <1>1, <1>6, RequestsOfTheTurn DEF TurnSettles, CompactStarted
  <2>2. /\ UNCHANGED <<pumpVars, stdout, server, answeredTurn, notes>>
        /\ UNCHANGED <<turnId, activeTurn, aborted, turnOff, outcome>>
        /\ codex \in {"settle", "compact"} /\ codex' \in {"compact", "compacting", "close"}
        /\ codex = "settle" => pump.at = "off"
        /\ codex' = "compacting" => compactTurn' = 0
    BY <1>6 DEF TurnSettles, CompactStarted, pipe, readVars, signals
  <2>3. /\ activeTurn \in {0, turnId} /\ (outcome' = "aborted" => aborted \/ turnOff)
        /\ pump.at = "off"
    BY <2>2 DEF TurnsAgree, SteerAgrees
  <2>4. ~BeforeForwarding'
    BY <2>2 DEF BeforeForwarding
  <2> QED BY <2>1, <2>2, <2>3, <2>4, TurnGoesOn
<1>7. ASSUME NEW ok \in BOOLEAN, Compacted(ok), codex = "compacting",
             UNCHANGED <<pumpVars, stdout, server, answeredTurn>>,
             UNCHANGED <<turnId, aborted, turnOff>>,
             \A x \in LinesOf(notes') : x \in LinesOf(notes)
      PROVE  SteerAgrees' /\ TurnsAgree'
  <2>1. RequestsStay
    BY <1>1, <1>7, RequestsOfTheTurn DEF Compacted
  <2>2. activeTurn' = 0 /\ pump.at = "off"
    BY <1>7 DEF TurnsAgree, SteerAgrees, Compacted
  <2>3. codex' \in {"turn", "close"} /\ outcome' \in {outcome, "none"} /\ ~BeforeForwarding'
    BY <1>7 DEF Compacted, BeforeForwarding
  <2>4. outcome' = "aborted" => aborted \/ turnOff
    BY <2>3 DEF TurnsAgree
  <2> QED BY <1>7, <2>1, <2>2, <2>3, <2>4, TurnGoesOn
<1>8. CASE CompactReads
  <2>1. /\ UNCHANGED <<pumpVars, stdout, server, answeredTurn>>
        /\ UNCHANGED <<turnId, aborted, turnOff>>
        /\ codex = "compacting" /\ notes \in Seq(NoteRead) /\ notes # <<>> /\ notes' = Tail(notes)
    BY <1>1, <1>8 DEF CompactReads, pipe, signals, ReadShape
  <2>2. /\ Head(notes) \in NoteRead /\ Head(notes) \in LinesOf(notes)
        /\ \A x \in LinesOf(notes') : x \in LinesOf(notes)
    BY <2>1, LinesTaken
  <2>3. pump.at = "off" /\ (outcome = "aborted" => aborted \/ turnOff)
    BY <2>1 DEF SteerAgrees, TurnsAgree
  <2>4. CASE Head(notes).what = "started"
    <3>1. PICK c \in TurnOr0 : c = Head(notes).turn
      BY <2>2 DEF NoteRead
    <3>2. compactTurn' = c /\ activeTurn' = c /\ UNCHANGED <<codex, outcome, recovered, requests>>
      BY <1>8, <2>4, <3>1 DEF CompactReads
    <3>3. Started(c)
      BY <2>2, <2>4, <3>1 DEF Started
    <3>4. c # turnId
      BY <3>3 DEF TurnsAgree, CompactionsApart, Ran
    <3>5. RequestsStay
      BY <3>2, UnchangedStays
    <3>6. ~BeforeForwarding'
      BY <2>1, <3>2 DEF BeforeForwarding
    <3> QED BY <2>1, <2>2, <2>3, <3>2, <3>4, <3>5, <3>6, TurnGoesOn
  <2>5. CASE Head(notes).what # "started" /\ compactTurn \in {0, Head(notes).turn}
    <3>1. Compacted(Head(notes).what # "failed")
      BY <1>8, <2>5 DEF CompactReads
    <3> QED BY <1>7, <2>1, <2>2, <3>1
  <2>6. CASE Head(notes).what # "started" /\ compactTurn \notin {0, Head(notes).turn}
    <3>1. UNCHANGED <<codex, outcome, recovered, compactTurn, activeTurn, requests>>
      BY <1>8, <2>6 DEF CompactReads
    <3>2. RequestsStay
      BY <3>1, UnchangedStays
    <3>3. ~BeforeForwarding' /\ compactTurn' \in {0, activeTurn'}
      BY <2>1, <3>1 DEF BeforeForwarding, TurnsAgree
    <3> QED BY <2>1, <2>2, <2>3, <3>1, <3>2, <3>3, TurnGoesOn
  <2> QED BY <2>4, <2>5, <2>6
<1>9. CASE CompactBreaks
  BY <1>7, <1>9 DEF CompactBreaks, pipe, signals, readVars
<1> QED BY <1>2, <1>3, <1>4, <1>5, <1>6, <1>8, <1>9

LEMMA TurnStartedAgrees ==
  ASSUME CodexShape, SteerAgrees, TurnsAgree, TurnStarted
  PROVE  SteerAgrees' /\ TurnsAgree'
<1>1. RequestShape /\ TurnShape /\ ReadShape
  BY DEF CodexShape
<1>2. /\ UNCHANGED <<stdout, server, answeredTurn, notes, mailbox, aborted, turnOff>>
      /\ UNCHANGED <<compactTurn, recovered>> /\ codex = "turn" /\ pump.at = "off"
  BY DEF TurnStarted, pipe, readVars, SteerAgrees
<1>3. activeTurn \in {0, turnId} /\ (outcome = "aborted" => aborted \/ turnOff)
  BY <1>2 DEF TurnsAgree
<1>4. CASE Denied("turn") /\ ~Granted("turn")
  <2>1. /\ UNCHANGED requests /\ UNCHANGED <<pumpVars, turnId, activeTurn>>
        /\ codex' = "settle" /\ outcome' = "failed"
    BY <1>2, <1>4 DEF TurnStarted, pumpVars
  <2>2. RequestsStay /\ ~BeforeForwarding'
    BY <2>1, UnchangedStays DEF BeforeForwarding
  <2> QED BY <1>2, <1>3, <2>1, <2>2, TurnGoesOn
<1>5. CASE Granted("turn")
  <2>1. PICK n \in TurnOr0 : n = answeredTurn
    BY <1>1 DEF ReadShape
  <2>2. /\ turnId' = n /\ activeTurn' = n /\ outcome' = outcome
        /\ pump' = IF recovered THEN pump ELSE [at |-> "receive", on |-> "none"]
        /\ codex' = IF aborted THEN "interrupting" ELSE "stream"
        /\ IF aborted THEN Ask("interrupt_now", n, "none") ELSE UNCHANGED requests
    BY <1>5, <2>1 DEF TurnStarted, Granted, Denied
  <2>3. /\ SteersStayIn /\ SteerAnswerStays /\ NoneCloses /\ InterruptStays("interrupt")
        /\ answer'["interrupt_now"] # "skipped"
    <3>1. CASE aborted
      <4>1. /\ Asked("interrupt_now", n, "none") /\ answer'["interrupt_now"] \in {"none", "error"}
            /\ \A p \in Request \ {"interrupt_now"} : answer'[p] = answer[p]
        BY <1>1, <2>2, <3>1, AskKeeps, TurnNumbers, RequestNames
      <4> QED BY <1>1, <4>1, AskStays, TurnNumbers, RequestNames
    <3>2. CASE ~aborted
      BY <2>2, <3>2, UnchangedStays DEF RequestsStay, TurnsAgree, requests
    <3> QED BY <3>1, <3>2
  <2>4. /\ SteersStayOut
        /\ \A c \in TurnOr0 : (Started(c)' => Started(c)) /\ (Ran(c)' => Ran(c))
    BY <1>2, <2>1, <2>2, <2>3 DEF SteersStayOut, SteersStayIn, Started, Ran
  <2>5. CompactionsApart'
    BY <1>2, <2>4, ApartStays DEF TurnsStay, TurnsAgree
  <2>6. TurnsAgree'
    BY <1>2, <1>3, <2>2, <2>3, <2>5 DEF TurnsAgree, NoneCloses
  <2>7. NothingForwarded => NothingForwarded'
    BY <2>3, <2>4 DEF NothingForwarded, SteersStayIn, SteersStayOut, SteerAnswerStays
  <2>8. AcknowledgedWasTaken'
    BY <1>2 DEF SteerAgrees, AcknowledgedWasTaken
  <2>9. CASE recovered
    <3>1. pump'.at = "off" /\ ~BeforeForwarding'
      BY <1>2, <2>2, <2>9 DEF BeforeForwarding
    <3> QED BY <2>6, <2>8, <3>1 DEF SteerAgrees
  <2>10. CASE ~recovered
    <3>1. /\ pump'.at = "receive" /\ ~BeforeForwarding' /\ BeforeForwarding
          /\ codex' \in {"interrupting", "stream"}
      BY <1>2, <2>2, <2>10 DEF BeforeForwarding
    <3>2. NothingForwarded'
      BY <2>7, <3>1 DEF SteerAgrees
    <3> QED BY <2>6, <2>8, <3>1, <3>2 DEF SteerAgrees
  <2> QED BY <2>9, <2>10
<1> QED BY <1>4, <1>5 DEF TurnStarted, Granted, Denied

LEMMA CloseAgrees ==
  ASSUME CodexShape, SteerAgrees, TurnsAgree, CloseSession
  PROVE  SteerAgrees' /\ TurnsAgree'
<1>1. /\ codex = "close" /\ codex' = "ended" /\ (aborted => Answered("interrupt"))
      /\ UNCHANGED <<turnId, activeTurn, compactTurn, recovered, pump, mailbox, aborted, turnOff>>
      /\ UNCHANGED <<stdin, stdout, notes, answeredTurn>>
      /\ server' = [server EXCEPT !.alive = FALSE]
      /\ pending' = {} /\ answer' = [q \in Request |-> IF q \in pending THEN "closed" ELSE answer[q]]
  BY DEF CloseSession, pumpVars, readVars
<1>2. /\ outcome' = "aborted" => aborted
  BY DEF CloseSession, TurnsAgree
<1>3. /\ \A q \in Request : q \notin pending => answer'[q] = answer[q]
      /\ \A q \in Request : q \in pending => answer'[q] = "closed"
  BY <1>1
<1>4. server'.last = server.last /\ server'.took = server.took
  BY <1>1 DEF CodexShape, PipeShape, ServerState
<1>5. SteersStayIn /\ SteersStayOut /\ SteerAnswerStays
  BY <1>1, <1>3, <1>4, RequestNames DEF SteersStayIn, SteersStayOut, SteerAnswerStays
<1>6. InterruptStays("interrupt") /\ InterruptStays("interrupt_now")
  BY <1>1, <1>3, RequestNames DEF InterruptStays, Settled
<1>7. TurnsStay
  BY <1>1, <1>4 DEF TurnsStay, Started, Ran
<1>8. CompactionsApart'
  BY <1>7, ApartStays DEF TurnsAgree
<1>9. pump.at = "off" /\ ~BeforeForwarding'
  BY <1>1 DEF SteerAgrees, BeforeForwarding
<1>10. SteerAgrees'
  BY <1>1, <1>5, <1>9, SteerFrame
<1>11. outcome' = "aborted" /\ activeTurn = turnId /\ turnId # 0 =>
         Settled("interrupt") \/ Settled("interrupt_now")
  <2> SUFFICES ASSUME outcome' = "aborted", activeTurn = turnId, turnId # 0
               PROVE  Settled("interrupt") \/ Settled("interrupt_now")
    OBVIOUS
  <2>1. /\ aborted /\ "interrupt" \notin pending /\ answer["interrupt"] # "none"
        /\ answer["interrupt"] # "closed" /\ answer["interrupt"] \in AnswerValue
    BY <1>1, <1>2, RequestNames DEF Answered, TurnsAgree, CodexShape, RequestShape
  <2>2. answer["interrupt"] = "skipped" => Settled("interrupt_now")
    BY <1>1, <2>1 DEF TurnsAgree
  <2> QED BY <2>1, <2>2 DEF Settled, AnswerValue
<1>12. TurnsAgree'
  <2>1. answer'["interrupt_now"] # "skipped"
    BY <1>6 DEF TurnsAgree, InterruptStays
  <2>2. \A q \in {"interrupt", "interrupt_now"} : Settled(q) => Settled(q)'
    BY <1>6 DEF Settled, InterruptStays
  <2>3. aborted /\ answer'["interrupt"] = "skipped" /\ activeTurn = turnId /\ turnId # 0
          => Settled("interrupt_now")'
    BY <1>1, <1>6, <2>2 DEF TurnsAgree, InterruptStays
  <2> QED BY <1>1, <1>2, <1>8, <1>11, <2>1, <2>2, <2>3 DEF TurnsAgree
<1> QED BY <1>10, <1>12

LEMMA PumpAgrees ==
  ASSUME CodexShape, SteerAgrees, TurnsAgree,
         PumpSteering \/ \E f \in FollowUp : FollowUpArrives(f)
  PROVE  SteerAgrees' /\ TurnsAgree'
<1>1. RequestShape /\ TurnShape /\ PumpShape /\ PipeShape
  BY DEF CodexShape
<1>2. CASE PumpReceives \/ PumpAcknowledges \/ \E f \in FollowUp : FollowUpArrives(f)
  <2>1. /\ UNCHANGED turnVars /\ UNCHANGED requests /\ UNCHANGED <<aborted, turnOff, notes>>
        /\ UNCHANGED <<stdout, server, answeredTurn, turnId, codex, recovered, stdin, pending, answer>>
    BY <1>2 DEF PumpReceives, PumpAcknowledges, FollowUpArrives, turnVars, requests, signals,
                readVars, pipe
  <2>2. /\ SteersStayIn /\ SteerAnswerStays /\ NoneCloses
        /\ InterruptStays("interrupt") /\ InterruptStays("interrupt_now")
    BY <2>1, UnchangedStays DEF RequestsStay
  <2>3. SteersStayOut /\ TurnsStay
    BY <2>1, <2>2, PipeStays
  <2>4. TurnsAgree'
    BY <2>1, <2>2, <2>3, ApartStays, TurnsFrame DEF TurnsAgree
  <2>5. /\ NothingForwarded' <=> NothingForwarded
        /\ BeforeForwarding' <=> BeforeForwarding
        /\ \A f : Taken(f)' <=> Taken(f)
    BY <2>1 DEF NothingForwarded, BeforeForwarding, Taken
  <2>6. CASE PumpReceives
    <3>1. /\ pump'.at \in {"off", "send"} /\ (pump'.at = "send" => pump'.on \in FollowUp)
          /\ \A f \in FollowUp : mailbox'[f] = "applied" => mailbox[f] = "applied"
          /\ pump.at = "receive"
      BY <1>1, <2>6 DEF PumpReceives, PumpTo, PumpShape
    <3>2. AcknowledgedWasTaken'
      BY <2>1, <3>1 DEF SteerAgrees, AcknowledgedWasTaken
    <3> QED BY <2>1, <2>4, <2>5, <3>1, <3>2 DEF SteerAgrees
  <2>7. CASE PumpAcknowledges
    <3>1. /\ pump'.at = "receive" /\ pump.at = "acknowledge"
          /\ \A f \in FollowUp : mailbox'[f] = "applied" => mailbox[f] = "applied" \/ f = pump.on
      BY <1>1, <2>7 DEF PumpAcknowledges, PumpTo, PumpShape
    <3>2. AcknowledgedWasTaken'
      BY <2>1, <3>1 DEF SteerAgrees, AcknowledgedWasTaken, Taken
    <3> QED BY <2>1, <2>4, <2>5, <3>1, <3>2 DEF SteerAgrees
  <2>8. CASE \E f \in FollowUp : FollowUpArrives(f)
    <3>1. /\ UNCHANGED pump
          /\ \A f \in FollowUp : mailbox'[f] = "applied" => mailbox[f] = "applied"
      BY <1>1, <2>8 DEF FollowUpArrives, PumpShape
    <3>2. codex' \in {"idle", "thread", "turn", "compact", "compacting", "close", "ended"}
            => pump.at = "off"
      BY <2>1 DEF SteerAgrees
    <3> QED BY <2>2, <2>3, <2>4, <2>5, <3>1, <3>2, SteerFrame
  <2> QED BY <1>2, <2>6, <2>7, <2>8
<1>3. CASE PumpSteers
  <2>1. /\ UNCHANGED turnVars /\ UNCHANGED <<mailbox, aborted, turnOff, notes>>
        /\ UNCHANGED <<stdout, server, answeredTurn, turnId, codex, recovered, activeTurn>>
        /\ pump.at = "send" /\ pump' = [pump EXCEPT !.at = pump'.at]
    BY <1>1, <1>3 DEF PumpSteers, PumpTo, PumpShape, turnVars, signals, readVars, pipe
  <2>2. /\ NothingForwarded /\ pump.on \in FollowUp /\ activeTurn \in {0, turnId}
        /\ codex \notin {"idle", "thread", "turn", "compact", "compacting", "close", "ended"}
    BY <2>1 DEF SteerAgrees, TurnsAgree
  <2>3. AcknowledgedWasTaken' /\ ~BeforeForwarding'
    BY <2>1, <2>2 DEF SteerAgrees, AcknowledgedWasTaken, BeforeForwarding
  <2>4. CASE activeTurn = 0
    <3>1. pump'.at = "off" /\ UNCHANGED requests
      BY <1>1, <1>3, <2>4 DEF PumpSteers, PumpTo, PumpShape
    <3>2. /\ SteersStayIn /\ SteerAnswerStays /\ NoneCloses
          /\ InterruptStays("interrupt") /\ InterruptStays("interrupt_now")
      BY <3>1, UnchangedStays DEF RequestsStay
    <3>3. TurnsStay
      BY <2>1, <3>2, PipeStays
    <3>4. TurnsAgree'
      BY <2>1, <3>2, <3>3, ApartStays, TurnsFrame DEF TurnsAgree
    <3> QED BY <2>3, <3>1, <3>4 DEF SteerAgrees
  <2>5. CASE activeTurn # 0
    <3>1. PICK n \in Turn, f \in FollowUp : n = activeTurn /\ f = pump.on /\ n = turnId
      BY <1>1, <2>2, <2>5, TurnNumbers DEF TurnShape
    <3>2. pump'.at = "steering" /\ pump'.on = f /\ Ask("steer", n, f)
      BY <1>1, <1>3, <2>5, <3>1 DEF PumpSteers, PumpTo, PumpShape
    <3>3. f \in Forwarded /\ n \in TurnOr0
      BY <3>1, TurnNumbers DEF Forwarded
    <3>4. /\ Asked("steer", n, f) /\ answer'["steer"] \in {"none", "error"}
          /\ \A p \in Request \ {"steer"} : answer'[p] = answer[p]
      BY <1>1, <3>2, <3>3, AskKeeps, RequestNames
    <3> DEFINE r == [q |-> "steer", turn |-> n, on |-> f]
    <3>5. r \in AskLine
      BY <3>3, RequestNames DEF AskLine
    <3>6. /\ NoneCloses /\ InterruptStays("interrupt") /\ InterruptStays("interrupt_now")
      BY <3>4, RequestNames DEF Asked, NoneCloses, InterruptStays, Settled
    <3>7. CASE pending' = pending \cup {"steer"} /\ stdin' = Append(stdin, r)
      <4>1. LinesOf(stdin') = LinesOf(stdin) \cup {r} /\ OneSteer(stdin')
        BY <1>1, <2>2, <3>5, <3>7, LinesAppended DEF RequestShape, NothingForwarded
      <4>2. NoSteer(stdout') /\ \A x \in LinesOf(stdout') : x.q # "steer"
        BY <2>1, <2>2 DEF NothingForwarded, NoSteer, LinesOf
      <4>3. \A x \in LinesOf(stdin) : x.q # "steer"
        BY <2>2 DEF NothingForwarded, NoSteer, LinesOf
      <4>4. OneSteer(stdout')
        BY <4>2 DEF NoSteer, OneSteer
      <4>5. SteerAgrees'
        BY <2>2, <2>3, <3>1, <3>2, <3>7, <4>1, <4>2, <4>3, <4>4, <2>1 DEF SteerAgrees
      <4>6. TurnsStay
        <5>1. \A c \in TurnOr0 : Started(c)' => Started(c)
          BY <2>1 DEF Started
        <5>2. \A c \in TurnOr0 : Ran(c)' => Ran(c)
          BY <2>1, <3>1, <4>1 DEF Ran
        <5> QED BY <2>1, <5>1, <5>2 DEF TurnsStay
      <4>7. TurnsAgree'
        BY <2>1, <3>6, <4>6, ApartStays, TurnsFrame DEF TurnsAgree
      <4> QED BY <4>5, <4>7
    <3>8. CASE answer'["steer"] = "error" /\ UNCHANGED <<pending, stdin>>
      <4>1. "steer" \notin pending' /\ SteersStayIn
        BY <2>2, <3>8 DEF NothingForwarded, SteersStayIn
      <4>2. SteerAgrees'
        BY <2>1, <2>2, <2>3, <3>1, <3>2, <3>8, <4>1 DEF SteerAgrees
      <4>3. TurnsStay
        BY <2>1, <4>1, PipeStays
      <4>4. TurnsAgree'
        BY <2>1, <3>6, <4>3, ApartStays, TurnsFrame DEF TurnsAgree
      <4> QED BY <4>2, <4>4
    <3> QED BY <3>4, <3>7, <3>8 DEF Asked
  <2> QED BY <2>4, <2>5
<1>4. CASE PumpHears
  <2>1. /\ UNCHANGED turnVars /\ UNCHANGED <<mailbox, aborted, notes>>
        /\ UNCHANGED <<stdout, server, answeredTurn, turnId, codex, recovered, activeTurn>>
        /\ pump.at = "steering" /\ "steer" \notin pending
    BY <1>4 DEF PumpHears, Answered, turnVars, readVars, pipe
  <2>2. codex \notin {"idle", "thread", "turn", "compact", "compacting", "close", "ended"}
    BY <2>1 DEF SteerAgrees
  <2>3. AcknowledgedWasTaken' /\ ~BeforeForwarding'
    BY <2>1, <2>2 DEF SteerAgrees, AcknowledgedWasTaken, BeforeForwarding
  <2>4. CASE Granted("steer") /\ ~steeringOff
    <3>1. /\ pump'.at = "acknowledge" /\ pump'.on = pump.on /\ UNCHANGED requests
          /\ UNCHANGED turnOff /\ UNCHANGED <<stdin, pending, answer>>
      BY <1>1, <1>4, <2>4 DEF PumpHears, PumpTo, PumpShape, Granted, requests
    <3>2. /\ SteersStayIn /\ SteerAnswerStays /\ NoneCloses
          /\ InterruptStays("interrupt") /\ InterruptStays("interrupt_now")
      BY <3>1, UnchangedStays DEF RequestsStay
    <3>3. TurnsStay
      BY <2>1, <3>2, PipeStays
    <3>4. TurnsAgree'
      BY <2>1, <3>1, <3>2, <3>3, ApartStays, TurnsFrame DEF TurnsAgree
    <3>5. NothingForwarded /\ Taken(pump.on) /\ pump.on \in FollowUp
      BY <2>1, <2>4 DEF SteerAgrees, Granted
    <3>6. NothingForwarded' /\ Taken(pump.on)'
      BY <2>1, <3>1, <3>5 DEF NothingForwarded, Taken
    <3> QED BY <2>2, <2>1, <2>3, <3>1, <3>4, <3>5, <3>6 DEF SteerAgrees
  <2>5. CASE ~(Granted("steer") /\ ~steeringOff) /\ (steeringOff \/ answer["steer"] = "refused")
    <3>1. /\ pump'.at = "off" /\ UNCHANGED requests /\ UNCHANGED turnOff
      BY <1>1, <1>4, <2>5 DEF PumpHears, PumpTo, PumpShape, Granted
    <3>2. /\ SteersStayIn /\ SteerAnswerStays /\ NoneCloses
          /\ InterruptStays("interrupt") /\ InterruptStays("interrupt_now")
      BY <3>1, UnchangedStays DEF RequestsStay
    <3>3. TurnsStay
      BY <2>1, <3>2, PipeStays
    <3>4. TurnsAgree'
      BY <2>1, <3>1, <3>2, <3>3, ApartStays, TurnsFrame DEF TurnsAgree
    <3> QED BY <2>3, <3>1, <3>4 DEF SteerAgrees
  <2>6. CASE ~(Granted("steer") /\ ~steeringOff) /\ ~(steeringOff \/ answer["steer"] = "refused")
    <3>1. /\ pump'.at = "off" /\ turnOff' = TRUE /\ Interrupts("interrupt_steer")
      BY <1>1, <1>4, <2>6 DEF PumpHears, PumpTo, PumpShape, Granted
    <3>2. /\ SteersStayIn /\ NoneCloses
          /\ InterruptStays("interrupt") /\ InterruptStays("interrupt_now")
      <4>1. PICK n \in TurnOr0 : n = activeTurn
        BY <1>1 DEF TurnShape
      <4>2. /\ \/ /\ Asked("interrupt_steer", n, "none")
                  /\ answer'["interrupt_steer"] \in {"none", "error"}
               \/ answer'["interrupt_steer"] = "skipped" /\ UNCHANGED <<pending, stdin>>
            /\ \A p \in Request \ {"interrupt_steer"} : answer'[p] = answer[p]
        BY <1>1, <3>1, <4>1, InterruptKeeps, RequestNames
      <4>3. CASE /\ Asked("interrupt_steer", n, "none")
                 /\ answer'["interrupt_steer"] \in {"none", "error"}
        BY <1>1, <4>2, <4>3, AskStays, TurnNumbers, RequestNames
      <4>4. CASE answer'["interrupt_steer"] = "skipped" /\ UNCHANGED <<pending, stdin>>
        BY <4>2, <4>4, RequestNames DEF SteersStayIn, NoneCloses, InterruptStays, Settled
      <4> QED BY <4>2, <4>3, <4>4
    <3>3. TurnsStay
      BY <2>1, <3>2, PipeStays
    <3>4. TurnsAgree'
      BY <2>1, <3>1, <3>2, <3>3, ApartStays, TurnsFrame DEF TurnsAgree
    <3> QED BY <2>3, <3>1, <3>4 DEF SteerAgrees
  <2> QED BY <2>4, <2>5, <2>6
<1> QED BY <1>2, <1>3, <1>4 DEF PumpSteering

LEMMA SessionAgrees ==
  ASSUME CodexShape, SteerAgrees, TurnsAgree,
         Abort \/ ServerExits \/ \E q \in Request : RequestTimesOut(q)
  PROVE  SteerAgrees' /\ TurnsAgree'
<1>1. RequestShape /\ TurnShape
  BY DEF CodexShape
<1>2. /\ UNCHANGED <<turnVars, pumpVars, readVars, turnOff, stdout, server>>
      /\ UNCHANGED <<codex, recovered, pump, mailbox, turnId, activeTurn, notes, answeredTurn>>
      /\ UNCHANGED <<outcome, compactTurn>>
  BY DEF Abort, ServerExits, RequestTimesOut, turnVars, pumpVars, readVars, signals, pipe
<1>3. /\ BeforeForwarding' => BeforeForwarding
      /\ codex' \in {"idle", "thread", "turn", "compact", "compacting", "close", "ended"}
           => pump.at = "off"
  BY <1>2 DEF BeforeForwarding, SteerAgrees
<1>4. CASE Abort
  <2>1. aborted' = TRUE /\ Interrupts("interrupt") /\ codex # "ended"
    BY <1>4 DEF Abort
  <2>2. PICK n \in TurnOr0 : n = activeTurn
    BY <1>1 DEF TurnShape
  <2>3. /\ \/ /\ n # 0 /\ Asked("interrupt", n, "none")
              /\ answer'["interrupt"] \in {"none", "error"}
           \/ n = 0 /\ answer'["interrupt"] = "skipped" /\ UNCHANGED <<pending, stdin>>
        /\ \A p \in Request \ {"interrupt"} : answer'[p] = answer[p]
    BY <1>1, <2>1, <2>2, InterruptKeeps, RequestNames
  <2>4. /\ SteersStayIn /\ SteerAnswerStays /\ NoneCloses /\ InterruptStays("interrupt_now")
    <3>1. CASE n # 0
      BY <1>1, <2>3, <3>1, AskStays, TurnNumbers, RequestNames
    <3>2. CASE n = 0
      BY <2>3, <3>2, RequestNames
         DEF SteersStayIn, SteerAnswerStays, NoneCloses, InterruptStays, Settled
    <3> QED BY <3>1, <3>2
  <2>5. SteersStayOut /\ TurnsStay
    BY <1>2, <2>4, PipeStays
  <2>6. SteerAgrees'
    BY <1>2, <1>3, <2>4, <2>5, SteerFrame
  <2>7. CompactionsApart'
    BY <2>5, ApartStays DEF TurnsAgree
  <2>8. answer'["interrupt"] = "skipped" => activeTurn = 0
    BY <2>2, <2>3
  <2>9. /\ \A q \in Request : answer'[q] # "closed"
        /\ answer'["interrupt_now"] # "skipped"
    BY <2>1, <2>4, RequestNames DEF TurnsAgree, NoneCloses, InterruptStays
  <2>10. TurnsAgree'
    BY <1>2, <2>1, <2>7, <2>8, <2>9 DEF TurnsAgree
  <2> QED BY <2>6, <2>10
<1>5. CASE ServerExits \/ \E q \in Request : RequestTimesOut(q)
  <2>1. /\ UNCHANGED <<aborted, stdin>> /\ pending' \subseteq pending
        /\ \A q \in Request : q \in pending' \/ q \notin pending => answer'[q] = answer[q]
        /\ \A q \in pending \ pending' : answer'[q] = "error"
    BY <1>1, <1>5 DEF ServerExits, RequestTimesOut, signals, RequestShape
  <2>2. /\ SteersStayIn /\ SteerAnswerStays /\ NoneCloses
        /\ InterruptStays("interrupt") /\ InterruptStays("interrupt_now")
    <3>1. \A q \in Request : \/ answer'[q] = answer[q]
                             \/ answer'[q] = "error" /\ q \in pending
      BY <1>1, <2>1 DEF RequestShape
    <3>2. SteersStayIn /\ NoneCloses
      BY <2>1, <3>1 DEF SteersStayIn, NoneCloses
    <3>3. SteerAnswerStays
      BY <2>1, <3>1, RequestNames DEF SteerAnswerStays
    <3>4. InterruptStays("interrupt") /\ InterruptStays("interrupt_now")
      BY <2>1, <3>1, RequestNames DEF InterruptStays, Settled
    <3> QED BY <3>2, <3>3, <3>4
  <2>3. SteersStayOut /\ TurnsStay
    BY <1>2, <2>2, PipeStays
  <2>4. SteerAgrees'
    BY <1>2, <1>3, <2>2, <2>3, SteerFrame
  <2>5. TurnsAgree'
    BY <1>2, <2>1, <2>2, <2>3, ApartStays, TurnsFrame DEF TurnsAgree
  <2> QED BY <2>4, <2>5
<1> QED BY <1>4, <1>5

LEMMA HandleLineAgrees ==
  ASSUME CodexShape, SteerAgrees, TurnsAgree, HandleLine
  PROVE  SteerAgrees' /\ TurnsAgree'
<1> DEFINE line == Head(stdout)
<1>1. /\ UNCHANGED <<turnVars, pumpVars, server, stdin, aborted, turnOff>>
      /\ UNCHANGED <<codex, recovered, pump, mailbox, turnId>>
      /\ stdout' = Tail(stdout) /\ stdout # <<>>
  BY DEF HandleLine, turnVars, pumpVars, signals
<1>2. /\ stdout \in Seq(OutLine) /\ notes \in Seq(NoteRead) /\ pending \subseteq Request
      /\ answer \in [Request -> AnswerValue]
  BY DEF CodexShape, PipeShape, ReadShape, RequestShape
<1>3. /\ line \in OutLine /\ line \in LinesOf(stdout)
      /\ \A x \in LinesOf(stdout') : x \in LinesOf(stdout)
      /\ NoSteer(stdout) => NoSteer(stdout') /\ line.q # "steer"
      /\ OneSteer(stdout) => OneSteer(stdout')
      /\ OneSteer(stdout) /\ line.q = "steer" => NoSteer(stdout')
  BY <1>1, <1>2, LinesTaken
<1>4. /\ BeforeForwarding' <=> BeforeForwarding
      /\ codex' \in {"idle", "thread", "turn", "compact", "compacting", "close", "ended"}
           => pump.at = "off"
      /\ \A f : Taken(f)' <=> Taken(f)
  BY <1>1 DEF BeforeForwarding, SteerAgrees, Taken
<1>5. SteersStayIn /\ SteersStayOut
  BY <1>1, <1>3 DEF SteersStayIn, SteersStayOut
<1>6. CASE line.q \in pending
  <2>1. line \in AnswerLine /\ line.q # "none"
    BY <1>2, <1>3, <1>6, RequestNames DEF OutLine, NoteLine
  <2>2. /\ pending' = pending \ {line.q} /\ UNCHANGED notes
        /\ answer' = [answer EXCEPT ![line.q] = line.what]
        /\ answeredTurn' = IF line.turn # 0 THEN line.turn ELSE answeredTurn
    BY <1>6, <2>1 DEF HandleLine
  <2>3. /\ answer'[line.q] = line.what /\ line.what \in {"ok", "refused"}
        /\ \A p \in Request \ {line.q} : answer'[p] = answer[p]
    BY <1>2, <2>1, <2>2 DEF AnswerLine
  <2>4. NoneCloses
    BY <2>3 DEF NoneCloses
  <2>5. InterruptStays("interrupt") /\ InterruptStays("interrupt_now")
    BY <1>6, <2>2, <2>3, RequestNames DEF InterruptStays, Settled
  <2>6. TurnsStay
    <3>1. \A c \in TurnOr0 : Started(c)' => Started(c)
      BY <1>3, <2>2 DEF Started
    <3>2. \A c \in TurnOr0 : Ran(c)' => Ran(c)
      BY <1>1, <1>3, <2>1, <2>2 DEF Ran
    <3> QED BY <1>1, <3>1, <3>2 DEF TurnsStay
  <2>7. TurnsAgree'
    BY <1>1, <2>4, <2>5, <2>6, ApartStays, TurnsFrame DEF TurnsAgree
  <2>8. CASE line.q # "steer"
    <3>1. SteerAnswerStays
      BY <2>2, <2>3, <2>8, RequestNames DEF SteerAnswerStays
    <3> QED BY <1>1, <1>4, <1>5, <2>7, <3>1, SteerFrame
  <2>9. CASE line.q = "steer"
    <3>1. "steer" \in pending /\ "steer" \notin pending' /\ ~NothingForwarded
      BY <1>6, <2>2, <2>9 DEF NothingForwarded
    <3>2. ~BeforeForwarding /\ pump.at \notin {"receive", "send", "acknowledge"}
      BY <3>1 DEF SteerAgrees
    <3>3. AcknowledgedWasTaken'
      BY <1>1, <1>4 DEF SteerAgrees, AcknowledgedWasTaken, Taken
    <3>4. pump.at = "steering" => pump.on \in FollowUp
      BY DEF SteerAgrees
    <3>5. pump.at = "steering" /\ answer'["steer"] = "ok" => NothingForwarded' /\ Taken(pump.on)'
      <4> SUFFICES ASSUME pump.at = "steering", answer'["steer"] = "ok"
                   PROVE  NothingForwarded' /\ Taken(pump.on)'
        OBVIOUS
      <4>1. /\ OneSteer(stdout) /\ (NoSteer(stdin) \/ NoSteer(stdout))
            /\ \A x \in LinesOf(stdout) : x.q = "steer" /\ x.what = "ok" => Taken(pump.on)
        BY <3>1 DEF SteerAgrees
      <4>2. NoSteer(stdin) /\ NoSteer(stdout')
        BY <1>3, <2>9, <4>1
      <4>3. Taken(pump.on)
        BY <1>3, <2>3, <2>9, <4>1
      <4>4. Taken(pump.on)'
        BY <1>1, <4>3 DEF Taken
      <4> QED BY <1>1, <3>1, <4>2, <4>4 DEF NothingForwarded
    <3> QED BY <1>1, <1>4, <2>7, <3>1, <3>2, <3>3, <3>4, <3>5 DEF SteerAgrees
  <2> QED BY <2>8, <2>9
<1>7. CASE line.q \notin pending
  <2>1. UNCHANGED <<pending, answer, answeredTurn>>
    BY <1>7 DEF HandleLine
  <2>2. /\ SteerAnswerStays /\ NoneCloses
        /\ InterruptStays("interrupt") /\ InterruptStays("interrupt_now")
    BY <2>1 DEF SteerAnswerStays, NoneCloses, InterruptStays, Settled
  <2>3. \A c \in TurnOr0 : Started(c)' => Started(c)
    <3>1. CASE line.q = "none"
      <4> DEFINE m == [what |-> line.what, turn |-> line.turn]
      <4>1. notes' = Append(notes, m)
        BY <1>7, <3>1 DEF HandleLine
      <4>2. m \in NoteRead
        BY <1>3, <3>1, RequestNames DEF OutLine, AnswerLine, NoteLine, NoteRead
      <4>3. LinesOf(notes') = LinesOf(notes) \cup {m}
        BY <1>2, <4>1, <4>2, LinesAppended
      <4> QED BY <1>3, <3>1, <4>3 DEF Started
    <3>2. CASE line.q # "none"
      <4>1. UNCHANGED notes
        BY <1>7, <3>2 DEF HandleLine
      <4> QED BY <1>3, <4>1 DEF Started
    <3> QED BY <3>1, <3>2
  <2>4. TurnsStay
    <3>1. \A c \in TurnOr0 : Ran(c)' => Ran(c)
      BY <1>1, <1>3, <2>1 DEF Ran
    <3> QED BY <1>1, <2>3, <3>1 DEF TurnsStay
  <2>5. SteerAgrees'
    BY <1>1, <1>4, <1>5, <2>2, SteerFrame
  <2>6. TurnsAgree'
    BY <1>1, <2>2, <2>4, ApartStays, TurnsFrame DEF TurnsAgree
  <2> QED BY <2>5, <2>6
<1> QED BY <1>6, <1>7

\* What the provider writes, when it is not the answer to a follow-up.
LEMMA LineWritten ==
  ASSUME CodexShape, NEW x \in OutLine, stdout' = Append(stdout, x)
  PROVE  /\ LinesOf(stdout') = LinesOf(stdout) \cup {x}
         /\ x.q # "steer" /\ server.took \subseteq server'.took => SteersStayOut
         /\ NoSteer(stdout) => OneSteer(stdout')
<1>1. stdout \in Seq(OutLine)
  BY DEF CodexShape, PipeShape
<1> QED BY <1>1, LinesAppended DEF SteersStayOut

LEMMA TwoLinesWritten ==
  ASSUME CodexShape, NEW x \in OutLine, NEW y \in OutLine, stdout' = stdout \o <<x, y>>
  PROVE  /\ LinesOf(stdout') = LinesOf(stdout) \cup {x, y}
         /\ x.q # "steer" /\ y.q # "steer" /\ server.took \subseteq server'.took
              => SteersStayOut
<1>1. stdout \in Seq(OutLine)
  BY DEF CodexShape, PipeShape
<1>2. PICK s \in Seq(OutLine) : s = Append(stdout, x)
  <2>1. Append(stdout, x) \in Seq(OutLine)
    BY <1>1
  <2> QED BY <2>1
<1>3. stdout' = Append(s, y)
  BY <1>1, <1>2, TwoAppended
<1>4. /\ LinesOf(s) = LinesOf(stdout) \cup {x}
      /\ NoSteer(stdout) /\ x.q # "steer" => NoSteer(s)
      /\ OneSteer(stdout) /\ x.q # "steer" => OneSteer(s)
  BY <1>1, <1>2, LinesAppended
<1>5. /\ LinesOf(Append(s, y)) = LinesOf(s) \cup {y}
      /\ NoSteer(s) /\ y.q # "steer" => NoSteer(Append(s, y))
      /\ OneSteer(s) /\ y.q # "steer" => OneSteer(Append(s, y))
  BY LinesAppended
<1>6. /\ NoSteer(stdout) /\ x.q # "steer" /\ y.q # "steer" => NoSteer(stdout')
      /\ OneSteer(stdout) /\ x.q # "steer" /\ y.q # "steer" => OneSteer(stdout')
      /\ LinesOf(stdout') = LinesOf(stdout) \cup {x, y}
  BY <1>3, <1>4, <1>5
<1> QED BY <1>6 DEF SteersStayOut

LEMMA RequestServedAgrees ==
  ASSUME CodexShape, SteerAgrees, TurnsAgree, ServerAnswers
  PROVE  SteerAgrees' /\ TurnsAgree'
<1> DEFINE r == Head(stdin)
           n == server.last + 1
<1>1. /\ UNCHANGED <<turnVars, pumpVars, pending, answer, readVars, aborted, turnOff>>
      /\ UNCHANGED <<codex, recovered, pump, mailbox, turnId, notes, answeredTurn>>
      /\ stdin' = Tail(stdin) /\ stdin # <<>> /\ Served(r, n)
  BY DEF ServerAnswers, Served, turnVars, pumpVars, signals, readVars
<1>2. stdin \in Seq(AskLine) /\ server \in ServerState
  BY DEF CodexShape, RequestShape, PipeShape
<1>3. /\ r \in AskLine /\ r \in LinesOf(stdin)
      /\ \A x \in LinesOf(stdin') : x \in LinesOf(stdin)
      /\ NoSteer(stdin) => NoSteer(stdin') /\ r.q # "steer"
      /\ OneSteer(stdin) => OneSteer(stdin')
      /\ OneSteer(stdin) /\ r.q = "steer" => NoSteer(stdin')
  BY <1>1, <1>2, LinesTaken
<1>4. /\ BeforeForwarding' => BeforeForwarding
      /\ codex' \in {"idle", "thread", "turn", "compact", "compacting", "close", "ended"}
           => pump.at = "off"
  BY <1>1 DEF BeforeForwarding, SteerAgrees
<1>5. /\ SteersStayIn /\ SteerAnswerStays /\ NoneCloses
      /\ InterruptStays("interrupt") /\ InterruptStays("interrupt_now")
  BY <1>1, <1>3 DEF SteersStayIn, SteerAnswerStays, NoneCloses, InterruptStays, Settled
<1>6. /\ r.q \in Request /\ r.turn \in TurnOr0 /\ r.on \in Forwarded
      /\ server.last \in Nat /\ server.took \in SUBSET (Forwarded \X TurnOr0)
  BY <1>2, <1>3, TurnNumbers DEF AskLine, ServerState
<1>7. /\ \A w \in {"ok", "refused"}, t \in TurnOr0 : Line(r.q, w, t) \in OutLine
      /\ \A w \in {"started", "interrupted"}, t \in TurnOr0 : Note(w, t) \in OutLine
  BY <1>6 DEF Note, Line, OutLine, AnswerLine, NoteLine, NoteKind, TurnEnd
<1>8. /\ n \in Nat /\ n # 0 /\ n > server.last /\ ~(n <= server.last)
      /\ \A c \in TurnOr0 : c <= server.last => c <= n
      /\ 0 <= server.last /\ 0 <= n /\ n <= n
  BY <1>6, TurnNumbers
<1>9. n \in TurnOr0 => ~Started(n) /\ ~Ran(n)
  BY <1>8 DEF TurnsAgree, CompactionsApart
<1> HIDE DEF n
<1>10. ASSUME CompactionsApart' PROVE TurnsAgree'
  BY <1>1, <1>5, <1>10, TurnsFrame
<1>11. ASSUME SteersStayOut PROVE SteerAgrees'
  BY <1>1, <1>4, <1>5, <1>11, SteerFrame
<1>12. /\ \A x \in LinesOf(stdin') : x \in LinesOf(stdin)
       /\ r.q = "steer" => Ran(r.turn)
  BY <1>3 DEF Ran
\* The turns that are announced, or told of, by a line.
<1>13. ASSUME NEW x \in OutLine, NEW y \in OutLine, server'.last = server.last,
              LinesOf(stdout') \subseteq LinesOf(stdout) \cup {x, y},
              \A z \in {x, y} : /\ ~(z.q = "none" /\ z.what = "started")
                                /\ z.q # "none" => z.turn = 0 \/ Ran(z.turn)
       PROVE  CompactionsApart'
  <2>1. \A c \in TurnOr0 : Started(c)' => Started(c)
    <3>1. \A z \in LinesOf(stdout') : z.q = "none" /\ z.what = "started" => z \in LinesOf(stdout)
      BY <1>13
    <3> QED BY <1>1, <3>1 DEF Started
  <2>2. \A c \in TurnOr0 : Ran(c)' => c = 0 \/ Ran(c)
    BY <1>1, <1>12, <1>13 DEF Ran
  <2> QED BY <1>8, <1>13, <2>1, <2>2 DEF CompactionsApart, TurnsAgree
<1>14. ASSUME stdout' = Append(stdout, Line(r.q, "refused", 0)), UNCHANGED server
       PROVE  SteerAgrees' /\ TurnsAgree'
  <2> DEFINE x == Line(r.q, "refused", 0)
  <2>1. x \in OutLine /\ x.q = r.q /\ x.q # "none" /\ x.turn = 0 /\ x.what = "refused"
    BY <1>6, <1>7, TurnNumbers, RequestNames DEF Line
  <2>2. /\ LinesOf(stdout') = LinesOf(stdout) \cup {x}
        /\ x.q # "steer" => SteersStayOut
        /\ NoSteer(stdout) => OneSteer(stdout')
    BY <1>14, <2>1, LineWritten
  <2> HIDE DEF x
  <2>3. CompactionsApart'
    <3>1. PICK z \in OutLine : z = x
      BY <2>1
    <3> QED BY <1>13, <1>14, <2>1, <2>2, <3>1
  <2>4. CASE r.q # "steer"
    BY <1>10, <1>11, <2>1, <2>2, <2>3, <2>4
  <2>5. CASE r.q = "steer"
    <3>1. ~NothingForwarded
      BY <1>3, <2>5 DEF NothingForwarded
    <3>2. /\ ~BeforeForwarding' /\ pump'.at \notin {"receive", "send", "acknowledge"}
          /\ pump'.at = "steering" => pump'.on \in FollowUp
          /\ \A f : Taken(f)' <=> Taken(f)
      BY <1>1, <1>4, <1>14, <3>1 DEF SteerAgrees, Taken
    <3>3. AcknowledgedWasTaken'
      BY <1>1, <1>14 DEF SteerAgrees, AcknowledgedWasTaken
    <3>4. pump'.at = "steering" /\ "steer" \in pending' =>
            /\ OneSteer(stdin') /\ OneSteer(stdout') /\ NoSteer(stdin')
            /\ \A y \in LinesOf(stdin') : y.q = "steer" => y.on = pump'.on /\ y.turn \in Turn
            /\ \A y \in LinesOf(stdout') : y.q = "steer" /\ y.what = "ok" => Taken(pump.on)'
      BY <1>1, <1>3, <2>1, <2>2, <2>5, <3>2 DEF SteerAgrees
    <3>5. ~(pump'.at = "steering" /\ "steer" \notin pending' /\ answer'["steer"] = "ok")
      BY <1>1, <3>1 DEF SteerAgrees
    <3>6. SteerAgrees'
      BY <1>1, <1>4, <3>2, <3>3, <3>4, <3>5 DEF SteerAgrees
    <3> QED BY <1>10, <2>3, <3>6
  <2> QED BY <2>4, <2>5
<1>15. ASSUME r.q = "thread", stdout' = Append(stdout, Line(r.q, "ok", 0)), UNCHANGED server
       PROVE  SteerAgrees' /\ TurnsAgree'
  <2> DEFINE x == Line(r.q, "ok", 0)
  <2>1. x \in OutLine /\ x.q = "thread" /\ x.turn = 0
    BY <1>6, <1>7, <1>15, TurnNumbers DEF Line
  <2>2. LinesOf(stdout') = LinesOf(stdout) \cup {x} /\ SteersStayOut
    BY <1>15, <2>1, LineWritten
  <2> HIDE DEF x
  <2>3. CompactionsApart'
    <3>1. PICK z \in OutLine : z = x
      BY <2>1
    <3> QED BY <1>13, <1>15, <2>1, <2>2, <3>1
  <2> QED BY <1>10, <1>11, <2>2, <2>3
<1>16. ASSUME r.q = "turn", server.turn = 0, n \in Turn,
              server' = [server EXCEPT !.turn = n, !.last = n, !.kind = "turn"],
              stdout' = Append(stdout, Line(r.q, "ok", n))
       PROVE  SteerAgrees' /\ TurnsAgree'
  <2> DEFINE x == Line(r.q, "ok", n)
  <2>1. x \in OutLine /\ x.q = "turn" /\ x.turn = n
    BY <1>7, <1>16, TurnNumbers DEF Line
  <2>2. server'.last = n /\ server'.took = server.took
    BY <1>2, <1>16 DEF ServerState
  <2>3. LinesOf(stdout') = LinesOf(stdout) \cup {x} /\ SteersStayOut
    BY <1>16, <2>1, <2>2, LineWritten
  <2> HIDE DEF x
  <2>4. \A c \in TurnOr0 : Started(c)' => Started(c)
    BY <1>1, <2>1, <2>3 DEF Started
  <2>5. \A c \in TurnOr0 : Ran(c)' => c = n \/ Ran(c)
    BY <1>1, <1>12, <2>1, <2>3 DEF Ran
  <2>6. CompactionsApart'
    BY <1>8, <1>9, <2>2, <2>4, <2>5 DEF CompactionsApart, TurnsAgree
  <2> QED BY <1>10, <1>11, <2>3, <2>6
<1>17. ASSUME r.q = "compact", server.turn = 0, n \in Turn,
              server' = [server EXCEPT !.turn = n, !.last = n, !.kind = "compact"],
              stdout' = stdout \o <<Line(r.q, "ok", 0), Note("started", n)>>
       PROVE  SteerAgrees' /\ TurnsAgree'
  <2> DEFINE x == Line(r.q, "ok", 0)
             y == Note("started", n)
  <2>1. /\ x \in OutLine /\ x.q = "compact" /\ x.turn = 0
        /\ y \in OutLine /\ y.q = "none" /\ y.turn = n
    BY <1>7, <1>17, TurnNumbers DEF Line, Note
  <2>2. server'.last = n /\ server'.took = server.took
    BY <1>2, <1>17 DEF ServerState
  <2>3. LinesOf(stdout') = LinesOf(stdout) \cup {x, y} /\ SteersStayOut
    BY <1>17, <2>1, <2>2, TwoLinesWritten
  <2> HIDE DEF x, y
  <2>4. \A c \in TurnOr0 : Started(c)' => c = n \/ Started(c)
    BY <1>1, <2>1, <2>3 DEF Started
  <2>5. \A c \in TurnOr0 : Ran(c)' => c = 0 \/ Ran(c)
    BY <1>1, <1>12, <2>1, <2>3 DEF Ran
  <2>6. CompactionsApart'
    BY <1>8, <1>9, <2>2, <2>4, <2>5 DEF CompactionsApart, TurnsAgree
  <2> QED BY <1>10, <1>11, <2>3, <2>6
<1>18. ASSUME r.q = "steer", server.turn = r.turn,
              server' = [server EXCEPT !.took = server.took \cup {<<r.on, r.turn>>}],
              stdout' = Append(stdout, Line(r.q, "ok", r.turn))
       PROVE  SteerAgrees' /\ TurnsAgree'
  <2> DEFINE x == Line(r.q, "ok", r.turn)
  <2>1. x \in OutLine /\ x.q = "steer" /\ x.turn = r.turn /\ x.what = "ok"
    BY <1>6, <1>7, <1>18 DEF Line
  <2>2. server'.last = server.last /\ server'.took = server.took \cup {<<r.on, r.turn>>}
    BY <1>2, <1>18 DEF ServerState
  <2>3. LinesOf(stdout') = LinesOf(stdout) \cup {x} /\ (NoSteer(stdout) => OneSteer(stdout'))
    BY <1>18, <2>1, LineWritten
  <2> HIDE DEF x
  <2>4. CompactionsApart'
    <3>1. PICK z \in OutLine : z = x
      BY <2>1
    <3> QED BY <1>12, <1>13, <1>18, <2>1, <2>2, <2>3, <3>1
  <2>5. ~NothingForwarded
    BY <1>3, <1>18 DEF NothingForwarded
  <2>6. /\ ~BeforeForwarding' /\ pump'.at \notin {"receive", "send", "acknowledge"}
        /\ pump'.at = "steering" => pump'.on \in FollowUp
    BY <1>1, <1>4, <2>5 DEF SteerAgrees
  <2>7. \A f : Taken(f) => Taken(f)'
    BY <2>2 DEF Taken
  <2>8. AcknowledgedWasTaken'
    BY <1>1, <2>2 DEF SteerAgrees, AcknowledgedWasTaken
  <2>9. pump'.at = "steering" /\ "steer" \in pending' =>
          /\ OneSteer(stdin') /\ OneSteer(stdout') /\ NoSteer(stdin')
          /\ \A y \in LinesOf(stdin') : y.q = "steer" => y.on = pump'.on /\ y.turn \in Turn
          /\ \A y \in LinesOf(stdout') : y.q = "steer" /\ y.what = "ok" => Taken(pump.on)'
    <3> SUFFICES ASSUME pump.at = "steering", "steer" \in pending
                 PROVE  /\ OneSteer(stdin') /\ OneSteer(stdout') /\ NoSteer(stdin')
                        /\ \A y \in LinesOf(stdin') :
                             y.q = "steer" => y.on = pump'.on /\ y.turn \in Turn
                        /\ \A y \in LinesOf(stdout') :
                             y.q = "steer" /\ y.what = "ok" => Taken(pump.on)'
      BY <1>1
    <3>1. /\ OneSteer(stdin) /\ NoSteer(stdout) /\ r.on = pump.on /\ r.turn \in Turn
      BY <1>3, <1>18 DEF SteerAgrees
    <3>2. Taken(pump.on)'
      BY <1>1, <2>2, <3>1 DEF Taken
    <3> QED BY <1>1, <1>3, <1>18, <2>3, <3>1, <3>2 DEF SteerAgrees
  <2>10. ~(pump'.at = "steering" /\ "steer" \notin pending' /\ answer'["steer"] = "ok")
    BY <1>1, <2>5 DEF SteerAgrees
  <2>11. SteerAgrees'
    BY <1>1, <1>4, <2>6, <2>8, <2>9, <2>10 DEF SteerAgrees
  <2> QED BY <1>10, <2>4, <2>11
<1>19. ASSUME r.q \in {"interrupt", "interrupt_now", "interrupt_steer"}, server.turn = r.turn,
              server' = [server EXCEPT !.turn = 0,
                                !.ended = Append(server.ended, <<r.turn, "interrupted">>)],
              stdout' = stdout \o <<Line(r.q, "ok", 0), Note("interrupted", r.turn)>>
       PROVE  SteerAgrees' /\ TurnsAgree'
  <2> DEFINE x == Line(r.q, "ok", 0)
             y == Note("interrupted", r.turn)
  <2>1. /\ x \in OutLine /\ x.q = r.q /\ x.turn = 0 /\ x.q # "steer" /\ x.q # "none"
        /\ y \in OutLine /\ y.q = "none" /\ y.what = "interrupted"
    BY <1>6, <1>7, <1>19, TurnNumbers DEF Line, Note
  <2>2. server'.last = server.last /\ server'.took = server.took
    BY <1>2, <1>19 DEF ServerState
  <2>3. LinesOf(stdout') = LinesOf(stdout) \cup {x, y} /\ SteersStayOut
    BY <1>19, <2>1, <2>2, TwoLinesWritten
  <2> HIDE DEF x, y
  <2>4. CompactionsApart'
    <3>1. PICK z \in OutLine, m \in OutLine : z = x /\ m = y
      BY <2>1
    <3> QED BY <1>13, <2>1, <2>2, <2>3, <3>1
  <2> QED BY <1>10, <1>11, <2>3, <2>4
<1> QED BY <1>1, <1>14, <1>15, <1>16, <1>17, <1>18, <1>19 DEF Served

LEMMA ProviderAgrees ==
  ASSUME CodexShape, SteerAgrees, TurnsAgree, ServerConfirms \/ ServerEndsTurn \/ ServerDies
  PROVE  SteerAgrees' /\ TurnsAgree'
<1>1. /\ UNCHANGED <<turnVars, pumpVars, requests, aborted, turnOff, link>>
      /\ UNCHANGED <<codex, recovered, pump, mailbox, turnId, notes, answeredTurn>>
      /\ UNCHANGED <<pending, answer, stdin>>
  BY DEF ServerConfirms, ServerEndsTurn, ServerDies, turnVars, pumpVars, requests, signals,
         readVars
<1>2. /\ SteersStayIn /\ SteerAnswerStays /\ NoneCloses
      /\ InterruptStays("interrupt") /\ InterruptStays("interrupt_now")
  BY <1>1, UnchangedStays DEF RequestsStay
<1>3. /\ BeforeForwarding' => BeforeForwarding
      /\ codex' \in {"idle", "thread", "turn", "compact", "compacting", "close", "ended"}
           => pump.at = "off"
  BY <1>1 DEF BeforeForwarding, SteerAgrees
<1>4. server \in ServerState
  BY DEF CodexShape, PipeShape
<1>5. SteersStayOut /\ TurnsStay
  <2>1. CASE ServerDies
    <3>1. UNCHANGED stdout /\ server'.last = server.last /\ server'.took = server.took
      BY <1>4, <2>1 DEF ServerDies, ServerState
    <3> QED BY <1>1, <3>1 DEF SteersStayOut, TurnsStay, Started, Ran
  <2>2. CASE ServerConfirms \/ ServerEndsTurn
    <3>1. PICK w \in NoteKind \ {"started"}, t \in TurnOr0 :
            /\ stdout' = Append(stdout, Note(w, t))
            /\ server'.last = server.last /\ server'.took = server.took
      <4>1. CASE ServerConfirms
        BY <1>4, <4>1 DEF ServerConfirms, NoteKind, ServerState
      <4>2. CASE ServerEndsTurn
        <5>1. PICK w \in TurnEnd :
                /\ server' = [server EXCEPT !.turn = 0,
                                     !.ended = Append(server.ended, <<server.turn, w>>)]
                /\ stdout' = Append(stdout, Note(w, server.turn))
          BY <4>2 DEF ServerEndsTurn, TurnEnd
        <5>2. w \in NoteKind \ {"started"} /\ server.turn \in TurnOr0
          BY <1>4 DEF NoteKind, TurnEnd, ServerState
        <5>3. server'.last = server.last /\ server'.took = server.took
          BY <1>4, <5>1 DEF ServerState
        <5> QED BY <5>1, <5>2, <5>3
      <4> QED BY <2>2, <4>1, <4>2
    <3> DEFINE x == Note(w, t)
    <3>2. x \in OutLine /\ x.q = "none" /\ x.what # "started"
      BY <3>1 DEF Note, Line, OutLine, NoteLine
    <3>3. LinesOf(stdout') = LinesOf(stdout) \cup {x} /\ SteersStayOut
      BY <3>1, <3>2, LineWritten
    <3> HIDE DEF x
    <3>4. \A c \in TurnOr0 : (Started(c)' => Started(c)) /\ (Ran(c)' => Ran(c))
      BY <1>1, <3>2, <3>3 DEF Started, Ran
    <3> QED BY <3>1, <3>3, <3>4 DEF TurnsStay
  <2> QED BY <2>1, <2>2
<1>6. SteerAgrees'
  BY <1>1, <1>2, <1>3, <1>5, SteerFrame
<1>7. TurnsAgree'
  BY <1>1, <1>2, <1>5, ApartStays, TurnsFrame DEF TurnsAgree
<1> QED BY <1>6, <1>7

LEMMA CodexAgrees == CodexSpec => [](SteerAgrees /\ TurnsAgree)
<1>1. CodexInit => SteerAgrees /\ TurnsAgree
  <2> SUFFICES ASSUME CodexInit PROVE SteerAgrees /\ TurnsAgree
    OBVIOUS
  <2>1. /\ codex = "idle" /\ outcome = "none" /\ turnId = 0 /\ answeredTurn = 0
        /\ activeTurn = 0 /\ pump = [at |-> "off", on |-> "none"]
        /\ mailbox = [f \in FollowUp |-> "absent"] /\ aborted = FALSE
        /\ pending = {} /\ answer = [q \in Request |-> "none"]
        /\ stdin = <<>> /\ stdout = <<>> /\ notes = <<>> /\ server.last = 0
    BY DEF CodexInit
  <2>2. NothingForwarded /\ AcknowledgedWasTaken
    BY <2>1, NoLines DEF NothingForwarded, AcknowledgedWasTaken
  <2>3. CompactionsApart
    BY <2>1, NoLines, TurnNumbers DEF CompactionsApart, Started, Ran
  <2>4. answer["interrupt_now"] = "none" /\ answer["interrupt"] = "none"
    BY <2>1, RequestNames
  <2> QED BY <2>1, <2>2, <2>3, <2>4 DEF SteerAgrees, TurnsAgree
<1>2. /\ CodexShape /\ CodexShape' /\ SteerAgrees /\ TurnsAgree /\ [CodexNext]_codexVars
      => SteerAgrees' /\ TurnsAgree'
  <2> SUFFICES ASSUME CodexShape, SteerAgrees, TurnsAgree, [CodexNext]_codexVars
               PROVE  SteerAgrees' /\ TurnsAgree'
    OBVIOUS
  <2>1. CASE UNCHANGED codexVars
    <3>1. /\ UNCHANGED turnVars /\ UNCHANGED requests
          /\ UNCHANGED <<codex, recovered, pump, mailbox, aborted, turnOff>>
          /\ UNCHANGED <<stdout, server, answeredTurn, turnId, notes>>
      BY <2>1 DEF codexVars, turnVars, pumpVars, signals, requests, readVars, pipe
    <3>2. /\ SteersStayIn /\ SteerAnswerStays /\ NoneCloses
          /\ InterruptStays("interrupt") /\ InterruptStays("interrupt_now")
      BY <3>1, UnchangedStays DEF RequestsStay
    <3>3. SteersStayOut /\ TurnsStay
      BY <3>1, <3>2, PipeStays
    <3>4. /\ BeforeForwarding' => BeforeForwarding
          /\ codex' \in {"idle", "thread", "turn", "compact", "compacting", "close", "ended"}
               => pump.at = "off"
      BY <3>1 DEF BeforeForwarding, SteerAgrees
    <3>5. SteerAgrees'
      BY <3>1, <3>2, <3>3, <3>4, SteerFrame
    <3>6. TurnsAgree'
      BY <3>1, <3>2, <3>3, ApartStays, TurnsFrame DEF TurnsAgree
    <3> QED BY <3>5, <3>6
  <2>2. CASE RunAppServer
    BY <2>2, TurnActionsAgree, TurnStartedAgrees, CloseAgrees DEF RunAppServer
  <2>3. CASE PumpSteering \/ \E f \in FollowUp : FollowUpArrives(f)
    BY <2>3, PumpAgrees
  <2>4. CASE Abort \/ ServerExits \/ \E q \in Request : RequestTimesOut(q)
    BY <2>4, SessionAgrees
  <2>5. CASE HandleLine
    BY <2>5, HandleLineAgrees
  <2>6. CASE ServerAnswers
    BY <2>6, RequestServedAgrees
  <2>7. CASE ServerConfirms \/ ServerEndsTurn \/ ServerDies
    BY <2>7, ProviderAgrees
  <2> QED BY <2>1, <2>2, <2>3, <2>4, <2>5, <2>6, <2>7 DEF CodexNext
<1> QED BY <1>1, <1>2, CodexShapeHolds, PTL DEF CodexSpec

\* A follow-up is acknowledged only when the provider took it into a turn: the
\* answer that is waited for is always about the follow-up in hand.
THEOREM AcknowledgementsAreTrue == CodexSpec => []AcknowledgedWasTaken
<1>1. SteerAgrees => AcknowledgedWasTaken
  BY DEF SteerAgrees
<1> QED BY <1>1, CodexAgrees, PTL

\* A cancelled run has asked its turn to stop before its process is ended, however
\* the cancellation fell between the request for the turn and its answer.
THEOREM CancellationsInterrupt == CodexSpec => []InterruptsWhatItCancels
<1>1. TurnsAgree => InterruptsWhatItCancels
  BY DEF TurnsAgree, Settled, InterruptsWhatItCancels
<1> QED BY <1>1, CodexAgrees, PTL

=============================================================================
