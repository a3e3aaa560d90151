---------------------------- MODULE MCSyncIngress ----------------------------
(***************************************************************************)
(* Small instances of SyncIngress: two threads of one project.             *)
(***************************************************************************)
EXTENDS SyncIngress, TLC

CONSTANTS m1, m2, m3, t1, t2, p1, w1, w2

TwoThreads == [m \in Msg |-> IF m = m2 THEN t2 ELSE t1]
InProject == [t \in Thread |-> p1]
AllModel == [m \in Msg |-> "model"]
AllMessages == [m \in Msg |-> "message"]

\* A conversation with an operator's follow-up, and a routine in the second thread.
WithSources == [m \in Msg |-> CASE m = m2 -> "routine" [] m = m3 -> "operator" [] OTHER -> "message"]

WorkerSymmetry == Permutations(Worker)
=============================================================================
