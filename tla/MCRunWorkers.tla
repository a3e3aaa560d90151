---------------------------- MODULE MCRunWorkers ----------------------------
(***************************************************************************)
(* Small instances of RunWorkers: one thread of one project.               *)
(***************************************************************************)
EXTENDS RunWorkers, TLC

CONSTANTS m1, m2, m3, t1, t2, p1, w1, w2

OneThread == [m \in Msg |-> t1]
\* Two threads bound to one project.
TwoThreads == [m \in Msg |-> IF m = m2 THEN t2 ELSE t1]
InProject == [t \in Thread |-> p1]
AllModel == [m \in Msg |-> "model"]
AllMessages == [m \in Msg |-> "message"]

\* A conversation, a routine and the question "what is running?".
WithStatus == [m \in Msg |-> IF m = m1 THEN "thread-status" ELSE "model"]
\* A conversation with an operator's follow-up, and a routine in the second thread.
WithSources == [m \in Msg |-> CASE m = m2 -> "routine" [] m = m3 -> "operator" [] OTHER -> "message"]
WithRoutine == [m \in Msg |-> IF m = m2 THEN "routine" ELSE "message"]

Interchangeable == Permutations(Msg) \cup Permutations(Worker)
WorkerSymmetry == Permutations(Worker)
=============================================================================
