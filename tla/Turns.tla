-------------------------------- MODULE Turns --------------------------------
(***************************************************************************)
(* What MaxTag promises the people in a thread, whatever workers, leases   *)
(* and mailboxes do behind it: every message that was accepted is waiting, *)
(* being worked on, or has one outcome, which never changes; a stopped     *)
(* message is never answered; and a conversation is worked on one message  *)
(* at a time.  RunLedger is shown to implement this.                       *)
(***************************************************************************)
CONSTANTS Msg, ThreadOf,
          InTurn           \* which messages take their turn

VARIABLE fate

Fate == {"unknown", "waiting", "working", "stopping", "answered", "failed", "dropped"}
Outcome == {"answered", "failed", "dropped"}

\* From "working" back to "waiting": the worker gave the message back.
\* From "waiting" to "answered": a follow-up that an active turn took in.
May == [unknown  |-> {"waiting"},
        waiting  |-> {"working"} \cup Outcome,
        working  |-> {"waiting", "stopping"} \cup Outcome,
        stopping |-> {"failed", "dropped"},
        answered |-> {}, failed |-> {}, dropped |-> {}]

AtWork(f, m) == f[m] \in {"working", "stopping"}

OneAtATime(f) ==
  \A m, n \in Msg : /\ InTurn[m] /\ InTurn[n] /\ ThreadOf[m] = ThreadOf[n]
                    /\ AtWork(f, m) /\ AtWork(f, n)
                    => m = n

Init == fate = [m \in Msg |-> "unknown"]

Next == /\ fate' \in [Msg -> Fate]
        /\ \A m \in Msg : fate'[m] = fate[m] \/ fate'[m] \in May[fate[m]]
        /\ OneAtATime(fate')

Spec == Init /\ [][Next]_fate
=============================================================================
