----------------------------- MODULE OneTimeGrant -----------------------------
(***************************************************************************)
(* What an approval of one exact write promises: it is granted or refused  *)
(* once, it is used at most once, and nothing is done without a grant.     *)
(* ToolApprovals is shown to implement this.                               *)
(***************************************************************************)
EXTENDS Naturals

CONSTANT Grant

VARIABLES state,           \* where a grant stands
          uses             \* how often the write was made under it

GrantState == {"unasked", "asked", "granted", "used", "refused"}

\* "used" means taken into use: the write may or may not have been made by then.
May == [unasked |-> {"asked"},
        asked   |-> {"granted", "refused"},
        granted |-> {"used", "refused"},
        used    |-> {},
        refused |-> {}]

Init == /\ state = [g \in Grant |-> "unasked"]
        /\ uses = [g \in Grant |-> 0]

\* A grant moves on, and the write is made at most once, under a grant in use.
Next == /\ state' \in [Grant -> GrantState]
        /\ uses' \in [Grant -> 0 .. 1]
        /\ \A g \in Grant :
             /\ state'[g] = state[g] \/ state'[g] \in May[state[g]]
             /\ uses'[g] = uses[g] \/ /\ uses'[g] = uses[g] + 1
                                      /\ state[g] = "used"

Spec == Init /\ [][Next]_<<state, uses>>
=============================================================================
