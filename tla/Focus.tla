--------------------------------- MODULE Focus ---------------------------------
(***************************************************************************)
(* Components that share hosts and a store's file but none of its tables are  *)
(* explored side by side: `focus` names the one that moves in a behaviour,   *)
(* the others stay in their initial states.                                  *)
(***************************************************************************)
VARIABLE focus
=============================================================================
