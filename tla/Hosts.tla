-------------------------------- MODULE Hosts --------------------------------
(***************************************************************************)
(* The processes that share one store: the server, the workers and the     *)
(* scheduler, each of which may be killed and restarted.                   *)
(***************************************************************************)
CONSTANTS Host,            \* a process, or a request one of them serves
          None

ASSUME NoneIsNoHost == None \notin Host
=============================================================================
