----------------------------- MODULE SyncIngress -----------------------------
(***************************************************************************)
(* The synchronous ingress of the server (runMessageSync): a request that  *)
(* did not ask for "async" creates its run in the ledger and executes it   *)
(* in the request, without claiming it.  executeAgentRun then starts the   *)
(* run with markAgentRunRunning, a plain updateAgentRun, while workers and *)
(* operators use the same ledger.                                          *)
(***************************************************************************)
EXTENDS RunLedger

VARIABLE requests   \* runs created by a request that has not started them yet

syncVars == <<runs, steering, inbound, clock, requests>>

SyncInit == Init /\ requests = {}

\* createAgentRunOrSteer from runMessageSync: a steered message ends the request.
Submit(m) ==
  /\ SourceOf[m] = "message"
  /\ CreateAgentRunOrSteer(m)
  /\ requests' = IF Exists(runs', Turn(m)) THEN requests \cup {Turn(m)} ELSE requests

\* updateAgentRun(id, 'running'): refused by a terminal run only.
MarkAgentRunRunning(r, w) ==
  /\ Active(runs, r)
  /\ runs' = [runs EXCEPT ![r].status = "running", ![r].workerId = w, ![r].started = TRUE]
  /\ UNCHANGED <<steering, inbound, clock>>

\* Mutant: the start does not look at how the run ended meanwhile.
StartUnclaimedBlind(r, w) ==
  /\ r \in requests
  /\ runs' = [runs EXCEPT ![r].status = "running", ![r].workerId = w, ![r].started = TRUE]
  /\ requests' = requests \ {r}
  /\ UNCHANGED <<steering, inbound, clock>>

\* executeAgentRun without alreadyClaimed.
StartUnclaimed(r, w) ==
  /\ r \in requests
  /\ IF Terminal(runs, r) THEN UNCHANGED ledgerVars ELSE MarkAgentRunRunning(r, w)
  /\ requests' = requests \ {r}

SyncNext ==
  \/ Next /\ UNCHANGED requests
  \/ \E m \in Msg : Submit(m)
  \/ \E r \in RunId, w \in Worker : StartUnclaimed(r, w)

SyncSpec == SyncInit /\ [][SyncNext]_syncVars

-----------------------------------------------------------------------------
(* Properties *)

\* docs/adr/0002: "Only one model run may own a Project runtime at a time, including
\* across workers sharing the state store": two model runs never execute on one runtime.
SyncRuntimeExclusive == RuntimeExclusive

=============================================================================
