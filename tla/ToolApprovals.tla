----------------------------- MODULE ToolApprovals -----------------------------
(***************************************************************************)
(* One-time approvals of exact writes.  An agent asks for a write, a person *)
(* approves or rejects it, whoever gets there first (the click, an HTTP     *)
(* request, a worker's pass) claims it and makes the write, and the run is  *)
(* continued with the result.  Hosts die anywhere in between.               *)
(*                                                                         *)
(* Sources: packages/delivery/src/file-delivery-store.ts 183-196 and        *)
(* 3046-3286, packages/tool-broker/src/index.ts 2881-3045 and 3129-3190,    *)
(* packages/runtime-host/src/index.ts 1433-1503 and its twin in             *)
(* apps/server/src/index.ts, tool-approval-continuation.ts.                 *)
(***************************************************************************)
EXTENDS Hosts, Naturals, FiniteSets

CONSTANTS Call,            \* exact writes: run, tool, arguments, credential
          Approval,        \* the ids approvals are given, each used once
          ApprovalsKept,   \* how many records the store keeps (2000)
          MaxApprovalCrashes

ASSUME ApprovalsKeptIsNat == ApprovalsKept \in Nat
ASSUME NoneIsNoCall == None \notin Call
ASSUME NoneIsNoApproval == None \notin Approval

VARIABLES approval,        \* status of every approval id
          writeOf,         \* the write it is for
          pastExpiry,      \* its expiresAt has passed
          claimant,        \* claimedBy
          continuation,    \* continuationStatus
          requestedAt,     \* how many were asked for before it
          writes,          \* history: writes the outside service saw
          continued,       \* approvals whose continuation message was accepted
          executor,        \* what each host is doing with an approval
          approvalCrashes

approvalVars == <<approval, writeOf, pastExpiry, claimant, continuation,
                  requestedAt, writes, continued, executor, approvalCrashes>>

ApprovalStatus == {"pending", "approved", "executing", "succeeded", "failed",
                   "rejected", "expired"}
TerminalApproval == {"succeeded", "failed", "rejected", "expired"}

\* An id is absent before it is drawn and forgotten once its record is spliced out.
ApprovalKept(a) == approval[a] \notin {"absent", "forgotten"}
NoExecution == [on |-> None, at |-> "idle"]
ExecutionPhase == {"found", "claimed", "ran", "erred", "completed", "staged"}

(***************************************************************************)
(* The store.                                                              *)
(***************************************************************************)

\* Every operation of the store but the outcomes first expires what is past its time.
ExpireToolApprovals ==
  [a \in Approval |-> IF approval[a] \in {"pending", "approved"} /\ pastExpiry[a]
                        THEN "expired" ELSE approval[a]]

\* Beyond ApprovalsKept the oldest terminal records go.
Forgetting(st, ord) ==
  LET live == {a \in Approval : st[a] \notin {"absent", "forgotten"}}
      terminal == {a \in live : st[a] \in TerminalApproval}
      excess == Cardinality(live) - ApprovalsKept
      goes(a) == /\ a \in terminal
                 /\ Cardinality({b \in terminal : ord[b] < ord[a]}) < excess
  IN [a \in Approval |-> IF goes(a) THEN "forgotten" ELSE st[a]]

AskedFor(c) == {a \in Approval : ApprovalKept(a) /\ writeOf[a] = c}

\* The broker asks for a write; the same write of the same run is asked for once.
ProposeToolApproval(c) ==
  LET expired == ExpireToolApprovals IN
  \/ /\ AskedFor(c) # {}
     /\ approval' = expired
     /\ UNCHANGED <<writeOf, requestedAt>>
  \/ /\ AskedFor(c) = {}
     /\ \E a \in Approval :
          /\ approval[a] = "absent"
          /\ writeOf' = [writeOf EXCEPT ![a] = c]
          /\ requestedAt' = [requestedAt EXCEPT ![a] =
                         Cardinality({b \in Approval : approval[b] # "absent"})]
          /\ approval' = Forgetting([expired EXCEPT ![a] = "pending"], requestedAt')

\* getToolApproval and listToolApprovals, which expire and return.
ReadToolApprovals == approval' = ExpireToolApprovals

ApproveToolApproval(a) ==
  LET expired == ExpireToolApprovals IN
  approval' = IF expired[a] = "pending" THEN [expired EXCEPT ![a] = "approved"]
                                        ELSE expired

\* Mutant: a rejection also ends an execution.
RejectExecuting(a) ==
  LET expired == ExpireToolApprovals IN
  approval' = IF expired[a] \in {"pending", "approved", "executing"}
                THEN [expired EXCEPT ![a] = "rejected"] ELSE expired

RejectToolApproval(a) ==
  LET expired == ExpireToolApprovals IN
  approval' = IF expired[a] \in {"pending", "approved"}
                THEN [expired EXCEPT ![a] = "rejected"] ELSE expired

\* Mutant: an execution under way is taken over by a second claim.
MayExecuteAgain(a) == ExpireToolApprovals[a] \in {"approved", "executing"}

MayExecute(a) == ExpireToolApprovals[a] = "approved"

ClaimToolApproval(a, h) ==
  LET expired == ExpireToolApprovals IN
  IF MayExecute(a)
    THEN /\ approval' = [expired EXCEPT ![a] = "executing"]
         /\ claimant' = [claimant EXCEPT ![a] = h]
    ELSE approval' = expired /\ UNCHANGED claimant

\* completeToolApproval and failToolApproval refuse a claim that was lost.
OwnsClaim(a, h) == approval[a] = "executing" /\ claimant[a] = h

\* Mutant: a recovered execution gets a status of its own.
RecoverStaleAsUnknown ==
  /\ \E S \in SUBSET {a \in Approval : approval[a] = "executing"} :
       /\ S # {}
       /\ approval' = [a \in Approval |-> IF a \in S THEN "unknown" ELSE approval[a]]
  /\ UNCHANGED <<writeOf, pastExpiry, claimant, continuation, requestedAt,
                 writes, continued, executor, approvalCrashes>>

\* Executions that look abandoned fail with an unknown outcome; which ones are
\* old enough is a matter of the clock, the claim of a live host included.
RecoverStaleToolApprovals ==
  /\ \E S \in SUBSET {a \in Approval : approval[a] = "executing"} :
       /\ S # {}
       /\ approval' = [a \in Approval |-> IF a \in S THEN "failed" ELSE approval[a]]
  /\ UNCHANGED <<writeOf, pastExpiry, claimant, continuation, requestedAt,
                 writes, continued, executor, approvalCrashes>>

(***************************************************************************)
(* The hosts.                                                              *)
(***************************************************************************)

Executing(h, p) == executor[h].at = p
MovesTo(h, a, p) == executor' = [executor EXCEPT ![h] = [on |-> a, at |-> p]]
LetsGo(h) == executor' = [executor EXCEPT ![h] = NoExecution]

AskForWrite(c) ==
  /\ ProposeToolApproval(c)
  /\ UNCHANGED <<pastExpiry, claimant, continuation, writes, continued,
                 executor, approvalCrashes>>

ListToolApprovals ==
  /\ ReadToolApprovals
  /\ UNCHANGED <<writeOf, pastExpiry, claimant, continuation, requestedAt,
                 writes, continued, executor, approvalCrashes>>

FallsDue(a) ==
  /\ approval[a] \in {"pending", "approved"} /\ ~pastExpiry[a]
  /\ pastExpiry' = [pastExpiry EXCEPT ![a] = TRUE]
  /\ UNCHANGED <<approval, writeOf, claimant, continuation, requestedAt,
                 writes, continued, executor, approvalCrashes>>

\* A click or request approves and goes on to execute, also when it finds the
\* approval given already; any other status ends it.
DecideApprove(a, h) ==
  /\ Executing(h, "idle") /\ ApprovalKept(a)
  /\ ApproveToolApproval(a)
  /\ IF approval'[a] = "approved" THEN MovesTo(h, a, "found") ELSE UNCHANGED executor
  /\ UNCHANGED <<writeOf, pastExpiry, claimant, continuation, requestedAt,
                 writes, continued, approvalCrashes>>

DecideReject(a) ==
  /\ ApprovalKept(a)
  /\ RejectToolApproval(a)
  /\ UNCHANGED <<writeOf, pastExpiry, claimant, continuation, requestedAt,
                 writes, continued, executor, approvalCrashes>>

\* A pass lists the newest approvals that were approved (how many is left open)
\* and executes them one after the other.
FindApproved(a, h) ==
  /\ Executing(h, "idle")
  /\ ReadToolApprovals
  /\ approval'[a] = "approved"
  /\ MovesTo(h, a, "found")
  /\ UNCHANGED <<writeOf, pastExpiry, claimant, continuation, requestedAt,
                 writes, continued, approvalCrashes>>

\* executeApproved up to the claim; a route that no longer matches ends it before.
ClaimForExecution(h) ==
  LET a == executor[h].on IN
  /\ Executing(h, "found")
  /\ \/ /\ ClaimToolApproval(a, h)
        /\ IF MayExecute(a) THEN MovesTo(h, a, "claimed") ELSE LetsGo(h)
     \/ /\ ReadToolApprovals
        /\ LetsGo(h)
        /\ UNCHANGED claimant
  /\ UNCHANGED <<writeOf, pastExpiry, continuation, requestedAt, writes,
                 continued, approvalCrashes>>

\* The grant, the arguments or the credential no longer hold, and nothing is
\* written; or the service is called, and answers, fails or runs into the timeout.
RunTool(h) ==
  LET a == executor[h].on
      wrote == [writes EXCEPT ![a] = @ + 1] IN
  /\ Executing(h, "claimed")
  /\ \/ writes' = wrote /\ MovesTo(h, a, "ran")
     \/ writes' \in {writes, wrote} /\ MovesTo(h, a, "erred")
  /\ UNCHANGED <<approval, writeOf, pastExpiry, claimant, continuation,
                 requestedAt, continued, approvalCrashes>>

\* A lost claim makes completeToolApproval throw, and then failToolApproval.
CompleteToolApproval(h) ==
  LET a == executor[h].on IN
  /\ Executing(h, "ran")
  /\ IF OwnsClaim(a, h)
       THEN /\ approval' = [approval EXCEPT ![a] = "succeeded"]
            /\ MovesTo(h, a, "completed")
       ELSE LetsGo(h) /\ UNCHANGED approval
  /\ UNCHANGED <<writeOf, pastExpiry, claimant, continuation, requestedAt,
                 writes, continued, approvalCrashes>>

FailToolApproval(h) ==
  LET a == executor[h].on IN
  /\ Executing(h, "erred")
  /\ LetsGo(h)
  /\ approval' = IF OwnsClaim(a, h) THEN [approval EXCEPT ![a] = "failed"] ELSE approval
  /\ UNCHANGED <<writeOf, pastExpiry, claimant, continuation, requestedAt,
                 writes, continued, approvalCrashes>>

\* Mutant: a continuation that was accepted is not looked at again.
FindContinuationOnce(a, h) ==
  /\ Executing(h, "idle") /\ a \notin continued
  /\ ReadToolApprovals
  /\ approval[a] = "succeeded" /\ continuation[a] = "pending"
  /\ MovesTo(h, a, "completed")
  /\ UNCHANGED <<writeOf, pastExpiry, claimant, continuation, requestedAt,
                 writes, continued, approvalCrashes>>

\* The second half of a pass: what succeeded and was not continued.
FindContinuation(a, h) ==
  /\ Executing(h, "idle")
  /\ ReadToolApprovals
  /\ approval[a] = "succeeded" /\ continuation[a] = "pending"
  /\ MovesTo(h, a, "completed")
  /\ UNCHANGED <<writeOf, pastExpiry, claimant, continuation, requestedAt,
                 writes, continued, approvalCrashes>>

\* createAgentRunOrSteer with an id made from the approval's: accepted once.
ScheduleToolApprovalContinuation(h) ==
  LET a == executor[h].on IN
  /\ Executing(h, "completed")
  /\ continued' = continued \cup {a}
  /\ MovesTo(h, a, "staged")
  /\ UNCHANGED <<approval, writeOf, pastExpiry, claimant, continuation,
                 requestedAt, writes, approvalCrashes>>

MarkToolApprovalContinuationScheduled(h) ==
  LET a == executor[h].on IN
  /\ Executing(h, "staged")
  /\ continuation' = IF approval[a] = "succeeded"
                       THEN [continuation EXCEPT ![a] = "scheduled"] ELSE continuation
  /\ LetsGo(h)
  /\ UNCHANGED <<approval, writeOf, pastExpiry, claimant, requestedAt, writes,
                 continued, approvalCrashes>>

\* The host dies, or a call of the store fails and ends the handler there.
ExecutorCrashes(h) ==
  /\ ~Executing(h, "idle") /\ approvalCrashes < MaxApprovalCrashes
  /\ approvalCrashes' = approvalCrashes + 1
  /\ LetsGo(h)
  /\ UNCHANGED <<approval, writeOf, pastExpiry, claimant, continuation,
                 requestedAt, writes, continued>>

ApprovalInit ==
  /\ approval = [a \in Approval |-> "absent"]
  /\ writeOf = [a \in Approval |-> None]
  /\ pastExpiry = [a \in Approval |-> FALSE]
  /\ claimant = [a \in Approval |-> None]
  /\ continuation = [a \in Approval |-> "pending"]
  /\ requestedAt = [a \in Approval |-> 0]
  /\ writes = [a \in Approval |-> 0]
  /\ continued = {}
  /\ executor = [h \in Host |-> NoExecution]
  /\ approvalCrashes = 0

ExecutorStep(h) ==
  \/ ClaimForExecution(h) \/ RunTool(h) \/ CompleteToolApproval(h) \/ FailToolApproval(h)
  \/ ScheduleToolApprovalContinuation(h) \/ MarkToolApprovalContinuationScheduled(h)

ApprovalNext ==
  \/ \E c \in Call : AskForWrite(c)
  \/ ListToolApprovals
  \/ RecoverStaleToolApprovals
  \/ \E a \in Approval : FallsDue(a) \/ DecideReject(a)
  \/ \E h \in Host : ExecutorStep(h) \/ ExecutorCrashes(h)
  \/ \E a \in Approval, h \in Host : DecideApprove(a, h) \/ FindApproved(a, h)
                                     \/ FindContinuation(a, h)

ApprovalSpec == ApprovalInit /\ [][ApprovalNext]_approvalVars

\* Passes repeat while a host lives, and each recovers, lists and continues; what
\* a host has begun it goes on with; time passes.
ApprovalTime ==
  \/ ListToolApprovals \/ RecoverStaleToolApprovals
  \/ \E a \in Approval : FallsDue(a)
ApprovalWork(h) == ExecutorStep(h) \/ \E a \in Approval : FindContinuation(a, h)
FairApprovals ==
  /\ ApprovalSpec
  /\ WF_approvalVars(ApprovalTime)
  /\ \A h \in Host : WF_approvalVars(ApprovalWork(h))

(***************************************************************************)
(* Properties.                                                             *)
(***************************************************************************)

\* The types of the variables.
ApprovalTypeOK ==
  /\ approval \in [Approval -> ApprovalStatus \cup {"absent", "forgotten"}]
  /\ writeOf \in [Approval -> Call \cup {None}]
  /\ pastExpiry \in [Approval -> BOOLEAN]
  /\ claimant \in [Approval -> Host \cup {None}]
  /\ continuation \in [Approval -> {"pending", "scheduled"}]
  /\ requestedAt \in [Approval -> Nat]
  /\ writes \in [Approval -> Nat]
  /\ continued \subseteq Approval
  /\ executor \in [Host -> [on : Approval, at : ExecutionPhase] \cup {NoExecution}]
  /\ approvalCrashes \in Nat

\* "Concurrent or repeated clicks cannot repeat the remote write", a crash and a
\* recovery do not either, and nothing is written that was refused or ran out.
WrittenOnceIfGranted ==
  \A a \in Approval :
    /\ writes[a] <= 1
    /\ approval[a] \in {"absent", "pending", "approved", "rejected", "expired"} =>
         writes[a] = 0

\* What is reported to the run as done was done, whoever recovered meanwhile.
ContinuedMeansDone ==
  \A a \in Approval :
    /\ a \in continued => approval[a] \in {"succeeded", "forgotten"} /\ writes[a] = 1
    /\ continuation[a] = "scheduled" => a \in continued

\* A run has one approval for one exact write at a time, so asking again
\* cannot make a second one to click on.
OneApprovalPerCall ==
  \A a, b \in Approval :
    ApprovalKept(a) /\ ApprovalKept(b) /\ writeOf[a] = writeOf[b] => a = b

\* An outcome stands: a late answer does not undo a recovery, a late click does
\* not undo a rejection; only the cap on records takes it away.
ApprovalOutcomeIsFinal ==
  [][\A a \in Approval : approval[a] \in TerminalApproval =>
       approval'[a] \in {approval[a], "forgotten"}]_approvalVars

\* No request hangs, also when its host dies: it is refused, fails, runs out, or is
\* done and then reported to the run that asked.
ApprovalIsOver(a) ==
  \/ approval[a] \in (TerminalApproval \ {"succeeded"}) \cup {"forgotten"}
  \/ continuation[a] = "scheduled"
EveryApprovalSettles == \A a \in Approval : ApprovalKept(a) ~> ApprovalIsOver(a)

\* The records implement the abstract grants.
GrantStateOf(a) ==
  CASE approval[a] = "absent" -> "unasked"
    [] approval[a] = "pending" -> "asked"
    [] approval[a] = "approved" -> "granted"
    [] approval[a] \in {"rejected", "expired"} -> "refused"
    [] approval[a] \in {"executing", "succeeded", "failed"} -> "used"
    [] approval[a] = "forgotten" -> IF claimant[a] = None THEN "refused" ELSE "used"

Grants == INSTANCE OneTimeGrant
            WITH Grant <- Approval, uses <- writes,
                 state <- [a \in Approval |-> GrantStateOf(a)]
GrantsAreOneTime == Grants!Spec
=============================================================================
