----------------------------- MODULE LarkIngress -----------------------------
(***************************************************************************)
(* How the messages of one Lark channel reach the server.  The bridge holds  *)
(* a long connection and forwards what Lark pushes; whatever is posted while *)
(* it is down, or whose forwarding fails, is recovered by scans of the       *)
(* channel's history from a durable checkpoint, run by the server and driven *)
(* by the bridge.  Both ways end in ingestClientEvent, which is idempotent.  *)
(*                                                                         *)
(* Lark pushes a posted message any number of times, or never.               *)
(*                                                                         *)
(* Sources: scripts/lark-long-connection-bridge.mjs,                         *)
(* apps/server/src/lark-backfill.ts, apps/server/src/index.ts 9431-9560 and  *)
(* 16454-16600.                                                              *)
(***************************************************************************)
EXTENDS Integers, FiniteSets

CONSTANTS Post,               \* the messages people write in the channel
          Scan,               \* scans the server may be running
          Nobody,             \* no message, no scan
          Today,              \* where the clock stops
          Lookback,           \* backfillLookbackMs, used before the first checkpoint
          ScanWindow,         \* maxWindowMs of one scan
          ScanLimit,          \* maxMessages of one scan
          MaxLinkTroubles,    \* bridge stops, aborted requests, failed listings
          MaxIngestTroubles   \* ingests that fail, server crashes

ASSUME ScanWindowIsPositive == ScanWindow \in Nat \ {0}
ASSUME NobodyIsNoPost == Nobody \notin Post \cup Scan
ASSUME LarkBounds == /\ Today \in Nat \ {0}
                     /\ {Lookback, ScanLimit, MaxLinkTroubles, MaxIngestTroubles} \subseteq Nat

VARIABLES today,              \* the clock
          posted,             \* when a message was posted, 0: not yet
          bridge,             \* "down", or "ready" to consume
          line,               \* pushed to the bridge, not yet forwarded
          forwarded,          \* the message the bridge's request is about
          inbound,            \* the server's inbound event of a message
          inHand,             \* messages whose ingest is running
          scan,               \* the scans of the server
          awaited,            \* the one whose answer the bridge waits for
          checkpoint,         \* the channel's durable checkpoint, 0: none
          origin,             \* history: where the first completed scan began
          linkTroubles, ingestTroubles

larkVars == <<today, posted, bridge, line, forwarded, inbound, inHand, scan,
              awaited, checkpoint, origin, linkTroubles, ingestTroubles>>

serverVars == <<inbound, inHand, scan>>
bridgeVars == <<bridge, line, forwarded, awaited>>

InboundEvent == {"none", "received", "settled"}
NoScan == [at |-> "idle", since |-> 0, until |-> 0, todo |-> {}, busy |-> Nobody,
           incomplete |-> FALSE]

Lesser(a, b) == IF a < b THEN a ELSE b
Greater(a, b) == IF a > b THEN a ELSE b

\* The first n of a set of messages, oldest first.  (Of the same moment, Lark
\* may list any first.)
IsOldestOf(S, all, n) ==
  /\ S \subseteq all /\ Cardinality(S) = Lesser(n, Cardinality(all))
  /\ \A m \in S, other \in all \ S : posted[m] <= posted[other]

(***************************************************************************)
(* ingestClientEvent: the event is recorded first; routing, access and the   *)
(* run or follow-up come after, and settle it.                               *)
(***************************************************************************)

RecordInboundEvent(m) ==
  IF inbound[m] = "none"
    THEN /\ inbound' = [inbound EXCEPT ![m] = "received"]
         /\ inHand' = inHand \cup {m}
    ELSE UNCHANGED <<inbound, inHand>>

\* The requests that wait for the ingest of m.
Released(m, failed) ==
  /\ forwarded' = IF forwarded = m THEN Nobody ELSE forwarded
  /\ scan' = [s \in Scan |->
       IF scan[s].busy = m
         THEN [scan[s] EXCEPT !.busy = Nobody, !.incomplete = @ \/ failed]
         ELSE scan[s]]

SettleEvent(m) ==
  /\ m \in inHand
  /\ inbound' = [inbound EXCEPT ![m] = "settled"]
  /\ inHand' = inHand \ {m}
  /\ Released(m, FALSE)
  /\ UNCHANGED <<today, posted, bridge, line, awaited, checkpoint, origin,
                 linkTroubles, ingestTroubles>>

\* Routing or queueing throws: the event stays received.
IngestFails(m) ==
  /\ m \in inHand /\ ingestTroubles < MaxIngestTroubles
  /\ ingestTroubles' = ingestTroubles + 1
  /\ inHand' = inHand \ {m}
  /\ Released(m, TRUE)
  /\ UNCHANGED <<today, posted, bridge, line, inbound, awaited, checkpoint,
                 origin, linkTroubles>>

ServerCrashes ==
  /\ ingestTroubles < MaxIngestTroubles
  /\ ingestTroubles' = ingestTroubles + 1
  /\ inHand' = {} /\ scan' = [s \in Scan |-> NoScan]
  /\ forwarded' = Nobody /\ awaited' = Nobody
  /\ UNCHANGED <<today, posted, bridge, line, inbound, checkpoint, origin,
                 linkTroubles>>

(***************************************************************************)
(* Lark and the long connection.                                           *)
(***************************************************************************)

DayPasses ==
  /\ today < Today /\ today' = today + 1
  /\ UNCHANGED <<posted, serverVars, bridgeVars, checkpoint, origin,
                 linkTroubles, ingestTroubles>>

\* Bound: nothing is posted at the last moment, which no scan could look back on.
MessageIsPosted(m) ==
  /\ posted[m] = 0 /\ today < Today
  /\ posted' = [posted EXCEPT ![m] = today]
  /\ UNCHANGED <<today, serverVars, bridgeVars, checkpoint, origin,
                 linkTroubles, ingestTroubles>>

MessageIsPushed(m) ==
  /\ bridge = "ready" /\ posted[m] > 0 /\ m \notin line
  /\ line' = line \cup {m}
  /\ UNCHANGED <<today, posted, serverVars, bridge, forwarded, awaited,
                 checkpoint, origin, linkTroubles, ingestTroubles>>

\* A failing request is logged, and the next event taken.
HandleEvent ==
  \E m \in line :
    /\ bridge = "ready" /\ forwarded = Nobody
    /\ line' = line \ {m}
    /\ RecordInboundEvent(m)
    /\ forwarded' = IF inbound[m] = "none" THEN m ELSE Nobody
    /\ UNCHANGED <<today, posted, bridge, scan, awaited, checkpoint, origin,
                   linkTroubles, ingestTroubles>>

\* A consumer that exits takes the bridge with it; the server goes on with
\* whatever it was asked.
BridgeStops ==
  /\ bridge = "ready" /\ linkTroubles < MaxLinkTroubles
  /\ linkTroubles' = linkTroubles + 1
  /\ bridge' = "down" /\ line' = {} /\ forwarded' = Nobody /\ awaited' = Nobody
  /\ UNCHANGED <<today, posted, serverVars, checkpoint, origin, ingestTroubles>>

BridgeStarts ==
  /\ bridge = "down" /\ bridge' = "ready"
  /\ UNCHANGED <<today, posted, serverVars, line, forwarded, awaited, checkpoint,
                 origin, linkTroubles, ingestTroubles>>

(***************************************************************************)
(* The scans.                                                              *)
(***************************************************************************)

\* Mutant: the checkpoint is never read.
ScanSinceLookback == Greater(today - Lookback, 0)

ScanSince == IF checkpoint > 0 THEN checkpoint ELSE Greater(today - Lookback, 0)

\* A window that is empty is refused, and asked for again.
RunStartupBackfill(s) ==
  /\ bridge = "ready" /\ awaited = Nobody /\ scan[s].at = "idle"
  /\ ScanSince < today
  /\ awaited' = s
  /\ scan' = [scan EXCEPT ![s] =
       [NoScan EXCEPT !.at = "asked", !.since = ScanSince,
                      !.until = Lesser(today, ScanSince + ScanWindow)]]
  /\ UNCHANGED <<today, posted, bridge, line, forwarded, inbound, inHand,
                 checkpoint, origin, linkTroubles, ingestTroubles>>

\* Mutant: each window begins after the end of the last.
InWindowAfter(since, until) ==
  {m \in Post : posted[m] > 0 /\ since < posted[m] /\ posted[m] <= until}

\* Both ends belong to the window: what is posted in the very moment of a scan,
\* after it, is found by the next.
InWindow(since, until) ==
  {m \in Post : posted[m] > 0 /\ since <= posted[m] /\ posted[m] <= until}

Collected(s, found, incomplete) ==
  scan' = [scan EXCEPT ![s] =
             [@ EXCEPT !.at = "ingesting", !.todo = found, !.incomplete = incomplete]]

Collect(s) ==
  /\ scan[s].at = "asked"
  /\ LET all == InWindow(scan[s].since, scan[s].until) IN
     \E found \in SUBSET all :
       /\ IsOldestOf(found, all, ScanLimit)
       /\ Collected(s, found, found # all)
  /\ UNCHANGED <<today, posted, bridgeVars, inbound, inHand, checkpoint, origin,
                 linkTroubles, ingestTroubles>>

\* A page cannot be listed: what was found before it is ingested all the same.
CollectFails(s) ==
  /\ scan[s].at = "asked" /\ linkTroubles < MaxLinkTroubles
  /\ linkTroubles' = linkTroubles + 1
  /\ LET all == InWindow(scan[s].since, scan[s].until) IN
     \E found \in SUBSET all, n \in 0 .. ScanLimit :
       /\ IsOldestOf(found, all, n)
       /\ Collected(s, found, TRUE)
  /\ UNCHANGED <<today, posted, bridgeVars, inbound, inHand, checkpoint, origin,
                 ingestTroubles>>

IngestNext(s) ==
  /\ scan[s].at = "ingesting" /\ scan[s].busy = Nobody
  /\ \E m \in scan[s].todo :
       /\ \A other \in scan[s].todo : posted[m] <= posted[other]
       /\ RecordInboundEvent(m)
       /\ scan' = [scan EXCEPT ![s] =
            [scan[s] EXCEPT !.todo = @ \ {m},
                            !.busy = IF inbound[m] = "none" THEN m ELSE Nobody]]
  /\ UNCHANGED <<today, posted, bridgeVars, checkpoint, origin, linkTroubles,
                 ingestTroubles>>

\* The answer reaches the bridge if it still waits for it; a complete scan
\* moves the checkpoint.
WriteBackfillCheckpoint(s) ==
  IF awaited = s /\ ~scan[s].incomplete
    THEN /\ checkpoint' = scan[s].until
         /\ origin' = IF checkpoint = 0 THEN scan[s].since ELSE origin
    ELSE UNCHANGED <<checkpoint, origin>>

AnswerScan(s) ==
  /\ scan[s].at = "ingesting" /\ scan[s].busy = Nobody /\ scan[s].todo = {}
  /\ WriteBackfillCheckpoint(s)
  /\ awaited' = IF awaited = s THEN Nobody ELSE awaited
  /\ scan' = [scan EXCEPT ![s] = NoScan]
  /\ UNCHANGED <<today, posted, bridge, line, forwarded, inbound, inHand,
                 linkTroubles, ingestTroubles>>

\* After two minutes the bridge waits no longer; the server goes on.
ScanTimesOut ==
  /\ awaited # Nobody /\ linkTroubles < MaxLinkTroubles
  /\ linkTroubles' = linkTroubles + 1
  /\ awaited' = Nobody
  /\ UNCHANGED <<today, posted, serverVars, bridge, line, forwarded, checkpoint,
                 origin, ingestTroubles>>

(***************************************************************************)
(* Specification.                                                          *)
(***************************************************************************)

LarkInit ==
  /\ today = 1 /\ posted = [m \in Post |-> 0]
  /\ bridge = "down" /\ line = {} /\ forwarded = Nobody
  /\ inbound = [m \in Post |-> "none"] /\ inHand = {}
  /\ scan = [s \in Scan |-> NoScan] /\ awaited = Nobody
  /\ checkpoint = 0 /\ origin = 0
  /\ linkTroubles = 0 /\ ingestTroubles = 0

ScanStep(s) == Collect(s) \/ CollectFails(s) \/ IngestNext(s) \/ AnswerScan(s)

LarkNext ==
  \/ DayPasses \/ HandleEvent \/ BridgeStops \/ BridgeStarts
  \/ ScanTimesOut \/ ServerCrashes
  \/ \E m \in Post : \/ MessageIsPosted(m) \/ MessageIsPushed(m)
                     \/ SettleEvent(m) \/ IngestFails(m)
  \/ \E s \in Scan : RunStartupBackfill(s) \/ ScanStep(s)

LarkSpec == LarkInit /\ [][LarkNext]_larkVars

\* The loop of the bridge, and the server's work on a scan and on a message, go
\* on; a bridge that stopped is started again.  Nothing is said of what is pushed.
ScanLoop == BridgeStarts \/ \E s \in Scan : RunStartupBackfill(s)
ScanWork == \E s \in Scan : ScanStep(s)
IngestWork == \E m \in Post : SettleEvent(m)

FairLark ==
  /\ LarkSpec /\ WF_larkVars(DayPasses) /\ WF_larkVars(ScanLoop)
  /\ WF_larkVars(ScanWork) /\ WF_larkVars(IngestWork)

(***************************************************************************)
(* Properties.                                                             *)
(***************************************************************************)

\* The variables have their types.
LarkTypeOK ==
  /\ today \in 1 .. Today /\ posted \in [Post -> 0 .. Today]
  /\ bridge \in {"down", "ready"} /\ line \subseteq Post
  /\ forwarded \in Post \cup {Nobody} /\ inbound \in [Post -> InboundEvent]
  /\ inHand \subseteq Post /\ awaited \in Scan \cup {Nobody}
  /\ scan \in [Scan -> [at : {"idle", "asked", "ingesting"}, since : 0 .. Today,
                        until : 0 .. Today, todo : SUBSET Post,
                        busy : Post \cup {Nobody}, incomplete : BOOLEAN]]
  /\ checkpoint \in 0 .. Today /\ origin \in 0 .. Today
  /\ linkTroubles \in 0 .. MaxLinkTroubles
  /\ ingestTroubles \in 0 .. MaxIngestTroubles

Behind(m) == posted[m] > 0 /\ origin <= posted[m] /\ posted[m] < checkpoint

\* Whatever the checkpoint has passed since the first scan, the server has
\* recorded: no window leaves a gap, whatever is posted while it is listed, and
\* no aborted, capped or failed scan moves the checkpoint.
NothingUnseenBehindCheckpoint == \A m \in Post : Behind(m) => inbound[m] # "none"

\* docs/claude-tag-parity.md: messages behind the checkpoint went through the
\* route, access and run pipeline, or are going through it.
RecoveredMessagesRun ==
  \A m \in Post : Behind(m) => inbound[m] = "settled" \/ m \in inHand

\* A message posted while the bridge is down, or never pushed to it, is worked
\* off all the same, once a bridge stays up.
EveryPostArrives == \A m \in Post : posted[m] > 0 ~> inbound[m] = "settled"
=============================================================================
