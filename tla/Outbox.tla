-------------------------------- MODULE Outbox --------------------------------
(***************************************************************************)
(* The outbox: every text, card and file that leaves is written down as an  *)
(* envelope, sent by the process that wrote it, and marked with what came   *)
(* of it.  Cancelling a run cancels its envelopes, a newer update of a card *)
(* the older ones that wait, an operator recovers, retries and dispatches   *)
(* what was left; every envelope of a run has a receipt beside it.          *)
(*                                                                         *)
(* Sources: packages/delivery/src/file-delivery-store.ts 1262-1302,         *)
(* 1442-1681 and 5161-5178, outbox-worker.ts, tracked-*-transport.ts,       *)
(* apps/server/src/index.ts 15351-15435.                                    *)
(***************************************************************************)
EXTENDS Hosts, Naturals, FiniteSets

CONSTANTS Envelope,
          CardUpdate,        \* those that replace the text of their card
          Scope(_),          \* the target of an envelope
          SendAttempts,      \* maxAttempts
          MaxOutboxCrashes

ASSUME SendAttemptsIsPositive == SendAttempts \in Nat \ {0}

VARIABLES envelope,          \* status of every envelope
          receipt,           \* status of its turn delivery
          sendTries,         \* attempts
          sequence,          \* its place in the order of the outbox
          sent,              \* history: how often the platform was given it
          courier,           \* what each host is doing
          outboxCrashes

outboxVars == <<envelope, receipt, sendTries, sequence, sent, courier,
                outboxCrashes>>

EnvelopeStatus == {"absent", "pending", "sending", "delivered", "failed", "cancelled"}
ReceiptOf == [absent |-> "none", pending |-> "queued", sending |-> "accepted",
              delivered |-> "completed", failed |-> "failed", cancelled |-> "cancelled"]

\* A courier has one envelope of its own in hand, a worker pass those it claimed.
NoErrand == [hand |-> {}, at |-> "idle"]
ErrandPhase == {"idle", "enqueued", "sending", "sent", "refused", "dispatching"}
Carrying(h, p) == courier[h].at = p
GoesOn(h, p) == courier' = [courier EXCEPT ![h].at = p]
Carried(h) == CHOOSE e \in Envelope : courier[h].hand = {e}

(***************************************************************************)
(* The store.                                                              *)
(***************************************************************************)

\* updateTurnDelivery: the receipt follows the envelope.
Marks(e, s) ==
  /\ envelope' = [envelope EXCEPT ![e] = s]
  /\ receipt' = [receipt EXCEPT ![e] = ReceiptOf[s]]

MarksAll(new) ==
  /\ envelope' = [e \in Envelope |-> new[e]]
  /\ receipt' = [e \in Envelope |-> ReceiptOf[new[e]]]

\* What a new update of a card makes of the updates that still wait.
Superseding(e) ==
  [f \in Envelope |->
     IF /\ {e, f} \subseteq CardUpdate /\ Scope(e) = Scope(f)
        /\ envelope[f] = "pending"
       THEN "cancelled" ELSE envelope[f]]

EnqueueEnvelope(e) ==
  /\ envelope[e] = "absent"
  /\ MarksAll([Superseding(e) EXCEPT ![e] = "pending"])
  /\ sequence' = [sequence EXCEPT ![e] =
                    Cardinality({f \in Envelope : envelope[f] # "absent"}) + 1]

\* Out of attempts it fails, else it waits for another.
Undelivered(e) == IF sendTries[e] >= SendAttempts THEN "failed" ELSE "pending"

\* What waits and has nothing of the same target waiting or going out before it.
Claimable(e) ==
  /\ envelope[e] = "pending"
  /\ \A f \in Envelope : sequence[f] < sequence[e] /\ Scope(f) = Scope(e) =>
                           envelope[f] \notin {"pending", "sending"}

(***************************************************************************)
(* The couriers.                                                           *)
(***************************************************************************)

Enqueue(e, h) ==
  /\ Carrying(h, "idle")
  /\ EnqueueEnvelope(e)
  /\ courier' = [courier EXCEPT ![h] = [hand |-> {e}, at |-> "enqueued"]]
  /\ UNCHANGED <<sendTries, sent, outboxCrashes>>

\* Marked as sending whatever has become of it.
MarkSending(h) ==
  LET e == Carried(h) IN
  /\ Carrying(h, "enqueued")
  /\ Marks(e, "sending")
  /\ sendTries' = [sendTries EXCEPT ![e] = @ + 1]
  /\ GoesOn(h, "sending")
  /\ UNCHANGED <<sequence, sent, outboxCrashes>>

\* The platform takes it and answers, or the call fails before or after that.
SendEnvelope(h) ==
  LET e == Carried(h)
      arrived == [sent EXCEPT ![e] = @ + 1] IN
  /\ Carrying(h, "sending")
  /\ \/ sent' = arrived /\ GoesOn(h, "sent")
     \/ sent' \in {sent, arrived} /\ GoesOn(h, "refused")
  /\ UNCHANGED <<envelope, receipt, sendTries, sequence, outboxCrashes>>

MarkDelivered(h) ==
  /\ Carrying(h, "sent")
  /\ Marks(Carried(h), "delivered")
  /\ courier' = [courier EXCEPT ![h] = NoErrand]
  /\ UNCHANGED <<sendTries, sequence, sent, outboxCrashes>>

MarkFailed(h) ==
  LET e == Carried(h) IN
  /\ Carrying(h, "refused")
  /\ Marks(e, Undelivered(e))
  /\ courier' = [courier EXCEPT ![h] = NoErrand]
  /\ UNCHANGED <<sendTries, sequence, sent, outboxCrashes>>

\* claimReadyOutbox: as many as the limit and their time allow.
ClaimReadyOutbox(h) ==
  /\ Carrying(h, "idle")
  /\ \E S \in SUBSET {e \in Envelope : Claimable(e)} :
       /\ S # {}
       /\ MarksAll([e \in Envelope |-> IF e \in S THEN "sending" ELSE envelope[e]])
       /\ sendTries' = [e \in Envelope |-> sendTries[e] + (IF e \in S THEN 1 ELSE 0)]
       /\ courier' = [courier EXCEPT ![h] = [hand |-> S, at |-> "dispatching"]]
  /\ UNCHANGED <<sequence, sent, outboxCrashes>>

\* Mutant: the pass of the server sends what it claimed.
DispatchResending(h) ==
  LET hand == courier[h].hand IN
  /\ Carrying(h, "dispatching")
  /\ \E e \in hand :
       /\ \A f \in hand : sequence[e] <= sequence[f]
       /\ Marks(e, "delivered")
       /\ courier' = [courier EXCEPT ![h] =
                        IF hand = {e} THEN NoErrand ELSE [@ EXCEPT !.hand = hand \ {e}]]
  /\ sent' = [e \in Envelope |-> sent[e] + (IF e \in hand /\ envelope'[e] # envelope[e] THEN 1 ELSE 0)]
  /\ UNCHANGED <<sendTries, sequence, outboxCrashes>>

\* The pass the server offers dispatches by looking up a name the envelope
\* already has, which cannot fail.
DispatchClaimed(h) ==
  LET hand == courier[h].hand IN
  /\ Carrying(h, "dispatching")
  /\ \E e \in hand :
       /\ \A f \in hand : sequence[e] <= sequence[f]
       /\ Marks(e, "delivered")
       /\ courier' = [courier EXCEPT ![h] =
                        IF hand = {e} THEN NoErrand ELSE [@ EXCEPT !.hand = hand \ {e}]]
  /\ UNCHANGED <<sendTries, sequence, sent, outboxCrashes>>

RetryFailedOutbox(e) ==
  /\ envelope[e] = "failed"
  /\ Marks(e, "pending")
  /\ sendTries' = [sendTries EXCEPT ![e] = 0]
  /\ UNCHANGED <<sequence, sent, courier, outboxCrashes>>

\* What looks stuck in sending, in the hands of a live courier or not.
RecoverStaleOutbox ==
  /\ \E S \in SUBSET {e \in Envelope : envelope[e] = "sending"} :
       /\ S # {}
       /\ MarksAll([e \in Envelope |-> IF e \in S THEN Undelivered(e) ELSE envelope[e]])
  /\ UNCHANGED <<sendTries, sequence, sent, courier, outboxCrashes>>

\* The envelopes of a run, of a target, of a kind: any that are not settled.
CancelOutbox ==
  /\ \E S \in SUBSET {e \in Envelope : envelope[e] \in {"pending", "sending"}} :
       /\ S # {}
       /\ MarksAll([e \in Envelope |-> IF e \in S THEN "cancelled" ELSE envelope[e]])
  /\ UNCHANGED <<sendTries, sequence, sent, courier, outboxCrashes>>

\* The process dies; or marking the delivery fails, and it is marked as failed.
CourierCrashes(h) ==
  /\ ~Carrying(h, "idle") /\ outboxCrashes < MaxOutboxCrashes
  /\ outboxCrashes' = outboxCrashes + 1
  /\ \/ courier' = [courier EXCEPT ![h] = NoErrand]
     \/ Carrying(h, "sent") /\ GoesOn(h, "refused")
  /\ UNCHANGED <<envelope, receipt, sendTries, sequence, sent>>

OutboxInit ==
  /\ envelope = [e \in Envelope |-> "absent"]
  /\ receipt = [e \in Envelope |-> "none"]
  /\ sendTries = [e \in Envelope |-> 0]
  /\ sequence = [e \in Envelope |-> 0]
  /\ sent = [e \in Envelope |-> 0]
  /\ courier = [h \in Host |-> NoErrand]
  /\ outboxCrashes = 0

OutboxNext ==
  \/ \E e \in Envelope : RetryFailedOutbox(e) \/ \E h \in Host : Enqueue(e, h)
  \/ RecoverStaleOutbox \/ CancelOutbox
  \/ \E h \in Host : \/ MarkSending(h) \/ SendEnvelope(h) \/ MarkDelivered(h)
                     \/ MarkFailed(h) \/ ClaimReadyOutbox(h) \/ DispatchClaimed(h)
                     \/ CourierCrashes(h)

OutboxSpec == OutboxInit /\ [][OutboxNext]_outboxVars

(***************************************************************************)
(* Properties.                                                             *)
(***************************************************************************)

\* The types of the variables.
OutboxTypeOK ==
  /\ envelope \in [Envelope -> EnvelopeStatus]
  /\ receipt \in [Envelope -> {ReceiptOf[s] : s \in EnvelopeStatus}]
  /\ sendTries \in [Envelope -> Nat]
  /\ sequence \in [Envelope -> Nat]
  /\ sent \in [Envelope -> Nat]
  /\ courier \in [Host -> [hand : SUBSET Envelope, at : ErrandPhase]]
  /\ outboxCrashes \in Nat

\* An envelope is given to the platform at most once: a recovery, a retry by the
\* operator and a worker pass never repeat what may have arrived.
SentAtMostOnce == \A e \in Envelope : sent[e] <= 1

\* The receipt of a turn says of an envelope what the outbox says, whichever of
\* the operations that change one in passing (a supersession, a cancel, a
\* recovery) came last.
ReceiptsAgree == \A e \in Envelope : receipt[e] = ReceiptOf[envelope[e]]

\* No envelope waits for an attempt it no longer has, also when a recovery, a
\* pass and the courier that was taken for dead counted attempts in between.
WaitsWithinBudget ==
  \A e \in Envelope : envelope[e] = "pending" => sendTries[e] < SendAttempts

\* "Tracked receipts": what the outbox calls delivered, the platform was given.
DeliveredWasSent ==
  \A e \in Envelope : envelope[e] = "delivered" => sent[e] > 0
=============================================================================
