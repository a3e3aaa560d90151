---------------------------- MODULE HandoffProofs ----------------------------
(***************************************************************************)
(* Proofs about the components that hand work from one host to another      *)
(* through the store: Outbox, for any envelopes, targets and hosts, any      *)
(* number of attempts and of crashes; DelegatedTasks, for any tasks and      *)
(* hosts, any number of attempts, and of crashes and lapsed leases; and      *)
(* ToolApprovals, for any writes, approvals and hosts, any cap on the        *)
(* records kept, and any number of crashes.                                  *)
(***************************************************************************)
EXTENDS Outbox, DelegatedTasks, ToolApprovals, TLAPS, FiniteSetTheorems

-----------------------------------------------------------------------------
(* The outbox *)

(***************************************************************************)
(* The inductive invariant.  That nothing is sent twice is known neither     *)
(* from the outbox, which recoveries and retries turn back, nor from one     *)
(* courier: it takes that an envelope is carried to the platform by the      *)
(* courier that wrote it alone, and that only ids not in use are written.    *)
(***************************************************************************)

OnTheWay == {"enqueued", "sending"}
OwnErrand == OnTheWay \cup {"sent", "refused"}

\* A courier on an errand of its own has one envelope, of the outbox, in hand.
HasItsOwn(h) ==
  courier[h].at \in OwnErrand =>
    \E e \in Envelope : courier[h].hand = {e} /\ envelope[e] # "absent"

\* A pass has only envelopes of the outbox in hand.
PassHasWritten(h) ==
  courier[h].at = "dispatching" => \A e \in courier[h].hand : envelope[e] # "absent"

\* What a courier is yet to send was not sent, by it or by anybody.
NotSentBefore(h) ==
  courier[h].at \in OnTheWay => \A e \in courier[h].hand : sent[e] = 0

CarriedByOne(g, h) ==
  g # h /\ courier[g].at \in OnTheWay /\ courier[h].at \in OnTheWay =>
    courier[g].hand # courier[h].hand

Written == {e \in Envelope : envelope[e] # "absent"}

NothingBeforeWriting ==
  \A e \in Envelope : envelope[e] = "absent" => sent[e] = 0 /\ sendTries[e] = 0

OutboxInv ==
  /\ OutboxTypeOK
  /\ IsFiniteSet(Written)
  /\ NothingBeforeWriting
  /\ \A h \in Host : HasItsOwn(h) /\ PassHasWritten(h) /\ NotSentBefore(h)
  /\ \A g, h \in Host : CarriedByOne(g, h)
  /\ SentAtMostOnce
  /\ ReceiptsAgree
  /\ WaitsWithinBudget

\* Only writing an envelope down makes a new one.
Same == \A e \in Envelope : envelope'[e] = "absent" <=> envelope[e] = "absent"

-----------------------------------------------------------------------------
(* What the operations of the store do *)

Keeps(new) == new \in [Envelope -> EnvelopeStatus]

\* Marking keeps the receipt beside the envelope.
LEMMA MarkingAgrees ==
  ASSUME OutboxTypeOK, ReceiptsAgree
  PROVE  /\ \A e \in Envelope, s \in EnvelopeStatus :
              Marks(e, s) =>
                /\ envelope' = [envelope EXCEPT ![e] = s] /\ Keeps(envelope')
                /\ receipt' \in [Envelope -> {ReceiptOf[t] : t \in EnvelopeStatus}]
                /\ ReceiptsAgree'
         /\ \A new : Keeps(new) /\ MarksAll(new) =>
                /\ envelope' = new
                /\ receipt' \in [Envelope -> {ReceiptOf[t] : t \in EnvelopeStatus}]
                /\ ReceiptsAgree'
<1>1. ASSUME NEW e \in Envelope, NEW s \in EnvelopeStatus, Marks(e, s)
      PROVE  /\ envelope' = [envelope EXCEPT ![e] = s] /\ Keeps(envelope')
             /\ receipt' \in [Envelope -> {ReceiptOf[t] : t \in EnvelopeStatus}]
             /\ ReceiptsAgree'
  <2>1. /\ envelope' = [envelope EXCEPT ![e] = s]
        /\ receipt' = [receipt EXCEPT ![e] = ReceiptOf[s]]
    BY <1>1 DEF Marks
  <2> QED BY <2>1 DEF OutboxTypeOK, ReceiptsAgree, Keeps
<1>2. ASSUME NEW new, Keeps(new), MarksAll(new)
      PROVE  /\ envelope' = new
             /\ receipt' \in [Envelope -> {ReceiptOf[t] : t \in EnvelopeStatus}]
             /\ ReceiptsAgree'
  <2>1. /\ envelope' = [e \in Envelope |-> new[e]]
        /\ receipt' = [e \in Envelope |-> ReceiptOf[new[e]]]
    BY <1>2 DEF MarksAll
  <2> QED BY <1>2, <2>1 DEF ReceiptsAgree, Keeps
<1> QED BY <1>1, <1>2

\* The envelope of a courier on an errand of its own.
LEMMA CarriedIsItsOwn ==
  ASSUME OutboxInv, NEW h \in Host, courier[h].at \in OwnErrand
  PROVE  /\ Carried(h) \in Envelope /\ courier[h].hand = {Carried(h)}
         /\ envelope[Carried(h)] # "absent"
BY DEF OutboxInv, HasItsOwn, Carried

\* The moves of a courier leave the others where they are.
CourierGoes(h, c) ==
  /\ courier' \in [Host -> [hand : SUBSET Envelope, at : ErrandPhase]]
  /\ courier'[h] = c
  /\ \A g \in Host \ {h} : courier'[g] = courier[g]

LEMMA CourierMoves ==
  ASSUME OutboxTypeOK, NEW h \in Host
  PROVE  /\ \A p \in ErrandPhase : GoesOn(h, p) =>
              CourierGoes(h, [hand |-> courier[h].hand, at |-> p])
         /\ \A S \in SUBSET Envelope, p \in ErrandPhase :
              courier' = [courier EXCEPT ![h] = [hand |-> S, at |-> p]] =>
                CourierGoes(h, [hand |-> S, at |-> p])
BY DEF OutboxTypeOK, GoesOn, CourierGoes

-----------------------------------------------------------------------------
(* Every step keeps the invariant *)

\* A step that writes no envelope down and sends none: couriers may put down what
\* they carry or have gone on from what was sent or refused.
LEMMA QuietStep ==
  ASSUME OutboxInv, OutboxTypeOK', Same, ReceiptsAgree', WaitsWithinBudget',
         UNCHANGED sent,
         \A e \in Envelope : envelope[e] = "absent" => sendTries'[e] = sendTries[e],
         \A h \in Host : \/ courier'[h] = courier[h]
                         \/ courier'[h].at = "idle"
                         \/ /\ courier'[h].at = "dispatching"
                            /\ \A e \in courier'[h].hand : envelope[e] # "absent"
                         \/ /\ courier'[h].at \in {"refused", "sent", "sending"}
                            /\ courier[h].at \in OwnErrand
                            /\ courier'[h].hand = courier[h].hand
                            /\ courier'[h].at = "sending" => courier[h].at = "enqueued"
  PROVE  OutboxInv'
<1>1. IsFiniteSet(Written)'
  <2>1. Written' = Written
    BY DEF Same, Written
  <2> QED BY <2>1 DEF OutboxInv
<1>2. NothingBeforeWriting'
  BY DEF OutboxInv, NothingBeforeWriting, Same
<1>3. ASSUME NEW h \in Host
      PROVE  HasItsOwn(h)' /\ PassHasWritten(h)' /\ NotSentBefore(h)'
  <2>1. courier[h].hand \subseteq Envelope /\ courier'[h].hand \subseteq Envelope
    BY DEF OutboxInv, OutboxTypeOK
  <2>2. HasItsOwn(h)' /\ NotSentBefore(h)'
    BY DEF OutboxInv, HasItsOwn, NotSentBefore, OnTheWay, OwnErrand, Same
  <2>3. PassHasWritten(h)'
    BY <2>1 DEF OutboxInv, PassHasWritten, OwnErrand, Same
  <2> QED BY <2>2, <2>3
<1>4. ASSUME NEW g \in Host, NEW h \in Host
      PROVE  CarriedByOne(g, h)'
  <2>1. CarriedByOne(g, h)
    BY DEF OutboxInv
  <2> QED BY <2>1 DEF CarriedByOne, OnTheWay
<1>5. SentAtMostOnce'
  BY DEF OutboxInv, SentAtMostOnce
<1> QED BY <1>1, <1>2, <1>3, <1>4, <1>5 DEF OutboxInv

LEMMA EnqueueStep ==
  ASSUME OutboxInv, NEW e \in Envelope, NEW h \in Host, Enqueue(e, h)
  PROVE  OutboxInv'
<1> DEFINE new == [Superseding(e) EXCEPT ![e] = "pending"]
<1>1. /\ OutboxTypeOK /\ ReceiptsAgree /\ envelope[e] = "absent"
      /\ sent[e] = 0 /\ sendTries[e] = 0
      /\ UNCHANGED <<sendTries, sent, outboxCrashes>>
  BY DEF OutboxInv, NothingBeforeWriting, Enqueue, EnqueueEnvelope
<1>2. /\ Keeps(new) /\ new[e] = "pending"
      /\ \A f \in Envelope \ {e} : \/ new[f] = envelope[f]
                                   \/ envelope[f] = "pending" /\ new[f] = "cancelled"
  BY <1>1 DEF Superseding, OutboxTypeOK, EnvelopeStatus, Keeps
<1>3. /\ envelope' = new /\ ReceiptsAgree'
      /\ receipt' \in [Envelope -> {ReceiptOf[t] : t \in EnvelopeStatus}]
  <2> HIDE DEF new
  <2>1. MarksAll(new)
    BY DEF Enqueue, EnqueueEnvelope, new
  <2> QED BY <1>1, <1>2, <2>1, MarkingAgrees
<1> HIDE DEF new
<1>4. CourierGoes(h, [hand |-> {e}, at |-> "enqueued"])
  <2>1. courier' = [courier EXCEPT ![h] = [hand |-> {e}, at |-> "enqueued"]]
    BY DEF Enqueue
  <2> QED BY <1>1, <2>1, CourierMoves DEF ErrandPhase
<1>5. Written' = Written \cup {e}
  BY <1>2, <1>3 DEF Written
<1>6. IsFiniteSet(Written)'
  BY <1>5, FS_AddElement DEF OutboxInv
<1>7. sequence' \in [Envelope -> Nat]
  <2>1. sequence' = [sequence EXCEPT ![e] = Cardinality(Written) + 1]
    BY DEF Enqueue, EnqueueEnvelope, Written
  <2>2. Cardinality(Written) \in Nat
    BY FS_CardinalityType DEF OutboxInv
  <2> QED BY <1>1, <2>1, <2>2 DEF OutboxTypeOK
<1>8. OutboxTypeOK'
  BY <1>1, <1>2, <1>3, <1>4, <1>7 DEF OutboxTypeOK, Keeps, CourierGoes
<1>9. NothingBeforeWriting'
  BY <1>1, <1>2, <1>3 DEF OutboxInv, NothingBeforeWriting
<1>10. ASSUME NEW g \in Host
       PROVE  HasItsOwn(g)' /\ PassHasWritten(g)' /\ NotSentBefore(g)'
  <2>1. CASE g = h
    BY <1>1, <1>2, <1>3, <1>4, <2>1
       DEF HasItsOwn, PassHasWritten, NotSentBefore, CourierGoes, OwnErrand, OnTheWay
  <2>2. CASE g # h
    <3>1. HasItsOwn(g)' /\ NotSentBefore(g)'
      BY <1>1, <1>2, <1>3, <1>4, <2>2 DEF OutboxInv, HasItsOwn, NotSentBefore, CourierGoes
    <3>2. courier'[g] = courier[g] /\ courier[g].hand \subseteq Envelope /\ PassHasWritten(g)
      BY <1>1, <1>4, <2>2 DEF OutboxInv, OutboxTypeOK, CourierGoes
    <3> QED BY <1>2, <1>3, <3>1, <3>2 DEF PassHasWritten
  <2> QED BY <2>1, <2>2
<1>11. ASSUME NEW f \in Host, NEW g \in Host
       PROVE  CarriedByOne(f, g)'
  <2>1. CarriedByOne(f, g) /\ HasItsOwn(f) /\ HasItsOwn(g)
    BY DEF OutboxInv
  <2>2. CASE f # h /\ g # h
    BY <1>4, <2>1, <2>2 DEF CarriedByOne, CourierGoes
  <2>3. CASE f = h /\ g # h
    BY <1>1, <1>4, <2>1, <2>3 DEF CarriedByOne, HasItsOwn, CourierGoes, OnTheWay, OwnErrand
  <2>4. CASE f # h /\ g = h
    BY <1>1, <1>4, <2>1, <2>4 DEF CarriedByOne, HasItsOwn, CourierGoes, OnTheWay, OwnErrand
  <2>5. CASE f = g
    BY <2>5 DEF CarriedByOne
  <2> QED BY <2>2, <2>3, <2>4, <2>5
<1>12. SentAtMostOnce'
  BY <1>1 DEF OutboxInv, SentAtMostOnce
<1>13. WaitsWithinBudget'
  <2>1. WaitsWithinBudget
    BY DEF OutboxInv
  <2> QED BY <1>1, <1>2, <1>3, <2>1, SendAttemptsIsPositive DEF WaitsWithinBudget
<1> QED BY <1>3, <1>6, <1>8, <1>9, <1>10, <1>11, <1>12, <1>13 DEF OutboxInv

\* The platform is given an envelope by the one courier that carries it.
LEMMA SendStep ==
  ASSUME OutboxInv, NEW h \in Host, SendEnvelope(h)
  PROVE  OutboxInv'
<1> DEFINE e == Carried(h)
<1>1. /\ OutboxTypeOK /\ courier[h].at = "sending"
      /\ UNCHANGED <<envelope, receipt, sendTries, sequence, outboxCrashes>>
  BY DEF OutboxInv, SendEnvelope, Carrying
<1>2. e \in Envelope /\ courier[h].hand = {e} /\ envelope[e] # "absent"
  BY <1>1, CarriedIsItsOwn DEF OwnErrand, OnTheWay
<1>3. sent[e] = 0
  BY <1>1, <1>2 DEF OutboxInv, NotSentBefore, OnTheWay
<1>4. \E p \in {"sent", "refused"} : CourierGoes(h, [hand |-> {e}, at |-> p])
  BY <1>1, <1>2, CourierMoves DEF SendEnvelope, ErrandPhase
<1>5. /\ sent' \in [Envelope -> Nat] /\ sent'[e] <= 1
      /\ \A f \in Envelope \ {e} : sent'[f] = sent[f]
  BY <1>1, <1>2, <1>3 DEF SendEnvelope, OutboxTypeOK
<1> HIDE DEF e
<1>6. OutboxTypeOK'
  BY <1>1, <1>4, <1>5 DEF OutboxTypeOK, CourierGoes
<1>7. IsFiniteSet(Written)'
  BY <1>1 DEF OutboxInv, Written
<1>8. NothingBeforeWriting'
  BY <1>1, <1>2, <1>5 DEF OutboxInv, NothingBeforeWriting
<1>9. ASSUME NEW g \in Host
      PROVE  HasItsOwn(g)' /\ PassHasWritten(g)' /\ NotSentBefore(g)'
  <2>1. HasItsOwn(g) /\ PassHasWritten(g) /\ NotSentBefore(g) /\ CarriedByOne(g, h)
    BY DEF OutboxInv
  <2>2. CASE g = h
    BY <1>1, <1>2, <1>4, <2>2
       DEF HasItsOwn, PassHasWritten, NotSentBefore, CourierGoes, OwnErrand, OnTheWay
  <2>3. CASE g # h
    <3>1. courier'[g] = courier[g]
      BY <1>4, <2>3 DEF CourierGoes
    <3>2. courier[g].at \in OnTheWay => courier[g].hand # {e}
      BY <1>1, <1>2, <2>1, <2>3 DEF CarriedByOne, OnTheWay
    <3>3. HasItsOwn(g)' /\ PassHasWritten(g)'
      BY <1>1, <2>1, <3>1 DEF HasItsOwn, PassHasWritten
    <3>4. courier[g].at \in OnTheWay => \E f \in Envelope \ {e} : courier[g].hand = {f}
      BY <2>1, <3>2 DEF HasItsOwn, OwnErrand
    <3>5. NotSentBefore(g)'
      BY <1>5, <2>1, <3>1, <3>4 DEF NotSentBefore
    <3> QED BY <3>3, <3>5
  <2> QED BY <2>2, <2>3
<1>10. ASSUME NEW f \in Host, NEW g \in Host
       PROVE  CarriedByOne(f, g)'
  <2>1. CarriedByOne(f, g)
    BY DEF OutboxInv
  <2> QED BY <1>4, <2>1 DEF CarriedByOne, CourierGoes, OnTheWay
<1>11. SentAtMostOnce'
  BY <1>2, <1>5 DEF OutboxInv, SentAtMostOnce
<1>12. ReceiptsAgree' /\ WaitsWithinBudget'
  BY <1>1 DEF OutboxInv, ReceiptsAgree, WaitsWithinBudget
<1> QED BY <1>6, <1>7, <1>8, <1>9, <1>10, <1>11, <1>12 DEF OutboxInv

\* A courier marks what it carries, or gives up.
LEMMA CourierStep ==
  ASSUME OutboxInv, NEW h \in Host,
         MarkSending(h) \/ MarkDelivered(h) \/ MarkFailed(h) \/ CourierCrashes(h)
  PROVE  OutboxInv'
<1> DEFINE e == Carried(h)
<1>1. /\ OutboxTypeOK /\ ReceiptsAgree /\ WaitsWithinBudget
      /\ \A f \in Envelope : sendTries[f] \in Nat
  BY DEF OutboxInv, OutboxTypeOK
<1>2. courier[h].at \in OwnErrand =>
        e \in Envelope /\ courier[h].hand = {e} /\ envelope[e] # "absent"
  BY CarriedIsItsOwn
<1> HIDE DEF e
<1>3. ASSUME NEW s \in {"sending", "delivered", "failed", "pending"}, Marks(e, s),
             e \in Envelope, envelope[e] # "absent"
      PROVE  /\ envelope' \in [Envelope -> EnvelopeStatus] /\ ReceiptsAgree' /\ Same
             /\ receipt' \in [Envelope -> {ReceiptOf[t] : t \in EnvelopeStatus}]
             /\ envelope'[e] = s /\ \A f \in Envelope \ {e} : envelope'[f] = envelope[f]
  <2>1. /\ envelope' = [envelope EXCEPT ![e] = s] /\ Keeps(envelope') /\ ReceiptsAgree'
        /\ receipt' \in [Envelope -> {ReceiptOf[t] : t \in EnvelopeStatus}]
    BY <1>1, <1>3, MarkingAgrees DEF EnvelopeStatus
  <2> QED BY <1>1, <1>3, <2>1 DEF Keeps, OutboxTypeOK, Same
<1>4. NoErrand = [hand |-> {}, at |-> "idle"] /\ NoErrand.at = "idle"
  BY DEF NoErrand
<1>5. courier' = [courier EXCEPT ![h] = NoErrand] => CourierGoes(h, NoErrand)
  BY <1>1, <1>4, CourierMoves DEF ErrandPhase
<1>6. CASE MarkSending(h)
  <2>1. /\ courier[h].at = "enqueued" /\ Marks(e, "sending")
        /\ e \in Envelope /\ envelope[e] # "absent"
        /\ sendTries' = [sendTries EXCEPT ![e] = @ + 1]
        /\ UNCHANGED <<sequence, sent, outboxCrashes>>
    BY <1>2, <1>6 DEF MarkSending, Carrying, OwnErrand, OnTheWay, e
  <2>2. CourierGoes(h, [hand |-> courier[h].hand, at |-> "sending"])
    BY <1>1, <1>6, CourierMoves DEF MarkSending, ErrandPhase
  <2>3. /\ sendTries' \in [Envelope -> Nat]
        /\ \A f \in Envelope \ {e} : sendTries'[f] = sendTries[f]
    BY <1>1, <2>1 DEF OutboxTypeOK
  <2>4. OutboxTypeOK'
    BY <1>1, <1>3, <2>1, <2>2, <2>3 DEF OutboxTypeOK, CourierGoes
  <2>5. WaitsWithinBudget'
    BY <1>1, <1>3, <2>1, <2>3 DEF WaitsWithinBudget
  <2> QED BY <1>3, <2>1, <2>2, <2>3, <2>4, <2>5, QuietStep DEF CourierGoes, OwnErrand, OnTheWay
<1>7. CASE MarkDelivered(h)
  <2>1. /\ Marks(e, "delivered") /\ e \in Envelope /\ envelope[e] # "absent"
        /\ UNCHANGED <<sendTries, sequence, sent, outboxCrashes>>
        /\ CourierGoes(h, NoErrand)
    BY <1>2, <1>5, <1>7 DEF MarkDelivered, Carrying, OwnErrand, e
  <2>2. OutboxTypeOK'
    BY <1>1, <1>3, <2>1 DEF OutboxTypeOK, CourierGoes
  <2>3. WaitsWithinBudget'
    BY <1>1, <1>3, <2>1 DEF WaitsWithinBudget
  <2> QED BY <1>3, <1>4, <2>1, <2>2, <2>3, QuietStep DEF CourierGoes
<1>8. CASE MarkFailed(h)
  <2>1. /\ Marks(e, Undelivered(e)) /\ e \in Envelope /\ envelope[e] # "absent"
        /\ UNCHANGED <<sendTries, sequence, sent, outboxCrashes>>
        /\ CourierGoes(h, NoErrand)
    BY <1>2, <1>5, <1>8 DEF MarkFailed, Carrying, OwnErrand, e
  <2>2. /\ Undelivered(e) \in {"failed", "pending"}
        /\ Undelivered(e) = "pending" => sendTries[e] < SendAttempts
    BY <1>1, <2>1, SendAttemptsIsPositive DEF Undelivered
  <2>3. OutboxTypeOK'
    BY <1>1, <1>3, <2>1, <2>2 DEF OutboxTypeOK, CourierGoes
  <2>4. WaitsWithinBudget'
    BY <1>1, <1>3, <2>1, <2>2 DEF WaitsWithinBudget
  <2> QED BY <1>3, <1>4, <2>1, <2>2, <2>3, <2>4, QuietStep DEF CourierGoes
<1>9. CASE CourierCrashes(h)
  <2>1. UNCHANGED <<envelope, receipt, sendTries, sequence, sent>> /\ outboxCrashes' \in Nat
    BY <1>1, <1>9 DEF CourierCrashes, OutboxTypeOK
  <2>2. \/ CourierGoes(h, NoErrand)
        \/ courier[h].at = "sent" /\ CourierGoes(h, [hand |-> courier[h].hand, at |-> "refused"])
    BY <1>1, <1>5, <1>9, CourierMoves DEF CourierCrashes, Carrying, ErrandPhase
  <2>3. OutboxTypeOK'
    BY <1>1, <2>1, <2>2 DEF OutboxTypeOK, CourierGoes
  <2>4. ReceiptsAgree' /\ WaitsWithinBudget' /\ Same
    BY <1>1, <2>1 DEF ReceiptsAgree, WaitsWithinBudget, Same
  <2>5. \A g \in Host : \/ courier'[g] = courier[g]
                        \/ courier'[g].at = "idle"
                        \/ /\ courier'[g].at = "refused" /\ courier[g].at = "sent"
                           /\ courier'[g].hand = courier[g].hand
    BY <1>4, <2>2 DEF CourierGoes
  <2> QED BY <2>1, <2>3, <2>4, <2>5, QuietStep DEF OwnErrand
<1> QED BY <1>6, <1>7, <1>8, <1>9

\* A pass, a recovery, a cancel and a retry, which change many envelopes at once.
LEMMA SweepStep ==
  ASSUME OutboxInv,
         \/ RecoverStaleOutbox \/ CancelOutbox
         \/ \E e \in Envelope : RetryFailedOutbox(e)
         \/ \E h \in Host : ClaimReadyOutbox(h) \/ DispatchClaimed(h)
  PROVE  OutboxInv'
<1>1. /\ OutboxTypeOK /\ ReceiptsAgree /\ WaitsWithinBudget
      /\ \A f \in Envelope : sendTries[f] \in Nat /\ envelope[f] \in EnvelopeStatus
  BY DEF OutboxInv, OutboxTypeOK
<1>2. ASSUME NEW new, MarksAll(new), Keeps(new),
             \A e \in Envelope : new[e] = "absent" <=> envelope[e] = "absent"
      PROVE  /\ envelope' = new /\ ReceiptsAgree' /\ Same
             /\ envelope' \in [Envelope -> EnvelopeStatus]
             /\ receipt' \in [Envelope -> {ReceiptOf[t] : t \in EnvelopeStatus}]
  <2>1. /\ envelope' = new /\ ReceiptsAgree'
        /\ receipt' \in [Envelope -> {ReceiptOf[t] : t \in EnvelopeStatus}]
    BY <1>1, <1>2, MarkingAgrees
  <2> QED BY <1>2, <2>1 DEF Keeps, Same
<1>3. ASSUME NEW e \in Envelope, NEW s \in {"delivered", "pending"}, Marks(e, s),
             envelope[e] # "absent"
      PROVE  /\ envelope' \in [Envelope -> EnvelopeStatus] /\ ReceiptsAgree' /\ Same
             /\ receipt' \in [Envelope -> {ReceiptOf[t] : t \in EnvelopeStatus}]
             /\ envelope'[e] = s /\ \A f \in Envelope \ {e} : envelope'[f] = envelope[f]
  <2>1. /\ envelope' = [envelope EXCEPT ![e] = s] /\ Keeps(envelope') /\ ReceiptsAgree'
        /\ receipt' \in [Envelope -> {ReceiptOf[t] : t \in EnvelopeStatus}]
    BY <1>1, <1>3, MarkingAgrees DEF EnvelopeStatus
  <2> QED BY <1>1, <1>3, <2>1 DEF Keeps, OutboxTypeOK, Same
<1>4. CASE RecoverStaleOutbox
  <2>1. PICK S \in SUBSET {e \in Envelope : envelope[e] = "sending"} :
          MarksAll([e \in Envelope |-> IF e \in S THEN Undelivered(e) ELSE envelope[e]])
    BY <1>4 DEF RecoverStaleOutbox
  <2>2. UNCHANGED <<sendTries, sequence, sent, courier, outboxCrashes>>
    BY <1>4 DEF RecoverStaleOutbox
  <2> DEFINE new == [e \in Envelope |-> IF e \in S THEN Undelivered(e) ELSE envelope[e]]
  <2>3. \A e \in Envelope : /\ Undelivered(e) \in {"failed", "pending"}
                            /\ Undelivered(e) = "pending" => sendTries[e] < SendAttempts
    BY <1>1, SendAttemptsIsPositive DEF Undelivered
  <2>4. /\ Keeps(new) /\ \A e \in Envelope : new[e] = "absent" <=> envelope[e] = "absent"
        /\ \A e \in Envelope : new[e] = "pending" => sendTries[e] < SendAttempts
    BY <1>1, <2>3 DEF Keeps, EnvelopeStatus, WaitsWithinBudget
  <2> HIDE DEF new
  <2>5. MarksAll(new)
    BY <2>1 DEF new
  <2>6. /\ envelope' = new /\ ReceiptsAgree' /\ Same
        /\ envelope' \in [Envelope -> EnvelopeStatus]
        /\ receipt' \in [Envelope -> {ReceiptOf[t] : t \in EnvelopeStatus}]
    BY <1>2, <2>4, <2>5
  <2>7. WaitsWithinBudget'
    BY <2>2, <2>4, <2>6 DEF WaitsWithinBudget
  <2>8. OutboxTypeOK'
    BY <1>1, <2>2, <2>6 DEF OutboxTypeOK
  <2> QED BY <2>2, <2>6, <2>7, <2>8, QuietStep
<1>5. CASE CancelOutbox
  <2>1. PICK S \in SUBSET {e \in Envelope : envelope[e] \in {"pending", "sending"}} :
          MarksAll([e \in Envelope |-> IF e \in S THEN "cancelled" ELSE envelope[e]])
    BY <1>5 DEF CancelOutbox
  <2>2. UNCHANGED <<sendTries, sequence, sent, courier, outboxCrashes>>
    BY <1>5 DEF CancelOutbox
  <2> DEFINE new == [e \in Envelope |-> IF e \in S THEN "cancelled" ELSE envelope[e]]
  <2>3. /\ Keeps(new) /\ \A e \in Envelope : new[e] = "absent" <=> envelope[e] = "absent"
        /\ \A e \in Envelope : new[e] = "pending" => envelope[e] = "pending"
    BY <1>1 DEF Keeps, EnvelopeStatus
  <2> HIDE DEF new
  <2>4. MarksAll(new)
    BY <2>1 DEF new
  <2>5. /\ envelope' = new /\ ReceiptsAgree' /\ Same
        /\ envelope' \in [Envelope -> EnvelopeStatus]
        /\ receipt' \in [Envelope -> {ReceiptOf[t] : t \in EnvelopeStatus}]
    BY <1>2, <2>3, <2>4
  <2>6. WaitsWithinBudget'
    BY <1>1, <2>2, <2>3, <2>5 DEF WaitsWithinBudget
  <2>7. OutboxTypeOK'
    BY <1>1, <2>2, <2>5 DEF OutboxTypeOK
  <2> QED BY <2>2, <2>5, <2>6, <2>7, QuietStep
<1>6. ASSUME NEW e \in Envelope, RetryFailedOutbox(e)
      PROVE  OutboxInv'
  <2>1. /\ Marks(e, "pending") /\ envelope[e] = "failed"
        /\ sendTries' = [sendTries EXCEPT ![e] = 0]
        /\ UNCHANGED <<sequence, sent, courier, outboxCrashes>>
    BY <1>6 DEF RetryFailedOutbox
  <2>2. /\ sendTries' \in [Envelope -> Nat] /\ sendTries'[e] = 0
        /\ \A f \in Envelope \ {e} : sendTries'[f] = sendTries[f]
    BY <1>1, <2>1 DEF OutboxTypeOK
  <2>3. /\ envelope' \in [Envelope -> EnvelopeStatus] /\ ReceiptsAgree' /\ Same
        /\ receipt' \in [Envelope -> {ReceiptOf[t] : t \in EnvelopeStatus}]
        /\ \A f \in Envelope \ {e} : envelope'[f] = envelope[f]
    BY <1>3, <2>1
  <2>4. WaitsWithinBudget'
    BY <1>1, <2>2, <2>3, SendAttemptsIsPositive DEF WaitsWithinBudget
  <2>5. OutboxTypeOK'
    BY <1>1, <2>1, <2>2, <2>3 DEF OutboxTypeOK
  <2> QED BY <2>1, <2>2, <2>3, <2>4, <2>5, QuietStep
<1>7. ASSUME NEW h \in Host, ClaimReadyOutbox(h)
      PROVE  OutboxInv'
  <2>1. PICK S \in SUBSET {e \in Envelope : Claimable(e)} :
          /\ MarksAll([e \in Envelope |-> IF e \in S THEN "sending" ELSE envelope[e]])
          /\ sendTries' = [e \in Envelope |-> sendTries[e] + (IF e \in S THEN 1 ELSE 0)]
          /\ courier' = [courier EXCEPT ![h] = [hand |-> S, at |-> "dispatching"]]
    BY <1>7 DEF ClaimReadyOutbox
  <2>2. UNCHANGED <<sequence, sent, outboxCrashes>>
    BY <1>7 DEF ClaimReadyOutbox
  <2> DEFINE new == [e \in Envelope |-> IF e \in S THEN "sending" ELSE envelope[e]]
  <2>3. S \in SUBSET Envelope /\ \A e \in S : envelope[e] = "pending"
    BY DEF Claimable
  <2>4. /\ Keeps(new) /\ \A e \in Envelope : new[e] = "absent" <=> envelope[e] = "absent"
        /\ \A e \in Envelope : new[e] = "pending" => e \notin S /\ envelope[e] = "pending"
    BY <1>1, <2>3 DEF Keeps, EnvelopeStatus
  <2> HIDE DEF new
  <2>5. MarksAll(new)
    BY <2>1 DEF new
  <2>6. /\ envelope' = new /\ ReceiptsAgree' /\ Same
        /\ envelope' \in [Envelope -> EnvelopeStatus]
        /\ receipt' \in [Envelope -> {ReceiptOf[t] : t \in EnvelopeStatus}]
    BY <1>2, <2>4, <2>5
  <2>7. /\ sendTries' \in [Envelope -> Nat]
        /\ \A e \in Envelope \ S : sendTries'[e] = sendTries[e]
    BY <1>1, <2>1
  <2>8. CourierGoes(h, [hand |-> S, at |-> "dispatching"])
    BY <1>1, <2>1, <2>3, CourierMoves DEF ErrandPhase
  <2>9. WaitsWithinBudget'
    BY <1>1, <2>4, <2>6, <2>7 DEF WaitsWithinBudget
  <2>10. OutboxTypeOK'
    BY <1>1, <2>2, <2>6, <2>7, <2>8 DEF OutboxTypeOK, CourierGoes
  <2> QED BY <2>2, <2>3, <2>6, <2>7, <2>8, <2>9, <2>10, QuietStep DEF CourierGoes
<1>8. ASSUME NEW h \in Host, DispatchClaimed(h)
      PROVE  OutboxInv'
  <2>1. PICK e \in courier[h].hand :
          /\ Marks(e, "delivered")
          /\ courier' = [courier EXCEPT ![h] = IF courier[h].hand = {e} THEN NoErrand
                                  ELSE [courier[h] EXCEPT !.hand = courier[h].hand \ {e}]]
    BY <1>8 DEF DispatchClaimed
  <2>2. UNCHANGED <<sendTries, sequence, sent, outboxCrashes>> /\ courier[h].at = "dispatching"
    BY <1>8 DEF DispatchClaimed, Carrying
  <2>3. /\ e \in Envelope /\ courier[h].hand \subseteq Envelope
        /\ \A f \in courier[h].hand : envelope[f] # "absent"
    BY <1>1, <2>2 DEF OutboxTypeOK, OutboxInv, PassHasWritten
  <2>4. /\ envelope' \in [Envelope -> EnvelopeStatus] /\ ReceiptsAgree' /\ Same
        /\ receipt' \in [Envelope -> {ReceiptOf[t] : t \in EnvelopeStatus}]
        /\ envelope'[e] = "delivered" /\ \A f \in Envelope \ {e} : envelope'[f] = envelope[f]
    BY <1>3, <2>1, <2>3
  <2>5. \E S \in SUBSET courier[h].hand, p \in {"idle", "dispatching"} :
          CourierGoes(h, [hand |-> S, at |-> p])
    <3>1. NoErrand = [hand |-> {}, at |-> "idle"]
      BY DEF NoErrand
    <3>2. [courier[h] EXCEPT !.hand = courier[h].hand \ {e}] =
            [hand |-> courier[h].hand \ {e}, at |-> "dispatching"]
      <4>1. courier[h] \in [hand : SUBSET Envelope, at : ErrandPhase]
        BY <1>1 DEF OutboxTypeOK
      <4>2. courier[h] = [hand |-> courier[h].hand, at |-> courier[h].at]
        BY <4>1
      <4> QED BY <2>2, <4>2
    <3>3. CASE courier' = [courier EXCEPT ![h] = [hand |-> {}, at |-> "idle"]]
      BY <1>1, <3>3, CourierMoves DEF ErrandPhase
    <3>4. CASE courier' = [courier EXCEPT ![h] = [hand |-> courier[h].hand \ {e},
                                                  at |-> "dispatching"]]
      BY <1>1, <2>3, <3>4, CourierMoves DEF ErrandPhase
    <3> QED BY <2>1, <3>1, <3>2, <3>3, <3>4
  <2>6. WaitsWithinBudget'
    BY <1>1, <2>2, <2>4 DEF WaitsWithinBudget
  <2>7. OutboxTypeOK'
    BY <1>1, <2>2, <2>4, <2>5 DEF OutboxTypeOK, CourierGoes
  <2> QED BY <2>2, <2>3, <2>4, <2>5, <2>6, <2>7, QuietStep DEF CourierGoes
<1> QED BY <1>4, <1>5, <1>6, <1>7, <1>8

-----------------------------------------------------------------------------
(* Theorems *)

LEMMA OutboxInvHolds == OutboxSpec => []OutboxInv
<1>1. OutboxInit => OutboxInv
  <2> SUFFICES ASSUME OutboxInit PROVE OutboxInv
    OBVIOUS
  <2>1. Written = {} /\ IsFiniteSet(Written)
    BY FS_EmptySet DEF OutboxInit, Written
  <2>2. OutboxTypeOK
    BY DEF OutboxInit, OutboxTypeOK, NoErrand, ErrandPhase, EnvelopeStatus, ReceiptOf
  <2>3. NothingBeforeWriting /\ SentAtMostOnce /\ ReceiptsAgree /\ WaitsWithinBudget
    BY DEF OutboxInit, NothingBeforeWriting, SentAtMostOnce, ReceiptsAgree,
       WaitsWithinBudget, ReceiptOf
  <2>4. \A h \in Host : courier[h].at = "idle"
    BY DEF OutboxInit, NoErrand
  <2> QED BY <2>1, <2>2, <2>3, <2>4 DEF OutboxInv, HasItsOwn, PassHasWritten, NotSentBefore,
          CarriedByOne, OwnErrand, OnTheWay
<1>2. OutboxInv /\ [OutboxNext]_outboxVars => OutboxInv'
  <2>1. ASSUME OutboxInv, UNCHANGED outboxVars
        PROVE  OutboxInv'
    <3>1. OutboxTypeOK' /\ ReceiptsAgree' /\ WaitsWithinBudget' /\ Same
      BY <2>1 DEF outboxVars, OutboxInv, OutboxTypeOK, ReceiptsAgree, WaitsWithinBudget, Same
    <3> QED BY <2>1, <3>1, QuietStep DEF outboxVars
  <2> QED BY <2>1, EnqueueStep, SendStep, CourierStep, SweepStep DEF OutboxNext
<1> QED BY <1>1, <1>2, PTL DEF OutboxSpec

\* No recovery, retry, pass or crash gives an envelope to the platform twice.
THEOREM EnvelopesAreSentOnce == OutboxSpec => []SentAtMostOnce
<1>1. OutboxInv => SentAtMostOnce
  BY DEF OutboxInv
<1> QED BY <1>1, OutboxInvHolds, PTL

\* The receipt beside an envelope says what the outbox says of it.
THEOREM ReceiptsFollowTheOutbox == OutboxSpec => []ReceiptsAgree
<1>1. OutboxInv => ReceiptsAgree
  BY DEF OutboxInv
<1> QED BY <1>1, OutboxInvHolds, PTL

\* An envelope that waits has an attempt left.
THEOREM WaitingHasAttempts == OutboxSpec => []WaitsWithinBudget
<1>1. OutboxInv => WaitsWithinBudget
  BY DEF OutboxInv
<1> QED BY <1>1, OutboxInvHolds, PTL

-----------------------------------------------------------------------------
(* Delegated tasks *)

(***************************************************************************)
(* The inductive invariant: what a host is about to do with a task agrees    *)
(* with the record, also when another host has claimed the task meanwhile.   *)
(***************************************************************************)

DelegateState == [at : PassPhase, list : PassPhase, left : SUBSET Task, on : Task \cup {None}]

\* In a pass a host works off a list; a task it reports has an outcome to report,
\* and one whose spend it is about to record is its own and was not recorded.
HostAgrees(h) ==
  LET d == delegate[h] IN
  /\ d.at \notin {"start", "claim"} => d.list \in {"resume", "execute"}
  /\ d.at \in {"resume", "execute"} => d.list = d.at
  /\ d.at \notin {"start", "claim", "resume", "execute"} => d.on \in Task
  /\ d.at \notin {"start", "claim"} /\ d.list = "resume" =>
       \A t \in d.left : task[t] \in ReportedTask
  /\ d.at \in {"report", "mark"} => task[d.on] \in ReportedTask
  /\ d.at = "mark" => d.on \in resumed
  /\ d.at = "completed" =>
       task[d.on] = "completed" /\ usage[d.on] = 0 /\ taskHolder[d.on] = h

TaskInv ==
  /\ TaskTypeOK
  /\ \A h \in Host : HostAgrees(h)
  /\ SpentOnce
  /\ ContinuesWithOutcome
  /\ marked \subseteq resumed

-----------------------------------------------------------------------------
(* Where the moves of a pass lead *)

\* A move of one host leaves the others where they are.
DelegateMoves(h, d) ==
  /\ d \in DelegateState
  /\ delegate' \in [Host -> DelegateState]
  /\ delegate'[h] = d
  /\ \A g \in Host \ {h} : delegate'[g] = delegate[g]

LEMMA DelegatePassGoes ==
  ASSUME TaskTypeOK, NEW h \in Host
  PROVE  /\ \A p \in PassPhase :
              PassesTo(h, p) =>
                DelegateMoves(h, [at |-> p, list |-> delegate[h].list, left |-> delegate[h].left,
                          on |-> delegate[h].on])
         /\ \A p \in PassPhase :
              delegate' = [delegate EXCEPT ![h] = PassAt(p)] => DelegateMoves(h, PassAt(p))
         /\ \A t \in Task, p \in PassPhase :
              TakesUp(h, t, p) =>
                /\ t \in delegate[h].left
                /\ DelegateMoves(h, [at |-> p, list |-> delegate[h].list,
                             left |-> delegate[h].left \ {t}, on |-> t])
         /\ \A l \in {"resume", "execute"}, S \in SUBSET Task :
              WorksThrough(h, l, S) =>
                DelegateMoves(h, IF S = {} THEN PassAt(PassAfter[l])
                                   ELSE [at |-> l, list |-> l, left |-> S, on |-> None])
<1>1. delegate \in [Host -> DelegateState]
  BY DEF TaskTypeOK, DelegateState
<1>2. ASSUME NEW d \in DelegateState, delegate' = [delegate EXCEPT ![h] = d]
      PROVE  DelegateMoves(h, d)
  BY <1>1, <1>2 DEF DelegateMoves
<1>3. ASSUME NEW p \in PassPhase
      PROVE  PassAt(p) \in DelegateState
  BY DEF PassAt, DelegateState
<1>4. ASSUME NEW p \in PassPhase, PassesTo(h, p)
      PROVE  DelegateMoves(h, [at |-> p, list |-> delegate[h].list, left |-> delegate[h].left,
                       on |-> delegate[h].on])
  BY <1>1, <1>4 DEF PassesTo, DelegateMoves, DelegateState
<1>5. ASSUME NEW t \in Task, NEW p \in PassPhase, TakesUp(h, t, p)
      PROVE  /\ t \in delegate[h].left
             /\ DelegateMoves(h, [at |-> p, list |-> delegate[h].list,
                          left |-> delegate[h].left \ {t}, on |-> t])
  BY <1>1, <1>5 DEF TakesUp, DelegateMoves, DelegateState
<1>6. ASSUME NEW l \in {"resume", "execute"}, NEW S \in SUBSET Task, WorksThrough(h, l, S)
      PROVE  DelegateMoves(h, IF S = {} THEN PassAt(PassAfter[l])
                                ELSE [at |-> l, list |-> l, left |-> S, on |-> None])
  <2>1. /\ PassAfter[l] \in PassPhase
        /\ [at |-> l, list |-> l, left |-> S, on |-> None] \in DelegateState
    BY DEF PassAfter, PassPhase, DelegateState
  <2> QED BY <1>2, <1>3, <1>6, <2>1 DEF WorksThrough
<1> QED BY <1>2, <1>3, <1>4, <1>5, <1>6

\* An outcome and who it was recorded for stand: leases, retries, claims and
\* cancels only touch what is open.
LEMMA OutcomeStands ==
  ASSUME TaskTypeOK, [TaskNext]_taskVars, NEW t \in Task, task[t] \in TerminalTask
  PROVE  task'[t] = task[t] /\ taskHolder'[t] = taskHolder[t]
<1> USE DEF TaskTypeOK, TerminalTask, Claimed
<1>1. ASSUME NEW u \in Task, CreateTask(u) \/ CancelTask(u) \/ LeaseLapses(u) \/ RestIsOver(u)
      PROVE  task'[t] = task[t] /\ taskHolder'[t] = taskHolder[t]
  BY <1>1 DEF CreateTask, CancelTask, LeaseLapses, RestIsOver
<1>2. ASSUME NEW h \in Host, ClaimBatch(h)
      PROVE  task'[t] = task[t] /\ taskHolder'[t] = taskHolder[t]
  BY <1>2 DEF ClaimBatch, ClaimTasks, ClaimableTask
<1>3. ASSUME NEW h \in Host, BeginTask(h) \/ CompleteTask(h) \/ RetryTask(h)
      PROVE  task'[t] = task[t] /\ taskHolder'[t] = taskHolder[t]
  BY <1>3 DEF BeginTask, CompleteTask, RetryTask, HoldsTask
<1>4. ASSUME NEW h \in Host,
             \/ ListContinuations(h) \/ NextContinuation(h) \/ DelegateRuns(h)
             \/ RecordUsage(h) \/ ScheduleContinuation(h) \/ MarkContinuation(h)
             \/ DelegateCrashes(h)
      PROVE  UNCHANGED <<task, taskHolder>>
  BY <1>4 DEF ListContinuations, NextContinuation, DelegateRuns, RecordUsage,
     ScheduleContinuation, MarkContinuation, DelegateCrashes
<1> QED BY <1>1, <1>2, <1>3, <1>4 DEF TaskNext, DelegateStep, taskVars

\* A host that does not move keeps agreeing, whatever another one does meanwhile.
LEMMA StillAgrees ==
  ASSUME TaskInv, [TaskNext]_taskVars, NEW g \in Host, delegate'[g] = delegate[g],
         resumed \subseteq resumed',
         delegate[g].at = "completed" => usage'[delegate[g].on] = usage[delegate[g].on]
  PROVE  HostAgrees(g)'
<1>1. /\ delegate[g].left \subseteq Task /\ HostAgrees(g)
      /\ \A t \in Task : task[t] \in TerminalTask =>
                           task'[t] = task[t] /\ taskHolder'[t] = taskHolder[t]
  BY OutcomeStands DEF TaskInv, TaskTypeOK
<1>2. delegate[g].at \in {"report", "mark", "completed"} => delegate[g].on \in Task
  BY <1>1 DEF HostAgrees
<1> QED BY <1>1, <1>2 DEF HostAgrees, ReportedTask, TerminalTask

-----------------------------------------------------------------------------
(* Every step keeps the invariant *)

\* Steps that neither record a spend nor a continuation: what is left to show is
\* that the types hold and that the host that moved agrees with the record.
LEMMA DelegateQuietStep ==
  ASSUME TaskInv, [TaskNext]_taskVars, TaskTypeOK', UNCHANGED <<resumed, marked, usage>>,
         \A g \in Host : HostAgrees(g)' \/ delegate'[g] = delegate[g]
  PROVE  TaskInv'
<1>1. ASSUME NEW g \in Host
      PROVE  HostAgrees(g)'
  BY StillAgrees
<1>2. SpentOnce' /\ ContinuesWithOutcome'
  BY OutcomeStands DEF TaskInv, TaskTypeOK, SpentOnce, ContinuesWithOutcome, ReportedTask,
     TerminalTask
<1>3. marked' \subseteq resumed'
  BY DEF TaskInv
<1> QED BY <1>1, <1>2, <1>3 DEF TaskInv

\* A step of the store.
LEMMA StoreStep ==
  ASSUME TaskInv, NEW t \in Task,
         CreateTask(t) \/ CancelTask(t) \/ LeaseLapses(t) \/ RestIsOver(t)
  PROVE  TaskInv'
<1>1. TaskTypeOK'
  BY DEF TaskInv, TaskTypeOK, Claimed, TerminalTask, CreateTask, CancelTask, LeaseLapses,
     RestIsOver
<1>2. UNCHANGED <<resumed, marked, usage, delegate>>
  BY DEF CreateTask, CancelTask, LeaseLapses, RestIsOver
<1>3. [TaskNext]_taskVars
  BY DEF TaskNext
<1>4. \A g \in Host : delegate'[g] = delegate[g]
  BY <1>2
<1> QED BY <1>1, <1>2, <1>3, <1>4, DelegateQuietStep

\* A step of a host in its pass.
LEMMA HostStep ==
  ASSUME TaskInv, NEW h \in Host, DelegateStep(h) \/ DelegateCrashes(h)
  PROVE  TaskInv'
<1> DEFINE d == delegate[h]
           t == d.on
<1>1. /\ TaskTypeOK /\ HostAgrees(h)
      /\ d.at \in PassPhase /\ d.list \in PassPhase /\ d.left \in SUBSET Task
  BY DEF TaskInv, TaskTypeOK
<1>2. d.at \notin {"start", "claim"} => d.list \in {"resume", "execute"}
  BY <1>1 DEF HostAgrees
<1>3. d.at \notin {"start", "claim", "resume", "execute"} => t \in Task
  BY <1>1 DEF HostAgrees
<1>4. [TaskNext]_taskVars
  BY DEF TaskNext
<1>5. ASSUME NEW e, DelegateMoves(h, e)
      PROVE  /\ delegate' \in [Host -> [at : PassPhase, list : PassPhase, left : SUBSET Task,
                                        on : Task \cup {None}]]
             /\ \A g \in Host \ {h} : delegate'[g] = delegate[g]
  BY <1>5 DEF DelegateMoves, DelegateState
<1>6. ASSUME NEW e, DelegateMoves(h, e), e.at \in {"start", "claim"}
      PROVE  HostAgrees(h)'
  BY <1>6 DEF DelegateMoves, HostAgrees
<1>7. ASSUME NextOfList(h), d.at \notin {"start", "claim"},
             d.list = "resume" => \A u \in d.left : task'[u] \in ReportedTask
      PROVE  /\ \E e : DelegateMoves(h, e)
             /\ HostAgrees(h)'
  <2>1. DelegateMoves(h, IF d.left = {} THEN PassAt(PassAfter[d.list])
                 ELSE [at |-> d.list, list |-> d.list, left |-> d.left, on |-> None])
    BY <1>1, <1>2, <1>7, DelegatePassGoes DEF NextOfList
  <2>2. ASSUME d.left = {} PROVE HostAgrees(h)'
    <3>1. PassAfter[d.list] \in {"start", "claim"}
      BY <1>2, <1>7 DEF PassAfter
    <3>2. PassAt(PassAfter[d.list]).at \in {"start", "claim"}
      BY <3>1 DEF PassAt
    <3> QED BY <1>6, <2>1, <2>2, <3>2
  <2>3. ASSUME d.left # {} PROVE HostAgrees(h)'
    BY <1>2, <1>7, <2>1, <2>3 DEF HostAgrees, DelegateMoves
  <2> QED BY <2>1, <2>2, <2>3
<1>8. d.at \notin {"start", "claim"} /\ d.list = "resume" =>
        \A u \in d.left : task'[u] \in ReportedTask
  <2>1. \A u \in Task : task[u] \in ReportedTask => task'[u] \in ReportedTask
    BY <1>1, <1>4, OutcomeStands DEF ReportedTask, TerminalTask
  <2> QED BY <1>1, <2>1 DEF HostAgrees
<1>9. ASSUME NEW e, DelegateMoves(h, e), HostAgrees(h)', TaskTypeOK',
             UNCHANGED <<resumed, marked, usage>>
      PROVE  TaskInv'
  BY <1>4, <1>5, <1>9, DelegateQuietStep
<1>11. CASE ListContinuations(h)
  <2> DEFINE S == {u \in Task : task[u] \in ReportedTask /\ u \notin marked}
  <2>1. UNCHANGED <<task, taskTries, taskHolder, resting, resumed, marked, usage, taskCrashes>>
    BY <1>11 DEF ListContinuations
  <2>2. DelegateMoves(h, IF S = {} THEN PassAt(PassAfter["resume"])
                 ELSE [at |-> "resume", list |-> "resume", left |-> S, on |-> None])
    BY <1>1, <1>11, DelegatePassGoes DEF ListContinuations
  <2>3. HostAgrees(h)'
    <3>1. CASE S = {}
      BY <1>6, <2>2, <3>1 DEF PassAt, PassAfter
    <3>2. CASE S # {}
      BY <2>1, <2>2, <3>2 DEF DelegateMoves, HostAgrees
    <3> QED BY <3>1, <3>2
  <2>4. TaskTypeOK'
    BY <1>1, <1>5, <2>1, <2>2 DEF TaskTypeOK
  <2> QED BY <1>9, <2>1, <2>2, <2>3, <2>4
<1>12. CASE NextContinuation(h)
  <2>1. UNCHANGED <<task, taskTries, taskHolder, resting, resumed, marked, usage, taskCrashes>>
    BY <1>12 DEF NextContinuation
  <2>2. PICK u \in Task : u \in d.left /\ DelegateMoves(h, [at |-> "report", list |-> d.list,
                                                   left |-> d.left \ {u}, on |-> u])
    BY <1>1, <1>12, DelegatePassGoes DEF NextContinuation, PassPhase
  <2>3. d.at = "resume" /\ d.list = "resume"
    BY <1>1, <1>12 DEF NextContinuation, Delegating, HostAgrees
  <2>4. HostAgrees(h)'
    BY <1>1, <2>1, <2>2, <2>3 DEF DelegateMoves, HostAgrees
  <2>5. TaskTypeOK'
    BY <1>1, <1>5, <2>1, <2>2 DEF TaskTypeOK
  <2> QED BY <1>9, <2>1, <2>2, <2>4, <2>5
<1>13. CASE ClaimBatch(h)
  <2> DEFINE S == {u \in Task : ClaimableTask(u)}
  <2>1. UNCHANGED <<resting, resumed, marked, usage, taskCrashes>>
    BY <1>13 DEF ClaimBatch
  <2>2. DelegateMoves(h, IF S = {} THEN PassAt(PassAfter["execute"])
                 ELSE [at |-> "execute", list |-> "execute", left |-> S, on |-> None])
    BY <1>1, <1>13, DelegatePassGoes DEF ClaimBatch, ClaimTasks
  <2>3. HostAgrees(h)'
    <3>1. CASE S = {}
      BY <1>6, <2>2, <3>1 DEF PassAt, PassAfter
    <3>2. CASE S # {}
      BY <2>2, <3>2 DEF DelegateMoves, HostAgrees
    <3> QED BY <3>1, <3>2
  <2>4. /\ task' \in [Task -> {"absent", "queued"} \cup Claimed \cup TerminalTask]
        /\ taskHolder' \in [Task -> Host \cup {None}]
    BY <1>1, <1>13 DEF TaskTypeOK, ClaimBatch, ClaimTasks, Claimed
  <2>5. taskTries' \in [Task -> 0 .. TaskAttempts]
    BY <1>1, <1>13, TaskAttemptsIsPositive DEF TaskTypeOK, ClaimBatch, ClaimTasks, ClaimableTask
  <2>6. TaskTypeOK'
    BY <1>1, <1>5, <2>1, <2>2, <2>4, <2>5 DEF TaskTypeOK
  <2> QED BY <1>9, <2>1, <2>2, <2>3, <2>6
<1>14. CASE BeginTask(h)
  <2>1. UNCHANGED <<taskTries, taskHolder, resting, resumed, marked, usage, taskCrashes>>
    BY <1>14 DEF BeginTask
  <2>2. d.at = "execute" /\ d.list = "execute"
    BY <1>1, <1>14 DEF BeginTask, Delegating, HostAgrees
  <2>3. task' \in [Task -> {"absent", "queued"} \cup Claimed \cup TerminalTask]
    BY <1>1, <1>14 DEF BeginTask, TaskTypeOK, TerminalTask
  <2>4. ASSUME NEW u \in Task, WorksThrough(h, "execute", d.left \ {u})
        PROVE  TaskInv'
    <3> DEFINE S == d.left \ {u}
    <3>1. DelegateMoves(h, IF S = {} THEN PassAt(PassAfter["execute"])
                   ELSE [at |-> "execute", list |-> "execute", left |-> S, on |-> None])
      BY <1>1, <2>4, DelegatePassGoes
    <3>2. CASE S = {}
      <4>1. DelegateMoves(h, PassAt("start")) /\ PassAt("start").at = "start"
        BY <3>1, <3>2 DEF PassAt, PassAfter
      <4>2. TaskTypeOK'
        BY <1>1, <1>5, <2>1, <2>3, <4>1 DEF TaskTypeOK
      <4> QED BY <1>6, <1>9, <2>1, <4>1, <4>2
    <3>3. CASE S # {}
      <4>1. DelegateMoves(h, [at |-> "execute", list |-> "execute", left |-> S, on |-> None])
        BY <3>1, <3>3
      <4>2. HostAgrees(h)'
        BY <4>1 DEF DelegateMoves, HostAgrees
      <4>3. TaskTypeOK'
        BY <1>1, <1>5, <2>1, <2>3, <4>1 DEF TaskTypeOK
      <4> QED BY <1>9, <2>1, <4>1, <4>2, <4>3
    <3> QED BY <3>2, <3>3
  <2>5. ASSUME NEW u \in Task, NEW p \in {"running", "erred", "report"}, TakesUp(h, u, p),
               p = "report" => task'[u] = "stale"
        PROVE  TaskInv'
    <3>1. DelegateMoves(h, [at |-> p, list |-> d.list, left |-> d.left \ {u}, on |-> u])
      BY <1>1, <2>5, DelegatePassGoes DEF PassPhase
    <3>2. HostAgrees(h)'
      BY <2>2, <2>5, <3>1 DEF DelegateMoves, HostAgrees, ReportedTask, TerminalTask
    <3>3. TaskTypeOK'
      BY <1>1, <1>5, <2>1, <2>3, <3>1 DEF TaskTypeOK
    <3> QED BY <1>9, <2>1, <3>1, <3>2, <3>3
  <2>6. PICK u \in Task :
          \/ WorksThrough(h, "execute", d.left \ {u})
          \/ \E p \in {"running", "erred"} : TakesUp(h, u, p)
          \/ TakesUp(h, u, "report") /\ task' = [task EXCEPT ![u] = "stale"]
    BY <1>14 DEF BeginTask
  <2> QED BY <1>1, <2>4, <2>5, <2>6 DEF TaskTypeOK
<1>15. CASE DelegateRuns(h)
  <2>1. UNCHANGED <<task, taskTries, taskHolder, resting, resumed, marked, usage, taskCrashes>>
    BY <1>15 DEF DelegateRuns
  <2>2. PICK p \in {"ran", "erred"} :
          DelegateMoves(h, [at |-> p, list |-> d.list, left |-> d.left, on |-> t])
    BY <1>1, <1>15, DelegatePassGoes DEF DelegateRuns, PassPhase
  <2>3. HostAgrees(h)'
    BY <1>1, <1>2, <1>3, <1>8, <1>15, <2>1, <2>2 DEF DelegateRuns, Delegating, DelegateMoves, HostAgrees
  <2>4. TaskTypeOK'
    BY <1>1, <1>5, <2>1, <2>2 DEF TaskTypeOK
  <2> QED BY <1>9, <2>1, <2>2, <2>3, <2>4
<1>16. CASE CompleteTask(h)
  <2>1. UNCHANGED <<taskTries, taskHolder, resting, resumed, marked, usage, taskCrashes>>
    BY <1>16 DEF CompleteTask
  <2>2. d.at = "ran" /\ t \in Task
    BY <1>3, <1>16 DEF CompleteTask, Delegating
  <2>3. task' \in [Task -> {"absent", "queued"} \cup Claimed \cup TerminalTask]
    BY <1>1, <1>16 DEF CompleteTask, TaskTypeOK, TerminalTask
  <2>4. CASE PassesTo(h, "completed") /\ HoldsTask(t, h) /\ task' = [task EXCEPT ![t] = "completed"]
    <3>1. DelegateMoves(h, [at |-> "completed", list |-> d.list, left |-> d.left, on |-> t])
      BY <1>1, <2>4, DelegatePassGoes DEF PassPhase
    <3>2. task'[t] = "completed" /\ taskHolder[t] = h /\ usage[t] = 0
      <4>1. task'[t] = "completed" /\ taskHolder[t] = h /\ task[t] # "completed"
        BY <1>1, <2>2, <2>4 DEF HoldsTask, TaskTypeOK, Claimed
      <4>2. usage[t] \in Nat
        BY <1>1, <2>2 DEF TaskTypeOK
      <4> QED BY <2>2, <4>1, <4>2 DEF TaskInv, SpentOnce
    <3>3. HostAgrees(h)'
      BY <1>1, <1>2, <1>8, <2>1, <2>2, <3>1, <3>2 DEF DelegateMoves, HostAgrees
    <3>4. TaskTypeOK'
      BY <1>1, <1>5, <2>1, <2>3, <3>1 DEF TaskTypeOK
    <3> QED BY <1>9, <2>1, <3>1, <3>3, <3>4
  <2>5. CASE NextOfList(h)
    <3>1. (\E e : DelegateMoves(h, e)) /\ HostAgrees(h)'
      BY <1>7, <1>8, <2>2, <2>5
    <3>2. TaskTypeOK'
      BY <1>1, <1>5, <2>1, <2>3, <3>1 DEF TaskTypeOK
    <3> QED BY <1>9, <2>1, <3>1, <3>2
  <2>6. CASE PassesTo(h, "erred")
    <3>1. DelegateMoves(h, [at |-> "erred", list |-> d.list, left |-> d.left, on |-> t])
      BY <1>1, <2>6, DelegatePassGoes DEF PassPhase
    <3>2. HostAgrees(h)'
      BY <1>1, <1>2, <1>8, <2>1, <2>2, <3>1 DEF DelegateMoves, HostAgrees
    <3>3. TaskTypeOK'
      BY <1>1, <1>5, <2>1, <2>3, <3>1 DEF TaskTypeOK
    <3> QED BY <1>9, <2>1, <3>1, <3>2, <3>3
  <2> QED BY <1>16, <2>4, <2>5, <2>6 DEF CompleteTask
<1>17. CASE RecordUsage(h)
  <2>1. UNCHANGED <<task, taskTries, taskHolder, resting, resumed, marked, taskCrashes>>
    BY <1>17 DEF RecordUsage
  <2>2. /\ d.at = "completed" /\ t \in Task
        /\ task[t] = "completed" /\ usage[t] = 0 /\ taskHolder[t] = h
    BY <1>1, <1>3, <1>17 DEF RecordUsage, Delegating, HostAgrees
  <2>3. DelegateMoves(h, [at |-> "report", list |-> d.list, left |-> d.left, on |-> t])
    BY <1>1, <1>17, DelegatePassGoes DEF RecordUsage, PassPhase
  <2>4. usage'[t] = 1 /\ \A u \in Task \ {t} : usage'[u] = usage[u]
    BY <1>1, <1>17, <2>2 DEF RecordUsage, TaskTypeOK
  <2>5. HostAgrees(h)'
    BY <1>1, <1>2, <1>8, <2>1, <2>2, <2>3 DEF DelegateMoves, HostAgrees, ReportedTask, TerminalTask
  <2>6. TaskTypeOK'
    <3>1. usage' \in [Task -> Nat]
      BY <1>1, <1>17, <2>2 DEF TaskTypeOK, RecordUsage
    <3> QED BY <1>1, <1>5, <2>1, <2>3, <3>1 DEF TaskTypeOK
  <2>7. ASSUME NEW g \in Host \ {h}
        PROVE  HostAgrees(g)'
    <3>1. HostAgrees(g) /\ delegate'[g] = delegate[g] /\ delegate[g].at \in PassPhase
      BY <1>5, <2>3 DEF TaskInv, TaskTypeOK
    <3>2. delegate[g].at = "completed" => delegate[g].on \in Task \ {t}
      BY <2>2, <3>1 DEF HostAgrees
    <3> QED BY <1>4, <2>1, <2>4, <3>1, <3>2, StillAgrees
  <2>8. SpentOnce'
    BY <2>1, <2>2, <2>4 DEF TaskInv, SpentOnce
  <2>9. ContinuesWithOutcome' /\ marked' \subseteq resumed'
    BY <2>1 DEF TaskInv, ContinuesWithOutcome
  <2> QED BY <2>5, <2>6, <2>7, <2>8, <2>9 DEF TaskInv
<1>18. CASE RetryTask(h)
  <2>1. UNCHANGED <<taskTries, resumed, marked, usage, taskCrashes>>
    BY <1>18 DEF RetryTask
  <2>2. d.at = "erred" /\ t \in Task
    BY <1>3, <1>18 DEF RetryTask, Delegating
  <2>3. /\ task' \in [Task -> {"absent", "queued"} \cup Claimed \cup TerminalTask]
        /\ taskHolder' \in [Task -> Host \cup {None}]
        /\ resting' \subseteq Task
    BY <1>1, <1>18, <2>2 DEF RetryTask, TaskTypeOK, TerminalTask
  <2>4. CASE NextOfList(h)
    <3>1. (\E e : DelegateMoves(h, e)) /\ HostAgrees(h)'
      BY <1>7, <1>8, <2>2, <2>4
    <3>2. TaskTypeOK'
      BY <1>1, <1>5, <2>1, <2>3, <3>1 DEF TaskTypeOK
    <3> QED BY <1>9, <2>1, <3>1, <3>2
  <2>5. CASE PassesTo(h, "report") /\ task' = [task EXCEPT ![t] = "failed"]
    <3>1. DelegateMoves(h, [at |-> "report", list |-> d.list, left |-> d.left, on |-> t])
      BY <1>1, <2>5, DelegatePassGoes DEF PassPhase
    <3>2. task'[t] = "failed"
      BY <1>1, <2>2, <2>5 DEF TaskTypeOK
    <3>3. HostAgrees(h)'
      BY <1>1, <1>2, <1>8, <2>1, <2>2, <3>1, <3>2
         DEF DelegateMoves, HostAgrees, ReportedTask, TerminalTask
    <3>4. TaskTypeOK'
      BY <1>1, <1>5, <2>1, <2>3, <3>1 DEF TaskTypeOK
    <3> QED BY <1>9, <2>1, <3>1, <3>3, <3>4
  <2>6. CASE delegate' = [delegate EXCEPT ![h] = PassAt("start")]
    <3>1. DelegateMoves(h, PassAt("start")) /\ PassAt("start").at = "start"
      BY <1>1, <2>6, DelegatePassGoes DEF PassPhase, PassAt
    <3>2. TaskTypeOK'
      BY <1>1, <1>5, <2>1, <2>3, <3>1 DEF TaskTypeOK
    <3> QED BY <1>6, <1>9, <2>1, <3>1, <3>2
  <2> QED BY <1>18, <2>4, <2>5, <2>6 DEF RetryTask
<1>19. CASE ScheduleContinuation(h)
  <2>1. UNCHANGED <<task, taskTries, taskHolder, resting, marked, usage, taskCrashes>>
    BY <1>19 DEF ScheduleContinuation
  <2>2. /\ d.at = "report" /\ t \in Task /\ task[t] \in ReportedTask
        /\ resumed' = resumed \cup {t}
    BY <1>1, <1>3, <1>19 DEF ScheduleContinuation, Delegating, HostAgrees
  <2>3. DelegateMoves(h, [at |-> "mark", list |-> d.list, left |-> d.left, on |-> t])
    BY <1>1, <1>19, DelegatePassGoes DEF ScheduleContinuation, PassPhase
  <2>4. HostAgrees(h)'
    BY <1>1, <1>2, <1>8, <2>1, <2>2, <2>3 DEF DelegateMoves, HostAgrees
  <2>5. TaskTypeOK'
    BY <1>1, <1>5, <2>1, <2>2, <2>3 DEF TaskTypeOK
  <2>6. ASSUME NEW g \in Host \ {h}
        PROVE  HostAgrees(g)'
    BY <1>4, <1>5, <2>1, <2>2, <2>3, StillAgrees
  <2>7. SpentOnce' /\ ContinuesWithOutcome' /\ marked' \subseteq resumed'
    BY <2>1, <2>2 DEF TaskInv, SpentOnce, ContinuesWithOutcome
  <2> QED BY <2>4, <2>5, <2>6, <2>7 DEF TaskInv
<1>20. CASE MarkContinuation(h)
  <2>1. UNCHANGED <<task, taskTries, taskHolder, resting, resumed, usage, taskCrashes>>
    BY <1>20 DEF MarkContinuation
  <2>2. /\ d.at = "mark" /\ t \in Task /\ t \in resumed
        /\ marked' \subseteq marked \cup {t}
    BY <1>1, <1>3, <1>20 DEF MarkContinuation, Delegating, HostAgrees
  <2>3. (\E e : DelegateMoves(h, e)) /\ HostAgrees(h)'
    BY <1>7, <1>8, <1>20, <2>2 DEF MarkContinuation
  <2>4. TaskTypeOK'
    BY <1>1, <1>5, <2>1, <2>2, <2>3 DEF TaskTypeOK
  <2>5. ASSUME NEW g \in Host \ {h}
        PROVE  HostAgrees(g)'
    BY <1>4, <1>5, <2>1, <2>3, StillAgrees
  <2>6. SpentOnce' /\ ContinuesWithOutcome' /\ marked' \subseteq resumed'
    BY <2>1, <2>2 DEF TaskInv, SpentOnce, ContinuesWithOutcome
  <2> QED BY <2>3, <2>4, <2>5, <2>6 DEF TaskInv
<1>21. CASE DelegateCrashes(h)
  <2>1. UNCHANGED <<task, taskTries, taskHolder, resting, resumed, marked, usage>>
    BY <1>21 DEF DelegateCrashes
  <2>2. DelegateMoves(h, PassAt("start")) /\ PassAt("start").at = "start"
    BY <1>1, <1>21, DelegatePassGoes DEF DelegateCrashes, PassPhase, PassAt
  <2>3. TaskTypeOK'
    BY <1>1, <1>5, <1>21, <2>1, <2>2 DEF TaskTypeOK, DelegateCrashes
  <2> QED BY <1>6, <1>9, <2>1, <2>2, <2>3
<1> QED BY <1>11, <1>12, <1>13, <1>14, <1>15, <1>16, <1>17, <1>18, <1>19, <1>20, <1>21
        DEF DelegateStep

-----------------------------------------------------------------------------
(* Theorems *)

LEMMA TaskInvHolds == TaskSpec => []TaskInv
<1>1. TaskInit => TaskInv
  <2> SUFFICES ASSUME TaskInit PROVE TaskInv
    OBVIOUS
  <2>1. TaskTypeOK
    BY TaskAttemptsIsPositive DEF TaskInit, TaskTypeOK, PassAt, PassPhase
  <2>2. \A h \in Host : HostAgrees(h)
    BY DEF TaskInit, HostAgrees, PassAt
  <2>3. SpentOnce /\ ContinuesWithOutcome /\ marked \subseteq resumed
    BY DEF TaskInit, SpentOnce, ContinuesWithOutcome
  <2> QED BY <2>1, <2>2, <2>3 DEF TaskInv
<1>2. TaskInv /\ [TaskNext]_taskVars => TaskInv'
  <2>1. ASSUME TaskInv, UNCHANGED taskVars
        PROVE  TaskInv'
    BY <2>1 DEF taskVars, TaskInv, TaskTypeOK, HostAgrees, SpentOnce, ContinuesWithOutcome
  <2> QED BY <2>1, StoreStep, HostStep DEF TaskNext
<1> QED BY <1>1, <1>2, PTL DEF TaskSpec

\* The spend of a delegation is recorded once, and only for a task that completed,
\* however many workers executed it behind lapsed leases.
THEOREM DelegationIsSpentOnce == TaskSpec => []SpentOnce
<1>1. TaskInv => SpentOnce
  BY DEF TaskInv
<1> QED BY <1>1, TaskInvHolds, PTL

\* No run is continued with a task that is open or that was cancelled.
THEOREM DelegationReportsOutcomes == TaskSpec => []ContinuesWithOutcome
<1>1. TaskInv => ContinuesWithOutcome
  BY DEF TaskInv
<1> QED BY <1>1, TaskInvHolds, PTL

\* What a delegation ended with is never changed, nor who it is credited to: not by a
\* late completion, a retry, a cancel or a claim after a lapsed lease.
TaskOutcomeIsFinal ==
  [][\A t \in Task : task[t] \in TerminalTask =>
       task'[t] = task[t] /\ taskHolder'[t] = taskHolder[t]]_taskVars

THEOREM DelegationOutcomesStand == TaskSpec => TaskOutcomeIsFinal
<1>1. ASSUME TaskInv, [TaskNext]_taskVars
      PROVE  [\A t \in Task : task[t] \in TerminalTask =>
                task'[t] = task[t] /\ taskHolder'[t] = taskHolder[t]]_taskVars
  BY <1>1, OutcomeStands DEF TaskInv
<1> QED BY <1>1, TaskInvHolds, PTL DEF TaskSpec, TaskOutcomeIsFinal

-----------------------------------------------------------------------------
(* Tool approvals *)

AnyStatus == ApprovalStatus \cup {"absent", "forgotten"}

(***************************************************************************)
(* The inductive invariant.  Whether a write was made is known from the      *)
(* record only together with its claimant and with what that host is doing.  *)
(***************************************************************************)

\* An approval is claimed once, and what the record says of its write is so.
RecordAgrees(a) ==
  /\ approval[a] \in {"absent", "pending", "approved", "rejected", "expired"} =>
       claimant[a] = None
  /\ approval[a] \in {"executing", "succeeded", "failed"} => claimant[a] # None
  /\ claimant[a] = None => writes[a] = 0
  /\ writes[a] \in {0, 1}
  /\ approval[a] = "succeeded" => writes[a] = 1

\* A host that executes is the claimant, and knows what it has written.
ApproverAgrees(h) ==
  LET a == executor[h].on IN
  /\ executor[h].at \in {"claimed", "ran", "erred"} => claimant[a] = h
  /\ executor[h].at = "claimed" => writes[a] = 0
  /\ executor[h].at \in {"ran", "completed", "staged"} => writes[a] = 1
  /\ executor[h].at \in {"completed", "staged"} => approval[a] \in {"succeeded", "forgotten"}
  /\ executor[h].at = "staged" => a \in continued

Drawn == {a \in Approval : approval[a] # "absent"}

ApprovalInv ==
  /\ ApprovalTypeOK
  /\ IsFiniteSet(Drawn)
  /\ \A a \in Approval : RecordAgrees(a)
  /\ \A h \in Host : ApproverAgrees(h)
  /\ ContinuedMeansDone

-----------------------------------------------------------------------------
(* What the operations of the store do to the statuses *)

\* Expiring and forgetting lead from waiting to expired and from an end to forgotten.
LEMMA ExpiryMoves ==
  ASSUME ApprovalTypeOK, NEW a \in Approval
  PROVE  /\ ExpireToolApprovals[a] \in AnyStatus
         /\ \/ ExpireToolApprovals[a] = approval[a]
            \/ approval[a] \in {"pending", "approved"} /\ ExpireToolApprovals[a] = "expired"
BY DEF ExpireToolApprovals, ApprovalTypeOK, AnyStatus, ApprovalStatus

LEMMA ForgettingMoves ==
  ASSUME NEW st \in [Approval -> AnyStatus], NEW ord
  PROVE  /\ Forgetting(st, ord) \in [Approval -> AnyStatus]
         /\ \A a \in Approval :
              \/ Forgetting(st, ord)[a] = st[a]
              \/ st[a] \in TerminalApproval /\ Forgetting(st, ord)[a] = "forgotten"
BY DEF Forgetting, AnyStatus

\* What steps do to the status of an approval that is neither drawn, claimed nor done.
QuietlyMoves(s, t) ==
  \/ t = s
  \/ s = "pending" /\ t = "approved"
  \/ s \in {"pending", "approved"} /\ t \in {"rejected", "expired", "forgotten"}
  \/ s = "executing" /\ t = "failed"
  \/ s \in TerminalApproval /\ t = "forgotten"

\* Asking for a write: nothing but expiry happens, or one approval is drawn.
Draws(c, a) ==
  /\ AskedFor(c) = {}
  /\ approval[a] = "absent" /\ approval'[a] = "pending"
  /\ writeOf' = [writeOf EXCEPT ![a] = c]
  /\ \A b \in Approval \ {a} : QuietlyMoves(approval[b], approval'[b])

LEMMA AskingMoves ==
  ASSUME ApprovalTypeOK, NEW c \in Call, AskForWrite(c)
  PROVE  /\ approval' \in [Approval -> AnyStatus]
         /\ \/ UNCHANGED writeOf /\ \A a \in Approval : QuietlyMoves(approval[a], approval'[a])
            \/ \E a \in Approval : Draws(c, a)
<1>1. CASE approval' = ExpireToolApprovals /\ UNCHANGED writeOf
  <2>1. approval' \in [Approval -> AnyStatus]
    BY <1>1, ExpiryMoves DEF ExpireToolApprovals
  <2> QED BY <1>1, <2>1, ExpiryMoves DEF QuietlyMoves
<1>2. ASSUME AskedFor(c) = {}, NEW a \in Approval, approval[a] = "absent",
             writeOf' = [writeOf EXCEPT ![a] = c],
             approval' = Forgetting([ExpireToolApprovals EXCEPT ![a] = "pending"], requestedAt')
      PROVE  approval' \in [Approval -> AnyStatus] /\ Draws(c, a)
  <2> DEFINE st == [ExpireToolApprovals EXCEPT ![a] = "pending"]
  <2>1. st \in [Approval -> AnyStatus] /\ st[a] = "pending"
    BY ExpiryMoves DEF ExpireToolApprovals, AnyStatus, ApprovalStatus
  <2>2. \A b \in Approval \ {a} : st[b] = ExpireToolApprovals[b]
    BY DEF ExpireToolApprovals
  <2> HIDE DEF st
  <2>3. approval' = Forgetting(st, requestedAt')
    BY <1>2 DEF st
  <2>4. /\ approval' \in [Approval -> AnyStatus]
        /\ \A b \in Approval :
             \/ approval'[b] = st[b]
             \/ st[b] \in TerminalApproval /\ approval'[b] = "forgotten"
    BY <2>1, <2>3, ForgettingMoves
  <2>5. approval'[a] = "pending"
    BY <2>1, <2>4 DEF TerminalApproval
  <2>6. ASSUME NEW b \in Approval \ {a}
        PROVE  QuietlyMoves(approval[b], approval'[b])
    <3>1. \/ st[b] = approval[b]
          \/ approval[b] \in {"pending", "approved"} /\ st[b] = "expired"
      BY <2>2, ExpiryMoves
    <3> QED BY <2>4, <3>1 DEF QuietlyMoves, TerminalApproval
  <2> QED BY <1>2, <2>4, <2>5, <2>6 DEF Draws
<1> QED BY <1>1, <1>2 DEF AskForWrite, ProposeToolApproval

\* The other operations of the store.
LEMMA StoreMoves ==
  ASSUME ApprovalTypeOK, NEW a \in Approval
  PROVE  /\ ReadToolApprovals \/ ApproveToolApproval(a) \/ RejectToolApproval(a) =>
              \A b \in Approval : QuietlyMoves(approval[b], approval'[b])
         /\ approval' = [ExpireToolApprovals EXCEPT ![a] = "executing"] /\ MayExecute(a) =>
              /\ approval[a] = "approved" /\ approval'[a] = "executing"
              /\ \A b \in Approval \ {a} : QuietlyMoves(approval[b], approval'[b])
<1>1. ASSUME ReadToolApprovals PROVE \A b \in Approval : QuietlyMoves(approval[b], approval'[b])
  BY <1>1, ExpiryMoves DEF ReadToolApprovals, QuietlyMoves
<1>2. ASSUME ApproveToolApproval(a) PROVE \A b \in Approval : QuietlyMoves(approval[b], approval'[b])
  <2>1. \A b \in Approval : \/ approval'[b] = ExpireToolApprovals[b]
                           \/ /\ ExpireToolApprovals[b] = "pending"
                              /\ approval'[b] = "approved"
    BY <1>2 DEF ApproveToolApproval, ExpireToolApprovals
  <2> QED BY <2>1, ExpiryMoves DEF QuietlyMoves
<1>3. ASSUME RejectToolApproval(a) PROVE \A b \in Approval : QuietlyMoves(approval[b], approval'[b])
  <2>1. \A b \in Approval : \/ approval'[b] = ExpireToolApprovals[b]
                           \/ /\ ExpireToolApprovals[b] \in {"pending", "approved"}
                              /\ approval'[b] = "rejected"
    BY <1>3 DEF RejectToolApproval, ExpireToolApprovals
  <2> QED BY <2>1, ExpiryMoves DEF QuietlyMoves
<1>4. ASSUME approval' = [ExpireToolApprovals EXCEPT ![a] = "executing"], MayExecute(a)
      PROVE  /\ approval[a] = "approved" /\ approval'[a] = "executing"
             /\ \A b \in Approval \ {a} : QuietlyMoves(approval[b], approval'[b])
  <2>1. approval[a] = "approved" /\ approval'[a] = "executing"
    BY <1>4, ExpiryMoves DEF MayExecute, ExpireToolApprovals
  <2>2. \A b \in Approval \ {a} : approval'[b] = ExpireToolApprovals[b]
    BY <1>4 DEF ExpireToolApprovals
  <2> QED BY <2>1, <2>2, ExpiryMoves DEF QuietlyMoves
<1> QED BY <1>1, <1>2, <1>3, <1>4

-----------------------------------------------------------------------------
(* Types *)

LEMMA ApprovalTypeStep == ASSUME ApprovalTypeOK, IsFiniteSet(Drawn), [ApprovalNext]_approvalVars
                  PROVE  ApprovalTypeOK' /\ IsFiniteSet(Drawn')
<1> USE DEF AnyStatus
<1>1. ASSUME NEW c \in Call, AskForWrite(c)
      PROVE  ApprovalTypeOK' /\ IsFiniteSet(Drawn')
  <2>1. approval' \in [Approval -> AnyStatus] /\ writeOf' \in [Approval -> Call \cup {None}]
    BY <1>1, AskingMoves DEF ApprovalTypeOK, Draws
  <2>2. requestedAt' \in [Approval -> Nat]
    <3>1. Cardinality(Drawn) \in Nat
      BY FS_CardinalityType
    <3> QED BY <1>1, <3>1 DEF AskForWrite, ProposeToolApproval, ApprovalTypeOK, Drawn
  <2>3. PICK a : Drawn' \subseteq Drawn \cup {a}
    BY <1>1, AskingMoves DEF Drawn, Draws, QuietlyMoves, TerminalApproval
  <2>4. IsFiniteSet(Drawn')
    BY <2>3, FS_AddElement, FS_Subset
  <2> QED BY <1>1, <2>1, <2>2, <2>4 DEF ApprovalTypeOK, AskForWrite
<1>2. ASSUME approval' \in [Approval -> AnyStatus],
             \A a \in Approval : approval[a] = "absent" => approval'[a] = "absent"
      PROVE  IsFiniteSet(Drawn')
  <2>1. Drawn' \subseteq Drawn
    BY <1>2 DEF Drawn
  <2> QED BY <2>1, FS_Subset
<1>3. ASSUME \/ ListToolApprovals \/ RecoverStaleToolApprovals
             \/ \E a \in Approval : FallsDue(a) \/ DecideReject(a)
      PROVE  /\ ApprovalTypeOK'
             /\ \A a \in Approval : approval[a] = "absent" => approval'[a] = "absent"
  BY <1>3 DEF ApprovalTypeOK, ApprovalStatus, ListToolApprovals, RecoverStaleToolApprovals,
              FallsDue, DecideReject, ReadToolApprovals, RejectToolApproval,
              ExpireToolApprovals
<1>4. ASSUME NEW h \in Host, NEW a \in Approval,
             DecideApprove(a, h) \/ FindApproved(a, h) \/ FindContinuation(a, h)
      PROVE  /\ ApprovalTypeOK'
             /\ \A b \in Approval : approval[b] = "absent" => approval'[b] = "absent"
  <2>1. \A p \in ExecutionPhase : MovesTo(h, a, p) =>
          executor' \in [Host -> [on : Approval, at : ExecutionPhase] \cup {NoExecution}]
    BY DEF MovesTo, ApprovalTypeOK
  <2>2. executor' \in [Host -> [on : Approval, at : ExecutionPhase] \cup {NoExecution}]
    BY <1>4, <2>1 DEF DecideApprove, FindApproved, FindContinuation, ExecutionPhase,
       ApprovalTypeOK
  <2>3. /\ approval' \in [Approval -> AnyStatus]
        /\ \A b \in Approval : approval[b] = "absent" => approval'[b] = "absent"
    BY <1>4 DEF ApprovalTypeOK, ApprovalStatus, DecideApprove, FindApproved,
       FindContinuation, ReadToolApprovals, ApproveToolApproval, ExpireToolApprovals
  <2> QED BY <1>4, <2>2, <2>3 DEF ApprovalTypeOK, DecideApprove, FindApproved,
          FindContinuation
<1>5. ASSUME NEW h \in Host, ExecutorStep(h) \/ ExecutorCrashes(h)
      PROVE  /\ ApprovalTypeOK'
             /\ \A b \in Approval : approval[b] = "absent" => approval'[b] = "absent"
  <2> DEFINE a == executor[h].on
  <2>1. executor[h].at # "idle" => a \in Approval
    BY DEF ApprovalTypeOK, NoExecution
  <2> HIDE DEF a
  <2>2. /\ \A p \in ExecutionPhase : MovesTo(h, a, p) /\ a \in Approval =>
              executor' \in [Host -> [on : Approval, at : ExecutionPhase] \cup {NoExecution}]
        /\ LetsGo(h) =>
              executor' \in [Host -> [on : Approval, at : ExecutionPhase] \cup {NoExecution}]
    BY DEF MovesTo, LetsGo, ApprovalTypeOK
  <2>3. CASE ClaimForExecution(h)
    <3>1. a \in Approval
      BY <2>1, <2>3 DEF ClaimForExecution, Executing
    <3>2. executor' \in [Host -> [on : Approval, at : ExecutionPhase] \cup {NoExecution}]
      BY <2>2, <2>3, <3>1 DEF ClaimForExecution, ExecutionPhase, a
    <3> QED BY <2>3, <3>1, <3>2 DEF ApprovalTypeOK, ApprovalStatus, ClaimForExecution,
               ClaimToolApproval, ReadToolApprovals, ExpireToolApprovals, MayExecute, a
  <2>4. CASE RunTool(h)
    <3>1. a \in Approval
      BY <2>1, <2>4 DEF RunTool, Executing
    <3>2. executor' \in [Host -> [on : Approval, at : ExecutionPhase] \cup {NoExecution}]
      BY <2>2, <2>4, <3>1 DEF RunTool, ExecutionPhase, a
    <3> QED BY <2>4, <3>1, <3>2 DEF ApprovalTypeOK, RunTool, a
  <2>5. CASE CompleteToolApproval(h)
    <3>1. a \in Approval
      BY <2>1, <2>5 DEF CompleteToolApproval, Executing
    <3>2. executor' \in [Host -> [on : Approval, at : ExecutionPhase] \cup {NoExecution}]
      BY <2>2, <2>5, <3>1 DEF CompleteToolApproval, ExecutionPhase, a
    <3> QED BY <2>5, <3>1, <3>2
            DEF ApprovalTypeOK, ApprovalStatus, CompleteToolApproval, OwnsClaim, a
  <2>6. CASE FailToolApproval(h)
    <3>1. a \in Approval
      BY <2>1, <2>6 DEF FailToolApproval, Executing
    <3> QED BY <2>2, <2>6, <3>1
            DEF ApprovalTypeOK, ApprovalStatus, FailToolApproval, OwnsClaim, a
  <2>7. CASE ScheduleToolApprovalContinuation(h) \/ MarkToolApprovalContinuationScheduled(h)
    <3>1. a \in Approval
      BY <2>1, <2>7 DEF ScheduleToolApprovalContinuation,
                        MarkToolApprovalContinuationScheduled, Executing
    <3>2. executor' \in [Host -> [on : Approval, at : ExecutionPhase] \cup {NoExecution}]
      BY <2>2, <2>7, <3>1 DEF ScheduleToolApprovalContinuation,
         MarkToolApprovalContinuationScheduled, ExecutionPhase, a
    <3> QED BY <2>7, <3>1, <3>2 DEF ApprovalTypeOK, ScheduleToolApprovalContinuation,
            MarkToolApprovalContinuationScheduled, a
  <2>8. CASE ExecutorCrashes(h)
    BY <2>2, <2>8 DEF ExecutorCrashes, ApprovalTypeOK
  <2> QED BY <1>5, <2>3, <2>4, <2>5, <2>6, <2>7, <2>8 DEF ExecutorStep
<1>6. CASE UNCHANGED approvalVars
  BY <1>6 DEF approvalVars, ApprovalTypeOK, Drawn
<1>7. ApprovalTypeOK' => approval' \in [Approval -> AnyStatus]
  BY DEF ApprovalTypeOK
<1> QED BY <1>1, <1>2, <1>3, <1>4, <1>5, <1>6, <1>7 DEF ApprovalNext

-----------------------------------------------------------------------------
(* The invariant *)

\* Steps that neither claim nor write nor continue.
Quiet ==
  /\ \A a \in Approval : \/ QuietlyMoves(approval[a], approval'[a])
                         \/ approval[a] = "absent" /\ approval'[a] = "pending"
  /\ UNCHANGED <<claimant, writes, continued, continuation>>
  /\ \A h \in Host : \/ executor'[h] = executor[h]
                     \/ executor'[h].at \in {"idle", "found"}
                     \/ /\ executor'[h].at = "completed"
                        /\ executor'[h].on \in Approval
                        /\ approval'[executor'[h].on] = "succeeded"
                        /\ approval[executor'[h].on] = "succeeded"

LEMMA QuietSteps ==
  ASSUME ApprovalInv, ApprovalTypeOK', Quiet
  PROVE  (\A a \in Approval : RecordAgrees(a))' /\ (\A h \in Host : ApproverAgrees(h))' /\ ContinuedMeansDone'
<1>1. ASSUME NEW a \in Approval PROVE RecordAgrees(a)'
  BY DEF ApprovalInv, RecordAgrees, Quiet, QuietlyMoves, TerminalApproval
<1>2. ASSUME NEW h \in Host PROVE ApproverAgrees(h)'
  <2>1. executor[h].at # "idle" => executor[h].on \in Approval
    BY DEF ApprovalInv, ApprovalTypeOK, NoExecution
  <2>2. ApproverAgrees(h) /\ \A a \in Approval : RecordAgrees(a)
    BY DEF ApprovalInv
  <2>3. CASE executor'[h] = executor[h]
    BY <2>1, <2>2, <2>3 DEF ApproverAgrees, Quiet, QuietlyMoves, TerminalApproval
  <2>4. CASE executor'[h] # executor[h]
    BY <2>2, <2>4 DEF ApproverAgrees, RecordAgrees, Quiet
  <2> QED BY <2>3, <2>4
<1>3. ContinuedMeansDone'
  BY DEF ApprovalInv, ContinuedMeansDone, Quiet, QuietlyMoves, TerminalApproval
<1> QED BY <1>1, <1>2, <1>3

LEMMA InvStep == ASSUME ApprovalInv, [ApprovalNext]_approvalVars
                 PROVE  ApprovalInv'
<1>1. ApprovalTypeOK' /\ IsFiniteSet(Drawn')
  BY ApprovalTypeStep DEF ApprovalInv
<1>2. ASSUME NEW h \in Host
      PROVE  /\ executor[h].at # "idle" => executor[h].on \in Approval
             /\ ApproverAgrees(h)
  BY DEF ApprovalInv, ApprovalTypeOK, NoExecution
<1>3. Quiet => ApprovalInv'
  BY <1>1, QuietSteps DEF ApprovalInv
<1>4. ASSUME NEW c \in Call, AskForWrite(c) PROVE Quiet
  <2>1. \/ \A a \in Approval : QuietlyMoves(approval[a], approval'[a])
        \/ \E a \in Approval : Draws(c, a)
    BY <1>4, AskingMoves DEF ApprovalInv
  <2>2. \A a \in Approval : \/ QuietlyMoves(approval[a], approval'[a])
                            \/ approval[a] = "absent" /\ approval'[a] = "pending"
    BY <2>1 DEF Draws
  <2> QED BY <1>4, <2>2 DEF Quiet, AskForWrite
<1>5. CASE \/ ListToolApprovals \/ RecoverStaleToolApprovals
           \/ \E a \in Approval : FallsDue(a) \/ DecideReject(a)
  <2>1. ApprovalTypeOK
    BY DEF ApprovalInv
  <2>2. \A b \in Approval : QuietlyMoves(approval[b], approval'[b])
    <3>1. CASE RecoverStaleToolApprovals \/ \E a \in Approval : FallsDue(a)
      BY <3>1 DEF RecoverStaleToolApprovals, FallsDue, QuietlyMoves
    <3>2. CASE \E a \in Approval : DecideReject(a)
      BY <2>1, <3>2, StoreMoves DEF DecideReject
    <3>3. CASE ListToolApprovals
      BY <2>1, <3>3, StoreMoves DEF ListToolApprovals
    <3> QED BY <1>5, <3>1, <3>2, <3>3
  <2>3. Quiet
    BY <1>5, <2>2 DEF Quiet, ListToolApprovals, RecoverStaleToolApprovals, FallsDue, DecideReject
  <2> QED BY <1>3, <2>3
<1>6. ASSUME NEW h \in Host, NEW a \in Approval,
             DecideApprove(a, h) \/ FindApproved(a, h) \/ FindContinuation(a, h)
      PROVE  Quiet
  <2>1. \A b \in Approval : QuietlyMoves(approval[b], approval'[b])
    BY <1>6, StoreMoves DEF DecideApprove, FindApproved, FindContinuation, ApprovalInv
  <2>2. ASSUME NEW g \in Host
        PROVE  \/ executor'[g] = executor[g]
               \/ executor'[g].at = "found"
               \/ executor'[g] = [on |-> a, at |-> "completed"] /\ FindContinuation(a, h)
    BY <1>6 DEF DecideApprove, FindApproved, FindContinuation, MovesTo, ApprovalInv,
       ApprovalTypeOK
  <2>3. FindContinuation(a, h) => approval[a] = "succeeded" /\ approval'[a] = "succeeded"
    BY DEF FindContinuation, ReadToolApprovals, ExpireToolApprovals
  <2> QED BY <1>6, <2>1, <2>2, <2>3 DEF Quiet, DecideApprove, FindApproved, FindContinuation
<1>7. ASSUME NEW h \in Host, ClaimForExecution(h)
      PROVE  ApprovalInv'
  <2> DEFINE a == executor[h].on
  <2>1. a \in Approval
    BY <1>2, <1>7 DEF ClaimForExecution, Executing
  <2>2. /\ \A b \in Approval : RecordAgrees(b)
        /\ ApprovalTypeOK
    BY DEF ApprovalInv
  <2>3. CASE ClaimToolApproval(a, h) /\ MayExecute(a) /\ MovesTo(h, a, "claimed")
    <3>1. /\ approval[a] = "approved" /\ approval'[a] = "executing"
          /\ claimant' = [claimant EXCEPT ![a] = h]
          /\ \A b \in Approval \ {a} : QuietlyMoves(approval[b], approval'[b])
      BY <2>1, <2>2, <2>3, StoreMoves DEF ClaimToolApproval
    <3>2. UNCHANGED <<writes, continued, continuation>>
      BY <1>7 DEF ClaimForExecution
    <3>3. claimant[a] = None /\ writes[a] = 0
      BY <2>1, <2>2, <3>1 DEF RecordAgrees
    <3>4. claimant'[a] = h /\ \A b \in Approval \ {a} : claimant'[b] = claimant[b]
      BY <2>1, <2>2, <3>1 DEF ApprovalTypeOK
    <3>5. h # None
      BY NoneIsNoHost
    <3>6. ASSUME NEW b \in Approval PROVE RecordAgrees(b)'
      <4>1. CASE b = a
        BY <4>1, <3>1, <3>2, <3>3, <3>4, <3>5 DEF RecordAgrees
      <4>2. CASE b # a
        BY <4>2, <2>2, <3>1, <3>2, <3>4 DEF RecordAgrees, QuietlyMoves, TerminalApproval
      <4> QED BY <4>1, <4>2
    <3>7. ASSUME NEW g \in Host PROVE ApproverAgrees(g)'
      <4>1. CASE g = h
        <5>1. executor'[g] = [on |-> a, at |-> "claimed"]
          BY <2>2, <2>3, <4>1 DEF MovesTo, ApprovalTypeOK
        <5> QED BY <5>1, <4>1, <3>2, <3>3, <3>4 DEF ApproverAgrees
      <4>2. CASE g # h
        <5>1. executor'[g] = executor[g]
          BY <2>2, <2>3, <4>2 DEF MovesTo, ApprovalTypeOK
        <5>2. executor[g].on = a => executor[g].at \in {"idle", "found"}
          BY <1>2, <2>2, <3>1, <3>3, NoneIsNoHost DEF ApproverAgrees, ApprovalTypeOK, ExecutionPhase, NoExecution
        <5>3. executor[g].on # a /\ executor[g].at # "idle" =>
                /\ claimant'[executor[g].on] = claimant[executor[g].on]
                /\ QuietlyMoves(approval[executor[g].on], approval'[executor[g].on])
          BY <1>2, <3>1, <3>4
        <5> QED BY <1>2, <3>2, <5>1, <5>2, <5>3 DEF ApproverAgrees, QuietlyMoves, TerminalApproval
      <4> QED BY <4>1, <4>2
    <3>8. ContinuedMeansDone'
      <4>1. a \notin continued
        BY <2>1, <3>1 DEF ApprovalInv, ContinuedMeansDone
      <4> QED BY <3>1, <3>2, <4>1 DEF ApprovalInv, ContinuedMeansDone, QuietlyMoves, TerminalApproval
    <3> QED BY <1>1, <3>6, <3>7, <3>8 DEF ApprovalInv
  <2>4. CASE approval' = ExpireToolApprovals /\ UNCHANGED claimant /\ LetsGo(h)
    <3>1. \A b \in Approval : QuietlyMoves(approval[b], approval'[b])
      BY <2>2, <2>4, ExpiryMoves DEF QuietlyMoves
    <3>2. \A g \in Host : executor'[g] = executor[g] \/ executor'[g].at = "idle"
      BY <2>2, <2>4 DEF LetsGo, NoExecution, ApprovalTypeOK
    <3> QED BY <1>3, <1>7, <2>4, <3>1, <3>2 DEF Quiet, ClaimForExecution
  <2> QED BY <1>7, <2>3, <2>4 DEF ClaimForExecution, ClaimToolApproval, ReadToolApprovals
<1>8. ASSUME NEW h \in Host, RunTool(h)
      PROVE  ApprovalInv'
  <2> DEFINE a == executor[h].on
  <2>1. /\ a \in Approval /\ executor[h].at = "claimed"
        /\ claimant[a] = h /\ writes[a] = 0 /\ claimant[a] # None
    BY <1>2, <1>8, NoneIsNoHost DEF RunTool, Executing, ApproverAgrees
  <2>2. /\ \A b \in Approval : RecordAgrees(b)
        /\ ApprovalTypeOK
    BY DEF ApprovalInv
  <2>3. approval[a] \in {"executing", "failed", "forgotten"}
    BY <2>1, <2>2 DEF RecordAgrees, ApprovalTypeOK, ApprovalStatus
  <2>4. UNCHANGED <<approval, claimant, continued, continuation>>
    BY <1>8 DEF RunTool
  <2>5. /\ writes'[a] \in {0, 1}
        /\ \A b \in Approval \ {a} : writes'[b] = writes[b]
        /\ \/ executor'[h] = [on |-> a, at |-> "ran"] /\ writes'[a] = 1
           \/ executor'[h] = [on |-> a, at |-> "erred"]
        /\ \A g \in Host \ {h} : executor'[g] = executor[g]
    BY <1>8, <2>1, <2>2 DEF RunTool, MovesTo, ApprovalTypeOK
  <2>6. ASSUME NEW b \in Approval PROVE RecordAgrees(b)'
    BY <2>1, <2>2, <2>3, <2>4, <2>5 DEF RecordAgrees
  <2>7. ASSUME NEW g \in Host PROVE ApproverAgrees(g)'
    <3>1. CASE g = h
      BY <3>1, <2>1, <2>4, <2>5 DEF ApproverAgrees
    <3>2. CASE g # h
      <4>1. executor[g].on = a => executor[g].at \in {"idle", "found"}
        BY <1>2, <3>2, <2>1, <2>2, <2>3 DEF ApproverAgrees, ApprovalTypeOK, ExecutionPhase, NoExecution
      <4> QED BY <1>2, <3>2, <2>4, <2>5, <4>1 DEF ApproverAgrees
    <3> QED BY <3>1, <3>2
  <2>8. ContinuedMeansDone'
    BY <2>1, <2>2, <2>4, <2>5 DEF ApprovalInv, ContinuedMeansDone
  <2> QED BY <1>1, <2>6, <2>7, <2>8 DEF ApprovalInv
<1>9. ASSUME NEW h \in Host, CompleteToolApproval(h)
      PROVE  ApprovalInv'
  <2> DEFINE a == executor[h].on
  <2>1. a \in Approval /\ executor[h].at = "ran" /\ claimant[a] = h /\ writes[a] = 1
    BY <1>2, <1>9 DEF CompleteToolApproval, Executing, ApproverAgrees
  <2>2. /\ \A b \in Approval : RecordAgrees(b)
        /\ ApprovalTypeOK
    BY DEF ApprovalInv
  <2>3. UNCHANGED <<writes, claimant, continued, continuation>>
    BY <1>9 DEF CompleteToolApproval
  <2>4. CASE OwnsClaim(a, h) /\ approval' = [approval EXCEPT ![a] = "succeeded"]
             /\ MovesTo(h, a, "completed")
    <3>1. /\ approval[a] = "executing" /\ approval'[a] = "succeeded"
          /\ \A b \in Approval \ {a} : approval'[b] = approval[b]
          /\ executor'[h] = [on |-> a, at |-> "completed"]
          /\ \A g \in Host \ {h} : executor'[g] = executor[g]
      BY <2>1, <2>2, <2>4 DEF OwnsClaim, MovesTo, ApprovalTypeOK
    <3>2. ASSUME NEW b \in Approval PROVE RecordAgrees(b)'
      BY <2>1, <2>2, <2>3, <3>1 DEF RecordAgrees
    <3>3. ASSUME NEW g \in Host PROVE ApproverAgrees(g)'
      BY <1>2, <2>1, <2>3, <3>1 DEF ApproverAgrees
    <3>4. ContinuedMeansDone'
      BY <2>3, <3>1 DEF ApprovalInv, ContinuedMeansDone
    <3> QED BY <1>1, <3>2, <3>3, <3>4 DEF ApprovalInv
  <2>5. CASE LetsGo(h) /\ UNCHANGED approval
    <3>1. \A g \in Host : executor'[g] = executor[g] \/ executor'[g].at = "idle"
      BY <2>2, <2>5 DEF LetsGo, NoExecution, ApprovalTypeOK
    <3> QED BY <1>3, <2>3, <2>5, <3>1 DEF Quiet, QuietlyMoves
  <2> QED BY <1>9, <2>4, <2>5 DEF CompleteToolApproval
<1>10. ASSUME NEW h \in Host, FailToolApproval(h) \/ ExecutorCrashes(h)
       PROVE  ApprovalInv'
  <2>1. \A g \in Host : executor'[g] = executor[g] \/ executor'[g].at = "idle"
    BY <1>10 DEF FailToolApproval, ExecutorCrashes, LetsGo, NoExecution, ApprovalInv, ApprovalTypeOK
  <2>2. \A b \in Approval : QuietlyMoves(approval[b], approval'[b])
    BY <1>10 DEF FailToolApproval, ExecutorCrashes, OwnsClaim, QuietlyMoves, ApprovalInv,
       ApprovalTypeOK
  <2> QED BY <1>3, <1>10, <2>1, <2>2 DEF Quiet, FailToolApproval, ExecutorCrashes
<1>11. ASSUME NEW h \in Host,
              \/ ScheduleToolApprovalContinuation(h)
              \/ MarkToolApprovalContinuationScheduled(h)
       PROVE  ApprovalInv'
  <2> DEFINE a == executor[h].on
  <2>1. /\ a \in Approval /\ writes[a] = 1 /\ approval[a] \in {"succeeded", "forgotten"}
        /\ executor[h].at = "staged" => a \in continued
    BY <1>2, <1>11 DEF ScheduleToolApprovalContinuation,
       MarkToolApprovalContinuationScheduled, Executing, ApproverAgrees
  <2>2. UNCHANGED <<approval, writes, claimant>>
    BY <1>11 DEF ScheduleToolApprovalContinuation, MarkToolApprovalContinuationScheduled
  <2>3. /\ continued \subseteq continued' /\ continued' \subseteq continued \cup {a}
        /\ \A g \in Host : \/ executor'[g] = executor[g]
                           \/ executor'[g].at = "idle"
                           \/ executor'[g] = [on |-> a, at |-> "staged"] /\ a \in continued'
        /\ \A b \in Approval : continuation'[b] = "scheduled" =>
                                 continuation[b] = "scheduled" \/ b \in continued
    BY <1>11, <2>1 DEF ScheduleToolApprovalContinuation, MovesTo, LetsGo, NoExecution,
       MarkToolApprovalContinuationScheduled, ApprovalInv, ApprovalTypeOK, Executing
  <2>4. ASSUME NEW b \in Approval PROVE RecordAgrees(b)'
    BY <2>2 DEF RecordAgrees, ApprovalInv
  <2>5. ASSUME NEW g \in Host PROVE ApproverAgrees(g)'
    BY <1>2, <2>1, <2>2, <2>3 DEF ApproverAgrees
  <2>6. ContinuedMeansDone'
    BY <2>1, <2>2, <2>3 DEF ApprovalInv, ContinuedMeansDone
  <2> QED BY <1>1, <2>4, <2>5, <2>6 DEF ApprovalInv
<1>12. CASE UNCHANGED approvalVars
  BY <1>3, <1>12 DEF approvalVars, Quiet, QuietlyMoves
<1> QED BY <1>3, <1>4, <1>5, <1>6, <1>7, <1>8, <1>9, <1>10, <1>11, <1>12
        DEF ApprovalNext, ExecutorStep

-----------------------------------------------------------------------------
(* Theorems *)

LEMMA ApprovalInvHolds == ApprovalSpec => []ApprovalInv
<1>1. ApprovalInit => ApprovalInv
  <2> SUFFICES ASSUME ApprovalInit PROVE ApprovalInv
    OBVIOUS
  <2>1. Drawn = {}
    BY DEF ApprovalInit, Drawn
  <2>2. ApprovalTypeOK /\ IsFiniteSet(Drawn)
    BY <2>1, FS_EmptySet DEF ApprovalInit, ApprovalTypeOK
  <2>3. \A a \in Approval : RecordAgrees(a)
    BY DEF ApprovalInit, RecordAgrees
  <2>4. \A h \in Host : ApproverAgrees(h)
    BY DEF ApprovalInit, ApproverAgrees, NoExecution
  <2>5. ContinuedMeansDone
    BY DEF ApprovalInit, ContinuedMeansDone
  <2> QED BY <2>2, <2>3, <2>4, <2>5 DEF ApprovalInv
<1>2. ApprovalInv /\ [ApprovalNext]_approvalVars => ApprovalInv'
  BY InvStep
<1> QED BY <1>1, <1>2, PTL DEF ApprovalSpec

\* However often a write is clicked, claimed, timed out, recovered or interrupted by
\* a crash, the service sees it at most once, and never without a grant.
THEOREM WritesAreGranted == ApprovalSpec => []WrittenOnceIfGranted
<1>1. ApprovalInv => WrittenOnceIfGranted
  BY DEF ApprovalInv, RecordAgrees, WrittenOnceIfGranted
<1> QED BY <1>1, ApprovalInvHolds, PTL

\* A run is only told of a write that was made.
THEOREM ContinuationsAreTrue == ApprovalSpec => []ContinuedMeansDone
<1>1. ApprovalInv => ContinuedMeansDone
  BY DEF ApprovalInv
<1> QED BY <1>1, ApprovalInvHolds, PTL

\* The variables of the approvals keep their types, whatever calls arrive.
THEOREM ApprovalTypeCorrect == ApprovalSpec => []ApprovalTypeOK
<1>1. ApprovalInv => ApprovalTypeOK
  BY DEF ApprovalInv
<1> QED BY <1>1, ApprovalInvHolds, PTL

\* What any step does to the statuses, and to the writes they stand for.
LEMMA StatusSteps ==
  ASSUME ApprovalTypeOK, [ApprovalNext]_approvalVars
  PROVE  \/ /\ UNCHANGED writeOf
            /\ \A a \in Approval : \/ QuietlyMoves(approval[a], approval'[a])
                                   \/ approval[a] = "approved" /\ approval'[a] = "executing"
                                   \/ approval[a] = "executing" /\ approval'[a] = "succeeded"
         \/ \E c \in Call, a \in Approval : Draws(c, a)
<1> DEFINE Effect ==
             /\ UNCHANGED writeOf
             /\ \A a \in Approval : \/ QuietlyMoves(approval[a], approval'[a])
                                    \/ approval[a] = "approved" /\ approval'[a] = "executing"
                                    \/ approval[a] = "executing" /\ approval'[a] = "succeeded"
<1>1. ASSUME NEW c \in Call, AskForWrite(c)
      PROVE  Effect \/ \E a \in Approval : Draws(c, a)
  BY <1>1, AskingMoves
<1>2. ASSUME \/ UNCHANGED approvalVars \/ RecoverStaleToolApprovals
             \/ \E a \in Approval : FallsDue(a)
             \/ \E h \in Host : RunTool(h) \/ FailToolApproval(h) \/ ExecutorCrashes(h)
                                \/ ScheduleToolApprovalContinuation(h)
                                \/ MarkToolApprovalContinuationScheduled(h)
      PROVE  Effect
  <2>1. \A a \in Approval : \/ approval'[a] = approval[a]
                            \/ approval[a] = "executing" /\ approval'[a] = "failed"
    BY <1>2 DEF approvalVars, RecoverStaleToolApprovals, FallsDue, RunTool,
       FailToolApproval, OwnsClaim, ExecutorCrashes, ScheduleToolApprovalContinuation,
       MarkToolApprovalContinuationScheduled, ApprovalTypeOK
  <2> QED BY <1>2, <2>1 DEF QuietlyMoves, approvalVars, RecoverStaleToolApprovals, FallsDue,
          RunTool, FailToolApproval, ExecutorCrashes, ScheduleToolApprovalContinuation,
          MarkToolApprovalContinuationScheduled
<1>3. ASSUME NEW a \in Approval, DecideReject(a) \/ ListToolApprovals
      PROVE  Effect
  BY <1>3, StoreMoves DEF DecideReject, ListToolApprovals
<1>4. ASSUME NEW a \in Approval, NEW h \in Host,
             DecideApprove(a, h) \/ FindApproved(a, h) \/ FindContinuation(a, h)
      PROVE  Effect
  BY <1>4, StoreMoves DEF DecideApprove, FindApproved, FindContinuation
<1>5. ASSUME NEW h \in Host, ClaimForExecution(h)
      PROVE  Effect
  <2>1. executor[h].on \in Approval
    BY <1>5 DEF ClaimForExecution, Executing, ApprovalTypeOK, NoExecution
  <2> QED BY <1>5, <2>1, StoreMoves DEF ClaimForExecution, ClaimToolApproval, ReadToolApprovals
<1>6. ASSUME NEW h \in Host, CompleteToolApproval(h)
      PROVE  Effect
  BY <1>6 DEF CompleteToolApproval, OwnsClaim, ApprovalTypeOK, QuietlyMoves
<1>7. ListToolApprovals => Effect
  <2>1. CASE Approval = {}
    BY <2>1 DEF ListToolApprovals
  <2> QED BY <1>3, <2>1
<1> QED BY <1>1, <1>2, <1>3, <1>4, <1>5, <1>6, <1>7 DEF ApprovalNext, ExecutorStep

\* Asking again for a write that waits, runs or is done makes no second approval of it.
THEOREM OneApproval == ApprovalSpec => []OneApprovalPerCall
<1>1. ApprovalInit => OneApprovalPerCall
  BY DEF ApprovalInit, OneApprovalPerCall, ApprovalKept
<1>2. ASSUME ApprovalTypeOK, OneApprovalPerCall, [ApprovalNext]_approvalVars
      PROVE  OneApprovalPerCall'
  <2>1. \A s, t : QuietlyMoves(s, t) /\ s \in {"absent", "forgotten"} => t = s
    BY DEF QuietlyMoves, TerminalApproval
  <2>2. CASE /\ UNCHANGED writeOf
             /\ \A a \in Approval : ApprovalKept(a)' => ApprovalKept(a)
    BY <1>2, <2>2 DEF OneApprovalPerCall
  <2>3. ASSUME NEW c \in Call, NEW a \in Approval, Draws(c, a)
        PROVE  OneApprovalPerCall'
    <3>1. \A b \in Approval \ {a} :
            /\ ApprovalKept(b)' => ApprovalKept(b) /\ writeOf[b] # c
            /\ writeOf'[b] = writeOf[b]
      BY <1>2, <2>1, <2>3 DEF Draws, AskedFor, ApprovalKept, ApprovalTypeOK
    <3>2. writeOf'[a] = c
      BY <1>2, <2>3 DEF Draws, ApprovalTypeOK
    <3> QED BY <1>2, <3>1, <3>2 DEF OneApprovalPerCall
  <2> QED BY <1>2, <2>1, <2>2, <2>3, StatusSteps DEF ApprovalKept
<1> QED BY <1>1, <1>2, ApprovalTypeCorrect, PTL DEF ApprovalSpec

\* An outcome stands, through late answers and late clicks.
THEOREM OutcomesStand == ApprovalSpec => ApprovalOutcomeIsFinal
<1>1. ASSUME ApprovalTypeOK, [ApprovalNext]_approvalVars
      PROVE  [\A a \in Approval : approval[a] \in TerminalApproval =>
                approval'[a] \in {approval[a], "forgotten"}]_approvalVars
  BY <1>1, StatusSteps DEF QuietlyMoves, TerminalApproval, Draws
<1> QED BY <1>1, ApprovalTypeCorrect, PTL DEF ApprovalSpec, ApprovalOutcomeIsFinal

\* What any step does to a claim and to the count of writes.
LEMMA ClaimSteps ==
  ASSUME ApprovalInv, [ApprovalNext]_approvalVars, NEW a \in Approval
  PROVE  /\ \/ claimant'[a] = claimant[a]
            \/ approval[a] = "approved" /\ approval'[a] = "executing"
         /\ \/ writes'[a] = writes[a]
            \/ claimant[a] # None /\ writes[a] = 0 /\ writes'[a] = 1
<1>1. ApprovalTypeOK
  BY DEF ApprovalInv
<1>2. ASSUME NEW h \in Host, ClaimForExecution(h)
      PROVE  /\ \/ claimant'[a] = claimant[a]
                \/ approval[a] = "approved" /\ approval'[a] = "executing"
             /\ writes'[a] = writes[a]
  <2>1. executor[h].on \in Approval
    BY <1>1, <1>2 DEF ClaimForExecution, Executing, ApprovalTypeOK, NoExecution
  <2> QED BY <1>1, <1>2, <2>1, StoreMoves DEF ClaimForExecution, ClaimToolApproval, ApprovalTypeOK
<1>3. ASSUME NEW h \in Host, RunTool(h)
      PROVE  /\ claimant'[a] = claimant[a]
             /\ \/ writes'[a] = writes[a]
                \/ claimant[a] # None /\ writes[a] = 0 /\ writes'[a] = 1
  <2>1. /\ executor[h].on \in Approval
        /\ claimant[executor[h].on] = h /\ writes[executor[h].on] = 0 /\ h # None
    BY <1>3, NoneIsNoHost DEF RunTool, Executing, ApproverAgrees, ApprovalInv, ApprovalTypeOK,
       NoExecution
  <2> QED BY <1>1, <1>3, <2>1 DEF RunTool, ApprovalTypeOK
<1>4. ASSUME ~\E h \in Host : ClaimForExecution(h) \/ RunTool(h)
      PROVE  UNCHANGED <<claimant, writes>>
  BY <1>4 DEF ApprovalNext, ExecutorStep, approvalVars, AskForWrite, ListToolApprovals,
     RecoverStaleToolApprovals, FallsDue, DecideReject, DecideApprove, FindApproved,
     FindContinuation, CompleteToolApproval, FailToolApproval, ExecutorCrashes,
     ScheduleToolApprovalContinuation, MarkToolApprovalContinuationScheduled
<1> QED BY <1>2, <1>3, <1>4

\* A claimed approval is a grant in use, also once its record is spliced out.
LEMMA ClaimedIsUsed ==
  ASSUME ApprovalInv, NEW a \in Approval
  PROVE  /\ GrantStateOf(a) \in Grants!GrantState
         /\ claimant[a] # None <=> GrantStateOf(a) = "used"
BY DEF ApprovalInv, ApprovalTypeOK, ApprovalStatus, RecordAgrees, GrantStateOf,
   Grants!GrantState

\* Each record keeps the promise of a one-time grant: granted or refused once, used
\* once, and written under only while in use.
THEOREM ApprovalsAreOneTimeGrants == ApprovalSpec => GrantsAreOneTime
<1> DEFINE granted == [a \in Approval |-> GrantStateOf(a)]
<1>1. ApprovalInit => Grants!Init
  BY DEF ApprovalInit, Grants!Init, GrantStateOf
<1>2. ASSUME ApprovalInv, ApprovalInv', [ApprovalNext]_approvalVars
      PROVE  Grants!Next
  <2>1. \A a \in Approval : /\ GrantStateOf(a) \in Grants!GrantState
                           /\ claimant[a] # None <=> GrantStateOf(a) = "used"
    BY <1>2, ClaimedIsUsed
  <2>2. \A a \in Approval : GrantStateOf(a)' \in Grants!GrantState
    BY <1>2 DEF ApprovalInv, ApprovalTypeOK, ApprovalStatus, GrantStateOf, Grants!GrantState
  <2>3. writes' \in [Approval -> 0 .. 1]
    BY <1>2 DEF ApprovalInv, ApprovalTypeOK, RecordAgrees
  <2>4. ASSUME NEW a \in Approval
        PROVE  \/ GrantStateOf(a)' = GrantStateOf(a)
               \/ GrantStateOf(a)' \in Grants!May[GrantStateOf(a)]
    <3>1. \/ QuietlyMoves(approval[a], approval'[a])
          \/ approval[a] = "approved" /\ approval'[a] = "executing"
          \/ approval[a] = "executing" /\ approval'[a] = "succeeded"
          \/ approval[a] = "absent" /\ approval'[a] = "pending"
      BY <1>2, StatusSteps DEF ApprovalInv, Draws
    <3>2. \/ claimant'[a] = claimant[a]
          \/ approval[a] = "approved" /\ approval'[a] = "executing"
      BY <1>2, ClaimSteps
    <3>3. RecordAgrees(a) /\ approval[a] \in AnyStatus
      BY <1>2 DEF ApprovalInv, ApprovalTypeOK, AnyStatus
    <3>4. CASE approval[a] = "approved" /\ approval'[a] = "executing"
      BY <3>4 DEF GrantStateOf, Grants!May
    <3>5. CASE approval[a] = "executing" /\ approval'[a] = "succeeded"
      BY <3>5 DEF GrantStateOf
    <3>6. CASE approval[a] = "absent" /\ approval'[a] = "pending"
      BY <3>6 DEF GrantStateOf, Grants!May
    <3>7. CASE QuietlyMoves(approval[a], approval'[a]) /\ claimant'[a] = claimant[a]
      BY <3>3, <3>7 DEF GrantStateOf, QuietlyMoves, TerminalApproval, RecordAgrees, Grants!May,
         AnyStatus, ApprovalStatus
    <3> QED BY <3>1, <3>2, <3>4, <3>5, <3>6, <3>7
  <2>5. ASSUME NEW a \in Approval
        PROVE  \/ writes'[a] = writes[a]
               \/ writes'[a] = writes[a] + 1 /\ GrantStateOf(a) = "used"
    <3>1. \/ writes'[a] = writes[a]
          \/ claimant[a] # None /\ writes[a] = 0 /\ writes'[a] = 1
      BY <1>2, ClaimSteps
    <3>2. claimant[a] # None => GrantStateOf(a) = "used"
      BY <1>2, ClaimedIsUsed
    <3>3. writes[a] = 0 /\ writes'[a] = 1 => writes'[a] = writes[a] + 1
      BY SMT
    <3> QED BY <3>1, <3>2, <3>3, Zenon
  <2> QED BY <2>1, <2>2, <2>3, <2>4, <2>5 DEF Grants!Next
<1>3. ApprovalInv /\ ApprovalInv' /\ [ApprovalNext]_approvalVars
        => [Grants!Next]_<<granted, writes>>
  BY <1>2
<1> QED BY <1>1, <1>3, ApprovalInvHolds, PTL DEF ApprovalSpec, GrantsAreOneTime, Grants!Spec
=============================================================================
