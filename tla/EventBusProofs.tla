--------------------------- MODULE EventBusProofs ---------------------------
(***************************************************************************)
(* What the fields of an event tell: the lemmas about EventBus that the    *)
(* proofs of the services rest on.                                         *)
(***************************************************************************)
EXTENDS EventBus, TLAPS

\* The fields of the events the booking service stages, which tell them apart.
LEMMA AnnouncedFields ==
    ASSUME NEW b
    PROVE  /\ BookingRequested(b).topic = "booking.requested"
           /\ BookingRequested(b).booking = b
           /\ BookingConfirmed(b).topic = "booking.confirmed"
           /\ BookingConfirmed(b).booking = b
BY DEF BookingRequested, BookingConfirmed, Event

\* The fields of a cancellation.
LEMMA CancelledFields ==
    ASSUME NEW b, NEW p, NEW reason, NEW refund
    PROVE  /\ BookingCancelled(b, p, reason, refund).topic = "booking.cancelled"
           /\ BookingCancelled(b, p, reason, refund).booking = b
           /\ BookingCancelled(b, p, reason, refund).payment = p
           /\ BookingCancelled(b, p, reason, refund).reason = reason
           /\ BookingCancelled(b, p, reason, refund).refund = refund
BY DEF BookingCancelled, Event

\* The fields of the events it consumes.
LEMMA InboundFieldsOf ==
    ASSUME NEW b, NEW p, NEW reason
    PROVE  /\ InventoryHeld(b).booking = b
           /\ InventoryHeld(b).payment = NoPayment
           /\ InventoryHeld(b).topic = "inventory.held"
           /\ InventoryRejected(b).booking = b
           /\ InventoryRejected(b).payment = NoPayment
           /\ InventoryRejected(b).topic = "inventory.rejected"
           /\ InventoryReleased(b, reason).booking = b
           /\ InventoryReleased(b, reason).payment = NoPayment
           /\ InventoryReleased(b, reason).topic = "inventory.released"
           /\ InventoryReleased(b, reason).reason = reason
           /\ PaymentSucceeded(b, p).booking = b
           /\ PaymentSucceeded(b, p).payment = p
           /\ PaymentSucceeded(b, p).topic = "payment.succeeded"
           /\ PaymentFailed(b, p).booking = b
           /\ PaymentFailed(b, p).payment = p
           /\ PaymentFailed(b, p).topic = "payment.failed"
           /\ PaymentRefunded(b, p).booking = b
           /\ PaymentRefunded(b, p).payment = p
           /\ PaymentRefunded(b, p).topic = "payment.refunded"
BY DEF InventoryHeld, InventoryRejected, InventoryReleased, PaymentSucceeded, PaymentFailed,
       PaymentRefunded, Event

\* What the handlers read of an event they are given.
LEMMA InboundFields ==
    ASSUME NEW e \in InventoryEvents \cup PaymentEvents
    PROVE  /\ e.booking \in Bookings
           /\ e.payment \in Payments \cup {NoPayment}
           /\ e.topic = "payment.succeeded" => e.payment \in Payments
<1>1. CASE e \in InventoryEvents
  <2>1. PICK c \in Bookings :
          \/ e = InventoryHeld(c)
          \/ e = InventoryRejected(c)
          \/ \E reason \in {"cancelled", "expired"} : e = InventoryReleased(c, reason)
    BY <1>1 DEF InventoryEvents
  <2>2. e.booking = c /\ e.payment = NoPayment /\ e.topic # "payment.succeeded"
    BY <2>1, InboundFieldsOf
  <2> QED
    BY <2>2
<1>2. CASE e \in PaymentEvents
  <2>1. PICK c \in Bookings, p \in Payments :
          e = PaymentSucceeded(c, p) \/ e = PaymentFailed(c, p) \/ e = PaymentRefunded(c, p)
    BY <1>2 DEF PaymentEvents
  <2>2. e.booking = c /\ e.payment = p
    BY <2>1, InboundFieldsOf
  <2> QED
    BY <2>2
<1> QED
  BY <1>1, <1>2

\* An event of the booking service is determined by its fields.
LEMMA BookingEventIs ==
    ASSUME NEW e \in BookingEvents
    PROVE  /\ e.booking \in Bookings
           /\ \/ e.topic = "booking.requested" /\ e = BookingRequested(e.booking)
              \/ e.topic = "booking.confirmed" /\ e = BookingConfirmed(e.booking)
              \/ /\ e.topic = "booking.cancelled"
                 /\ e.payment \in Payments \cup {NoPayment}
                 /\ e.reason \in CancelReasons
                 /\ e.refund \in BOOLEAN
                 /\ e = BookingCancelled(e.booking, e.payment, e.reason, e.refund)
<1>1. CASE \E b \in Bookings : e = BookingRequested(b) \/ e = BookingConfirmed(b)
  <2>1. PICK b \in Bookings : e = BookingRequested(b) \/ e = BookingConfirmed(b)
    BY <1>1
  <2> QED
    BY <2>1, AnnouncedFields
<1>2. CASE \E b \in Bookings, p \in Payments \cup {NoPayment},
              reason \in CancelReasons, refund \in BOOLEAN :
                 e = BookingCancelled(b, p, reason, refund)
  <2>1. PICK b \in Bookings, p \in Payments \cup {NoPayment},
             reason \in CancelReasons, refund \in BOOLEAN :
                e = BookingCancelled(b, p, reason, refund)
    BY <1>2
  <2> QED
    BY <2>1, CancelledFields
<1> QED
  BY <1>1, <1>2 DEF BookingEvents

\* So is one of the inventory service,
LEMMA InventoryEventIs ==
    ASSUME NEW e \in InventoryEvents
    PROVE  /\ e.booking \in Bookings
           /\ \/ e.topic = "inventory.held" /\ e = InventoryHeld(e.booking)
              \/ e.topic = "inventory.rejected" /\ e = InventoryRejected(e.booking)
              \/ /\ e.topic = "inventory.released"
                 /\ e.reason \in {"cancelled", "expired"}
                 /\ e = InventoryReleased(e.booking, e.reason)
<1>1. PICK b \in Bookings :
         \/ e = InventoryHeld(b)
         \/ e = InventoryRejected(b)
         \/ \E reason \in {"cancelled", "expired"} : e = InventoryReleased(b, reason)
  BY DEF InventoryEvents
<1>2. CASE e = InventoryHeld(b) \/ e = InventoryRejected(b)
  BY <1>2, InboundFieldsOf
<1>3. CASE \E reason \in {"cancelled", "expired"} : e = InventoryReleased(b, reason)
  BY <1>3, InboundFieldsOf
<1> QED
  BY <1>1, <1>2, <1>3

\* and one of the payment service.
LEMMA PaymentEventIs ==
    ASSUME NEW e \in PaymentEvents
    PROVE  /\ e.booking \in Bookings
           /\ e.payment \in Payments
           /\ \/ /\ e.topic = "payment.succeeded"
                 /\ e = PaymentSucceeded(e.booking, e.payment)
              \/ /\ e.topic = "payment.failed"
                 /\ e = PaymentFailed(e.booking, e.payment)
              \/ /\ e.topic = "payment.refunded"
                 /\ e = PaymentRefunded(e.booking, e.payment)
<1>1. PICK b \in Bookings, p \in Payments :
         e = PaymentSucceeded(b, p) \/ e = PaymentFailed(b, p) \/ e = PaymentRefunded(b, p)
  BY DEF PaymentEvents
<1> QED
  BY <1>1, InboundFieldsOf
=============================================================================
