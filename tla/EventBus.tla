------------------------------ MODULE EventBus ------------------------------
(***************************************************************************)
(* The events the StayBook services exchange over Kafka, and the bus.      *)
(*                                                                         *)
(* `sent' is the set of all events any service has published; nothing ever *)
(* leaves it.  A service may handle an event of `sent' at any time, so a   *)
(* delayed event, a reordered one and one that is never delivered (lost, or*)
(* dropped by the consumer after its three attempts) are all behaviours of *)
(* the model.  A duplicate carries the same event_id, that is, it is the   *)
(* same element of `sent': the consumers' processed_events tables tell it  *)
(* from a new one.                                                         *)
(*                                                                         *)
(* An event is identified by its content.  The code gives each a random    *)
(* event_id instead; the two agree because no event is produced twice with *)
(* the same content (the payment that caused a cancellation is part of it),*)
(* but for inventory.rejected, of which a second copy is ignored.          *)
(***************************************************************************)
EXTENDS Naturals

CONSTANTS
    Bookings,     \* identifiers of bookings: the uuid4 a request would be given
    Payments,     \* the calls of POST /payments
    NoPayment,    \* the payment field of an event that names no payment
    Room,         \* the room each booking asks for
    CheckIn,      \* its first night
    CheckOut      \* the day after its last night

ASSUME NoPaymentAssumption == NoPayment \notin Payments

ASSUME StayAssumption ==
    /\ CheckIn \in [Bookings -> Nat]
    /\ CheckOut \in [Bookings -> Nat]

VARIABLE sent     \* every event published so far

(***************************************************************************)
(* One event: its topic and the parts of its payload that the handlers     *)
(* read.  refund says whether refund_minor > 0.                            *)
(***************************************************************************)
Event(topic, b, p, reason, refund) ==
    [topic |-> topic, booking |-> b, payment |-> p, reason |-> reason, refund |-> refund]

BookingRequested(b) == Event("booking.requested", b, NoPayment, "", FALSE)
BookingConfirmed(b) == Event("booking.confirmed", b, NoPayment, "", FALSE)
BookingCancelled(b, p, reason, refund) == Event("booking.cancelled", b, p, reason, refund)

InventoryHeld(b)             == Event("inventory.held", b, NoPayment, "", FALSE)
InventoryRejected(b)         == Event("inventory.rejected", b, NoPayment, "", FALSE)
InventoryReleased(b, reason) == Event("inventory.released", b, NoPayment, reason, FALSE)

PaymentSucceeded(b, p) == Event("payment.succeeded", b, p, "", FALSE)
PaymentFailed(b, p)    == Event("payment.failed", b, p, "", FALSE)
PaymentRefunded(b, p)  == Event("payment.refunded", b, p, "", FALSE)

CancelReasons ==
    {"guest_request", "rejected_after_payment", "payment_failed", "payment_after_termination"}

(***************************************************************************)
(* The events by the service that produces them.                           *)
(***************************************************************************)
BookingEvents ==
    {BookingRequested(b) : b \in Bookings}
        \cup {BookingConfirmed(b) : b \in Bookings}
        \cup {BookingCancelled(b, p, reason, refund) :
                 b \in Bookings, p \in Payments \cup {NoPayment},
                 reason \in CancelReasons, refund \in BOOLEAN}

InventoryEvents ==
    {InventoryHeld(b) : b \in Bookings}
        \cup {InventoryRejected(b) : b \in Bookings}
        \cup {InventoryReleased(b, reason) : b \in Bookings, reason \in {"cancelled", "expired"}}

PaymentEvents ==
    {PaymentSucceeded(b, p) : b \in Bookings, p \in Payments}
        \cup {PaymentFailed(b, p) : b \in Bookings, p \in Payments}
        \cup {PaymentRefunded(b, p) : b \in Bookings, p \in Payments}

Events == BookingEvents \cup InventoryEvents \cup PaymentEvents

(***************************************************************************)
(* EventProducer.publish: send_and_wait returns once every in-sync replica *)
(* has the event.                                                          *)
(***************************************************************************)
Publish(e) == sent' = sent \cup {e}
=============================================================================
