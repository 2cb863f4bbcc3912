--------------------------- MODULE BookingService ---------------------------
(***************************************************************************)
(* The booking service: the row of each booking, the HTTP operations that  *)
(* create and cancel it, and the saga's handlers for the events of the     *)
(* inventory and payment services.  Every handler is one database          *)
(* transaction that locks the booking's row, so it is one atomic action;   *)
(* what it tells the other services it stages in the outbox table of the   *)
(* same transaction.                                                       *)
(*                                                                         *)
(* BookingSpec runs the service against an environment that may deliver    *)
(* any inventory or payment event, for any booking, in any order: what it  *)
(* satisfies depends on no other service.  Module StayBook delivers only   *)
(* what the other services have sent.                                      *)
(***************************************************************************)
EXTENDS EventBus, FiniteSets

CONSTANTS
    RequestKey,   \* the Idempotency-Key header of the request for each booking
    NoKey         \* a request without the header

VARIABLES
    status,            \* bookings.status; "none" while the row does not exist
    paymentReceived,   \* bookings.payment_received
    outbox,            \* the outbox table: the events staged so far, published or not
    bookingSeen        \* the booking service's processed_events

\* The definitions named <definition>_<what is wrong> are faults: each is put
\* in place of its definition to see a property fail.

bookingVars == <<status, paymentReceived, outbox, bookingSeen>>

BookingStatus ==
    {"PENDING", "AWAITING_PAYMENT", "CONFIRMED", "REJECTED", "CANCELLING", "CANCELLED", "EXPIRED"}

TERMINAL_WithoutExpired == {"REJECTED", "CANCELLED"}

TERMINAL == {"REJECTED", "CANCELLED", "EXPIRED"}

BookingInit ==
    /\ status = [b \in Bookings |-> "none"]
    /\ paymentReceived = [b \in Bookings |-> FALSE]
    /\ outbox = {}
    /\ bookingSeen = {}

(***************************************************************************)
(* Pieces of the handlers.  _load marks the event processed and locks the  *)
(* row; a duplicate changes nothing.  An event of an unknown booking is    *)
(* marked processed too: its status is "none" and every handler skips it.  *)
(***************************************************************************)
Load(e) ==
    /\ e \notin bookingSeen
    /\ bookingSeen' = bookingSeen \cup {e}

Transition(b, s) == status' = [status EXCEPT ![b] = s]

Stage(es) == outbox' = outbox \cup es

Known(b) == status[b] # "none"

HandlerIgnores == UNCHANGED <<status, paymentReceived, outbox>>

(***************************************************************************)
(* POST /bookings.  The request's dates were validated; inserting the row  *)
(* fails on the unique idempotency_key when another booking has the key,   *)
(* and then the existing booking is returned and nothing changes.          *)
(***************************************************************************)
ValidStay(b) == CheckIn[b] < CheckOut[b]

KeyUnused(b) ==
    \A c \in Bookings : Known(c) /\ RequestKey[c] = RequestKey[b] => RequestKey[b] = NoKey

CreateBooking(b) ==
    /\ ~Known(b)
    /\ ValidStay(b)
    /\ KeyUnused(b)
    /\ Transition(b, "PENDING")
    /\ Stage({BookingRequested(b)})
    /\ UNCHANGED <<paymentReceived, bookingSeen>>

(***************************************************************************)
(* POST /bookings/{id}/cancel.  A booking that has been paid waits for its *)
(* refund in CANCELLING.                                                   *)
(***************************************************************************)
Cancellable(b) == status[b] \in {"CONFIRMED", "AWAITING_PAYMENT", "PENDING"}

RefundDue_Always(b) == TRUE

RefundDue_Never(b) == FALSE

RefundDue(b) == paymentReceived[b]

CancelledAs(b) == IF RefundDue(b) THEN "CANCELLING" ELSE "CANCELLED"

CancelBooking(b) ==
    /\ Cancellable(b)
    /\ Transition(b, CancelledAs(b))
    /\ Stage({BookingCancelled(b, NoPayment, "guest_request", RefundDue(b))})
    /\ UNCHANGED <<paymentReceived, bookingSeen>>

(***************************************************************************)
(* The saga's handlers.                                                    *)
(***************************************************************************)
AwaitsHold_Anytime(b) == Known(b)

AwaitsHold(b) == status[b] = "PENDING"

OnInventoryHeld(e) ==
    /\ e.topic = "inventory.held"
    /\ Load(e)
    /\ LET b == e.booking IN
        \/ /\ ~AwaitsHold(b)
           /\ HandlerIgnores
        \/ /\ AwaitsHold(b)
           /\ paymentReceived[b]
           /\ Transition(b, "CONFIRMED")
           /\ Stage({BookingConfirmed(b)})
           /\ UNCHANGED paymentReceived
        \/ /\ AwaitsHold(b)
           /\ ~paymentReceived[b]
           /\ Transition(b, "AWAITING_PAYMENT")
           /\ UNCHANGED <<paymentReceived, outbox>>

Rejectable_Ended(b) == Known(b)

Rejectable_OnlyHeld(b) == status[b] = "AWAITING_PAYMENT"

Rejectable(b) == Known(b) /\ status[b] \notin TERMINAL

RefundOnRejection_Forgotten(b) == {}

RefundOnRejection(b) ==
    IF paymentReceived[b]
    THEN {BookingCancelled(b, NoPayment, "rejected_after_payment", TRUE)}
    ELSE {}

OnInventoryRejected(e) ==
    /\ e.topic = "inventory.rejected"
    /\ Load(e)
    /\ LET b == e.booking IN
        \/ /\ ~Rejectable(b)
           /\ HandlerIgnores
        \/ /\ Rejectable(b)
           /\ Transition(b, "REJECTED")
           /\ Stage(RefundOnRejection(b))
           /\ UNCHANGED paymentReceived

Expirable_OnlyPending(b) == status[b] = "PENDING"

\* A release that answers a cancellation ("cancelled") is ignored.
Expirable(b) == status[b] \in {"PENDING", "AWAITING_PAYMENT"}

OnInventoryReleased(e) ==
    /\ e.topic = "inventory.released"
    /\ Load(e)
    /\ LET b == e.booking IN
        \/ /\ e.reason # "expired" \/ ~Expirable(b)
           /\ HandlerIgnores
        \/ /\ e.reason = "expired"
           /\ Expirable(b)
           /\ Transition(b, "EXPIRED")
           /\ UNCHANGED <<paymentReceived, outbox>>

\* The payment is recorded whatever the status is; PENDING waits for
\* inventory.held, CONFIRMED and CANCELLING have nothing more to do.
OnPaymentSucceeded(e) ==
    /\ e.topic = "payment.succeeded"
    /\ Load(e)
    /\ LET b == e.booking IN
        \/ /\ ~Known(b)
           /\ HandlerIgnores
        \/ /\ Known(b)
           /\ paymentReceived' = [paymentReceived EXCEPT ![b] = TRUE]
           /\ \/ /\ status[b] = "AWAITING_PAYMENT"
                 /\ Transition(b, "CONFIRMED")
                 /\ Stage({BookingConfirmed(b)})
              \/ /\ status[b] \in TERMINAL
                 /\ Stage({BookingCancelled(b, e.payment, "payment_after_termination", TRUE)})
                 /\ UNCHANGED status
              \/ /\ status[b] \notin TERMINAL \cup {"AWAITING_PAYMENT"}
                 /\ UNCHANGED <<status, outbox>>

PaymentFailureEnds_Confirmed(b) == Known(b) /\ status[b] \notin TERMINAL

PaymentFailureEnds(b) == Known(b) /\ status[b] \notin TERMINAL \cup {"CONFIRMED"}

OnPaymentFailed(e) ==
    /\ e.topic = "payment.failed"
    /\ Load(e)
    /\ LET b == e.booking IN
        \/ /\ ~PaymentFailureEnds(b)
           /\ HandlerIgnores
        \/ /\ PaymentFailureEnds(b)
           /\ Transition(b, "CANCELLED")
           /\ Stage({BookingCancelled(b, NoPayment, "payment_failed", FALSE)})
           /\ UNCHANGED paymentReceived

OnPaymentRefunded(e) ==
    /\ e.topic = "payment.refunded"
    /\ Load(e)
    /\ LET b == e.booking IN
        \/ /\ status[b] # "CANCELLING"
           /\ HandlerIgnores
        \/ /\ status[b] = "CANCELLING"
           /\ Transition(b, "CANCELLED")
           /\ UNCHANGED <<paymentReceived, outbox>>

\* The consumer's table of handlers.
BookingHandles(e) ==
    \/ OnInventoryHeld(e)
    \/ OnInventoryRejected(e)
    \/ OnInventoryReleased(e)
    \/ OnPaymentSucceeded(e)
    \/ OnPaymentFailed(e)
    \/ OnPaymentRefunded(e)

(***************************************************************************)
(* The relay publishes a staged row.  A row it publishes again (a batch    *)
(* rolled back after the send, a crash before the commit) has the same     *)
(* event_id and leaves `sent' as it is, so published_at is not needed here;*)
(* module OutboxRelay has the batches, the locks and the crashes.          *)
(***************************************************************************)
PublishStaged(e) ==
    /\ e \in outbox \ sent
    /\ Publish(e)
    /\ UNCHANGED bookingVars

(***************************************************************************)
(* The service against an arbitrary environment.                           *)
(***************************************************************************)
BookingOperation ==
    \/ \E b \in Bookings : CreateBooking(b) \/ CancelBooking(b)
    \/ \E e \in InventoryEvents \cup PaymentEvents : BookingHandles(e)

BookingNext ==
    \/ BookingOperation /\ UNCHANGED sent
    \/ \E e \in outbox : PublishStaged(e)

BookingStart == BookingInit /\ sent = {}

BookingSpec == BookingStart /\ [][BookingNext]_<<bookingVars, sent>>

-----------------------------------------------------------------------------
(***************************************************************************)
(* Properties.                                                             *)
(***************************************************************************)

\* Type invariant: the ranges of bookings.status and payment_received, and
\* the events the service stages and consumes.
BookingTypeOK ==
    /\ status \in [Bookings -> BookingStatus \cup {"none"}]
    /\ paymentReceived \in [Bookings -> BOOLEAN]
    /\ outbox \subseteq BookingEvents
    /\ bookingSeen \subseteq InventoryEvents \cup PaymentEvents

\* The status says whether the booking has been paid where it depends on it:
\* never while it awaits payment, always when it is confirmed or waits for
\* its refund.  payment_received and status are set by different handlers,
\* in either order.
PaymentMatchesStatus ==
    \A b \in Bookings :
        /\ status[b] \in {"none", "AWAITING_PAYMENT"} => ~paymentReceived[b]
        /\ status[b] \in {"CONFIRMED", "CANCELLING"} => paymentReceived[b]

CancelStaged(b) == \E e \in outbox : e.topic = "booking.cancelled" /\ e.booking = b

RefundStaged(b) ==
    \E e \in outbox : e.topic = "booking.cancelled" /\ e.booking = b /\ e.refund

\* What the outbox has told the other services agrees with the row, however
\* the handlers interleave: a booking that exists has been requested, a
\* confirmation holds until it is taken back by a cancellation that refunds,
\* and a booking announced as cancelled is over and never comes back.
EventsMatchStatus ==
    \A b \in Bookings :
        /\ Known(b) <=> BookingRequested(b) \in outbox
        /\ status[b] = "CONFIRMED" => BookingConfirmed(b) \in outbox
        /\ BookingConfirmed(b) \in outbox => status[b] = "CONFIRMED" \/ RefundStaged(b)
        /\ CancelStaged(b) => status[b] \in {"CANCELLING", "CANCELLED", "REJECTED", "EXPIRED"}

\* A paid booking that its guest cancelled or the inventory rejected has a
\* refund on its way.  The one cancellation that may keep the money is the
\* one a declined later payment causes: on_payment_failed stages refund 0
\* whatever payment_received says.
PaidEndIsRefunded ==
    \A b \in Bookings :
        paymentReceived[b] =>
            /\ status[b] \in {"CANCELLING", "REJECTED"} => RefundStaged(b)
            /\ status[b] = "CANCELLED" =>
                  \/ RefundStaged(b)
                  \/ BookingCancelled(b, NoPayment, "payment_failed", FALSE) \in outbox

\* What the service announces it announces once.  The outbox gives every row an
\* event_id of its own, so consumers would take a second announcement for a new
\* event: a second refund, a second notice.  No status in which a handler or a
\* request may stage an event is reached again once it is staged, whatever the
\* order of events.
AnnouncedOnce ==
    \A b \in Bookings :
        /\ status[b] \in {"PENDING", "AWAITING_PAYMENT"} => BookingConfirmed(b) \notin outbox
        /\ Cancellable(b) => ~CancelStaged(b)
        /\ Rejectable(b) =>
              BookingCancelled(b, NoPayment, "rejected_after_payment", TRUE) \notin outbox
        /\ PaymentFailureEnds(b) =>
              BookingCancelled(b, NoPayment, "payment_failed", FALSE) \notin outbox
        /\ \A p \in Payments :
              PaymentSucceeded(b, p) \notin bookingSeen =>
                  BookingCancelled(b, p, "payment_after_termination", TRUE) \notin outbox

\* A booking only moves on, whatever late or repeated events and requests arrive:
\* it never waits again for what it has once stopped waiting for, and an ended
\* booking keeps its status.
RankOf(s) ==
    CASE s = "none"             -> 0
      [] s = "PENDING"          -> 1
      [] s = "AWAITING_PAYMENT" -> 2
      [] s = "CONFIRMED"        -> 3
      [] s = "CANCELLING"       -> 4
      [] s \in {"REJECTED", "CANCELLED", "EXPIRED"} -> 5

MovesOn ==
    \A b \in Bookings : status'[b] # status[b] => RankOf(status[b]) < RankOf(status'[b])

StatusOnlyMovesOn == [][MovesOn]_bookingVars

\* The service keeps the promises of BookingLifecycle.
StageOf(s) ==
    CASE s = "none"                          -> "none"
      [] s \in {"PENDING", "AWAITING_PAYMENT"} -> "open"
      [] s = "CONFIRMED"                     -> "confirmed"
      [] s = "CANCELLING"                    -> "refunding"
      [] s \in {"REJECTED", "CANCELLED", "EXPIRED"} -> "ended"

stages == [b \in Bookings |-> StageOf(status[b])]
refundsOwed == [b \in Bookings |-> RefundStaged(b)]

Lifecycle == INSTANCE BookingLifecycle WITH
    stage <- stages, paid <- paymentReceived, owed <- refundsOwed

ImplementsLifecycle == Lifecycle!Spec
=============================================================================
