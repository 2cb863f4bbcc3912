------------------------------ MODULE StayBook ------------------------------
(***************************************************************************)
(* The booking saga: guests and the booking, inventory and payment services*)
(* together, exchanging the events of the bus.  A service handles an event *)
(* only after it has been published, and otherwise at any time and in any  *)
(* order: the topics are separate, each has six partitions, and the outbox *)
(* relay and the handlers retry on their own.                              *)
(***************************************************************************)
EXTENDS BookingService, InventoryService, PaymentService

vars == <<sent, bookingVars, inventoryVars, paymentVars>>

Init ==
    /\ sent = {}
    /\ BookingInit
    /\ InventoryInit
    /\ PaymentInit

(***************************************************************************)
(* Guests.  A booking's id is known only once the booking exists, so a call*)
(* to pay for it comes after that; the payment service itself does not ask *)
(* whether the booking exists, or what its status is.                      *)
(***************************************************************************)
GuestActs ==
    /\ \/ /\ \E b \in Bookings : CreateBooking(b) \/ CancelBooking(b)
          /\ UNCHANGED paymentVars
       \/ /\ \E p \in Payments : Known(PaysFor[p]) /\ LookUp(p)
          /\ UNCHANGED bookingVars
    /\ UNCHANGED <<sent, inventoryVars>>

\* The consumers.
BookingConsumes ==
    /\ \E e \in sent : BookingHandles(e)
    /\ UNCHANGED <<sent, inventoryVars, paymentVars>>

InventoryConsumes ==
    /\ \E e \in sent : InventoryHandles(e)
    /\ UNCHANGED <<sent, bookingVars, paymentVars>>

PaymentConsumes ==
    /\ \E e \in sent : PaymentHandles(e)
    /\ UNCHANGED <<sent, bookingVars, inventoryVars>>

\* The outbox relay, and what the other two services do on their own.
BookingRelays ==
    /\ \E e \in outbox : PublishStaged(e)
    /\ UNCHANGED <<inventoryVars, paymentVars>>

InventoryActs ==
    /\ InventoryStep
    /\ UNCHANGED <<bookingVars, paymentVars>>

PaymentActs ==
    /\ PaymentStep
    /\ UNCHANGED <<bookingVars, inventoryVars>>

Next ==
    \/ GuestActs
    \/ BookingConsumes
    \/ BookingRelays
    \/ InventoryConsumes
    \/ InventoryActs
    \/ PaymentConsumes
    \/ PaymentActs

Spec == Init /\ [][Next]_vars

(***************************************************************************)
(* Fairness: the consumers, the relay, the publications that follow a      *)
(* commit, the refusals and the sweeper are loops and tasks that run as    *)
(* long as their service does.  Guests need not do anything, and a call of *)
(* pay() need not return.                                                  *)
(***************************************************************************)
InventoryPublishes ==
    /\ \E e \in inventoryUnsent : InventoryPublish(e)
    /\ UNCHANGED <<bookingVars, paymentVars>>

InventoryRefuses ==
    /\ \E b \in Bookings : RejectRequest(b)
    /\ UNCHANGED <<sent, bookingVars, paymentVars>>

InventorySweeps ==
    /\ \E rows \in SUBSET Bookings : Sweep(rows)
    /\ UNCHANGED <<sent, bookingVars, paymentVars>>

PaymentPublishes ==
    /\ \E e \in paymentUnsent : PaymentPublish(e)
    /\ UNCHANGED <<bookingVars, inventoryVars>>

Fairness ==
    /\ WF_vars(BookingConsumes)
    /\ WF_vars(BookingRelays)
    /\ WF_vars(InventoryConsumes)
    /\ WF_vars(InventoryPublishes)
    /\ WF_vars(InventoryRefuses)
    /\ WF_vars(InventorySweeps)
    /\ WF_vars(PaymentConsumes)
    /\ WF_vars(PaymentPublishes)

FairSpec == Spec /\ Fairness

-----------------------------------------------------------------------------
(***************************************************************************)
(* Safety.                                                                 *)
(***************************************************************************)

\* The types of the three services' state, and of the bus.
TypeOK ==
    /\ sent \subseteq Events
    /\ BookingTypeOK
    /\ InventoryTypeOK
    /\ PaymentTypeOK

Over(b) == status[b] \in {"CANCELLING", "CANCELLED", "REJECTED", "EXPIRED"}

\* A confirmed booking has had a hold, which nobody has released; and two
\* confirmed bookings share a night of a room only if the sweeper expired the
\* hold of one of them, that is, if booking.confirmed came too late to keep
\* it.  (That they can share a night is the run double_booking.)
SharedNightNeedsExpiry ==
    /\ \A b \in Bookings : status[b] = "CONFIRMED" => hold[b] \notin {"none", "RELEASED"}
    /\ \A b, c \in Bookings :
          /\ b # c
          /\ Overlaps(b, c)
          /\ status[b] = "CONFIRMED"
          /\ status[c] = "CONFIRMED"
          => hold[b] = "EXPIRED" \/ hold[c] = "EXPIRED"

\* A room is kept for good only for a booking that is confirmed, or whose
\* cancellation the inventory service has still to handle: confirmed and
\* cancelled travel on different topics and may be handled in either order.
ConfirmedHoldIsBacked ==
    \A b \in Bookings :
        hold[b] = "CONFIRMED" =>
            \/ status[b] = "CONFIRMED"
            \/ \E e \in outbox \ inventorySeen : e.topic = "booking.cancelled" /\ e.booking = b

\* A refund request is never consumed before there is money to refund: once
\* the payment service has handled a cancellation that asks for a refund, the
\* booking's payment is REFUNDED.  (on_booking_cancelled marks the event
\* processed and gives up when it finds no SUCCEEDED row.)
RefundIsNotMissed ==
    \A e \in paymentSeen :
        e.refund => \E p \in Payments : PaysFor[p] = e.booking /\ payment[p] = "REFUNDED"

\* An event is coming to the booking service: its transaction has committed, and
\* the booking service has not handled it.
Coming(e) == e \in (inventoryUnsent \cup paymentUnsent \cup sent) \ bookingSeen

RefundUnhandled(b) ==
    \E e \in outbox \ paymentSeen : e.topic = "booking.cancelled" /\ e.booking = b /\ e.refund

Lost(e) == e \in inventoryLost \cup paymentLost

\* Nobody waits for something that is not coming.  A booking that waits for its
\* hold has a request to be handled or an answer coming; one that waits for its
\* payment has a hold the sweeper will expire, or the news that it has; and one
\* that waits for its refund has a cancellation to be handled, or the news of the
\* refund coming.  The event it waits for was never consumed while its status did
\* not let it act on it; and if it waits in vain, that very event was lost by the
\* service that publishes it after its commit: no other fault, and no event lost of
\* another booking, leaves it waiting.
NobodyWaitsInVain ==
    \A b \in Bookings :
        /\ status[b] = "PENDING" =>
              \/ BookingRequested(b) \in outbox \ inventorySeen
              \/ \E e \in {InventoryHeld(b), InventoryRejected(b)} : Coming(e) \/ Lost(e)
        /\ status[b] = "AWAITING_PAYMENT" =>
              \/ hold[b] = "HELD"
              \/ \E e \in {InventoryReleased(b, "expired")} : Coming(e) \/ Lost(e)
        /\ status[b] = "CANCELLING" =>
              \/ RefundUnhandled(b)
              \/ \E e \in {PaymentRefunded(b, p) : p \in Payments} : Coming(e) \/ Lost(e)

\* The two ends at which money is kept: a booking paid before its hold was heard
\* of, whose hold expired first, and one that a declined second payment has
\* cancelled.
EndKeepsMoney(b) ==
    /\ ~RefundStaged(b)
    /\ \/ status[b] = "EXPIRED"
       \/ BookingCancelled(b, NoPayment, "payment_failed", FALSE) \in outbox

\* A charge no service has a record of, and nobody returns: its call died, or was
\* refused, for the booking is paid by another call or the key has a row already.
Unrecorded(p) ==
    /\ ~Row(p)
    /\ \/ call[p] = "refused" /\ (KeyStored(p) \/ BookingPaid(PaysFor[p]))
       \/ call[p] = "crashed" /\ paymentFaults > 0

\* Where the money of a charge is, at every moment and with every fault: it is being
\* stored; or nothing knows of it, as its call was refused or has died; or it has
\* been returned; or it has a row, and the booking service will hear of it, or was
\* to hear and the event was lost, or the booking is confirmed or waits for its
\* hold, or its refund is on its way, or the booking has one of the two ends that
\* keep the money.
MoneyIsTracked ==
    \A p \in charged :
        LET b == PaysFor[p] IN
        \/ call[p] = "approved"
        \/ Unrecorded(p)
        \/ payment[p] = "REFUNDED"
        \/ /\ payment[p] = "SUCCEEDED"
           /\ \/ Coming(PaymentSucceeded(b, p))
              \/ Lost(PaymentSucceeded(b, p))
              \/ status[b] \in {"PENDING", "CONFIRMED"} /\ paymentReceived[b]
              \/ RefundUnhandled(b)
              \/ EndKeepsMoney(b)

\* The services together keep the contract with the guest.
StayOf(s) ==
    CASE s = "none"                             -> "none"
      [] s \in {"PENDING", "AWAITING_PAYMENT"} -> "open"
      [] s = "CONFIRMED"                        -> "confirmed"
      [] s \in {"CANCELLING", "CANCELLED", "REJECTED", "EXPIRED"} -> "over"

MoneyOf(b) ==
    IF \E p \in Payments : PaysFor[p] = b /\ payment[p] = "REFUNDED" THEN "returned"
    ELSE IF \E p \in Payments : PaysFor[p] = b /\ payment[p] = "SUCCEEDED" THEN "taken"
    ELSE "none"

stays == [b \in Bookings |-> StayOf(status[b])]
moneys == [b \in Bookings |-> MoneyOf(b)]

Contract == INSTANCE StayContract WITH stay <- stays, money <- moneys

ImplementsContract == Contract!Spec

\* The booking service stages its events, and the saga publishes them, as Outbox
\* has it: OutboxRelay, which implements Outbox, can take the place of PublishStaged.
StagedEvents == INSTANCE Outbox WITH
    Rows <- BookingEvents, staged <- outbox, sent <- sent \cap BookingEvents

UsesOutbox == StagedEvents!SafeSpec

\* What the e2e test expects of two bookings of the same stay ("double
\* booking prevented"): they are not both confirmed.
NoDoubleBooking ==
    \A b, c \in Bookings :
        b # c /\ Overlaps(b, c) => ~(status[b] = "CONFIRMED" /\ status[c] = "CONFIRMED")

-----------------------------------------------------------------------------
(***************************************************************************)
(* Liveness, under FairSpec and with no fault (the bounds at 0).           *)
(***************************************************************************)

\* No booking stays undecided: it is confirmed or over, and a booking that
\* waits for its refund gets it.
BookingSettles ==
    \A b \in Bookings :
        status[b] \in {"PENDING", "AWAITING_PAYMENT", "CANCELLING"} ~>
            status[b] \in {"CONFIRMED", "CANCELLED", "REJECTED", "EXPIRED"}

\* The room of a booking that is over becomes free and remains so, also when
\* the cancellation overtakes the request and the hold is made after it.
OverFreesRoom == \A b \in Bookings : Over(b) ~> [](hold[b] \notin {"HELD", "CONFIRMED"})

\* A refund the booking service asks for is made.
RefundIsMade ==
    \A b \in Bookings :
        RefundStaged(b) ~> \E p \in Payments : PaysFor[p] = b /\ payment[p] = "REFUNDED"

\* Money that has been taken is returned in the end, or is for a booking that is
\* confirmed.  The two exceptions are gaps of the saga: a booking paid before
\* its hold was heard of, whose hold expired first, and one that a declined
\* second payment has cancelled.
MoneySettles ==
    \A p \in Payments :
        LET b == PaysFor[p] IN
        payment[p] = "SUCCEEDED" ~>
            \/ payment[p] = "REFUNDED"
            \/ status[b] = "CONFIRMED"
            \/ status[b] = "EXPIRED" /\ paymentReceived[b] /\ ~CancelStaged(b)
            \/ BookingCancelled(b, NoPayment, "payment_failed", FALSE) \in outbox
=============================================================================
