------------------------ MODULE BookingServiceProofs ------------------------
(***************************************************************************)
(* What the booking service keeps whatever the other services send it: its *)
(* types, the agreement of status, payment and outbox, and the promises of *)
(* BookingLifecycle.                                                       *)
(***************************************************************************)
EXTENDS BookingService, EventBusProofs

(***************************************************************************)
(* Types.                                                                  *)
(***************************************************************************)
\* The service starts with values of the right types.
LEMMA BookingInitType == BookingInit => BookingTypeOK
BY DEF BookingInit, BookingTypeOK

\* No handler of the saga gives a variable a value out of its type.
LEMMA HandlerKeepsType ==
    ASSUME BookingTypeOK, NEW e \in InventoryEvents \cup PaymentEvents, BookingHandles(e)
    PROVE  BookingTypeOK'
<1> DEFINE b == e.booking
<1>1. /\ b \in Bookings
      /\ e.topic = "payment.succeeded" => e.payment \in Payments
  BY InboundFields
<1>2. /\ BookingConfirmed(b) \in BookingEvents
      /\ \A p \in Payments \cup {NoPayment}, reason \in CancelReasons, refund \in BOOLEAN :
            BookingCancelled(b, p, reason, refund) \in BookingEvents
  BY <1>1 DEF BookingEvents
<1>3. {"rejected_after_payment", "payment_failed", "payment_after_termination"} \subseteq CancelReasons
  BY DEF CancelReasons
<1>4. CASE OnInventoryHeld(e)
  BY <1>1, <1>2, <1>4 DEF OnInventoryHeld, Load, HandlerIgnores, Transition, Stage, BookingTypeOK, BookingStatus
<1>5. CASE OnInventoryRejected(e)
  <2>1. RefundOnRejection(b) \subseteq BookingEvents
    BY <1>2, <1>3 DEF RefundOnRejection
  <2> QED
    BY <1>1, <1>5, <2>1
    DEF OnInventoryRejected, Load, HandlerIgnores, Transition, Stage, BookingTypeOK, BookingStatus
<1>6. CASE OnInventoryReleased(e)
  BY <1>1, <1>6 DEF OnInventoryReleased, Load, HandlerIgnores, Transition, BookingTypeOK, BookingStatus
<1>7. CASE OnPaymentSucceeded(e)
  <2>1. BookingCancelled(b, e.payment, "payment_after_termination", TRUE) \in BookingEvents
    BY <1>1, <1>2, <1>3, <1>7 DEF OnPaymentSucceeded
  <2>2. status' \in [Bookings -> BookingStatus \cup {"none"}] /\ outbox' \subseteq BookingEvents
    BY <1>1, <1>2, <1>7, <2>1
    DEF OnPaymentSucceeded, HandlerIgnores, Transition, Stage, BookingTypeOK, BookingStatus
  <2>3. paymentReceived' \in [Bookings -> BOOLEAN] /\ bookingSeen' \subseteq InventoryEvents \cup PaymentEvents
    BY <1>1, <1>7 DEF OnPaymentSucceeded, Load, HandlerIgnores, BookingTypeOK
  <2> QED
    BY <2>2, <2>3 DEF BookingTypeOK
<1>8. CASE OnPaymentFailed(e)
  <2>1. BookingCancelled(b, NoPayment, "payment_failed", FALSE) \in BookingEvents
    BY <1>2, <1>3
  <2> QED
    BY <1>1, <1>8, <2>1
    DEF OnPaymentFailed, Load, HandlerIgnores, Transition, Stage, BookingTypeOK, BookingStatus
<1>9. CASE OnPaymentRefunded(e)
  BY <1>1, <1>9 DEF OnPaymentRefunded, Load, HandlerIgnores, Transition, BookingTypeOK, BookingStatus
<1> QED
  BY <1>4, <1>5, <1>6, <1>7, <1>8, <1>9 DEF BookingHandles

\* Nor does a guest's request.
LEMMA RequestKeepsType ==
    ASSUME BookingTypeOK, NEW b \in Bookings, CreateBooking(b) \/ CancelBooking(b)
    PROVE  BookingTypeOK'
<1>1. "guest_request" \in CancelReasons
  BY DEF CancelReasons
<1>2. CASE CreateBooking(b)
  <2>1. BookingRequested(b) \in BookingEvents
    BY DEF BookingEvents
  <2> QED
    BY <1>2, <2>1 DEF CreateBooking, Transition, Stage, BookingTypeOK, BookingStatus
<1>3. CASE CancelBooking(b)
  <2>1. BookingCancelled(b, NoPayment, "guest_request", RefundDue(b)) \in BookingEvents
    BY <1>1 DEF BookingTypeOK, RefundDue, BookingEvents
  <2> QED
    BY <1>3, <2>1 DEF CancelBooking, CancelledAs, Transition, Stage, BookingTypeOK, BookingStatus
<1> QED
  BY <1>2, <1>3

\* The status of a booking is always one of BookingStatus, and the service stages
\* and consumes only events of its topics, for any set of bookings and payments.
THEOREM BookingTypeCorrect == BookingSpec => []BookingTypeOK
<1>1. BookingStart => BookingTypeOK
  BY BookingInitType DEF BookingStart
<1>2. BookingTypeOK /\ [BookingNext]_<<bookingVars, sent>> => BookingTypeOK'
  <2> SUFFICES ASSUME BookingTypeOK, [BookingNext]_<<bookingVars, sent>>
               PROVE  BookingTypeOK'
    OBVIOUS
  <2>1. CASE UNCHANGED bookingVars
    BY <2>1 DEF bookingVars, BookingTypeOK
  <2>2. CASE BookingOperation
    BY <2>2, HandlerKeepsType, RequestKeepsType DEF BookingOperation
  <2> QED
    BY <2>1, <2>2 DEF BookingNext, PublishStaged, bookingVars
<1> QED
  BY <1>1, <1>2, PTL DEF BookingSpec

(***************************************************************************)
(* What staging an event adds to the outbox, for every booking.            *)
(***************************************************************************)
Requested(b) == BookingRequested(b) \in outbox
Confirmed(b) == BookingConfirmed(b) \in outbox

\* Without staging, nothing that is said of the outbox changes.
LEMMA StageNothing ==
    ASSUME UNCHANGED outbox, NEW c
    PROVE  /\ Requested(c)' <=> Requested(c)
           /\ Confirmed(c)' <=> Confirmed(c)
           /\ CancelStaged(c)' <=> CancelStaged(c)
           /\ RefundStaged(c)' <=> RefundStaged(c)
BY DEF Requested, Confirmed, CancelStaged, RefundStaged

\* Staging booking.requested announces this booking's request and nothing else.
LEMMA StageRequested ==
    ASSUME NEW b, Stage({BookingRequested(b)}), NEW c
    PROVE  /\ Requested(c)' <=> Requested(c) \/ c = b
           /\ Confirmed(c)' <=> Confirmed(c)
           /\ CancelStaged(c)' <=> CancelStaged(c)
           /\ RefundStaged(c)' <=> RefundStaged(c)
BY AnnouncedFields, CancelledFields DEF Stage, Requested, Confirmed, CancelStaged, RefundStaged

\* Staging booking.confirmed announces this booking's confirmation and nothing else.
LEMMA StageConfirmed ==
    ASSUME NEW b, Stage({BookingConfirmed(b)}), NEW c
    PROVE  /\ Requested(c)' <=> Requested(c)
           /\ Confirmed(c)' <=> Confirmed(c) \/ c = b
           /\ CancelStaged(c)' <=> CancelStaged(c)
           /\ RefundStaged(c)' <=> RefundStaged(c)
BY AnnouncedFields, CancelledFields DEF Stage, Requested, Confirmed, CancelStaged, RefundStaged

\* Staging booking.cancelled cancels this booking, with or without a refund.
LEMMA StageCancelled ==
    ASSUME NEW b, NEW p, NEW reason, NEW refund \in BOOLEAN,
           Stage({BookingCancelled(b, p, reason, refund)}), NEW c
    PROVE  /\ Requested(c)' <=> Requested(c)
           /\ Confirmed(c)' <=> Confirmed(c)
           /\ CancelStaged(c)' <=> CancelStaged(c) \/ c = b
           /\ RefundStaged(c)' <=> RefundStaged(c) \/ (c = b /\ refund)
BY AnnouncedFields, CancelledFields DEF Stage, Requested, Confirmed, CancelStaged, RefundStaged

(***************************************************************************)
(* The inductive invariant: every booking's status, payment and staged     *)
(* events fit together.  EventsMatchStatus alone is not inductive: that a  *)
(* rejection or a cancellation takes a confirmation back with a refund     *)
(* rests on a confirmed booking being paid.                                *)
(***************************************************************************)
FailureStaged(b) == BookingCancelled(b, NoPayment, "payment_failed", FALSE) \in outbox

Coherent(b) ==
    /\ status[b] \in {"none", "AWAITING_PAYMENT"} => ~paymentReceived[b]
    /\ status[b] \in {"CONFIRMED", "CANCELLING"} => paymentReceived[b]
    /\ Known(b) <=> Requested(b)
    /\ status[b] = "CONFIRMED" => Confirmed(b)
    /\ Confirmed(b) => status[b] = "CONFIRMED" \/ RefundStaged(b)
    /\ CancelStaged(b) => status[b] \in {"CANCELLING", "CANCELLED", "REJECTED", "EXPIRED"}
    /\ paymentReceived[b] /\ status[b] \in {"CANCELLING", "REJECTED"} => RefundStaged(b)
    /\ paymentReceived[b] /\ status[b] = "CANCELLED" => RefundStaged(b) \/ FailureStaged(b)

BookingInv ==
    /\ BookingTypeOK
    /\ \A b \in Bookings : Coherent(b)

\* The invariant is at least as strong as the three properties.
LEMMA BookingInvImplies ==
    BookingInv => PaymentMatchesStatus /\ EventsMatchStatus /\ PaidEndIsRefunded
BY DEF BookingInv, Coherent, PaymentMatchesStatus, EventsMatchStatus, PaidEndIsRefunded,
       Requested, Confirmed, FailureStaged

\* A service without bookings is coherent.
LEMMA BookingInitInv == BookingInit => BookingInv
BY BookingInitType
DEF BookingInit, BookingInv, Coherent, Known, Requested, Confirmed, CancelStaged, RefundStaged,
    FailureStaged

\* A booking nobody touches stays coherent.
LEMMA UntouchedIsCoherent ==
    ASSUME NEW c, Coherent(c),
           status'[c] = status[c], paymentReceived'[c] = paymentReceived[c],
           outbox \subseteq outbox',
           Requested(c)' <=> Requested(c), Confirmed(c)' <=> Confirmed(c),
           CancelStaged(c)' <=> CancelStaged(c), RefundStaged(c)' <=> RefundStaged(c)
    PROVE  Coherent(c)'
BY DEF Coherent, Known, FailureStaged

\* Creating and cancelling bookings keeps every booking coherent.
LEMMA RequestKeepsInv ==
    ASSUME BookingInv, NEW b \in Bookings, CreateBooking(b) \/ CancelBooking(b)
    PROVE  BookingInv'
<1>1. BookingTypeOK'
  BY RequestKeepsType DEF BookingInv
<1>2. ASSUME NEW c \in Bookings
      PROVE  Coherent(c)'
  <2>1. Coherent(c) /\ BookingTypeOK
    BY DEF BookingInv
  <2>2. CASE CreateBooking(b)
    <3>1. /\ Requested(c)' <=> Requested(c) \/ c = b
          /\ Confirmed(c)' <=> Confirmed(c)
          /\ CancelStaged(c)' <=> CancelStaged(c)
          /\ RefundStaged(c)' <=> RefundStaged(c)
          /\ outbox \subseteq outbox'
      BY <2>2, StageRequested DEF CreateBooking, Stage
    <3>2. CASE c = b
      BY <2>1, <2>2, <3>1, <3>2 DEF CreateBooking, Transition, Coherent, Known, BookingTypeOK
    <3>3. CASE c # b
      BY <2>1, <2>2, <3>1, <3>3, UntouchedIsCoherent DEF CreateBooking, Transition, BookingTypeOK
    <3> QED
      BY <3>2, <3>3
  <2>3. CASE CancelBooking(b)
    <3>1. /\ Requested(c)' <=> Requested(c)
          /\ Confirmed(c)' <=> Confirmed(c)
          /\ CancelStaged(c)' <=> CancelStaged(c) \/ c = b
          /\ RefundStaged(c)' <=> RefundStaged(c) \/ (c = b /\ paymentReceived[b])
          /\ outbox \subseteq outbox'
      <4>1. paymentReceived[b] \in BOOLEAN
        BY <2>1 DEF BookingTypeOK
      <4> QED
        BY <2>3, <4>1, StageCancelled DEF CancelBooking, RefundDue, Stage
    <3>2. CASE c = b
      BY <2>1, <2>3, <3>1, <3>2
      DEF CancelBooking, CancelledAs, RefundDue, Cancellable, Transition, Coherent, Known, BookingTypeOK
    <3>3. CASE c # b
      BY <2>1, <2>3, <3>1, <3>3, UntouchedIsCoherent DEF CancelBooking, Transition, BookingTypeOK
    <3> QED
      BY <3>2, <3>3
  <2> QED
    BY <2>2, <2>3
<1> QED
  BY <1>1, <1>2 DEF BookingInv

(***************************************************************************)
(* Whatever a handler does to a booking is a change of one of five kinds.  *)
(***************************************************************************)
MovesQuietly(b) ==
    /\ UNCHANGED <<paymentReceived, outbox>>
    /\ \/ Expirable(b) /\ Transition(b, "EXPIRED")
       \/ status[b] = "CANCELLING" /\ Transition(b, "CANCELLED")
       \/ status[b] = "PENDING" /\ ~paymentReceived[b] /\ Transition(b, "AWAITING_PAYMENT")
       \/ Rejectable(b) /\ ~paymentReceived[b] /\ Transition(b, "REJECTED")

Confirms(b) ==
    /\ Transition(b, "CONFIRMED")
    /\ Stage({BookingConfirmed(b)})
    /\ \/ status[b] = "PENDING" /\ paymentReceived[b] /\ UNCHANGED paymentReceived
       \/ /\ status[b] = "AWAITING_PAYMENT"
          /\ paymentReceived' = [paymentReceived EXCEPT ![b] = TRUE]

AsksRefund(b) ==
    /\ \E p, reason : Stage({BookingCancelled(b, p, reason, TRUE)})
    /\ \/ /\ Rejectable(b) /\ paymentReceived[b]
          /\ Transition(b, "REJECTED")
          /\ UNCHANGED paymentReceived
       \/ /\ status[b] \in TERMINAL
          /\ UNCHANGED status
          /\ paymentReceived' = [paymentReceived EXCEPT ![b] = TRUE]

FailsPayment(b) ==
    /\ PaymentFailureEnds(b)
    /\ Transition(b, "CANCELLED")
    /\ Stage({BookingCancelled(b, NoPayment, "payment_failed", FALSE)})
    /\ UNCHANGED paymentReceived

RecordsPayment(b) ==
    /\ Known(b)
    /\ status[b] \notin TERMINAL \cup {"AWAITING_PAYMENT"}
    /\ paymentReceived' = [paymentReceived EXCEPT ![b] = TRUE]
    /\ UNCHANGED <<status, outbox>>

\* Each handler ignores its event or makes one of the five changes.
LEMMA HandlerKinds ==
    ASSUME BookingTypeOK, NEW e \in InventoryEvents \cup PaymentEvents, BookingHandles(e)
    PROVE  \/ HandlerIgnores
           \/ MovesQuietly(e.booking)
           \/ Confirms(e.booking)
           \/ AsksRefund(e.booking)
           \/ FailsPayment(e.booking)
           \/ RecordsPayment(e.booking)
<1> DEFINE b == e.booking
<1>1. b \in Bookings /\ paymentReceived[b] \in BOOLEAN
  BY InboundFields DEF BookingTypeOK
<1>2. CASE OnInventoryHeld(e)
  BY <1>2 DEF OnInventoryHeld, AwaitsHold, MovesQuietly, Confirms
<1>3. CASE OnInventoryRejected(e)
  <2>1. CASE paymentReceived[b] /\ Rejectable(b)
    <3>1. Stage({BookingCancelled(b, NoPayment, "rejected_after_payment", TRUE)})
      BY <1>3, <2>1 DEF OnInventoryRejected, RefundOnRejection
    <3> QED
      BY <1>3, <2>1, <3>1 DEF OnInventoryRejected, AsksRefund
  <2>2. CASE ~paymentReceived[b] /\ Rejectable(b)
    <3>1. outbox' = outbox
      BY <1>3, <2>2 DEF OnInventoryRejected, RefundOnRejection, Stage
    <3> QED
      BY <1>3, <2>2, <3>1 DEF OnInventoryRejected, MovesQuietly
  <2> QED
    BY <1>1, <1>3, <2>1, <2>2 DEF OnInventoryRejected
<1>4. CASE OnInventoryReleased(e)
  BY <1>4 DEF OnInventoryReleased, MovesQuietly
<1>5. CASE OnPaymentSucceeded(e)
  BY <1>5 DEF OnPaymentSucceeded, Confirms, AsksRefund, RecordsPayment
<1>6. CASE OnPaymentFailed(e)
  BY <1>6 DEF OnPaymentFailed, FailsPayment
<1>7. CASE OnPaymentRefunded(e)
  BY <1>7 DEF OnPaymentRefunded, MovesQuietly
<1> QED
  BY <1>2, <1>3, <1>4, <1>5, <1>6, <1>7 DEF BookingHandles

\* Handling an event keeps every booking coherent, whatever event arrives when.
LEMMA HandlerKeepsInv ==
    ASSUME BookingInv, NEW e \in InventoryEvents \cup PaymentEvents, BookingHandles(e)
    PROVE  BookingInv'
<1> DEFINE b == e.booking
<1>1. BookingTypeOK'
  BY HandlerKeepsType DEF BookingInv
<1>2. ASSUME NEW c \in Bookings
      PROVE  Coherent(c)'
  <2>1. Coherent(c) /\ BookingTypeOK
    BY DEF BookingInv
  <2>2. CASE HandlerIgnores
    BY <2>1, <2>2, StageNothing, UntouchedIsCoherent DEF HandlerIgnores
  <2>3. CASE MovesQuietly(b) \/ RecordsPayment(b)
    <3>1. /\ Requested(c)' <=> Requested(c)
          /\ Confirmed(c)' <=> Confirmed(c)
          /\ CancelStaged(c)' <=> CancelStaged(c)
          /\ RefundStaged(c)' <=> RefundStaged(c)
          /\ FailureStaged(c)' <=> FailureStaged(c)
          /\ outbox \subseteq outbox'
      BY <2>3, StageNothing DEF MovesQuietly, RecordsPayment, FailureStaged
    <3>2. CASE c = b
      BY <2>1, <2>3, <3>1, <3>2
      DEF MovesQuietly, RecordsPayment, Transition, Expirable, Rejectable, TERMINAL, Coherent,
          Known, BookingTypeOK
    <3>3. CASE c # b
      BY <2>1, <2>3, <3>1, <3>3, UntouchedIsCoherent
      DEF MovesQuietly, RecordsPayment, Transition, BookingTypeOK
    <3> QED
      BY <3>2, <3>3
  <2>4. CASE Confirms(b)
    <3>1. /\ Requested(c)' <=> Requested(c)
          /\ Confirmed(c)' <=> Confirmed(c) \/ c = b
          /\ CancelStaged(c)' <=> CancelStaged(c)
          /\ RefundStaged(c)' <=> RefundStaged(c)
          /\ outbox \subseteq outbox'
      BY <2>4, StageConfirmed DEF Confirms, Stage
    <3>2. CASE c = b
      BY <2>1, <2>4, <3>1, <3>2 DEF Confirms, Transition, Coherent, Known, BookingTypeOK
    <3>3. CASE c # b
      BY <2>1, <2>4, <3>1, <3>3, UntouchedIsCoherent DEF Confirms, Transition, BookingTypeOK
    <3> QED
      BY <3>2, <3>3
  <2>5. CASE AsksRefund(b)
    <3>1. /\ Requested(c)' <=> Requested(c)
          /\ Confirmed(c)' <=> Confirmed(c)
          /\ CancelStaged(c)' <=> CancelStaged(c) \/ c = b
          /\ RefundStaged(c)' <=> RefundStaged(c) \/ c = b
          /\ outbox \subseteq outbox'
      <4>1. PICK p, reason : Stage({BookingCancelled(b, p, reason, TRUE)})
        BY <2>5 DEF AsksRefund
      <4>2. /\ Requested(c)' <=> Requested(c)
            /\ Confirmed(c)' <=> Confirmed(c)
            /\ CancelStaged(c)' <=> CancelStaged(c) \/ c = b
            /\ RefundStaged(c)' <=> RefundStaged(c) \/ (c = b /\ TRUE)
        BY <4>1, StageCancelled
      <4> QED
        BY <4>1, <4>2 DEF Stage
    <3>2. CASE c = b
      BY <2>1, <2>5, <3>1, <3>2
      DEF AsksRefund, Transition, Rejectable, TERMINAL, Coherent, Known, BookingTypeOK
    <3>3. CASE c # b
      BY <2>1, <2>5, <3>1, <3>3, UntouchedIsCoherent DEF AsksRefund, Transition, BookingTypeOK
    <3> QED
      BY <3>2, <3>3
  <2>6. CASE FailsPayment(b)
    <3>1. /\ Requested(c)' <=> Requested(c)
          /\ Confirmed(c)' <=> Confirmed(c)
          /\ CancelStaged(c)' <=> CancelStaged(c) \/ c = b
          /\ RefundStaged(c)' <=> RefundStaged(c)
          /\ outbox \subseteq outbox'
      <4>1. Stage({BookingCancelled(b, NoPayment, "payment_failed", FALSE)})
        BY <2>6 DEF FailsPayment
      <4>2. /\ Requested(c)' <=> Requested(c)
            /\ Confirmed(c)' <=> Confirmed(c)
            /\ CancelStaged(c)' <=> CancelStaged(c) \/ c = b
            /\ RefundStaged(c)' <=> RefundStaged(c) \/ (c = b /\ FALSE)
        BY <4>1, StageCancelled
      <4> QED
        BY <4>1, <4>2 DEF Stage
    <3>2. FailureStaged(b)'
      BY <2>6 DEF FailsPayment, Stage, FailureStaged
    <3>3. CASE c = b
      BY <2>1, <2>6, <3>1, <3>2, <3>3
      DEF FailsPayment, Transition, PaymentFailureEnds, TERMINAL, Coherent, Known, BookingTypeOK
    <3>4. CASE c # b
      BY <2>1, <2>6, <3>1, <3>4, UntouchedIsCoherent DEF FailsPayment, Transition, BookingTypeOK
    <3> QED
      BY <3>3, <3>4
  <2> QED
    BY <2>1, <2>2, <2>3, <2>4, <2>5, <2>6, HandlerKinds
<1> QED
  BY <1>1, <1>2 DEF BookingInv

(***************************************************************************)
(* The theorems.                                                           *)
(***************************************************************************)
\* So does every step of the service, publications included.
LEMMA StepKeepsInv ==
    ASSUME BookingInv, [BookingNext]_<<bookingVars, sent>>
    PROVE  BookingInv'
<1>1. CASE UNCHANGED bookingVars
  BY <1>1
  DEF bookingVars, BookingInv, BookingTypeOK, Coherent, Known, Requested, Confirmed, CancelStaged,
      RefundStaged, FailureStaged
<1>2. CASE BookingOperation
  BY <1>2, HandlerKeepsInv, RequestKeepsInv DEF BookingOperation
<1> QED
  BY <1>1, <1>2 DEF BookingNext, PublishStaged, bookingVars

\* The inductive invariant holds, whatever events the service is given.
THEOREM BookingInvariant == BookingSpec => []BookingInv
<1>1. BookingStart => BookingInv
  BY BookingInitInv DEF BookingStart
<1>2. BookingInv /\ [BookingNext]_<<bookingVars, sent>> => BookingInv'
  BY StepKeepsInv
<1> QED
  BY <1>1, <1>2, PTL DEF BookingSpec

\* The status tells whether the booking has been paid, what the outbox has
\* told agrees with it, and a paid booking that ends is refunded, for any set
\* of bookings and payments and any environment.
THEOREM BookingAgrees ==
    BookingSpec => [](PaymentMatchesStatus /\ EventsMatchStatus /\ PaidEndIsRefunded)
<1>1. BookingInv => PaymentMatchesStatus /\ EventsMatchStatus /\ PaidEndIsRefunded
  BY BookingInvImplies
<1> QED
  BY <1>1, BookingInvariant, PTL

\* A booking waits for payment only unpaid, and is confirmed only paid.
THEOREM StatusTellsPayment == BookingSpec => []PaymentMatchesStatus
BY BookingAgrees, PTL

\* A paid booking that its guest cancels or the inventory rejects has its refund
\* staged; only a declined later payment may end one without.
THEOREM PaidEndsAreRefunded == BookingSpec => []PaidEndIsRefunded
BY BookingAgrees, PTL

\* The order of the statuses a booking goes through.
LEMMA Ranks ==
    /\ RankOf("none") = 0
    /\ RankOf("PENDING") = 1
    /\ RankOf("AWAITING_PAYMENT") = 2
    /\ RankOf("CONFIRMED") = 3
    /\ RankOf("CANCELLING") = 4
    /\ RankOf("REJECTED") = 5
    /\ RankOf("CANCELLED") = 5
    /\ RankOf("EXPIRED") = 5
BY DEF RankOf

\* A status that is not an end is of lower rank than every end.
LEMMA EndsRankHighest ==
    ASSUME NEW s \in (BookingStatus \cup {"none"}) \ TERMINAL, NEW t \in TERMINAL
    PROVE  RankOf(s) < RankOf(t)
BY Ranks DEF BookingStatus, TERMINAL

\* A transition of one booking to a status of higher rank moves on.
LEMMA TransitionMovesOn ==
    ASSUME BookingTypeOK, NEW b \in Bookings, NEW s, Transition(b, s),
           RankOf(status[b]) < RankOf(s)
    PROVE  MovesOn
BY DEF BookingTypeOK, Transition, MovesOn

\* Every operation moves the statuses on.
LEMMA OperationMovesOn ==
    ASSUME BookingInv, BookingOperation
    PROVE  MovesOn
<1>1. BookingTypeOK /\ \A b \in Bookings : Coherent(b)
  BY DEF BookingInv
<1>2. ASSUME NEW b \in Bookings, CreateBooking(b)
      PROVE  MovesOn
  BY <1>1, <1>2, TransitionMovesOn, Ranks DEF CreateBooking, Known
<1>3. ASSUME NEW b \in Bookings, CancelBooking(b)
      PROVE  MovesOn
  <2>1. RankOf(status[b]) < RankOf(CancelledAs(b))
    BY <1>3, Ranks DEF CancelBooking, Cancellable, CancelledAs
  <2> QED
    BY <1>1, <1>3, <2>1, TransitionMovesOn DEF CancelBooking
<1>4. ASSUME NEW e \in InventoryEvents \cup PaymentEvents, BookingHandles(e)
      PROVE  MovesOn
  <2> DEFINE b == e.booking
  <2>1. b \in Bookings /\ status[b] \in BookingStatus \cup {"none"}
    BY <1>1, InboundFields DEF BookingTypeOK
  <2>2. CASE HandlerIgnores \/ RecordsPayment(b)
    BY <2>2 DEF HandlerIgnores, RecordsPayment, MovesOn
  <2>3. CASE MovesQuietly(b)
    <3>1. CASE status[b] = "PENDING" /\ Transition(b, "AWAITING_PAYMENT")
      BY <1>1, <2>1, <3>1, TransitionMovesOn, Ranks
    <3>2. CASE \E s \in TERMINAL : status[b] \notin TERMINAL /\ Transition(b, s)
      BY <1>1, <2>1, <3>2, TransitionMovesOn, EndsRankHighest
    <3> QED
      BY <2>3, <3>1, <3>2 DEF MovesQuietly, Expirable, Rejectable, TERMINAL
  <2>4. CASE Confirms(b)
    BY <1>1, <2>1, <2>4, TransitionMovesOn, Ranks DEF Confirms
  <2>5. CASE AsksRefund(b)
    <3>1. CASE Rejectable(b) /\ Transition(b, "REJECTED")
      <4>1. "REJECTED" \in TERMINAL
        BY DEF TERMINAL
      <4> QED
        BY <1>1, <2>1, <3>1, <4>1, TransitionMovesOn, EndsRankHighest DEF Rejectable
    <3> QED
      BY <2>5, <3>1 DEF AsksRefund, MovesOn
  <2>6. CASE FailsPayment(b)
    <3>1. "CANCELLED" \in TERMINAL
      BY DEF TERMINAL
    <3> QED
      BY <1>1, <2>1, <2>6, <3>1, TransitionMovesOn, EndsRankHighest DEF FailsPayment, PaymentFailureEnds
  <2> QED
    BY <1>1, <1>4, <2>2, <2>3, <2>4, <2>5, <2>6, HandlerKinds
<1> QED
  BY <1>2, <1>3, <1>4 DEF BookingOperation

\* No handler or request takes a booking back: not out of REJECTED, CANCELLED or
\* EXPIRED, and not to waiting for what it has stopped waiting for, whatever events
\* the service is given.
THEOREM BookingMovesOn == BookingSpec => StatusOnlyMovesOn
<1>1. BookingInv /\ [BookingNext]_<<bookingVars, sent>> => [MovesOn]_bookingVars
  BY OperationMovesOn DEF BookingNext, PublishStaged
<1> QED
  BY <1>1, BookingInvariant, PTL DEF BookingSpec, StatusOnlyMovesOn

(***************************************************************************)
(* What is announced is announced once.  That the booking is over once it  *)
(* is announced as cancelled is part of Coherent; AnnouncedOnce needs more,*)
(* what each reason tells of the row and of the events handled.            *)
(***************************************************************************)
RejectionStaged(b) ==
    BookingCancelled(b, NoPayment, "rejected_after_payment", TRUE) \in outbox

LatePaymentStaged(b, p) ==
    BookingCancelled(b, p, "payment_after_termination", TRUE) \in outbox

ReasonsFit ==
    \A b \in Bookings :
        /\ RejectionStaged(b) => status[b] = "REJECTED"
        /\ FailureStaged(b) => status[b] = "CANCELLED"
        /\ \A p \in Payments : LatePaymentStaged(b, p) => PaymentSucceeded(b, p) \in bookingSeen

\* With the invariant, no announcement can be staged again.
LEMMA ReasonsFitImplies == BookingInv /\ ReasonsFit => AnnouncedOnce
<1> SUFFICES ASSUME BookingInv, ReasonsFit, NEW b \in Bookings
             PROVE  /\ status[b] \in {"PENDING", "AWAITING_PAYMENT"} => ~Confirmed(b)
                    /\ Cancellable(b) => ~CancelStaged(b)
                    /\ Rejectable(b) => ~RejectionStaged(b)
                    /\ PaymentFailureEnds(b) => ~FailureStaged(b)
                    /\ \A p \in Payments :
                          PaymentSucceeded(b, p) \notin bookingSeen => ~LatePaymentStaged(b, p)
  BY DEF AnnouncedOnce, Confirmed, RejectionStaged, FailureStaged, LatePaymentStaged
<1>1. Coherent(b) /\ (RefundStaged(b) => CancelStaged(b))
  BY DEF BookingInv, RefundStaged, CancelStaged
<1> QED
  BY <1>1 DEF ReasonsFit, Coherent, Cancellable, Rejectable, PaymentFailureEnds, TERMINAL

\* The reason of a row that is added tells what the step did.
ReasonTells(r) ==
    r.topic = "booking.cancelled" =>
        /\ r.reason = "rejected_after_payment" => status'[r.booking] = "REJECTED"
        /\ r.reason = "payment_failed" => status'[r.booking] = "CANCELLED"
        /\ r.reason = "payment_after_termination" =>
              PaymentSucceeded(r.booking, r.payment) \in bookingSeen'

\* So it is with the rows a handler adds,
LEMMA HandlerTells ==
    ASSUME BookingTypeOK, NEW e \in InventoryEvents \cup PaymentEvents, BookingHandles(e),
           NEW r \in outbox' \ outbox
    PROVE  ReasonTells(r)
<1> DEFINE b == e.booking
<1>1. b \in Bookings
  BY InboundFields
<1>2. CASE OnInventoryHeld(e)
  <2>1. r = BookingConfirmed(b)
    BY <1>2 DEF OnInventoryHeld, HandlerIgnores, Stage
  <2> QED
    BY <2>1 DEF ReasonTells, BookingConfirmed, Event
<1>3. CASE OnInventoryRejected(e)
  <2>1. /\ r = BookingCancelled(b, NoPayment, "rejected_after_payment", TRUE)
        /\ Transition(b, "REJECTED")
    BY <1>3 DEF OnInventoryRejected, HandlerIgnores, RefundOnRejection, Stage
  <2>2. status'[b] = "REJECTED"
    BY <1>1, <2>1 DEF Transition, BookingTypeOK
  <2>3. r.booking = b /\ r.reason = "rejected_after_payment"
    BY <2>1 DEF BookingCancelled, Event
  <2> QED
    BY <2>2, <2>3 DEF ReasonTells
<1>4. CASE OnPaymentSucceeded(e)
  <2>1. e = PaymentSucceeded(b, e.payment) /\ e \in bookingSeen'
    <3>1. e.topic = "payment.succeeded" /\ e \in bookingSeen'
      BY <1>4 DEF OnPaymentSucceeded, Load
    <3> QED
      BY <3>1, InventoryEventIs, PaymentEventIs
  <2>2. \/ r = BookingConfirmed(b)
        \/ r = BookingCancelled(b, e.payment, "payment_after_termination", TRUE)
    BY <1>4 DEF OnPaymentSucceeded, HandlerIgnores, Stage
  <2>3. CASE r = BookingConfirmed(b)
    BY <2>3 DEF ReasonTells, BookingConfirmed, Event
  <2>4. CASE r = BookingCancelled(b, e.payment, "payment_after_termination", TRUE)
    <3>1. /\ r.booking = b
          /\ r.payment = e.payment
          /\ r.reason = "payment_after_termination"
      BY <2>4 DEF BookingCancelled, Event
    <3> QED
      BY <2>1, <3>1 DEF ReasonTells
  <2> QED
    BY <2>2, <2>3, <2>4
<1>5. CASE OnPaymentFailed(e)
  <2>1. /\ r = BookingCancelled(b, NoPayment, "payment_failed", FALSE)
        /\ Transition(b, "CANCELLED")
    BY <1>5 DEF OnPaymentFailed, HandlerIgnores, Stage
  <2>2. status'[b] = "CANCELLED"
    BY <1>1, <2>1 DEF Transition, BookingTypeOK
  <2>3. r.booking = b /\ r.reason = "payment_failed"
    BY <2>1 DEF BookingCancelled, Event
  <2> QED
    BY <2>2, <2>3 DEF ReasonTells
<1>6. CASE OnInventoryReleased(e) \/ OnPaymentRefunded(e)
  BY <1>6 DEF OnInventoryReleased, OnPaymentRefunded, HandlerIgnores
<1> QED
  BY <1>2, <1>3, <1>4, <1>5, <1>6 DEF BookingHandles

\* and with the one a guest's request adds.
LEMMA RequestTells ==
    ASSUME NEW b \in Bookings, CreateBooking(b) \/ CancelBooking(b), NEW r \in outbox' \ outbox
    PROVE  ReasonTells(r)
<1>1. \/ r = BookingRequested(b)
      \/ r = BookingCancelled(b, NoPayment, "guest_request", RefundDue(b))
  BY DEF CreateBooking, CancelBooking, Stage
<1>2. r.topic = "booking.requested" \/ r.reason = "guest_request"
  <2>1. CASE r = BookingRequested(b)
    BY <2>1, AnnouncedFields
  <2>2. CASE r = BookingCancelled(b, NoPayment, "guest_request", RefundDue(b))
    BY <2>2 DEF BookingCancelled, Event
  <2> QED
    BY <1>1, <2>1, <2>2
<1> QED
  BY <1>2 DEF ReasonTells

\* No row leaves the outbox, and no event is forgotten.
LEMMA BookingMemoryGrows ==
    ASSUME BookingOperation
    PROVE  outbox \subseteq outbox' /\ bookingSeen \subseteq bookingSeen'
<1>1. ASSUME NEW b \in Bookings, CreateBooking(b) \/ CancelBooking(b)
      PROVE  outbox \subseteq outbox' /\ bookingSeen \subseteq bookingSeen'
  BY <1>1 DEF CreateBooking, CancelBooking, Stage
<1>2. ASSUME NEW e, BookingHandles(e)
      PROVE  outbox \subseteq outbox' /\ bookingSeen \subseteq bookingSeen'
  BY <1>2
  DEF BookingHandles, OnInventoryHeld, OnInventoryRejected, OnInventoryReleased, OnPaymentSucceeded,
      OnPaymentFailed, OnPaymentRefunded, HandlerIgnores, Load, Stage
<1> QED
  BY <1>1, <1>2 DEF BookingOperation

\* The reasons go on fitting: what is told of an ended booking stays true because
\* its status is final, and what a new row tells is true when it is staged.
LEMMA OperationKeepsReasons ==
    ASSUME BookingInv, ReasonsFit, BookingOperation
    PROVE  ReasonsFit'
<1>1. \A r \in outbox' \ outbox : ReasonTells(r)
  BY HandlerTells, RequestTells DEF BookingOperation, BookingInv
<1>2. ASSUME NEW b \in Bookings, status[b] \in TERMINAL
      PROVE  status'[b] = status[b]
  <2>1. BookingTypeOK /\ BookingTypeOK' /\ MovesOn
    <3>1. BookingInv'
      BY HandlerKeepsInv, RequestKeepsInv DEF BookingOperation
    <3>2. MovesOn
      BY OperationMovesOn
    <3> QED
      BY <3>1, <3>2 DEF BookingInv
  <2>2. /\ status'[b] \in BookingStatus \cup {"none"}
        /\ status'[b] # status[b] => RankOf(status[b]) < RankOf(status'[b])
    BY <2>1 DEF BookingTypeOK, MovesOn
  <2> QED
    BY <1>2, <2>2, Ranks DEF BookingStatus, TERMINAL
<1>3. ASSUME NEW b \in Bookings, RejectionStaged(b)'
      PROVE  status'[b] = "REJECTED"
  <2>1. CASE RejectionStaged(b)
    BY <1>2, <2>1 DEF ReasonsFit, TERMINAL
  <2>2. ASSUME BookingCancelled(b, NoPayment, "rejected_after_payment", TRUE) \in outbox' \ outbox
        PROVE  status'[b] = "REJECTED"
    BY <1>1, <2>2 DEF ReasonTells, BookingCancelled, Event
  <2> QED
    BY <1>3, <2>1, <2>2 DEF RejectionStaged
<1>4. ASSUME NEW b \in Bookings, FailureStaged(b)'
      PROVE  status'[b] = "CANCELLED"
  <2>1. CASE FailureStaged(b)
    BY <1>2, <2>1 DEF ReasonsFit, TERMINAL
  <2>2. ASSUME BookingCancelled(b, NoPayment, "payment_failed", FALSE) \in outbox' \ outbox
        PROVE  status'[b] = "CANCELLED"
    BY <1>1, <2>2 DEF ReasonTells, BookingCancelled, Event
  <2> QED
    BY <1>4, <2>1, <2>2 DEF FailureStaged
<1>5. ASSUME NEW b \in Bookings, NEW p \in Payments, LatePaymentStaged(b, p)'
      PROVE  PaymentSucceeded(b, p) \in bookingSeen'
  <2>1. CASE LatePaymentStaged(b, p)
    BY <2>1, BookingMemoryGrows DEF ReasonsFit
  <2>2. ASSUME BookingCancelled(b, p, "payment_after_termination", TRUE) \in outbox' \ outbox
        PROVE  PaymentSucceeded(b, p) \in bookingSeen'
    BY <1>1, <2>2 DEF ReasonTells, BookingCancelled, Event
  <2> QED
    BY <1>5, <2>1, <2>2 DEF LatePaymentStaged
<1> QED
  BY <1>3, <1>4, <1>5 DEF ReasonsFit

\* The service announces a confirmation, the guest's cancellation, a rejection after
\* payment, a failed payment and each late payment once, for any set of bookings and
\* payments and any order of events: consumers that tell events apart by event_id
\* are never told twice.
THEOREM AnnouncementsAreMadeOnce == BookingSpec => []AnnouncedOnce
<1>1. BookingStart => BookingInv /\ ReasonsFit
  BY BookingInitInv
  DEF BookingStart, BookingInit, ReasonsFit, RejectionStaged, FailureStaged, LatePaymentStaged
<1>2. (BookingInv /\ ReasonsFit) /\ [BookingNext]_<<bookingVars, sent>> => (BookingInv /\ ReasonsFit)'
  <2> SUFFICES ASSUME BookingInv, ReasonsFit, [BookingNext]_<<bookingVars, sent>>
               PROVE  ReasonsFit'
    BY StepKeepsInv
  <2>1. CASE UNCHANGED bookingVars
    BY <2>1 DEF bookingVars, ReasonsFit, RejectionStaged, FailureStaged, LatePaymentStaged
  <2>2. CASE BookingOperation
    BY <2>2, OperationKeepsReasons
  <2> QED
    BY <2>1, <2>2 DEF BookingNext, PublishStaged, bookingVars
<1>3. BookingInv /\ ReasonsFit => AnnouncedOnce
  BY ReasonsFitImplies
<1> QED
  BY <1>1, <1>2, <1>3, PTL DEF BookingSpec

(***************************************************************************)
(* The booking service implements BookingLifecycle.                        *)
(***************************************************************************)
\* A transition moves the booking to the stage of its new status.
LEMMA MoveStage ==
    ASSUME BookingTypeOK, NEW b \in Bookings, NEW s, Transition(b, s)
    PROVE  stages' = [stages EXCEPT ![b] = StageOf(s)]
BY DEF Transition, BookingTypeOK, stages

\* The stage of one booking is that of its status.
LEMMA StageIs ==
    ASSUME NEW b \in Bookings
    PROVE  stages[b] = StageOf(status[b])
BY DEF stages

\* The stage of each status.
LEMMA StageValues ==
    /\ StageOf("none") = "none"
    /\ StageOf("PENDING") = "open"
    /\ StageOf("AWAITING_PAYMENT") = "open"
    /\ StageOf("CONFIRMED") = "confirmed"
    /\ StageOf("CANCELLING") = "refunding"
    /\ StageOf("CANCELLED") = "ended"
    /\ StageOf("REJECTED") = "ended"
    /\ StageOf("EXPIRED") = "ended"
BY DEF StageOf

\* If no refund is asked for, no more refunds are owed.
LEMMA KeepOwed ==
    ASSUME \A c \in Bookings : RefundStaged(c)' <=> RefundStaged(c)
    PROVE  refundsOwed' = refundsOwed
BY DEF refundsOwed, RefundStaged

\* If a refund of this booking is asked for, it is owed.
LEMMA OweRefund ==
    ASSUME NEW b \in Bookings,
           \A c \in Bookings : RefundStaged(c)' <=> RefundStaged(c) \/ c = b
    PROVE  refundsOwed' = [refundsOwed EXCEPT ![b] = TRUE]
BY DEF refundsOwed, RefundStaged

\* A guest's request is a step of BookingLifecycle.
LEMMA RequestMaps ==
    ASSUME BookingInv, NEW b \in Bookings, CreateBooking(b) \/ CancelBooking(b)
    PROVE  Lifecycle!Next
<1>1. BookingTypeOK /\ Coherent(b) /\ paymentReceived[b] \in BOOLEAN
  BY DEF BookingInv, BookingTypeOK
<1>2. CASE CreateBooking(b)
  <2>1. stages' = [stages EXCEPT ![b] = "open"] /\ stages[b] = "none"
    BY <1>1, <1>2, MoveStage, StageIs, StageValues DEF CreateBooking, Known
  <2>2. refundsOwed' = refundsOwed
    BY <1>2, StageRequested, KeepOwed DEF CreateBooking
  <2>3. Lifecycle!Open(b)
    BY <1>2, <2>1, <2>2 DEF CreateBooking, Lifecycle!Open
  <2> QED
    BY <2>3 DEF Lifecycle!Next
<1>3. CASE CancelBooking(b) /\ paymentReceived[b]
  <2>1. stages' = [stages EXCEPT ![b] = "refunding"] /\ stages[b] \in {"open", "confirmed"}
    BY <1>1, <1>3, MoveStage, StageIs, StageValues
    DEF CancelBooking, CancelledAs, RefundDue, Cancellable
  <2>2. refundsOwed' = [refundsOwed EXCEPT ![b] = TRUE]
    <3>1. \A c \in Bookings :
             RefundStaged(c)' <=> RefundStaged(c) \/ (c = b /\ paymentReceived[b])
      BY <1>1, <1>3, StageCancelled DEF CancelBooking, RefundDue
    <3> QED
      BY <1>3, <3>1, OweRefund
  <2>3. Lifecycle!AskRefund(b)
    BY <1>3, <2>1, <2>2 DEF CancelBooking, Lifecycle!AskRefund
  <2> QED
    BY <2>3 DEF Lifecycle!Next
<1>4. CASE CancelBooking(b) /\ ~paymentReceived[b]
  <2>1. stages' = [stages EXCEPT ![b] = "ended"] /\ stages[b] = "open"
    BY <1>1, <1>4, MoveStage, StageIs, StageValues
    DEF CancelBooking, CancelledAs, RefundDue, Cancellable, Coherent
  <2>2. refundsOwed' = refundsOwed
    <3>1. \A c \in Bookings :
             RefundStaged(c)' <=> RefundStaged(c) \/ (c = b /\ paymentReceived[b])
      BY <1>1, <1>4, StageCancelled DEF CancelBooking, RefundDue
    <3> QED
      BY <1>4, <3>1, KeepOwed
  <2>3. Lifecycle!End(b)
    BY <1>4, <2>1, <2>2 DEF CancelBooking, Lifecycle!End
  <2> QED
    BY <2>3 DEF Lifecycle!Next
<1> QED
  BY <1>1, <1>2, <1>3, <1>4

\* A handled event is a step of BookingLifecycle, or changes nothing there.
LEMMA HandlerMaps ==
    ASSUME BookingInv, NEW e \in InventoryEvents \cup PaymentEvents, BookingHandles(e)
    PROVE  [Lifecycle!Next]_(Lifecycle!vars)
<1> DEFINE b == e.booking
<1>1. BookingTypeOK /\ b \in Bookings /\ Coherent(b) /\ paymentReceived[b] \in BOOLEAN
  BY InboundFields DEF BookingInv, BookingTypeOK
<1>2. UNCHANGED outbox => refundsOwed' = refundsOwed
  BY StageNothing, KeepOwed
<1>3. CASE HandlerIgnores
  BY <1>2, <1>3 DEF HandlerIgnores, Lifecycle!vars, stages
<1>4. CASE MovesQuietly(b)
  <2>1. CASE Transition(b, "AWAITING_PAYMENT") /\ status[b] = "PENDING"
    <3>1. stages' = stages
      <4>1. stages' = [stages EXCEPT ![b] = "open"] /\ stages[b] = "open"
        BY <1>1, <2>1, MoveStage, StageIs, StageValues
      <4> QED
        BY <1>1, <4>1 DEF stages
    <3> QED
      BY <1>2, <1>4, <3>1 DEF MovesQuietly, Lifecycle!vars
  <2>2. ASSUME NEW s \in TERMINAL, Transition(b, s),
               \/ Expirable(b)
               \/ status[b] = "CANCELLING"
               \/ Rejectable(b) /\ ~paymentReceived[b]
        PROVE  Lifecycle!End(b)
    <3>1. stages' = [stages EXCEPT ![b] = "ended"] /\ stages[b] \in {"open", "refunding"}
      <4>1. StageOf(s) = "ended"
        BY StageValues DEF TERMINAL
      <4>2. status[b] \in {"PENDING", "AWAITING_PAYMENT", "CANCELLING"}
        BY <1>1, <2>2 DEF Expirable, Rejectable, Known, TERMINAL, Coherent, BookingTypeOK, BookingStatus
      <4> QED
        BY <1>1, <2>2, <4>1, <4>2, MoveStage, StageIs, StageValues
    <3> QED
      BY <1>2, <1>4, <3>1 DEF MovesQuietly, Lifecycle!End
  <2>3. CASE \E s \in TERMINAL : /\ Transition(b, s)
                                /\ \/ Expirable(b)
                                   \/ status[b] = "CANCELLING"
                                   \/ Rejectable(b) /\ ~paymentReceived[b]
    BY <1>1, <2>2, <2>3 DEF Lifecycle!Next
  <2> QED
    BY <1>4, <2>1, <2>3 DEF MovesQuietly, TERMINAL
<1>5. CASE Confirms(b)
  <2>1. stages' = [stages EXCEPT ![b] = "confirmed"] /\ stages[b] = "open"
    BY <1>1, <1>5, MoveStage, StageIs, StageValues DEF Confirms
  <2>2. refundsOwed' = refundsOwed
    BY <1>5, StageConfirmed, KeepOwed DEF Confirms
  <2>3. paymentReceived' = [paymentReceived EXCEPT ![b] = TRUE]
    BY <1>1, <1>5 DEF Confirms, BookingTypeOK
  <2>4. Lifecycle!Confirm(b)
    BY <2>1, <2>2, <2>3 DEF Lifecycle!Confirm
  <2> QED
    BY <1>1, <2>4 DEF Lifecycle!Next
<1>6. CASE AsksRefund(b)
  <2>1. refundsOwed' = [refundsOwed EXCEPT ![b] = TRUE]
    <3>1. PICK p, reason : Stage({BookingCancelled(b, p, reason, TRUE)})
      BY <1>6 DEF AsksRefund
    <3>2. \A c \in Bookings : RefundStaged(c)' <=> RefundStaged(c) \/ (c = b /\ TRUE)
      BY <3>1, StageCancelled
    <3> QED
      BY <1>1, <3>2, OweRefund
  <2>2. CASE Rejectable(b) /\ paymentReceived[b] /\ Transition(b, "REJECTED") /\ UNCHANGED paymentReceived
    <3>1. stages' = [stages EXCEPT ![b] = "ended"] /\ stages[b] \in {"open", "confirmed", "refunding"}
      BY <1>1, <2>2, MoveStage, StageIs, StageValues
      DEF Rejectable, Known, TERMINAL, BookingTypeOK, BookingStatus
    <3>2. Lifecycle!End(b)
      BY <2>1, <2>2, <3>1 DEF Lifecycle!End
    <3> QED
      BY <1>1, <3>2 DEF Lifecycle!Next
  <2>3. CASE /\ status[b] \in TERMINAL
             /\ UNCHANGED status
             /\ paymentReceived' = [paymentReceived EXCEPT ![b] = TRUE]
    <3>1. stages' = stages /\ stages[b] = "ended"
      BY <1>1, <2>3, StageIs, StageValues DEF TERMINAL, stages
    <3>2. Lifecycle!RecordLatePayment(b)
      BY <2>1, <2>3, <3>1 DEF Lifecycle!RecordLatePayment
    <3> QED
      BY <1>1, <3>2 DEF Lifecycle!Next
  <2> QED
    BY <1>6, <2>2, <2>3 DEF AsksRefund
<1>7. CASE FailsPayment(b)
  <2>1. stages' = [stages EXCEPT ![b] = "ended"] /\ stages[b] \in {"open", "refunding"}
    <3>1. status[b] \in {"PENDING", "AWAITING_PAYMENT", "CANCELLING"}
      BY <1>1, <1>7 DEF FailsPayment, PaymentFailureEnds, Known, TERMINAL, BookingTypeOK, BookingStatus
    <3> QED
      BY <1>1, <1>7, <3>1, MoveStage, StageIs, StageValues DEF FailsPayment
  <2>2. refundsOwed' = refundsOwed
    <3>1. Stage({BookingCancelled(b, NoPayment, "payment_failed", FALSE)})
      BY <1>7 DEF FailsPayment
    <3>2. \A c \in Bookings : RefundStaged(c)' <=> RefundStaged(c) \/ (c = b /\ FALSE)
      BY <3>1, StageCancelled
    <3> QED
      BY <3>2, KeepOwed
  <2>3. Lifecycle!End(b)
    BY <1>7, <2>1, <2>2 DEF FailsPayment, Lifecycle!End
  <2> QED
    BY <1>1, <2>3 DEF Lifecycle!Next
<1>8. CASE RecordsPayment(b)
  <2>1. stages' = stages /\ stages[b] \notin {"none", "ended"}
    BY <1>1, <1>8, StageIs, StageValues
    DEF RecordsPayment, Known, TERMINAL, BookingTypeOK, BookingStatus, stages
  <2>2. Lifecycle!RecordPayment(b)
    BY <1>2, <1>8, <2>1 DEF RecordsPayment, Lifecycle!RecordPayment
  <2> QED
    BY <1>1, <2>2 DEF Lifecycle!Next
<1> QED
  BY <1>1, <1>3, <1>4, <1>5, <1>6, <1>7, <1>8, HandlerKinds

\* Every behaviour of the booking service is one of BookingLifecycle.
THEOREM BookingRefinesLifecycle == BookingSpec => ImplementsLifecycle
<1>1. BookingStart => Lifecycle!Init
  BY DEF BookingStart, BookingInit, Lifecycle!Init, stages, StageOf, refundsOwed, RefundStaged
<1>2. BookingInv /\ [BookingNext]_<<bookingVars, sent>> => [Lifecycle!Next]_(Lifecycle!vars)
  <2> SUFFICES ASSUME BookingInv, [BookingNext]_<<bookingVars, sent>>
               PROVE  [Lifecycle!Next]_(Lifecycle!vars)
    OBVIOUS
  <2>1. CASE UNCHANGED bookingVars
    BY <2>1 DEF bookingVars, Lifecycle!vars, stages, refundsOwed, RefundStaged
  <2>2. CASE BookingOperation
    BY <2>2, HandlerMaps, RequestMaps DEF BookingOperation
  <2> QED
    BY <2>1, <2>2 DEF BookingNext, PublishStaged, bookingVars
<1> QED
  BY <1>1, <1>2, BookingInvariant, PTL DEF BookingSpec, ImplementsLifecycle, Lifecycle!Spec
=============================================================================
