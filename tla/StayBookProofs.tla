--------------------------- MODULE StayBookProofs ---------------------------
(***************************************************************************)
(* What the services keep together, for any number of bookings, calls of   *)
(* pay(), faults and orders of events: rooms are kept only for bookings    *)
(* that stand, refunds find their payment, and the contract with the guest *)
(* is kept.  Each service contributes the invariant proved of it alone;    *)
(* what is added here says how far the others have got.                    *)
(***************************************************************************)
EXTENDS GuestNotices, BookingServiceProofs, InventoryServiceProofs, PaymentServiceProofs

(***************************************************************************)
(* The inductive invariant.                                                *)
(***************************************************************************)

\* The payment service has told what became of call p, naming booking b.
OutcomeTold(b, p) ==
    Told(PaymentSucceeded(b, p)) \/ Told(PaymentFailed(b, p)) \/ Told(PaymentRefunded(b, p))

\* The bus: what is consumed has been staged, and what is told of a call is told
\* of the booking it pays for.
BusFits ==
    /\ sent \subseteq Events
    /\ sent \cap BookingEvents \subseteq outbox
    /\ inventorySeen \subseteq outbox
    /\ paymentSeen \subseteq outbox
    /\ \A b \in refused : BookingRequested(b) \in outbox
    /\ \A b \in Bookings, p \in Payments : OutcomeTold(b, p) => PaysFor[p] = b

CancelSeen(b) == \E e \in inventorySeen : e.topic = "booking.cancelled" /\ e.booking = b

\* A booking and its room.  A confirmation is staged only once there is a
\* hold, and a hold that is not there any more does not come back: that is
\* why confirmed and cancelled may be handled in either order.
RoomFits(b) ==
    /\ status[b] \in {"AWAITING_PAYMENT", "CONFIRMED"} \/ Confirmed(b) => hold[b] # "none"
    /\ hold[b] = "CONFIRMED" => Confirmed(b)
    /\ hold[b] = "RELEASED" => CancelStaged(b)
    /\ Confirmed(b) /\ CancelSeen(b) => ~Active(b)

Returned(b) == \E p \in Payments : PaysFor[p] = b /\ payment[p] = "REFUNDED"

\* A booking and its money: each step of the payment, its record and the
\* refund follows the one before.
MoneyFits(b) ==
    /\ paymentReceived[b] => BookingPaid(b)
    /\ RefundStaged(b) => paymentReceived[b]
    /\ Returned(b) => RefundStaged(b)

SagaInv ==
    /\ BookingInv
    /\ InventoryInv
    /\ ActiveHoldsAreDisjoint
    /\ PaymentInv
    /\ BusFits
    /\ \A p \in Payments : call[p] # "new" => Known(PaysFor[p])
    /\ \A b \in Bookings : RoomFits(b) /\ MoneyFits(b)
    /\ RefundIsNotMissed

\* The invariant is at least as strong as the safety properties.
LEMMA SagaInvImplies ==
    SagaInv => SharedNightNeedsExpiry /\ ConfirmedHoldIsBacked /\ RefundIsNotMissed
<1> SUFFICES ASSUME SagaInv
             PROVE  SharedNightNeedsExpiry /\ ConfirmedHoldIsBacked /\ RefundIsNotMissed
  OBVIOUS
<1>1. ASSUME NEW b \in Bookings, status[b] = "CONFIRMED"
      PROVE  hold[b] \notin {"none", "RELEASED"} /\ (hold[b] # "EXPIRED" => Active(b))
  <2>1. hold[b] # "none" /\ (hold[b] = "RELEASED" => CancelStaged(b))
    BY <1>1 DEF SagaInv, RoomFits
  <2>2. ~CancelStaged(b)
    BY <1>1 DEF SagaInv, BookingInv, Coherent
  <2>3. hold[b] \in HoldStatus \cup {"none"}
    BY DEF SagaInv, InventoryInv, InventoryTypeOK
  <2> QED
    BY <2>1, <2>2, <2>3 DEF HoldStatus, Active
<1>2. SharedNightNeedsExpiry
  BY <1>1 DEF SharedNightNeedsExpiry, SagaInv, ActiveHoldsAreDisjoint
<1>3. ASSUME NEW b \in Bookings, hold[b] = "CONFIRMED", status[b] # "CONFIRMED"
      PROVE  \E e \in outbox \ inventorySeen : e.topic = "booking.cancelled" /\ e.booking = b
  <2>1. Confirmed(b) /\ ~CancelSeen(b)
    BY <1>3 DEF SagaInv, RoomFits, Active
  <2>2. RefundStaged(b)
    BY <1>3, <2>1 DEF SagaInv, BookingInv, Coherent
  <2> QED
    BY <2>1, <2>2 DEF RefundStaged, CancelSeen
<1>4. ConfirmedHoldIsBacked
  BY <1>3 DEF ConfirmedHoldIsBacked
<1> QED
  BY <1>2, <1>4 DEF SagaInv

\* The system starts with nothing requested, held or paid.
LEMMA SagaInitInv == Init => SagaInv
<1> SUFFICES ASSUME Init
             PROVE  SagaInv
  OBVIOUS
<1> USE DEF Init
<1>1. BookingInv
  BY BookingInitInv
<1>2. InventoryInv /\ ActiveHoldsAreDisjoint
  BY InventoryInitType
  DEF InventoryInit, InventoryInv, LossesAreFaults, Agrees, RequestSeen, Answered, ActiveHoldsAreDisjoint, Active
<1>3. PaymentInv
  BY PaymentInitType, FS_EmptySet
  DEF PaymentInit, PaymentInv, LossesFit, RowsFit, RefundsFit, EventsFit, RowsDiffer, Row, Settled, Told
<1>4. BusFits
  BY DEF BusFits, BookingInit, InventoryInit, PaymentInit, OutcomeTold, Told
<1>5. ASSUME NEW b \in Bookings
      PROVE  RoomFits(b) /\ MoneyFits(b)
  BY DEF BookingInit, InventoryInit, PaymentInit, RoomFits, MoneyFits, Confirmed, CancelSeen,
         Returned, RefundStaged
<1> QED
  BY <1>1, <1>2, <1>3, <1>4, <1>5 DEF SagaInv, PaymentInit, RefundIsNotMissed

(***************************************************************************)
(* Whose event an event is.                                                *)
(***************************************************************************)

\* The topic of an event tells which service has sent it.
LEMMA TopicsTell ==
    ASSUME NEW e \in Events
    PROVE  /\ e.topic \in {"booking.requested", "booking.confirmed", "booking.cancelled"}
                 <=> e \in BookingEvents
           /\ e.topic \in {"inventory.held", "inventory.rejected", "inventory.released"}
                 <=> e \in InventoryEvents
           /\ e.topic \in {"payment.succeeded", "payment.failed", "payment.refunded"}
                 <=> e \in PaymentEvents
<1>1. e \in BookingEvents =>
         e.topic \in {"booking.requested", "booking.confirmed", "booking.cancelled"}
  BY BookingEventIs
<1>2. e \in InventoryEvents =>
         e.topic \in {"inventory.held", "inventory.rejected", "inventory.released"}
  BY InventoryEventIs
<1>3. e \in PaymentEvents =>
         e.topic \in {"payment.succeeded", "payment.failed", "payment.refunded"}
  BY PaymentEventIs
<1> QED
  BY <1>1, <1>2, <1>3 DEF Events

\* An event of another service is no answer of the inventory service,
LEMMA NoAnswer ==
    ASSUME NEW x \in BookingEvents \cup PaymentEvents, NEW b \in Bookings, NEW reason
    PROVE  /\ x # InventoryHeld(b)
           /\ x # InventoryRejected(b)
           /\ x # InventoryReleased(b, reason)
BY BookingEventIs, PaymentEventIs, InboundFieldsOf

\* nor of the payment service.
LEMMA NoOutcome ==
    ASSUME NEW x \in BookingEvents \cup InventoryEvents, NEW b, NEW p
    PROVE  /\ x # PaymentSucceeded(b, p)
           /\ x # PaymentFailed(b, p)
           /\ x # PaymentRefunded(b, p)
BY BookingEventIs, InventoryEventIs, InboundFieldsOf

\* What the others send leaves the inventory's invariant as it is,
LEMMA OthersKeepInventoryInv ==
    ASSUME InventoryInv, UNCHANGED inventoryVars,
           UNCHANGED sent \/ \E x \in BookingEvents \cup PaymentEvents : sent' = sent \cup {x}
    PROVE  InventoryInv'
<1>1. UNCHANGED <<hold, refused, inventorySeen, inventoryUnsent, inventoryFaults, inventoryLost>>
  BY DEF inventoryVars
<1>2. \A b \in Bookings : \A reason :
         /\ Answered(InventoryHeld(b))' <=> Answered(InventoryHeld(b))
         /\ Answered(InventoryRejected(b))' <=> Answered(InventoryRejected(b))
         /\ Answered(InventoryReleased(b, reason))' <=> Answered(InventoryReleased(b, reason))
  BY <1>1, NoAnswer DEF Answered
<1>3. ASSUME NEW b \in Bookings
      PROVE  Agrees(b)'
  BY <1>1, <1>2, UntouchedAgrees DEF InventoryInv, RequestSeen
<1> QED
  BY <1>1, <1>3 DEF InventoryInv, InventoryTypeOK, LossesAreFaults

\* and that of the payment service.
LEMMA OthersKeepPaymentInv ==
    ASSUME PaymentInv, UNCHANGED paymentVars,
           UNCHANGED sent \/ \E x \in BookingEvents \cup InventoryEvents : sent' = sent \cup {x}
    PROVE  PaymentInv'
<1>1. UNCHANGED <<call, payment, charged, pspRefunds, paymentSeen, paymentUnsent, paymentFaults,
                  paymentLost>>
  BY DEF paymentVars
<1>2. \A b, p :
         /\ Told(PaymentSucceeded(b, p))' <=> Told(PaymentSucceeded(b, p))
         /\ Told(PaymentFailed(b, p))' <=> Told(PaymentFailed(b, p))
         /\ Told(PaymentRefunded(b, p))' <=> Told(PaymentRefunded(b, p))
  BY <1>1, NoOutcome DEF Told
<1>3. ASSUME NEW p \in Payments
      PROVE  EventsFit(p)'
  BY <1>1, <1>2 DEF PaymentInv, EventsFit, Settled
<1> QED
  BY <1>1, <1>3 DEF PaymentInv, PaymentTypeOK, LossesFit, RowsFit, RefundsFit, RowsDiffer, Row, Settled

(***************************************************************************)
(* The booking service moves.                                              *)
(***************************************************************************)

\* What a step of the booking service may do to a booking, given how far the
\* room and the payment of the booking have got.
BookingEffect(c) ==
    /\ paymentReceived[c] => paymentReceived'[c]
    /\ paymentReceived'[c] => paymentReceived[c] \/ BookingPaid(c)
    /\ Known(c) => Known(c)'
    /\ Confirmed(c)' => Confirmed(c) \/ status'[c] = "CONFIRMED"
    /\ RefundStaged(c)' => RefundStaged(c) \/ paymentReceived'[c]
    /\ status'[c] \in {"AWAITING_PAYMENT", "CONFIRMED"} =>
          status[c] \in {"AWAITING_PAYMENT", "CONFIRMED"} \/ hold[c] # "none"

\* Requests of guests do no more than that;
LEMMA RequestEffect ==
    ASSUME SagaInv, NEW b \in Bookings, CreateBooking(b) \/ CancelBooking(b), NEW c \in Bookings
    PROVE  BookingEffect(c)
<1>1. /\ BookingTypeOK
      /\ paymentReceived[b] \in BOOLEAN
  BY DEF SagaInv, BookingInv, BookingTypeOK
<1>2. CASE CreateBooking(b)
  <2>1. /\ Confirmed(c)' <=> Confirmed(c)
        /\ RefundStaged(c)' <=> RefundStaged(c)
    BY <1>2, StageRequested DEF CreateBooking
  <2> QED
    BY <1>1, <1>2, <2>1 DEF CreateBooking, Transition, Known, BookingEffect, BookingTypeOK
<1>3. CASE CancelBooking(b)
  <2>1. /\ Confirmed(c)' <=> Confirmed(c)
        /\ RefundStaged(c)' <=> RefundStaged(c) \/ (c = b /\ paymentReceived[b])
    BY <1>1, <1>3, StageCancelled DEF CancelBooking, RefundDue
  <2> QED
    BY <1>1, <1>3, <2>1
    DEF CancelBooking, CancelledAs, Transition, Known, BookingEffect, BookingTypeOK
<1> QED
  BY <1>2, <1>3

\* nor do the handlers, as a room has been held when inventory.held says so
\* and money has been taken when payment.succeeded does.
LEMMA HandlerEffect ==
    ASSUME SagaInv, NEW e \in sent, BookingHandles(e), NEW c \in Bookings
    PROVE  BookingEffect(c)
<1> DEFINE b == e.booking
<1>1. e \in InventoryEvents \cup PaymentEvents
  <2>1. e \in Events
    BY DEF SagaInv, BusFits
  <2> QED
    BY <2>1, TopicsTell
    DEF BookingHandles, OnInventoryHeld, OnInventoryRejected, OnInventoryReleased,
        OnPaymentSucceeded, OnPaymentFailed, OnPaymentRefunded
<1>2. /\ b \in Bookings
      /\ BookingTypeOK
      /\ \A d \in Bookings : paymentReceived[d] \in BOOLEAN
  BY <1>1, InboundFields DEF SagaInv, BookingInv, BookingTypeOK
<1>3. e.topic = "inventory.held" => hold[b] # "none"
  <2>1. e.topic = "inventory.held" => e = InventoryHeld(b)
    BY <1>1, InventoryEventIs, PaymentEventIs
  <2> QED
    BY <1>2, <2>1 DEF SagaInv, InventoryInv, Agrees, Answered
<1>4. e.topic = "payment.succeeded" => BookingPaid(b)
  <2>1. e.topic = "payment.succeeded" => e = PaymentSucceeded(b, e.payment) /\ e.payment \in Payments
    BY <1>1, InventoryEventIs, PaymentEventIs
  <2>2. e.topic = "payment.succeeded" => PaysFor[e.payment] = b
    BY <1>2, <2>1 DEF SagaInv, BusFits, OutcomeTold, Told
  <2>3. e.topic = "payment.succeeded" => Settled(e.payment)
    BY <2>1, <2>2 DEF SagaInv, PaymentInv, EventsFit, Told
  <2> QED
    BY <2>1, <2>2, <2>3 DEF Settled, BookingPaid, PaymentsOneSuccess
<1>5. c # b => /\ status'[c] = status[c]
               /\ paymentReceived'[c] = paymentReceived[c]
               /\ Confirmed(c)' <=> Confirmed(c)
               /\ RefundStaged(c)' <=> RefundStaged(c)
  <2>1. c # b => status'[c] = status[c] /\ paymentReceived'[c] = paymentReceived[c]
    BY <1>1, <1>2, HandlerKinds
    DEF HandlerIgnores, MovesQuietly, Confirms, AsksRefund, FailsPayment, RecordsPayment, Transition,
        BookingTypeOK
  <2>2. HandlerIgnores \/ MovesQuietly(b) \/ RecordsPayment(b) => UNCHANGED outbox
    BY DEF HandlerIgnores, MovesQuietly, RecordsPayment
  <2>3. CASE UNCHANGED outbox
    BY <2>1, <2>3, StageNothing
  <2>4. CASE Confirms(b)
    BY <2>1, <2>4, StageConfirmed DEF Confirms
  <2>5. CASE AsksRefund(b)
    <3>1. PICK p, reason : Stage({BookingCancelled(b, p, reason, TRUE)})
      BY <2>5 DEF AsksRefund
    <3> QED
      BY <2>1, <3>1, StageCancelled
  <2>6. CASE FailsPayment(b)
    BY <2>1, <2>6, StageCancelled DEF FailsPayment
  <2> QED
    BY <1>1, <1>2, <2>2, <2>3, <2>4, <2>5, <2>6, HandlerKinds
<1>6. /\ paymentReceived[b] => paymentReceived'[b]
      /\ paymentReceived'[b] => paymentReceived[b] \/ e.topic = "payment.succeeded"
  BY <1>2
  DEF BookingHandles, OnInventoryHeld, OnInventoryRejected, OnInventoryReleased, OnPaymentSucceeded,
      OnPaymentFailed, OnPaymentRefunded, HandlerIgnores, BookingTypeOK
<1>7. status'[b] \in {"AWAITING_PAYMENT", "CONFIRMED"} =>
         status[b] \in {"AWAITING_PAYMENT", "CONFIRMED"} \/ e.topic = "inventory.held"
  BY <1>2
  DEF BookingHandles, OnInventoryHeld, OnInventoryRejected, OnInventoryReleased, OnPaymentSucceeded,
      OnPaymentFailed, OnPaymentRefunded, HandlerIgnores, Transition, BookingTypeOK
<1>8. /\ Confirmed(b)' => Confirmed(b) \/ status'[b] = "CONFIRMED"
      /\ RefundStaged(b)' => RefundStaged(b) \/ paymentReceived'[b]
      /\ Known(b) => Known(b)'
  <2>1. HandlerIgnores \/ MovesQuietly(b) \/ RecordsPayment(b) =>
           /\ Confirmed(b)' => Confirmed(b)
           /\ RefundStaged(b)' => RefundStaged(b)
    BY StageNothing DEF HandlerIgnores, MovesQuietly, RecordsPayment
  <2>2. Confirms(b) => status'[b] = "CONFIRMED" /\ (RefundStaged(b)' => RefundStaged(b))
    BY <1>2, StageConfirmed DEF Confirms, Transition, BookingTypeOK
  <2>3. AsksRefund(b) => paymentReceived'[b] /\ (Confirmed(b)' => Confirmed(b))
    BY <1>2, StageCancelled DEF AsksRefund, BookingTypeOK
  <2>4. FailsPayment(b) =>
           /\ Confirmed(b)' => Confirmed(b)
           /\ RefundStaged(b)' => RefundStaged(b)
    BY StageCancelled DEF FailsPayment
  <2>5. Known(b) => Known(b)'
    BY <1>1, <1>2, HandlerKinds
    DEF HandlerIgnores, MovesQuietly, Confirms, AsksRefund, FailsPayment, RecordsPayment, Transition,
        Known, BookingTypeOK
  <2> QED
    BY <1>1, <1>2, <2>1, <2>2, <2>3, <2>4, <2>5, HandlerKinds
<1>9. CASE c = b
  BY <1>3, <1>4, <1>6, <1>7, <1>8, <1>9 DEF BookingEffect
<1>10. CASE c # b
  BY <1>5, <1>10 DEF BookingEffect, Known
<1> QED
  BY <1>9, <1>10

\* A step of the booking service keeps what ties it to the others.
LEMMA BookingMoveKeepsInv ==
    ASSUME SagaInv,
           \/ \E b \in Bookings : CreateBooking(b) \/ CancelBooking(b)
           \/ \E e \in sent : BookingHandles(e),
           UNCHANGED <<sent, inventoryVars, paymentVars>>
    PROVE  SagaInv'
<1>1. BookingInv'
  <2>1. \A e \in sent : BookingHandles(e) => e \in InventoryEvents \cup PaymentEvents
    BY TopicsTell
    DEF SagaInv, BusFits, BookingHandles, OnInventoryHeld, OnInventoryRejected, OnInventoryReleased,
        OnPaymentSucceeded, OnPaymentFailed, OnPaymentRefunded
  <2> QED
    BY <2>1, RequestKeepsInv, HandlerKeepsInv DEF SagaInv
<1>2. /\ UNCHANGED <<hold, refused, inventorySeen, inventoryUnsent, inventoryFaults, inventoryLost>>
      /\ UNCHANGED <<call, payment, charged, pspRefunds, paymentSeen, paymentUnsent, paymentFaults,
                  paymentLost>>
  BY DEF inventoryVars, paymentVars
<1>3. InventoryInv' /\ PaymentInv' /\ ActiveHoldsAreDisjoint'
  BY <1>2, OthersKeepInventoryInv, OthersKeepPaymentInv DEF SagaInv, ActiveHoldsAreDisjoint, Active
<1>4. \A c \in Bookings : BookingEffect(c)
  BY RequestEffect, HandlerEffect
<1>5. outbox \subseteq outbox'
  BY DEF CreateBooking, CancelBooking, BookingHandles, OnInventoryHeld, OnInventoryRejected,
         OnInventoryReleased, OnPaymentSucceeded, OnPaymentFailed, OnPaymentRefunded,
         HandlerIgnores, Stage
<1>6. BusFits'
  BY <1>2, <1>5 DEF SagaInv, BusFits, OutcomeTold, Told
<1>7. ASSUME NEW c \in Bookings
      PROVE  RoomFits(c)' /\ MoneyFits(c)'
  <2>1. /\ CancelStaged(c) => CancelStaged(c)'
        /\ RefundStaged(c) => RefundStaged(c)'
        /\ Confirmed(c) => Confirmed(c)'
        /\ CancelSeen(c)' <=> CancelSeen(c)
        /\ CancelSeen(c) => CancelStaged(c)'
    BY <1>2, <1>5
    DEF SagaInv, BusFits, CancelStaged, RefundStaged, Confirmed, CancelSeen
  <2>2. status'[c] = "CONFIRMED" => ~CancelStaged(c)'
    BY <1>1 DEF BookingInv, Coherent
  <2>3. RoomFits(c) /\ MoneyFits(c) /\ BookingEffect(c)
    BY <1>4 DEF SagaInv
  <2>4. RoomFits(c)'
    BY <1>2, <2>1, <2>2, <2>3 DEF RoomFits, BookingEffect, Active
  <2>5. MoneyFits(c)'
    BY <1>2, <2>1, <2>3 DEF MoneyFits, BookingEffect, BookingPaid, Returned
  <2> QED
    BY <2>4, <2>5
<1>8. \A p \in Payments : call'[p] # "new" => Known(PaysFor[p])'
  BY <1>2, <1>4, PaysForAssumption DEF SagaInv, BookingEffect
<1>9. RefundIsNotMissed'
  BY <1>2 DEF SagaInv, RefundIsNotMissed
<1> QED
  BY <1>1, <1>3, <1>6, <1>7, <1>8, <1>9 DEF SagaInv

\* The relay sends what has been staged.
LEMMA RelayKeepsInv ==
    ASSUME SagaInv, BookingRelays
    PROVE  SagaInv'
<1>1. PICK e \in outbox : sent' = sent \cup {e}
  BY DEF BookingRelays, PublishStaged, Publish
<1>2. /\ UNCHANGED <<status, paymentReceived, outbox, bookingSeen>>
      /\ UNCHANGED <<hold, refused, inventorySeen, inventoryUnsent, inventoryFaults, inventoryLost>>
      /\ UNCHANGED <<call, payment, charged, pspRefunds, paymentSeen, paymentUnsent, paymentFaults,
                  paymentLost>>
      /\ UNCHANGED inventoryVars
      /\ UNCHANGED paymentVars
      /\ UNCHANGED bookingVars
  BY DEF BookingRelays, PublishStaged, bookingVars, inventoryVars, paymentVars
<1>3. e \in BookingEvents
  BY DEF SagaInv, BookingInv, BookingTypeOK
<1>4. BookingInv' /\ InventoryInv' /\ PaymentInv' /\ ActiveHoldsAreDisjoint'
  BY <1>1, <1>2, <1>3, StepKeepsInv, OthersKeepInventoryInv, OthersKeepPaymentInv
  DEF SagaInv, BookingRelays, BookingNext, ActiveHoldsAreDisjoint, Active
<1>5. BusFits'
  <2>1. \A b \in Bookings, p \in Payments : OutcomeTold(b, p)' => OutcomeTold(b, p)
    BY <1>1, <1>2, <1>3, NoOutcome DEF OutcomeTold, Told
  <2> QED
    BY <1>1, <1>2, <1>3, <2>1 DEF SagaInv, BusFits, Events
<1>6. ASSUME NEW c \in Bookings
      PROVE  RoomFits(c)' /\ MoneyFits(c)'
  BY <1>2
  DEF SagaInv, RoomFits, MoneyFits, Confirmed, CancelStaged, CancelSeen, Active, BookingPaid,
      RefundStaged, Returned
<1>7. \A p \in Payments : call'[p] # "new" => Known(PaysFor[p])'
  BY <1>2 DEF SagaInv, Known
<1> QED
  BY <1>2, <1>4, <1>5, <1>6, <1>7 DEF SagaInv, RefundIsNotMissed

(***************************************************************************)
(* The inventory service moves.                                            *)
(***************************************************************************)

\* What a step of the inventory service may do to a hold, given what the
\* booking service has staged: no hold that has ended comes back.
HoldEffect(c) ==
    /\ \/ hold'[c] = hold[c]
       \/ hold[c] = "none" /\ hold'[c] = "HELD"
       \/ hold[c] = "HELD" /\ hold'[c] = "CONFIRMED" /\ Confirmed(c)
       \/ Active(c) /\ hold'[c] = "RELEASED" /\ CancelStaged(c)
       \/ hold[c] = "HELD" /\ hold'[c] = "EXPIRED"
    /\ CancelSeen(c)' => CancelSeen(c) \/ ~Active(c)'

\* The handlers do no more than that, as they are given what was staged;
LEMMA HoldHandlerEffect ==
    ASSUME SagaInv, NEW e \in sent \cap BookingEvents, InventoryHandles(e), NEW c \in Bookings
    PROVE  HoldEffect(c)
<1> DEFINE b == e.booking
<1>1. e \in outbox /\ b \in Bookings /\ hold \in [Bookings -> HoldStatus \cup {"none"}]
  BY BookingEventIs DEF SagaInv, BusFits, InventoryInv, InventoryTypeOK
<1>2. CASE OnBookingRequested(e)
  <2>1. e = BookingRequested(b)
    BY <1>2, BookingEventIs DEF OnBookingRequested
  <2>2. CancelSeen(c)' => CancelSeen(c)
    BY <1>2, <2>1, AnnouncedFields DEF OnBookingRequested, FirstTime, CancelSeen
  <2>3. CASE ~StayFree(b)
    BY <1>2, <2>2, <2>3 DEF OnBookingRequested, HoldEffect
  <2>4. CASE StayFree(b)
    <3>1. e \notin inventorySeen /\ hold' = [hold EXCEPT ![b] = "HELD"]
      BY <1>2, <2>4 DEF OnBookingRequested, FirstTime
    <3>2. hold[b] = "none"
      BY <1>1, <2>1, <3>1 DEF SagaInv, InventoryInv, Agrees, RequestSeen
    <3> QED
      BY <1>1, <2>2, <3>1, <3>2 DEF HoldEffect
  <2> QED
    BY <2>3, <2>4
<1>3. CASE InventoryOnBookingConfirmed(e)
  <2>1. Confirmed(b)
    BY <1>1, <1>3, BookingEventIs DEF InventoryOnBookingConfirmed, Confirmed
  <2>2. CancelSeen(c)' => CancelSeen(c)
    BY <1>3 DEF InventoryOnBookingConfirmed, FirstTime, CancelSeen
  <2> QED
    BY <1>1, <1>3, <2>1, <2>2 DEF InventoryOnBookingConfirmed, ConfirmedHold, HoldEffect
<1>4. CASE InventoryOnBookingCancelled(e)
  <2>1. CancelStaged(b)
    BY <1>1, <1>4 DEF InventoryOnBookingCancelled, CancelStaged
  <2>2. CancelSeen(c)' => CancelSeen(c) \/ c = b
    BY <1>4 DEF InventoryOnBookingCancelled, FirstTime, CancelSeen
  <2>3. ~Active(b)'
    BY <1>1, <1>4 DEF InventoryOnBookingCancelled, Releasable, Active
  <2>4. \/ hold' = hold
        \/ Active(b) /\ hold' = [hold EXCEPT ![b] = "RELEASED"]
    BY <1>4 DEF InventoryOnBookingCancelled, Releasable, Active
  <2> QED
    BY <1>1, <2>1, <2>2, <2>3, <2>4 DEF HoldEffect
<1> QED
  BY <1>2, <1>3, <1>4 DEF InventoryHandles

\* nor do the refusals, the sweeper and the publications.
LEMMA HoldStepEffect ==
    ASSUME SagaInv, InventoryStep, NEW c \in Bookings
    PROVE  HoldEffect(c)
<1>1. CASE \E rows \in SUBSET Bookings : Sweep(rows)
  BY <1>1 DEF Sweep, Sweepable, CancelSeen, HoldEffect
<1>2. CASE \E b \in Bookings : RejectRequest(b)
  <2>1. CancelSeen(c)' => CancelSeen(c)
    BY <1>2, AnnouncedFields DEF RejectRequest, CancelSeen
  <2> QED
    BY <1>2, <2>1 DEF RejectRequest, HoldEffect
<1>3. CASE UNCHANGED <<hold, inventorySeen>>
  BY <1>3 DEF CancelSeen, HoldEffect
<1> QED
  BY <1>1, <1>2, <1>3 DEF InventoryStep, InventoryPublish, InventoryLose

\* What the inventory handles has been staged, and it sends only answers.
LEMMA InventoryMoveKeepsBus ==
    ASSUME SagaInv, UNCHANGED <<outbox, paymentSeen, paymentUnsent, paymentLost>>,
           \/ (\E e \in sent \cap BookingEvents : InventoryHandles(e)) /\ UNCHANGED sent
           \/ InventoryStep
    PROVE  BusFits'
<1>1. BusFits /\ inventoryUnsent \subseteq InventoryEvents
  BY DEF SagaInv, InventoryInv, InventoryTypeOK
<1>2. CASE (\E e \in sent \cap BookingEvents : InventoryHandles(e)) /\ UNCHANGED sent
  <2>1. PICK e \in sent \cap BookingEvents : InventoryHandles(e)
    BY <1>2
  <2>2. e \in outbox /\ inventorySeen' \subseteq inventorySeen \cup {e}
    BY <1>1, <2>1
    DEF BusFits, InventoryHandles, OnBookingRequested, InventoryOnBookingConfirmed,
        InventoryOnBookingCancelled, FirstTime
  <2>3. \A b \in refused' : b \in refused \/ e = BookingRequested(b)
    <3>1. e.topic = "booking.requested" => e = BookingRequested(e.booking)
      BY BookingEventIs
    <3> QED
      BY <2>1, <3>1
      DEF InventoryHandles, OnBookingRequested, InventoryOnBookingConfirmed,
          InventoryOnBookingCancelled
  <2> QED
    BY <1>1, <1>2, <2>2, <2>3 DEF BusFits, OutcomeTold, Told
<1>3. CASE InventoryStep
  <2>1. sent' = sent \/ \E x \in InventoryEvents : sent' = sent \cup {x}
    BY <1>1, <1>3 DEF InventoryStep, InventoryPublish, InventoryLose, Publish
  <2>2. \A x \in InventoryEvents : x \in Events /\ x \notin BookingEvents
    BY TopicsTell DEF Events
  <2>3. sent' \subseteq Events /\ sent' \cap BookingEvents \subseteq outbox'
    BY <1>1, <2>1, <2>2 DEF BusFits
  <2>4. /\ inventorySeen' \subseteq outbox
        /\ refused' \subseteq refused
    BY <1>1, <1>3
    DEF BusFits, InventoryStep, RejectRequest, Sweep, InventoryPublish, InventoryLose
  <2>5. \A b, p : OutcomeTold(b, p)' => OutcomeTold(b, p)
    BY <2>1, NoOutcome DEF OutcomeTold, Told
  <2> QED
    BY <1>1, <2>3, <2>4, <2>5 DEF BusFits
<1> QED
  BY <1>2, <1>3

\* A step of the inventory service keeps what ties it to the others.
LEMMA InventoryMoveKeepsInv ==
    ASSUME SagaInv, InventoryConsumes \/ InventoryActs
    PROVE  SagaInv'
<1>1. /\ UNCHANGED <<status, paymentReceived, outbox, bookingSeen>>
      /\ UNCHANGED <<call, payment, charged, pspRefunds, paymentSeen, paymentUnsent, paymentFaults,
                  paymentLost>>
      /\ UNCHANGED bookingVars
      /\ UNCHANGED paymentVars
  BY DEF InventoryConsumes, InventoryActs, bookingVars, paymentVars
<1>2. \/ (\E e \in sent \cap BookingEvents : InventoryHandles(e)) /\ UNCHANGED sent
      \/ InventoryStep
  <2>1. \A e \in sent : InventoryHandles(e) => e \in BookingEvents
    BY TopicsTell
    DEF SagaInv, BusFits, InventoryHandles, OnBookingRequested, InventoryOnBookingConfirmed,
        InventoryOnBookingCancelled
  <2> QED
    BY <2>1 DEF InventoryConsumes, InventoryActs
<1>3. BookingInv'
  BY <1>1, StepKeepsInv DEF SagaInv, BookingInv, BookingTypeOK, Coherent, Known, Requested, Confirmed,
     CancelStaged, RefundStaged, FailureStaged
<1>4. InventoryInv' /\ ActiveHoldsAreDisjoint'
  BY <1>2, InventoryHandlerKeepsInv, InventoryStepKeepsInv, HandlerKeepsDisjoint, StepKeepsDisjoint
  DEF SagaInv, InventoryInv
<1>5. PaymentInv'
  <2>1. UNCHANGED sent \/ \E x \in InventoryEvents : sent' = sent \cup {x}
    BY <1>2
    DEF SagaInv, InventoryInv, InventoryTypeOK, InventoryStep, InventoryPublish, InventoryLose, Publish
  <2> QED
    BY <1>1, <2>1, OthersKeepPaymentInv DEF SagaInv
<1>6. BusFits'
  BY <1>1, <1>2, InventoryMoveKeepsBus
<1>7. ASSUME NEW c \in Bookings
      PROVE  RoomFits(c)' /\ MoneyFits(c)'
  <2>1. HoldEffect(c)
    BY <1>2, HoldHandlerEffect, HoldStepEffect
  <2>2. /\ Confirmed(c)' <=> Confirmed(c)
        /\ CancelStaged(c)' <=> CancelStaged(c)
        /\ RefundStaged(c)' <=> RefundStaged(c)
    BY <1>1, StageNothing
  <2>3. RoomFits(c) /\ MoneyFits(c)
    BY DEF SagaInv
  <2>4. RoomFits(c)'
    BY <1>1, <2>1, <2>2, <2>3 DEF RoomFits, HoldEffect, Active
  <2>5. MoneyFits(c)'
    BY <1>1, <2>2, <2>3 DEF MoneyFits, BookingPaid, Returned
  <2> QED
    BY <2>4, <2>5
<1>8. \A p \in Payments : call'[p] # "new" => Known(PaysFor[p])'
  BY <1>1 DEF SagaInv, Known
<1> QED
  BY <1>1, <1>3, <1>4, <1>5, <1>6, <1>7, <1>8 DEF SagaInv, RefundIsNotMissed

(***************************************************************************)
(* The payment service moves.                                              *)
(***************************************************************************)

\* What a step of the payment service may do to the rows, given what the
\* booking service has staged.
TakesMoney(p) ==
    /\ payment[p] = "none"
    /\ call[p] # "new"
    /\ ~BookingPaid(PaysFor[p])
    /\ payment' = [payment EXCEPT ![p] = "SUCCEEDED"]

NotesFailure(p) ==
    /\ payment[p] = "none"
    /\ payment' = [payment EXCEPT ![p] = "FAILED"]

GivesBack(p) ==
    /\ payment[p] = "SUCCEEDED"
    /\ RefundStaged(PaysFor[p])
    /\ payment' = [payment EXCEPT ![p] = "REFUNDED"]

RowsMove ==
    \/ UNCHANGED payment
    \/ \E p \in Payments : TakesMoney(p) \/ NotesFailure(p) \/ GivesBack(p)

\* A step of the payment service, as StayBook takes it.
PaymentMove ==
    \/ (\E p \in Payments : Known(PaysFor[p]) /\ LookUp(p)) /\ UNCHANGED sent
    \/ (\E e \in sent : PaymentHandles(e)) /\ UNCHANGED sent
    \/ PaymentStep

\* Each step leaves the rows or makes one of the three changes.
LEMMA PaymentRows ==
    ASSUME SagaInv, PaymentMove
    PROVE  RowsMove
<1>1. ASSUME NEW p \in Payments, StorePayment(p)
      PROVE  TakesMoney(p) \/ NotesFailure(p)
  <2>1. payment[p] = "none"
    BY <1>1 DEF SagaInv, PaymentInv, RowsFit, Row, StorePayment
  <2> QED
    BY <1>1, <2>1 DEF StorePayment, InsertRefused, TakesMoney, NotesFailure
<1>2. ASSUME NEW e \in sent, NEW p \in Payments, Refund(e, p)
      PROVE  GivesBack(p)
  <2>1. e \in outbox /\ e.topic = "booking.cancelled" /\ e.refund /\ e.booking = PaysFor[p]
    BY <1>2, TopicsTell DEF Refund, CancelledFirstTime, Refundable, SagaInv, BusFits
  <2> QED
    BY <1>2, <2>1 DEF Refund, Refundable, GivesBack, RefundStaged
<1>3. CASE (\E p \in Payments : Known(PaysFor[p]) /\ LookUp(p)) /\ UNCHANGED sent
  BY <1>3 DEF LookUp, RowsMove
<1>4. CASE (\E e \in sent : PaymentHandles(e)) /\ UNCHANGED sent
  BY <1>2, <1>4 DEF PaymentHandles, SkipRefund, RefundAborted, RowsMove
<1>5. CASE PaymentStep
  BY <1>1, <1>5
  DEF PaymentStep, PayStep, Charge, RefusePayment, PayCrash, PaymentPublish, PaymentLose, RowsMove
<1> QED
  BY <1>3, <1>4, <1>5 DEF PaymentMove

\* A booking that has been paid stays so, and money goes back only when the
\* booking service has asked for it.
LEMMA RowsMoveKeepsMoney ==
    ASSUME PaymentTypeOK, RowsMove, NEW b \in Bookings
    PROVE  /\ BookingPaid(b) => BookingPaid(b)'
           /\ Returned(b) => Returned(b)'
           /\ Returned(b)' => Returned(b) \/ RefundStaged(b)
<1>1. CASE UNCHANGED payment
  BY <1>1 DEF BookingPaid, Returned
<1>2. ASSUME NEW p \in Payments, TakesMoney(p) \/ NotesFailure(p) \/ GivesBack(p), NEW q \in Payments
      PROVE  /\ payment[q] \in PaymentsOneSuccess => payment'[q] \in PaymentsOneSuccess
             /\ payment[q] = "REFUNDED" => payment'[q] = "REFUNDED"
             /\ payment'[q] = "REFUNDED" => payment[q] = "REFUNDED" \/ RefundStaged(PaysFor[q])
  BY <1>2 DEF PaymentTypeOK, TakesMoney, NotesFailure, GivesBack, PaymentsOneSuccess
<1> QED
  BY <1>1, <1>2 DEF RowsMove, BookingPaid, Returned

\* Only a call for a booking says that the booking has been paid, and what
\* the payment service handles has been staged.
LEMMA PaymentMoveKeepsBus ==
    ASSUME SagaInv, PaymentMove, UNCHANGED <<outbox, inventorySeen, refused>>
    PROVE  BusFits'
<1>1. BusFits /\ paymentUnsent \subseteq PaymentEvents
  BY DEF SagaInv, PaymentInv, PaymentTypeOK
<1>2. sent' = sent \/ \E x \in PaymentEvents : sent' = sent \cup {x}
  BY <1>1 DEF PaymentMove, PaymentStep, PaymentPublish, PaymentLose, Publish
<1>3. \A x \in PaymentEvents : x \in Events /\ x \notin BookingEvents
  BY TopicsTell DEF Events
<1>4. sent' \subseteq Events /\ sent' \cap BookingEvents \subseteq outbox'
  BY <1>1, <1>2, <1>3 DEF BusFits
<1>5. paymentSeen' \subseteq outbox
  <2>1. \A e \in sent : e.topic = "booking.cancelled" => e \in outbox
    BY <1>1, TopicsTell DEF BusFits
  <2> QED
    BY <1>1, <2>1
    DEF BusFits, PaymentMove, LookUp, PaymentHandles, SkipRefund, Refund, RefundAborted,
        CancelledFirstTime, PaymentStep, PayStep, Charge, StorePayment, RefusePayment, PayCrash,
        PaymentPublish, PaymentLose
<1>6. ASSUME NEW b \in Bookings, NEW p \in Payments, OutcomeTold(b, p)'
      PROVE  PaysFor[p] = b
  <2>1. CASE \E q \in Payments : StorePayment(q) /\ UNCHANGED sent
    <3>1. PICK q \in Payments :
             \/ paymentUnsent' = paymentUnsent \cup {PaymentSucceeded(PaysFor[q], q)}
             \/ paymentUnsent' = paymentUnsent \cup {PaymentFailed(PaysFor[q], q)}
             \/ paymentUnsent' = paymentUnsent
      BY <2>1 DEF StorePayment
    <3>2. UNCHANGED paymentLost
      BY <2>1 DEF StorePayment
    <3>3. OutcomeTold(b, p) \/ (p = q /\ b = PaysFor[q])
      BY <1>6, <2>1, <3>1, <3>2, OutcomesDiffer DEF OutcomeTold, Told
    <3> QED
      BY <1>1, <3>3 DEF BusFits
  <2>2. CASE \E e \in sent, q \in Payments : Refund(e, q) /\ UNCHANGED sent
    <3>1. PICK e \in sent, q \in Payments :
             /\ PaysFor[q] = e.booking
             /\ paymentUnsent' = paymentUnsent \cup {PaymentRefunded(e.booking, q)}
             /\ UNCHANGED paymentLost
      BY <2>2 DEF Refund, Refundable
    <3>2. OutcomeTold(b, p) \/ (p = q /\ b = e.booking)
      BY <1>6, <2>2, <3>1, OutcomesDiffer DEF OutcomeTold, Told
    <3> QED
      BY <1>1, <3>1, <3>2 DEF BusFits
  <2>3. CASE paymentUnsent' \cup sent' \cup paymentLost' \subseteq paymentUnsent \cup sent \cup paymentLost
    BY <1>1, <1>6, <2>3 DEF OutcomeTold, Told, BusFits
  <2>4. \A e \in paymentUnsent : PaymentPublish(e) \/ PaymentLose(e) =>
           paymentUnsent' \cup sent' \cup paymentLost' \subseteq paymentUnsent \cup sent \cup paymentLost
    BY DEF PaymentPublish, PaymentLose, Publish
  <2> QED
    BY <2>1, <2>2, <2>3, <2>4
    DEF PaymentMove, LookUp, PaymentHandles, SkipRefund, RefundAborted, PaymentStep, PayStep, Charge,
        RefusePayment, PayCrash
<1> QED
  BY <1>1, <1>4, <1>5, <1>6 DEF BusFits

\* A step of the payment service keeps what ties it to the others: a refund
\* that is skipped has been made before, as it is asked for only once the
\* booking service has been told of the payment.
LEMMA PaymentMoveKeepsInv ==
    ASSUME SagaInv, PaymentMove, UNCHANGED <<bookingVars, inventoryVars>>
    PROVE  SagaInv'
<1>1. /\ UNCHANGED <<status, paymentReceived, outbox, bookingSeen>>
      /\ UNCHANGED <<hold, refused, inventorySeen, inventoryUnsent, inventoryFaults, inventoryLost>>
  BY DEF bookingVars, inventoryVars
<1>2. PaymentInv'
  <2>1. \A e \in sent : PaymentHandles(e) => e \in BookingEvents
    BY TopicsTell
    DEF SagaInv, BusFits, PaymentHandles, SkipRefund, Refund, RefundAborted, CancelledFirstTime
  <2> QED
    BY <2>1, CallKeepsInv, StoreKeepsInv, PaymentHandlerKeepsInv, PublishKeepsInv
    DEF SagaInv, PaymentMove, PaymentStep, PayStep
<1>3. InventoryInv' /\ ActiveHoldsAreDisjoint'
  <2>1. UNCHANGED sent \/ \E x \in PaymentEvents : sent' = sent \cup {x}
    BY DEF SagaInv, PaymentInv, PaymentTypeOK, PaymentMove, PaymentStep, PaymentPublish, PaymentLose,
           Publish
  <2> QED
    BY <1>1, <2>1, OthersKeepInventoryInv DEF SagaInv, ActiveHoldsAreDisjoint, Active
<1>4. BookingInv'
  BY <1>1, StepKeepsInv DEF SagaInv, BookingInv, BookingTypeOK, Coherent, Known, Requested, Confirmed,
     CancelStaged, RefundStaged, FailureStaged
<1>5. BusFits'
  BY <1>1, PaymentMoveKeepsBus
<1>6. ASSUME NEW b \in Bookings
      PROVE  /\ BookingPaid(b) => BookingPaid(b)'
             /\ Returned(b) => Returned(b)'
             /\ Returned(b)' => Returned(b) \/ RefundStaged(b)
  BY PaymentRows, RowsMoveKeepsMoney DEF SagaInv, PaymentInv
<1>7. ASSUME NEW b \in Bookings
      PROVE  RoomFits(b)' /\ MoneyFits(b)'
  <2>1. RoomFits(b) /\ MoneyFits(b)
    BY DEF SagaInv
  <2>2. RoomFits(b)'
    BY <1>1, <2>1 DEF RoomFits, Confirmed, CancelStaged, CancelSeen, Active
  <2>3. RefundStaged(b)' <=> RefundStaged(b)
    BY <1>1 DEF RefundStaged
  <2>4. MoneyFits(b)'
    BY <1>1, <1>6, <2>1, <2>3 DEF MoneyFits
  <2> QED
    BY <2>2, <2>4
<1>8. ASSUME NEW p \in Payments, call'[p] # "new"
      PROVE  Known(PaysFor[p])'
  <2>1. call[p] # "new" \/ Known(PaysFor[p])
    BY <1>8
    DEF SagaInv, PaymentInv, PaymentTypeOK, PaymentMove, LookUp, PaymentHandles, SkipRefund, Refund,
        RefundAborted, PaymentStep, PayStep, Charge, StorePayment, RefusePayment, PayCrash, Proceed,
        PaymentPublish, PaymentLose
  <2> QED
    BY <1>1, <2>1 DEF SagaInv, Known
<1>9. ASSUME NEW e \in paymentSeen', e.refund
      PROVE  Returned(e.booking)'
  <2>1. CASE e \in paymentSeen
    <3>1. e.booking \in Bookings
      BY <2>1, BookingEventIs DEF SagaInv, PaymentInv, PaymentTypeOK
    <3> QED
      BY <1>6, <1>9, <2>1, <3>1 DEF SagaInv, RefundIsNotMissed, Returned
  <2>2. CASE SkipRefund(e) /\ e \in sent
    <3>1. e \in outbox /\ e.booking \in Bookings
      BY <2>2, TopicsTell, BookingEventIs DEF SkipRefund, CancelledFirstTime, SagaInv, BusFits
    <3>2. BookingPaid(e.booking)
      BY <1>9, <2>2, <3>1 DEF SkipRefund, CancelledFirstTime, SagaInv, MoneyFits, RefundStaged
    <3> QED
      BY <1>9, <2>2, <3>2 DEF SkipRefund, Refundable, BookingPaid, PaymentsOneSuccess, Returned
  <2>3. CASE \E p \in Payments : Refund(e, p)
    BY <2>3 DEF Refund, Refundable, Returned, SagaInv, PaymentInv, PaymentTypeOK
  <2>4. \/ e \in paymentSeen
        \/ SkipRefund(e) /\ e \in sent
        \/ \E p \in Payments : Refund(e, p)
    BY <1>9
    DEF PaymentMove, LookUp, PaymentHandles, SkipRefund, Refund, RefundAborted, PaymentStep, PayStep,
        Charge, StorePayment, RefusePayment, PayCrash, PaymentPublish, PaymentLose
  <2> QED
    BY <2>1, <2>2, <2>3, <2>4
<1>10. RefundIsNotMissed'
  BY <1>9 DEF RefundIsNotMissed, Returned
<1> QED
  BY <1>2, <1>3, <1>4, <1>5, <1>7, <1>8, <1>10 DEF SagaInv

(***************************************************************************)
(* The invariant, and the properties that follow from it.                  *)
(***************************************************************************)

\* No step of any service breaks it.
LEMMA SagaStepInv == SagaInv /\ [Next]_vars => SagaInv'
<1> SUFFICES ASSUME SagaInv, [Next]_vars
             PROVE  SagaInv'
  OBVIOUS
<1>1. CASE /\ \/ \E b \in Bookings : CreateBooking(b) \/ CancelBooking(b)
              \/ \E e \in sent : BookingHandles(e)
           /\ UNCHANGED <<sent, inventoryVars, paymentVars>>
  BY <1>1, BookingMoveKeepsInv
<1>2. CASE BookingRelays
  BY <1>2, RelayKeepsInv
<1>3. CASE InventoryConsumes \/ InventoryActs
  BY <1>3, InventoryMoveKeepsInv
<1>4. CASE PaymentMove /\ UNCHANGED <<bookingVars, inventoryVars>>
  BY <1>4, PaymentMoveKeepsInv
<1>5. CASE UNCHANGED vars
  <2>1. UNCHANGED <<sent, bookingVars, inventoryVars, paymentVars>>
    BY <1>5 DEF vars
  <2>2. BookingInv' /\ InventoryInv' /\ PaymentInv'
    BY <2>1, StepKeepsInv, OthersKeepInventoryInv, OthersKeepPaymentInv DEF SagaInv
  <2> QED
    BY <2>1, <2>2
    DEF SagaInv, bookingVars, inventoryVars, paymentVars, ActiveHoldsAreDisjoint, Active, BusFits,
        OutcomeTold, Told, Known, RoomFits, MoneyFits, Confirmed, CancelStaged, CancelSeen,
        BookingPaid, RefundStaged, Returned, RefundIsNotMissed
<1> QED
  BY <1>1, <1>2, <1>3, <1>4, <1>5
  DEF Next, GuestActs, BookingConsumes, PaymentConsumes, PaymentActs, PaymentMove

\* The invariant of the saga holds, for any bookings, calls of pay() and faults.
THEOREM SagaInvariant == Spec => []SagaInv
<1>1. Init => SagaInv
  BY SagaInitInv
<1>2. SagaInv /\ [Next]_vars => SagaInv'
  BY SagaStepInv
<1> QED
  BY <1>1, <1>2, PTL DEF Spec

\* Confirmed bookings share a night only after an expiry, a room is kept only
\* for a booking that stands or is about to be freed, and no refund is missed,
\* however the events of the services are delayed and reordered.
THEOREM SagaIsSafe ==
    Spec => [](SharedNightNeedsExpiry /\ ConfirmedHoldIsBacked /\ RefundIsNotMissed)
<1>1. SagaInv => SharedNightNeedsExpiry /\ ConfirmedHoldIsBacked /\ RefundIsNotMissed
  BY SagaInvImplies
<1> QED
  BY <1>1, SagaInvariant, PTL

\* No refund is consumed before there is money to refund: the payment has been
\* stored when the booking service hears of it, and so when it asks for a refund.
THEOREM RefundsAreNotMissed == Spec => []RefundIsNotMissed
BY SagaIsSafe, PTL

\* Two confirmed bookings share a night of a room only when the sweeper has expired
\* the hold of one of them.
THEOREM SharedNightsNeedExpiry == Spec => []SharedNightNeedsExpiry
BY SagaIsSafe, PTL

\* The services consume and store only what belongs to them.
THEOREM SagaTypeCorrect == Spec => []TypeOK
<1>1. SagaInv => TypeOK
  BY DEF SagaInv, BookingInv, InventoryInv, PaymentInv, BusFits, TypeOK
<1> QED
  BY <1>1, SagaInvariant, PTL

(***************************************************************************)
(* Nobody waits in vain, and no money is lost sight of.  The booking       *)
(* service consumes an event once: what SagaInv does not tell is that it   *)
(* acted on the event then, that is, that the booking existed already and  *)
(* has stopped waiting since.                                              *)
(***************************************************************************)
SeenFits(b) ==
    /\ InventoryHeld(b) \in bookingSeen => status[b] \notin {"none", "PENDING"}
    /\ InventoryRejected(b) \in bookingSeen => status[b] \in TERMINAL
    /\ InventoryReleased(b, "expired") \in bookingSeen =>
          status[b] \notin {"none", "PENDING", "AWAITING_PAYMENT"}
    /\ \A p \in Payments :
          /\ PaymentSucceeded(b, p) \in bookingSeen => paymentReceived[b]
          /\ PaymentRefunded(b, p) \in bookingSeen => status[b] \in TERMINAL

SettledInv ==
    /\ SagaInv
    /\ \A b \in Bookings : SeenFits(b)
    /\ ChargesFit

\* The other services answer only for bookings that exist,
LEMMA AnsweredIsKnown ==
    ASSUME SagaInv, NEW b \in Bookings,
           \/ Answered(InventoryHeld(b))
           \/ Answered(InventoryRejected(b))
           \/ Answered(InventoryReleased(b, "expired"))
    PROVE  Known(b)
<1>1. RequestSeen(b)
  BY DEF SagaInv, InventoryInv, Agrees
<1>2. Requested(b)
  BY <1>1 DEF RequestSeen, Requested, SagaInv, BusFits
<1> QED
  BY <1>2 DEF SagaInv, BookingInv, Coherent

\* as a guest pays only for such a one.
LEMMA OutcomeIsKnown ==
    ASSUME SagaInv, NEW b \in Bookings, NEW p \in Payments,
           Told(PaymentSucceeded(b, p)) \/ Told(PaymentRefunded(b, p))
    PROVE  /\ Known(b)
           /\ Told(PaymentRefunded(b, p)) => RefundStaged(b)
<1>1. PaysFor[p] = b
  BY DEF SagaInv, BusFits, OutcomeTold
<1>2. Settled(p) /\ (Told(PaymentRefunded(b, p)) => payment[p] = "REFUNDED")
  BY <1>1 DEF SagaInv, PaymentInv, EventsFit, Settled
<1>3. call[p] # "new"
  BY <1>2 DEF SagaInv, PaymentInv, RowsFit, Row, Settled
<1>4. Known(b)
  BY <1>1, <1>3 DEF SagaInv
<1>5. Told(PaymentRefunded(b, p)) => RefundStaged(b)
  BY <1>1, <1>2 DEF Returned, SagaInv, MoneyFits
<1> QED
  BY <1>4, <1>5

\* What a booking has stopped waiting for, it does not wait for again.
LEMMA StopsWaitingForGood ==
    ASSUME BookingTypeOK, BookingTypeOK', MovesOn, NEW b \in Bookings
    PROVE  /\ status[b] \in TERMINAL => status'[b] \in TERMINAL
           /\ status[b] \notin {"none", "PENDING"} => status'[b] \notin {"none", "PENDING"}
           /\ status[b] \notin {"none", "PENDING", "AWAITING_PAYMENT"} =>
                 status'[b] \notin {"none", "PENDING", "AWAITING_PAYMENT"}
<1>1. /\ status[b] \in BookingStatus \cup {"none"}
      /\ status'[b] \in BookingStatus \cup {"none"}
      /\ status'[b] # status[b] => RankOf(status[b]) < RankOf(status'[b])
  BY DEF BookingTypeOK, MovesOn
<1> QED
  BY <1>1, Ranks DEF BookingStatus, TERMINAL

\* A handler that is given what a booking waits for ends the wait.
LEMMA HandlerActs ==
    ASSUME SagaInv, NEW e \in sent, BookingHandles(e), NEW b \in Bookings
    PROVE  /\ e = InventoryHeld(b) => status'[b] \notin {"none", "PENDING"}
           /\ e = InventoryRejected(b) => status'[b] \in TERMINAL
           /\ e = InventoryReleased(b, "expired") =>
                 status'[b] \notin {"none", "PENDING", "AWAITING_PAYMENT"}
           /\ \A p \in Payments :
                 /\ e = PaymentSucceeded(b, p) => paymentReceived'[b]
                 /\ e = PaymentRefunded(b, p) => status'[b] \in TERMINAL
<1>1. /\ status \in [Bookings -> BookingStatus \cup {"none"}]
      /\ paymentReceived \in [Bookings -> BOOLEAN]
  BY DEF SagaInv, BookingInv, BookingTypeOK
<1>2. ASSUME e = InventoryHeld(b)
      PROVE  status'[b] \notin {"none", "PENDING"}
  <2>1. Known(b)
    BY <1>2, AnsweredIsKnown DEF Answered
  <2>2. OnInventoryHeld(e) /\ e.booking = b
    BY <1>2, InboundFieldsOf
    DEF BookingHandles, OnInventoryRejected, OnInventoryReleased, OnPaymentSucceeded,
        OnPaymentFailed, OnPaymentRefunded
  <2> QED
    BY <1>1, <2>1, <2>2 DEF OnInventoryHeld, AwaitsHold, HandlerIgnores, Transition, Known
<1>3. ASSUME e = InventoryRejected(b)
      PROVE  status'[b] \in TERMINAL
  <2>1. Known(b)
    BY <1>3, AnsweredIsKnown DEF Answered
  <2>2. OnInventoryRejected(e) /\ e.booking = b
    BY <1>3, InboundFieldsOf
    DEF BookingHandles, OnInventoryHeld, OnInventoryReleased, OnPaymentSucceeded,
        OnPaymentFailed, OnPaymentRefunded
  <2> QED
    BY <1>1, <2>1, <2>2 DEF OnInventoryRejected, Rejectable, HandlerIgnores, Transition, TERMINAL
<1>4. ASSUME e = InventoryReleased(b, "expired")
      PROVE  status'[b] \notin {"none", "PENDING", "AWAITING_PAYMENT"}
  <2>1. Known(b)
    BY <1>4, AnsweredIsKnown DEF Answered
  <2>2. OnInventoryReleased(e) /\ e.booking = b /\ e.reason = "expired"
    BY <1>4, InboundFieldsOf
    DEF BookingHandles, OnInventoryHeld, OnInventoryRejected, OnPaymentSucceeded,
        OnPaymentFailed, OnPaymentRefunded
  <2> QED
    BY <1>1, <2>1, <2>2 DEF OnInventoryReleased, Expirable, HandlerIgnores, Transition, Known
<1>5. ASSUME NEW p \in Payments, e = PaymentSucceeded(b, p)
      PROVE  paymentReceived'[b]
  <2>1. Known(b)
    BY <1>5, OutcomeIsKnown DEF Told
  <2>2. OnPaymentSucceeded(e) /\ e.booking = b
    BY <1>5, InboundFieldsOf
    DEF BookingHandles, OnInventoryHeld, OnInventoryRejected, OnInventoryReleased,
        OnPaymentFailed, OnPaymentRefunded
  <2> QED
    BY <1>1, <2>1, <2>2 DEF OnPaymentSucceeded
<1>6. ASSUME NEW p \in Payments, e = PaymentRefunded(b, p)
      PROVE  status'[b] \in TERMINAL
  <2>1. RefundStaged(b)
    BY <1>6, OutcomeIsKnown DEF Told
  <2>2. status[b] \in {"CANCELLING", "CANCELLED", "REJECTED", "EXPIRED"}
    BY <2>1 DEF RefundStaged, CancelStaged, SagaInv, BookingInv, Coherent
  <2>3. OnPaymentRefunded(e) /\ e.booking = b
    BY <1>6, InboundFieldsOf
    DEF BookingHandles, OnInventoryHeld, OnInventoryRejected, OnInventoryReleased,
        OnPaymentSucceeded, OnPaymentFailed
  <2> QED
    BY <1>1, <2>2, <2>3 DEF OnPaymentRefunded, HandlerIgnores, Transition, TERMINAL
<1> QED
  BY <1>2, <1>3, <1>4, <1>5, <1>6

\* A step of the booking service keeps what its memory tells.
LEMMA BookingMoveKeepsSeen ==
    ASSUME SagaInv, NEW b \in Bookings, SeenFits(b),
           \/ \E c \in Bookings : CreateBooking(c) \/ CancelBooking(c)
           \/ \E e \in sent : BookingHandles(e)
    PROVE  SeenFits(b)'
<1>1. \A e \in sent : BookingHandles(e) => e \in InventoryEvents \cup PaymentEvents
  BY TopicsTell
  DEF SagaInv, BusFits, BookingHandles, OnInventoryHeld, OnInventoryRejected, OnInventoryReleased,
      OnPaymentSucceeded, OnPaymentFailed, OnPaymentRefunded
<1>2. BookingInv /\ BookingInv' /\ MovesOn
  BY <1>1, RequestKeepsInv, HandlerKeepsInv, OperationMovesOn DEF SagaInv, BookingOperation
<1>3. /\ status[b] \in TERMINAL => status'[b] \in TERMINAL
      /\ status[b] \notin {"none", "PENDING"} => status'[b] \notin {"none", "PENDING"}
      /\ status[b] \notin {"none", "PENDING", "AWAITING_PAYMENT"} =>
            status'[b] \notin {"none", "PENDING", "AWAITING_PAYMENT"}
      /\ paymentReceived[b] => paymentReceived'[b]
  <2>1. BookingEffect(b)
    BY RequestEffect, HandlerEffect
  <2> QED
    BY <1>2, <2>1, StopsWaitingForGood DEF BookingInv, BookingEffect
<1>4. CASE \E c \in Bookings : CreateBooking(c) \/ CancelBooking(c)
  <2>1. bookingSeen' = bookingSeen
    BY <1>4 DEF CreateBooking, CancelBooking
  <2> QED
    BY <1>3, <2>1 DEF SeenFits
<1>5. ASSUME NEW e \in sent, BookingHandles(e)
      PROVE  SeenFits(b)'
  <2>1. bookingSeen' = bookingSeen \cup {e}
    BY <1>5
    DEF BookingHandles, OnInventoryHeld, OnInventoryRejected, OnInventoryReleased,
        OnPaymentSucceeded, OnPaymentFailed, OnPaymentRefunded, Load
  <2> QED
    BY <1>3, <1>5, <2>1, HandlerActs DEF SeenFits
<1> QED
  BY <1>4, <1>5

\* The invariant holds at the start, when nothing has been consumed or charged.
LEMMA SettledInitInv == Init => SettledInv
BY SagaInitInv DEF Init, BookingInit, PaymentInit, SettledInv, SeenFits, ChargesFit

\* No step of any service breaks it: SeenFits moves with the booking service, ChargesFit
\* with the payment service.
LEMMA SettledStepInv == SettledInv /\ [Next]_vars => SettledInv'
<1> SUFFICES ASSUME SettledInv, [Next]_vars
             PROVE  SettledInv'
  OBVIOUS
<1>1. SagaInv'
  BY SagaStepInv DEF SettledInv
<1>2. ASSUME NEW b \in Bookings
      PROVE  SeenFits(b)'
  <2>1. SagaInv /\ SeenFits(b)
    BY DEF SettledInv
  <2>2. CASE UNCHANGED bookingVars
    BY <2>1, <2>2 DEF bookingVars, SeenFits
  <2>3. CASE \/ \E c \in Bookings : CreateBooking(c) \/ CancelBooking(c)
             \/ \E e \in sent : BookingHandles(e)
    BY <2>1, <2>3, BookingMoveKeepsSeen
  <2> QED
    BY <2>2, <2>3
    DEF Next, vars, GuestActs, BookingConsumes, BookingRelays, PublishStaged, InventoryConsumes,
        InventoryActs, PaymentConsumes, PaymentActs
<1>3. ChargesFit'
  <2>1. PaymentInv /\ ChargesFit
    BY DEF SettledInv, SagaInv
  <2>2. CASE UNCHANGED paymentVars
    BY <2>1, <2>2
    DEF paymentVars, ChargesFit, Settled, RefusedFor, KeyStored, BookingPaid, PaymentsOneSuccess, Row
  <2>3. CASE \/ \E p \in Payments : LookUp(p) \/ PayStep(p)
             \/ \E e : PaymentHandles(e)
             \/ \E e \in paymentUnsent : PaymentPublish(e) \/ PaymentLose(e)
    BY <2>1, <2>3, StepKeepsCharges
  <2> QED
    BY <2>2, <2>3
    DEF Next, vars, GuestActs, BookingConsumes, BookingRelays, InventoryConsumes, InventoryActs,
        PaymentConsumes, PaymentActs, PaymentStep
<1> QED
  BY <1>1, <1>2, <1>3 DEF SettledInv

\* Whatever a booking has consumed it has acted on; and a charge has its row, or is
\* about to have it, or is of a call that was refused for another row or has died,
\* and then no service knows of it: for any bookings, calls of pay() and faults.
THEOREM SettledInvariant == Spec => []SettledInv
<1>1. Init => SettledInv
  BY SettledInitInv
<1>2. SettledInv /\ [Next]_vars => SettledInv'
  BY SettledStepInv
<1> QED
  BY <1>1, <1>2, PTL DEF Spec

\* An answer or an outcome that was given and has not been handled, is coming or was
\* lost.
LEMMA UnseenIsComing ==
    ASSUME NEW e, Answered(e) \/ Told(e), e \notin bookingSeen
    PROVE  Coming(e) \/ Lost(e)
BY DEF Answered, Told, Coming, Lost

\* A refund that was asked for is still to be handled or has been made.
LEMMA RefundIsHandledOrMade ==
    ASSUME SagaInv, NEW b \in Bookings, RefundStaged(b)
    PROVE  RefundUnhandled(b) \/ Returned(b)
<1>1. PICK e \in outbox : e.topic = "booking.cancelled" /\ e.booking = b /\ e.refund
  BY DEF RefundStaged
<1>2. CASE e \in paymentSeen
  BY <1>1, <1>2 DEF SagaInv, RefundIsNotMissed, Returned
<1>3. CASE e \notin paymentSeen
  BY <1>1, <1>3 DEF RefundUnhandled
<1> QED
  BY <1>2, <1>3

\* With the invariant, what a booking waits for is still to come, or was lost: its
\* status tells that it has not been consumed, the other services' invariants that
\* it was given to be published.
LEMMA SettledInvNobodyWaits == SettledInv => NobodyWaitsInVain
<1> SUFFICES ASSUME SettledInv, NEW b \in Bookings
             PROVE  /\ status[b] = "PENDING" =>
                          \/ BookingRequested(b) \in outbox \ inventorySeen
                          \/ \E e \in {InventoryHeld(b), InventoryRejected(b)} : Coming(e) \/ Lost(e)
                    /\ status[b] = "AWAITING_PAYMENT" =>
                          \/ hold[b] = "HELD"
                          \/ \E e \in {InventoryReleased(b, "expired")} : Coming(e) \/ Lost(e)
                    /\ status[b] = "CANCELLING" =>
                          \/ RefundUnhandled(b)
                          \/ \E e \in {PaymentRefunded(b, p) : p \in Payments} : Coming(e) \/ Lost(e)
  BY DEF NobodyWaitsInVain
<1>1. SagaInv /\ SeenFits(b) /\ Coherent(b) /\ Agrees(b) /\ RoomFits(b)
  BY DEF SettledInv, SagaInv, BookingInv, InventoryInv
<1>2. ASSUME status[b] = "PENDING", RequestSeen(b)
      PROVE  \E e \in {InventoryHeld(b), InventoryRejected(b)} : Coming(e) \/ Lost(e)
  <2>1. InventoryHeld(b) \notin bookingSeen /\ InventoryRejected(b) \notin bookingSeen
    BY <1>1, <1>2 DEF SeenFits, TERMINAL
  <2>2. Answered(InventoryHeld(b)) \/ Answered(InventoryRejected(b))
    BY <1>1, <1>2 DEF Agrees
  <2> QED
    BY <2>1, <2>2, UnseenIsComing
<1>3. ASSUME status[b] = "PENDING"
      PROVE  BookingRequested(b) \in outbox
  BY <1>1, <1>3 DEF Coherent, Known, Requested
<1>4. ASSUME status[b] = "AWAITING_PAYMENT"
      PROVE  \/ hold[b] = "HELD"
             \/ \E e \in {InventoryReleased(b, "expired")} : Coming(e) \/ Lost(e)
  <2>1. ~CancelStaged(b) /\ ~Confirmed(b)
    BY <1>1, <1>4 DEF Coherent, RefundStaged, CancelStaged
  <2>2. hold[b] \in {"HELD", "EXPIRED"}
    <3>1. hold[b] \in HoldStatus \cup {"none"}
      BY <1>1 DEF SagaInv, InventoryInv, InventoryTypeOK
    <3> QED
      BY <1>1, <1>4, <2>1, <3>1 DEF RoomFits, HoldStatus
  <2>3. InventoryReleased(b, "expired") \notin bookingSeen
    BY <1>1, <1>4 DEF SeenFits
  <2>4. hold[b] = "EXPIRED" => Answered(InventoryReleased(b, "expired"))
    BY <1>1, <1>4 DEF Agrees
  <2> QED
    BY <2>2, <2>3, <2>4, UnseenIsComing
<1>5. ASSUME status[b] = "CANCELLING", ~RefundUnhandled(b)
      PROVE  \E e \in {PaymentRefunded(b, p) : p \in Payments} : Coming(e) \/ Lost(e)
  <2>1. RefundStaged(b)
    BY <1>1, <1>5 DEF Coherent
  <2>2. PICK p \in Payments : PaysFor[p] = b /\ payment[p] = "REFUNDED"
    BY <1>1, <1>5, <2>1, RefundIsHandledOrMade DEF Returned
  <2>3. Told(PaymentRefunded(b, p))
    BY <1>1, <1>5, <2>2 DEF SagaInv, PaymentInv, EventsFit
  <2>4. PaymentRefunded(b, p) \notin bookingSeen
    BY <1>1, <1>5 DEF SeenFits, TERMINAL
  <2> QED
    BY <2>3, <2>4, UnseenIsComing
<1> QED
  BY <1>2, <1>3, <1>4, <1>5 DEF RequestSeen

\* With the invariant, money in the books that the booking service has heard of and
\* nobody returns is of a booking that can use it, or at one of the two ends.
LEMMA SettledInvTracksMoney == SettledInv => MoneyIsTracked
<1> SUFFICES ASSUME SettledInv, NEW p \in charged,
                    call[p] # "approved", ~Unrecorded(p), payment[p] # "REFUNDED"
             PROVE  LET b == PaysFor[p] IN
                    /\ payment[p] = "SUCCEEDED"
                    /\ \/ Coming(PaymentSucceeded(b, p))
                       \/ Lost(PaymentSucceeded(b, p))
                       \/ status[b] \in {"PENDING", "CONFIRMED"} /\ paymentReceived[b]
                       \/ RefundUnhandled(b)
                       \/ EndKeepsMoney(b)
  BY DEF MoneyIsTracked
<1> DEFINE b == PaysFor[p]
<1>1. p \in Payments /\ b \in Bookings
  BY PaysForAssumption DEF SettledInv, SagaInv, PaymentInv, PaymentTypeOK
<1>2. SagaInv /\ SeenFits(b) /\ Coherent(b) /\ status[b] \in BookingStatus \cup {"none"}
  BY <1>1 DEF SettledInv, SagaInv, BookingInv, BookingTypeOK
<1>3. payment[p] = "SUCCEEDED"
  <2>1. Row(p) => call[p] = "returned"
    BY <1>1, <1>2 DEF SagaInv, PaymentInv, RowsFit
  <2> QED
    BY <2>1 DEF SettledInv, ChargesFit, RefusedFor, Unrecorded, Settled
<1>4. Told(PaymentSucceeded(b, p))
  BY <1>1, <1>2, <1>3 DEF SagaInv, PaymentInv, EventsFit, Settled
<1>5. CASE PaymentSucceeded(b, p) \notin bookingSeen
  BY <1>3, <1>4, <1>5, UnseenIsComing
<1>6. CASE PaymentSucceeded(b, p) \in bookingSeen
  <2>1. paymentReceived[b]
    BY <1>1, <1>2, <1>6 DEF SeenFits
  <2>2. ~Returned(b)
    <3>1. ASSUME NEW q \in Payments, PaysFor[q] = b, payment[q] = "REFUNDED"
          PROVE  FALSE
      <4>1. q # p /\ RowsDiffer(p, q)
        BY <1>1, <1>2, <1>3, <3>1 DEF SagaInv, PaymentInv
      <4> QED
        BY <1>3, <3>1, <4>1 DEF RowsDiffer, Row, Settled
    <3> QED
      BY <3>1 DEF Returned
  <2>3. RefundStaged(b) => RefundUnhandled(b)
    BY <1>1, <1>2, <2>2, RefundIsHandledOrMade
  <2>4. ~RefundStaged(b) /\ status[b] \notin {"PENDING", "CONFIRMED"} => EndKeepsMoney(b)
    BY <1>2, <2>1 DEF Coherent, BookingStatus, FailureStaged, EndKeepsMoney
  <2> QED
    BY <1>3, <2>1, <2>3, <2>4
<1> QED
  BY <1>5, <1>6

\* No booking waits for an event that is not coming, unless that event was lost: it
\* has not been consumed while the booking's status did not let it act on it.  This
\* is what the liveness of the saga rests on, for any number of bookings and calls
\* of pay(), any faults and any order of events.
THEOREM NobodyIsLeftWaiting == Spec => []NobodyWaitsInVain
BY SettledInvariant, SettledInvNobodyWaits, PTL

\* Every charge is of a call that is being stored, or has a row, or has no record
\* anywhere: of a call that was refused for another row, or has died.  Money in the
\* books is refunded, or the news of it is coming or was lost, or the booking can
\* use it, or its refund is on its way, or it is kept at one of the two ends the
\* code leaves open.  No other money is lost sight of.
THEOREM MoneyIsNeverLost == Spec => []MoneyIsTracked
BY SettledInvariant, SettledInvTracksMoney, PTL

(***************************************************************************)
(* What is proved of a service alone, in any environment, holds of it in   *)
(* the saga too: what the bus brings a service is some event of the others.*)
(***************************************************************************)

\* The booking service does in the saga what it does alone.
LEMMA SagaRunsBookingService ==
    ASSUME SagaInv, [Next]_vars
    PROVE  BookingOperation \/ UNCHANGED bookingVars
<1>1. \A e \in sent : BookingHandles(e) => e \in InventoryEvents \cup PaymentEvents
  BY TopicsTell
  DEF SagaInv, BusFits, BookingHandles, OnInventoryHeld, OnInventoryRejected, OnInventoryReleased,
      OnPaymentSucceeded, OnPaymentFailed, OnPaymentRefunded
<1>2. CASE \/ \E b \in Bookings : CreateBooking(b) \/ CancelBooking(b)
           \/ \E e \in sent : BookingHandles(e)
  BY <1>1, <1>2 DEF BookingOperation
<1>3. CASE UNCHANGED bookingVars
  BY <1>3
<1> QED
  BY <1>2, <1>3
  DEF Next, vars, GuestActs, BookingConsumes, BookingRelays, PublishStaged, InventoryConsumes,
      InventoryActs, PaymentConsumes, PaymentActs

\* Beside the others, too, the booking service implements BookingLifecycle, and no
\* booking goes back.
THEOREM SagaKeepsLifecycle == Spec => ImplementsLifecycle /\ StatusOnlyMovesOn
<1>1. Init => Lifecycle!Init
  BY DEF Init, BookingInit, Lifecycle!Init, stages, StageOf, refundsOwed, RefundStaged
<1>2. SagaInv /\ [Next]_vars => [Lifecycle!Next]_(Lifecycle!vars) /\ [MovesOn]_bookingVars
  <2> SUFFICES ASSUME SagaInv, [Next]_vars
               PROVE  [Lifecycle!Next]_(Lifecycle!vars) /\ [MovesOn]_bookingVars
    OBVIOUS
  <2>1. CASE BookingOperation
    BY <2>1, RequestMaps, HandlerMaps, OperationMovesOn DEF SagaInv, BookingOperation
  <2>2. CASE UNCHANGED bookingVars
    BY <2>2 DEF bookingVars, Lifecycle!vars, stages, refundsOwed, RefundStaged
  <2> QED
    BY <2>1, <2>2, SagaRunsBookingService
<1> QED
  BY <1>1, <1>2, SagaInvariant, PTL
  DEF Spec, ImplementsLifecycle, Lifecycle!Spec, StatusOnlyMovesOn

\* Beside the others, too, each service keeps its invariants: what the booking service
\* announces it announces once and its outbox agrees with its rows; no room is held
\* twice and the answers agree with the holds; and a booking is paid once, refunds
\* are made once, and the events agree with the payments.
THEOREM ServicesKeepTheirPromises ==
    Spec => [](/\ PaymentMatchesStatus /\ EventsMatchStatus /\ PaidEndIsRefunded /\ AnnouncedOnce
               /\ ActiveHoldsAreDisjoint /\ AnswersMatchHolds
               /\ OneSuccessPerBooking /\ RefundedOnce /\ PaymentEventsMatchRows)
<1>1. Init => ReasonsFit
  BY DEF Init, BookingInit, ReasonsFit, RejectionStaged, FailureStaged, LatePaymentStaged
<1>2. SagaInv /\ ReasonsFit /\ [Next]_vars => ReasonsFit'
  <2>1. SagaInv /\ ReasonsFit /\ BookingOperation => ReasonsFit'
    BY OperationKeepsReasons DEF SagaInv
  <2>2. ReasonsFit /\ UNCHANGED bookingVars => ReasonsFit'
    BY DEF bookingVars, ReasonsFit, RejectionStaged, FailureStaged, LatePaymentStaged
  <2> QED
    BY <2>1, <2>2, SagaRunsBookingService
<1>3. Spec => []ReasonsFit
  BY <1>1, <1>2, SagaInvariant, PTL DEF Spec
<1>4. SagaInv /\ ReasonsFit =>
         /\ PaymentMatchesStatus /\ EventsMatchStatus /\ PaidEndIsRefunded /\ AnnouncedOnce
         /\ ActiveHoldsAreDisjoint /\ AnswersMatchHolds
         /\ OneSuccessPerBooking /\ RefundedOnce /\ PaymentEventsMatchRows
  BY BookingInvImplies, ReasonsFitImplies, PaymentInvImplies
  DEF SagaInv, InventoryInv, LossesAreFaults, Agrees, RequestSeen, AnswersMatchHolds
<1> QED
  BY <1>3, <1>4, SagaInvariant, PTL

(***************************************************************************)
(* The booking service stages its events as Outbox has it: this is where   *)
(* the relays, which implement Outbox, take the place of PublishStaged.    *)
(***************************************************************************)

\* An operation stages one event, or none.
LEMMA OperationStagesOne ==
    ASSUME BookingTypeOK, BookingTypeOK', BookingOperation
    PROVE  UNCHANGED outbox \/ \E e \in BookingEvents : outbox' = outbox \cup {e}
<1>1. UNCHANGED outbox \/ \E e : outbox' = outbox \cup {e}
  <2>1. ASSUME NEW b \in Bookings, CreateBooking(b) \/ CancelBooking(b)
        PROVE  \E e : outbox' = outbox \cup {e}
    BY <2>1 DEF CreateBooking, CancelBooking, Stage
  <2>2. ASSUME NEW e \in InventoryEvents \cup PaymentEvents, BookingHandles(e)
        PROVE  UNCHANGED outbox \/ \E r : outbox' = outbox \cup {r}
    BY <2>2, HandlerKinds
    DEF HandlerIgnores, MovesQuietly, Confirms, AsksRefund, FailsPayment, RecordsPayment, Stage
  <2> QED
    BY <2>1, <2>2 DEF BookingOperation
<1> QED
  BY <1>1 DEF BookingTypeOK

\* What the saga does with the outbox and the events of the booking service on the bus
\* are the steps of Outbox: an event is published only once its transaction has
\* committed, and no transaction stages two.
THEOREM SagaUsesOutbox == Spec => UsesOutbox
<1>1. Init => StagedEvents!Init
  BY DEF Init, BookingInit, StagedEvents!Init
<1>2. SagaInv /\ [Next]_vars => [StagedEvents!Next]_(StagedEvents!vars)
  <2> SUFFICES ASSUME SagaInv, [Next]_vars
               PROVE  [StagedEvents!Next]_(StagedEvents!vars)
    OBVIOUS
  <2>1. BookingTypeOK /\ BookingTypeOK' /\ BusFits
    BY SagaStepInv DEF SagaInv, BookingInv
  <2>2. CASE BookingOperation /\ UNCHANGED sent
    <3>1. CASE UNCHANGED outbox
      BY <2>2, <3>1 DEF StagedEvents!vars
    <3>2. ASSUME NEW e \in BookingEvents, outbox' = outbox \cup {e}, e \notin outbox
          PROVE  StagedEvents!Next
      BY <2>2, <3>2 DEF StagedEvents!Next, StagedEvents!Stage
    <3> QED
      BY <2>1, <2>2, <3>1, <3>2, OperationStagesOne
  <2>3. CASE BookingRelays
    <3>1. PICK e \in outbox \ sent : sent' = sent \cup {e} /\ UNCHANGED outbox
      BY <2>3 DEF BookingRelays, PublishStaged, Publish, bookingVars
    <3>2. e \in BookingEvents
      BY <2>1, <3>1 DEF BookingTypeOK
    <3>3. StagedEvents!Publish(e)
      BY <3>1, <3>2 DEF StagedEvents!Publish
    <3> QED
      BY <3>2, <3>3 DEF StagedEvents!Next
  <2>4. CASE UNCHANGED bookingVars /\ (\A x \in BookingEvents : x \in sent' <=> x \in sent)
    BY <2>4 DEF bookingVars, StagedEvents!vars
  <2>5. \A x \in InventoryEvents \cup PaymentEvents : x \notin BookingEvents
    BY TopicsTell DEF Events
  <2>6. inventoryUnsent \subseteq InventoryEvents /\ paymentUnsent \subseteq PaymentEvents
    BY DEF SagaInv, InventoryInv, InventoryTypeOK, PaymentInv, PaymentTypeOK
  <2>7. InventoryActs \/ PaymentActs => \A x \in BookingEvents : x \in sent' <=> x \in sent
    BY <2>5, <2>6
    DEF InventoryActs, InventoryStep, InventoryPublish, InventoryLose, PaymentActs, PaymentStep,
        PaymentPublish, PaymentLose, Publish
  <2>8. \/ BookingOperation /\ UNCHANGED sent
        \/ BookingRelays
        \/ UNCHANGED bookingVars /\ (\A x \in BookingEvents : x \in sent' <=> x \in sent)
    BY <2>7, SagaRunsBookingService
    DEF Next, vars, GuestActs, BookingConsumes, InventoryConsumes, InventoryActs, PaymentConsumes,
        PaymentActs
  <2> QED
    BY <2>2, <2>3, <2>4, <2>8
<1> QED
  BY <1>1, <1>2, SagaInvariant, PTL DEF Spec, UsesOutbox, StagedEvents!SafeSpec

(***************************************************************************)
(* The services together implement StayContract.                           *)
(***************************************************************************)

\* What each status means to the guest.
LEMMA StayValues ==
    /\ StayOf("none") = "none"
    /\ \A s \in {"PENDING", "AWAITING_PAYMENT"} : StayOf(s) = "open"
    /\ StayOf("CONFIRMED") = "confirmed"
    /\ \A s \in {"CANCELLING", "CANCELLED", "REJECTED", "EXPIRED"} : StayOf(s) = "over"
BY DEF StayOf

\* The stay of one booking is that of its status.
LEMMA StayIs ==
    ASSUME NEW b \in Bookings
    PROVE  stays[b] = StayOf(status[b])
BY DEF stays

\* A transition moves the booking to the stay of its new status.
LEMMA MoveStay ==
    ASSUME BookingTypeOK, NEW b \in Bookings, NEW s, Transition(b, s)
    PROVE  stays' = [stays EXCEPT ![b] = StayOf(s)]
BY DEF Transition, BookingTypeOK, stays

\* A move between statuses that mean the same to the guest is no move.
LEMMA SameStay ==
    ASSUME BookingTypeOK, NEW b \in Bookings, NEW s, Transition(b, s), StayOf(s) = StayOf(status[b])
    PROVE  stays' = stays
BY DEF Transition, BookingTypeOK, stays

\* What the rows of a booking say of its money.
LEMMA MoneyIs ==
    ASSUME NEW b \in Bookings
    PROVE  /\ moneys[b] = MoneyOf(b)
           /\ Returned(b) => MoneyOf(b) = "returned"
           /\ ~Returned(b) /\ BookingPaid(b) => MoneyOf(b) = "taken"
           /\ ~BookingPaid(b) => MoneyOf(b) = "none"
BY DEF moneys, MoneyOf, Returned, BookingPaid, PaymentsOneSuccess

\* A step that touches no row of a booking leaves its money.
LEMMA SameMoney ==
    ASSUME NEW b \in Bookings, \A p \in Payments : PaysFor[p] = b => payment'[p] = payment[p]
    PROVE  MoneyOf(b)' = MoneyOf(b)
BY DEF MoneyOf

\* A booking whose cancellation is staged is over, so that money that is to
\* be returned, or has been, belongs to a booking that is over.
LEMMA RefundMeansOver ==
    ASSUME SagaInv, NEW b \in Bookings, RefundStaged(b)
    PROVE  stays[b] = "over" /\ status[b] \notin {"none", "PENDING", "AWAITING_PAYMENT", "CONFIRMED"}
<1>1. status[b] \in {"CANCELLING", "CANCELLED", "REJECTED", "EXPIRED"}
  BY DEF SagaInv, BookingInv, Coherent, RefundStaged, CancelStaged
<1> QED
  BY <1>1, StayIs, StayValues

\* A guest's request opens a booking or ends it.
LEMMA RequestKeepsContract ==
    ASSUME SagaInv, NEW b \in Bookings, CreateBooking(b) \/ CancelBooking(b), UNCHANGED moneys
    PROVE  Contract!Next
<1>1. BookingTypeOK
  BY DEF SagaInv, BookingInv
<1>2. CASE CreateBooking(b)
  <2>1. stays' = [stays EXCEPT ![b] = "open"] /\ stays[b] = "none"
    BY <1>1, <1>2, MoveStay, StayIs, StayValues DEF CreateBooking, Known
  <2>2. Contract!Open(b)
    BY <2>1 DEF Contract!Open
  <2> QED
    BY <2>2 DEF Contract!Next
<1>3. CASE CancelBooking(b)
  <2>1. stays' = [stays EXCEPT ![b] = "over"] /\ stays[b] \in {"open", "confirmed"}
    <3>1. CancelledAs(b) \in {"CANCELLING", "CANCELLED"} /\ Transition(b, CancelledAs(b))
      BY <1>3 DEF CancelBooking, CancelledAs
    <3>2. StayOf(CancelledAs(b)) = "over"
      BY <3>1, StayValues
    <3>3. stays[b] \in {"open", "confirmed"}
      BY <1>3, StayIs, StayValues DEF CancelBooking, Cancellable
    <3> QED
      BY <1>1, <3>1, <3>2, <3>3, MoveStay
  <2>2. Contract!Over(b)
    BY <2>1 DEF Contract!Over
  <2> QED
    BY <2>2 DEF Contract!Next
<1> QED
  BY <1>2, <1>3

\* A handler confirms a booking, ends it, or changes nothing the guest sees.
\* It confirms only one whose money has been taken and not returned.
LEMMA HandlerKeepsContract ==
    ASSUME SagaInv, NEW e \in sent, BookingHandles(e), UNCHANGED moneys
    PROVE  [Contract!Next]_(Contract!vars)
<1> DEFINE b == e.booking
<1>1. e \in InventoryEvents \cup PaymentEvents
  BY TopicsTell
  DEF SagaInv, BusFits, BookingHandles, OnInventoryHeld, OnInventoryRejected, OnInventoryReleased,
      OnPaymentSucceeded, OnPaymentFailed, OnPaymentRefunded
<1>2. BookingTypeOK /\ b \in Bookings /\ BookingEffect(b) /\ MoneyFits(b)
  BY <1>1, InboundFields, HandlerEffect DEF SagaInv, BookingInv
<1>3. ASSUME UNCHANGED stays
      PROVE  [Contract!Next]_(Contract!vars)
  BY <1>3 DEF Contract!vars
<1>4. ASSUME NEW s \in TERMINAL, Transition(b, s), Known(b)
      PROVE  [Contract!Next]_(Contract!vars)
  <2>1. StayOf(s) = "over"
    BY <1>4, StayValues DEF TERMINAL
  <2>2. CASE status[b] \in {"PENDING", "AWAITING_PAYMENT", "CONFIRMED"}
    <3>1. stays' = [stays EXCEPT ![b] = "over"] /\ stays[b] \in {"open", "confirmed"}
      BY <1>2, <1>4, <2>1, <2>2, MoveStay, StayIs, StayValues
    <3>2. Contract!Over(b)
      BY <3>1 DEF Contract!Over
    <3> QED
      BY <1>2, <3>2 DEF Contract!Next
  <2>3. CASE status[b] \in {"CANCELLING", "CANCELLED", "REJECTED", "EXPIRED"}
    <3>1. StayOf(s) = StayOf(status[b])
      BY <2>1, <2>3, StayValues
    <3> QED
      BY <1>2, <1>3, <1>4, <3>1, SameStay
  <2> QED
    BY <1>2, <1>4, <2>2, <2>3 DEF Known, BookingTypeOK, BookingStatus
<1>5. CASE Confirms(b)
  <2>1. status[b] \in {"PENDING", "AWAITING_PAYMENT"} /\ Transition(b, "CONFIRMED")
    BY <1>5 DEF Confirms
  <2>2. stays' = [stays EXCEPT ![b] = "confirmed"] /\ stays[b] = "open"
    BY <1>2, <2>1, MoveStay, StayIs, StayValues
  <2>3. BookingPaid(b)
    BY <1>2, <1>5 DEF Confirms, BookingEffect, MoneyFits, BookingTypeOK
  <2>4. ~Returned(b)
    BY <1>2, <2>1, RefundMeansOver DEF MoneyFits
  <2>5. Contract!Confirm(b)
    BY <1>2, <2>2, <2>3, <2>4, MoneyIs DEF Contract!Confirm
  <2> QED
    BY <1>2, <2>5 DEF Contract!Next
<1>6. CASE MovesQuietly(b)
  <2>1. CASE status[b] = "PENDING" /\ Transition(b, "AWAITING_PAYMENT")
    <3>1. StayOf("AWAITING_PAYMENT") = StayOf(status[b])
      BY <2>1, StayValues
    <3> QED
      BY <1>2, <1>3, <2>1, <3>1, SameStay
  <2>2. CASE \E s \in TERMINAL : Transition(b, s) /\ Known(b)
    BY <1>4, <2>2
  <2> QED
    BY <1>6, <2>1, <2>2 DEF MovesQuietly, Expirable, Rejectable, Known, TERMINAL
<1>7. CASE AsksRefund(b) \/ FailsPayment(b)
  <2>1. UNCHANGED status \/ \E s \in TERMINAL : Transition(b, s) /\ Known(b)
    BY <1>7 DEF AsksRefund, FailsPayment, PaymentFailureEnds, Rejectable, TERMINAL
  <2> QED
    BY <1>3, <1>4, <2>1 DEF stays
<1>8. CASE HandlerIgnores \/ RecordsPayment(b)
  BY <1>3, <1>8 DEF HandlerIgnores, RecordsPayment, stays
<1> QED
  BY <1>1, <1>2, <1>5, <1>6, <1>7, <1>8, HandlerKinds

\* A step of the payment service takes the money of a booking that exists,
\* returns that of one that is over, or changes nothing the guest sees.
LEMMA RowsMoveKeepsContract ==
    ASSUME SagaInv, RowsMove, UNCHANGED stays
    PROVE  [Contract!Next]_(Contract!vars)
<1>1. PaymentTypeOK /\ BookingTypeOK
  BY DEF SagaInv, PaymentInv, BookingInv
<1>2. CASE UNCHANGED payment
  BY <1>2 DEF moneys, MoneyOf, Contract!vars
<1>3. ASSUME NEW p \in Payments, NEW s, payment' = [payment EXCEPT ![p] = s]
      PROVE  moneys' = [moneys EXCEPT ![PaysFor[p]] = MoneyOf(PaysFor[p])']
  <2>1. \A b \in Bookings \ {PaysFor[p]} : MoneyOf(b)' = MoneyOf(b)
    BY <1>1, <1>3, SameMoney DEF PaymentTypeOK
  <2> QED
    BY <2>1, PaysForAssumption DEF moneys
<1>4. ASSUME NEW p \in Payments, TakesMoney(p)
      PROVE  Contract!Next
  <2> DEFINE b == PaysFor[p]
  <2>1. b \in Bookings /\ ~BookingPaid(b) /\ payment' = [payment EXCEPT ![p] = "SUCCEEDED"]
    BY <1>4, PaysForAssumption DEF TakesMoney
  <2>2. stays[b] # "none"
    <3>1. status[b] \in BookingStatus
      BY <1>1, <1>4, <2>1 DEF TakesMoney, SagaInv, Known, BookingTypeOK
    <3> QED
      BY <2>1, <3>1, StayIs, StayValues DEF BookingStatus
  <2>3. moneys[b] = "none"
    BY <2>1, MoneyIs
  <2>4. MoneyOf(b)' = "taken"
    <3>1. payment'[p] = "SUCCEEDED"
      BY <1>1, <2>1 DEF PaymentTypeOK
    <3>2. \A q \in Payments : PaysFor[q] = b => payment'[q] # "REFUNDED"
      BY <1>1, <2>1 DEF PaymentTypeOK, BookingPaid, PaymentsOneSuccess
    <3> QED
      BY <3>1, <3>2 DEF MoneyOf
  <2>5. moneys' = [moneys EXCEPT ![b] = "taken"]
    BY <1>3, <2>1, <2>4
  <2>6. Contract!Take(b)
    BY <2>2, <2>3, <2>5 DEF Contract!Take
  <2> QED
    BY <2>1, <2>6 DEF Contract!Next
<1>5. ASSUME NEW p \in Payments, NotesFailure(p)
      PROVE  UNCHANGED moneys
  <2>1. \A q \in Payments, s \in {"SUCCEEDED", "REFUNDED"} : payment'[q] = s <=> payment[q] = s
    BY <1>1, <1>5 DEF NotesFailure, PaymentTypeOK
  <2>2. \A b \in Bookings : MoneyOf(b)' = MoneyOf(b)
    BY <2>1 DEF MoneyOf
  <2> QED
    BY <2>2 DEF moneys
<1>6. ASSUME NEW p \in Payments, GivesBack(p)
      PROVE  Contract!Next
  <2> DEFINE b == PaysFor[p]
  <2>1. b \in Bookings /\ payment' = [payment EXCEPT ![p] = "REFUNDED"]
    BY <1>6, PaysForAssumption DEF GivesBack
  <2>2. stays[b] = "over"
    BY <1>6, <2>1, RefundMeansOver DEF GivesBack
  <2>3. BookingPaid(b) /\ ~Returned(b)
    BY <1>6 DEF GivesBack, BookingPaid, PaymentsOneSuccess, Returned, SagaInv, PaymentInv, RowsDiffer,
                Row, Settled
  <2>4. moneys[b] = "taken"
    BY <2>1, <2>3, MoneyIs
  <2>5. MoneyOf(b)' = "returned"
    <3>1. payment'[p] = "REFUNDED"
      BY <1>1, <2>1 DEF PaymentTypeOK
    <3> QED
      BY <3>1 DEF MoneyOf
  <2>6. moneys' = [moneys EXCEPT ![b] = "returned"]
    BY <1>3, <2>1, <2>5
  <2>7. Contract!Return(b)
    BY <2>2, <2>4, <2>6 DEF Contract!Return
  <2> QED
    BY <2>1, <2>7 DEF Contract!Next
<1> QED
  BY <1>2, <1>4, <1>5, <1>6 DEF RowsMove, Contract!vars

\* Every step of the services is one of the contract, or none.
LEMMA SagaStepKeepsContract ==
    SagaInv /\ [Next]_vars => [Contract!Next]_(Contract!vars)
<1> SUFFICES ASSUME SagaInv, [Next]_vars
             PROVE  [Contract!Next]_(Contract!vars)
  OBVIOUS
<1>1. UNCHANGED bookingVars => UNCHANGED stays
  BY DEF bookingVars, stays
<1>2. UNCHANGED paymentVars => UNCHANGED moneys
  BY DEF paymentVars, moneys, MoneyOf
<1>3. CASE /\ \/ \E b \in Bookings : CreateBooking(b) \/ CancelBooking(b)
              \/ \E e \in sent : BookingHandles(e)
           /\ UNCHANGED paymentVars
  BY <1>2, <1>3, RequestKeepsContract, HandlerKeepsContract
<1>4. CASE UNCHANGED <<bookingVars, paymentVars>>
  BY <1>1, <1>2, <1>4 DEF Contract!vars
<1>5. CASE PaymentMove /\ UNCHANGED bookingVars
  BY <1>1, <1>5, PaymentRows, RowsMoveKeepsContract
<1> QED
  BY <1>3, <1>4, <1>5
  DEF Next, vars, GuestActs, BookingConsumes, BookingRelays, PublishStaged, InventoryConsumes,
      InventoryActs, PaymentConsumes, PaymentActs, PaymentMove

\* A booking is confirmed only on money taken, money is returned only once the
\* booking is over, each at most once, and what is over stays over: for any
\* bookings and calls of pay(), in any order of events and with any faults.
THEOREM SagaKeepsContract == Spec => ImplementsContract
<1>1. Init => Contract!Init
  BY DEF Init, BookingInit, PaymentInit, Contract!Init, stays, StayOf, moneys, MoneyOf
<1>2. SagaInv /\ [Next]_vars => [Contract!Next]_(Contract!vars)
  BY SagaStepKeepsContract
<1> QED
  BY <1>1, <1>2, SagaInvariant, PTL DEF Spec, ImplementsContract, Contract!Spec

(***************************************************************************)
(* What a guest is told.  The invariant of the saga; that notices are of   *)
(* events sent; and that a confirmation, which may be taken back while the *)
(* event travels, is taken back only by a cancellation that refunds and    *)
(* gives its reason.                                                       *)
(***************************************************************************)
ConfirmationStands(b) == Confirmed(b) => status[b] = "CONFIRMED" \/ TakenBack(b)

NoticeInv ==
    /\ SagaInv
    /\ notices \subseteq sent
    /\ \A b \in Bookings : ConfirmationStands(b)

\* A confirmed booking is left by its guest's cancellation or by a late rejection,
\* and as it has been paid, either asks for the refund.
LEMMA LeavingConfirmed ==
    ASSUME SagaInv, BookingOperation, NEW b \in Bookings, status[b] = "CONFIRMED", status'[b] # "CONFIRMED"
    PROVE  TakenBack(b)'
<1>1. BookingTypeOK /\ paymentReceived[b]
  BY DEF SagaInv, BookingInv, Coherent
<1>2. ASSUME NEW reason \in {"guest_request", "rejected_after_payment"},
             BookingCancelled(b, NoPayment, reason, TRUE) \in outbox'
      PROVE  TakenBack(b)'
  <2> DEFINE e == BookingCancelled(b, NoPayment, reason, TRUE)
  <2>1. e.topic = "booking.cancelled" /\ e.booking = b /\ e.reason = reason /\ e.refund
    BY DEF BookingCancelled, Event
  <2> HIDE DEF e
  <2>2. e \in outbox'
    BY <1>2 DEF e
  <2> QED
    BY <1>2, <2>1, <2>2 DEF TakenBack
<1>3. ASSUME NEW c \in Bookings, CreateBooking(c) \/ CancelBooking(c)
      PROVE  TakenBack(b)'
  <2>1. c = b /\ CancelBooking(b)
    BY <1>1, <1>3 DEF CreateBooking, CancelBooking, Transition, Known, BookingTypeOK
  <2>2. BookingCancelled(b, NoPayment, "guest_request", TRUE) \in outbox'
    BY <1>1, <2>1 DEF CancelBooking, RefundDue, Stage, BookingTypeOK
  <2> QED
    BY <1>2, <2>2
<1>4. ASSUME NEW e \in InventoryEvents \cup PaymentEvents, BookingHandles(e)
      PROVE  TakenBack(b)'
  <2>1. OnInventoryRejected(e) /\ e.booking = b /\ Rejectable(b)
    BY <1>1, <1>4
    DEF BookingHandles, OnInventoryHeld, AwaitsHold, OnInventoryRejected, OnInventoryReleased,
        Expirable, OnPaymentSucceeded, OnPaymentFailed, PaymentFailureEnds, OnPaymentRefunded,
        HandlerIgnores, Transition, TERMINAL, BookingTypeOK
  <2>2. BookingCancelled(b, NoPayment, "rejected_after_payment", TRUE) \in outbox'
    BY <1>1, <2>1 DEF OnInventoryRejected, RefundOnRejection, Stage
  <2> QED
    BY <1>2, <2>2
<1> QED
  BY <1>3, <1>4 DEF BookingOperation

\* So what a confirmation says stands, or is taken back as it should be.
LEMMA StepKeepsConfirmations ==
    ASSUME SagaInv, [Next]_vars, NEW b \in Bookings, ConfirmationStands(b)
    PROVE  ConfirmationStands(b)'
<1>1. CASE UNCHANGED bookingVars
  BY <1>1 DEF bookingVars, ConfirmationStands, Confirmed, TakenBack
<1>2. CASE BookingOperation
  <2>1. outbox \subseteq outbox'
    BY <1>2
    DEF BookingOperation, CreateBooking, CancelBooking, BookingHandles, OnInventoryHeld,
        OnInventoryRejected, OnInventoryReleased, OnPaymentSucceeded, OnPaymentFailed,
        OnPaymentRefunded, HandlerIgnores, Stage
  <2>2. TakenBack(b) => TakenBack(b)'
    BY <2>1 DEF TakenBack
  <2>3. Confirmed(b)' => Confirmed(b) \/ status'[b] = "CONFIRMED"
    <3>1. CASE \E e \in sent : BookingHandles(e)
      BY <3>1, HandlerEffect DEF BookingEffect
    <3>2. CASE \E c \in Bookings : CreateBooking(c) \/ CancelBooking(c)
      BY <3>2, RequestEffect DEF BookingEffect
    <3>3. CASE UNCHANGED bookingVars
      BY <3>3 DEF bookingVars, Confirmed
    <3> QED
      BY <3>1, <3>2, <3>3
      DEF Next, vars, GuestActs, BookingConsumes, BookingRelays, PublishStaged, InventoryConsumes,
          InventoryActs, PaymentConsumes, PaymentActs
  <2> QED
    BY <1>2, <2>2, <2>3, LeavingConfirmed DEF ConfirmationStands
<1> QED
  BY <1>1, <1>2, SagaRunsBookingService

LEMMA SentStays == SagaInv /\ Next => sent \subseteq sent'
BY DEF Next, GuestActs, BookingConsumes, BookingRelays, PublishStaged, InventoryConsumes,
       InventoryActs, InventoryStep, InventoryPublish, InventoryLose, RejectRequest, Sweep,
       PaymentConsumes, PaymentActs, PaymentStep, PayStep, Charge, StorePayment, RefusePayment,
       PayCrash, PaymentPublish, PaymentLose, Publish

LEMMA NoticeStepInv == NoticeInv /\ [NoticeNext]_noticeVars => NoticeInv'
<1> SUFFICES ASSUME NoticeInv, [NoticeNext]_noticeVars PROVE NoticeInv'
  OBVIOUS
<1>1. [Next]_vars
  BY DEF NoticeNext, NotificationConsumes, noticeVars
<1>2. SagaInv' /\ \A b \in Bookings : ConfirmationStands(b)'
  BY <1>1, SagaStepInv, StepKeepsConfirmations DEF NoticeInv
<1>3. CASE Next /\ UNCHANGED notices
  BY <1>2, <1>3, SentStays DEF NoticeInv
<1>4. CASE NotificationConsumes
  BY <1>2, <1>4 DEF NoticeInv, NotificationConsumes, Notify, vars
<1>5. CASE UNCHANGED noticeVars
  BY <1>2, <1>5 DEF NoticeInv, noticeVars, vars
<1> QED
  BY <1>3, <1>4, <1>5 DEF NoticeNext

LEMMA NoticeInvImplies == NoticeInv => NoticesMatchBookings
<1> SUFFICES ASSUME NoticeInv, NEW e \in notices, NEW b \in Bookings, e.booking = b
             PROVE  /\ e.topic = "booking.confirmed" =>
                          /\ MoneyOf(b) # "none"
                          /\ status[b] = "CONFIRMED" \/ (Over(b) /\ TakenBack(b))
                    /\ e.topic = "booking.cancelled" => Over(b)
                    /\ e.topic = "payment.refunded" => Over(b) /\ MoneyOf(b) = "returned"
                    /\ e.topic = "payment.failed" =>
                          \E p \in Payments : PaysFor[p] = b /\ payment[p] = "FAILED"
  BY DEF NoticesMatchBookings, Noticed
<1>1. e \in sent /\ e \in Events /\ (e \in BookingEvents => e \in outbox)
  BY DEF NoticeInv, SagaInv, BusFits
<1>2. Coherent(b) /\ MoneyFits(b)
  BY DEF NoticeInv, SagaInv, BookingInv
<1>3. ASSUME e.topic = "booking.confirmed"
      PROVE  /\ MoneyOf(b) # "none"
             /\ status[b] = "CONFIRMED" \/ (Over(b) /\ TakenBack(b))
  <2>1. Confirmed(b)
    BY <1>1, <1>3, TopicsTell, BookingEventIs DEF Confirmed
  <2>2. paymentReceived[b]
    BY <1>2, <2>1 DEF Coherent, MoneyFits
  <2>3. MoneyOf(b) # "none"
    BY <1>2, <2>2, MoneyIs DEF MoneyFits
  <2>4. TakenBack(b) => Over(b)
    BY <1>2 DEF TakenBack, CancelStaged, Coherent, Over
  <2> QED
    BY <2>1, <2>3, <2>4 DEF NoticeInv, ConfirmationStands
<1>4. ASSUME e.topic = "booking.cancelled" PROVE Over(b)
  BY <1>1, <1>2, <1>4, TopicsTell DEF CancelStaged, Coherent, Over
<1>5. ASSUME e.topic \in {"payment.refunded", "payment.failed"}
      PROVE  e.payment \in Payments /\ PaysFor[e.payment] = b /\ EventsFit(e.payment)
             /\ e = IF e.topic = "payment.failed" THEN PaymentFailed(b, e.payment)
                    ELSE PaymentRefunded(b, e.payment)
  <2>1. e \in PaymentEvents
    BY <1>1, <1>5, TopicsTell
  <2>2. /\ e.payment \in Payments
        /\ e = IF e.topic = "payment.failed" THEN PaymentFailed(b, e.payment)
               ELSE PaymentRefunded(b, e.payment)
    BY <1>5, <2>1, PaymentEventIs
  <2>3. OutcomeTold(b, e.payment)
    BY <1>1, <2>2 DEF OutcomeTold, Told
  <2> QED
    BY <2>2, <2>3 DEF NoticeInv, SagaInv, BusFits, PaymentInv
<1>6. ASSUME e.topic = "payment.refunded" PROVE Over(b) /\ MoneyOf(b) = "returned"
  <2>1. payment[e.payment] = "REFUNDED"
    BY <1>1, <1>5, <1>6 DEF EventsFit, Told
  <2>2. Returned(b)
    BY <1>5, <1>6, <2>1 DEF Returned
  <2>3. CancelStaged(b)
    BY <1>2, <2>2 DEF MoneyFits, RefundStaged, CancelStaged
  <2> QED
    BY <1>2, <2>2, <2>3, MoneyIs DEF Coherent, Over
<1>7. ASSUME e.topic = "payment.failed"
      PROVE  \E p \in Payments : PaysFor[p] = b /\ payment[p] = "FAILED"
  BY <1>1, <1>5, <1>7 DEF EventsFit, Told
<1> QED
  BY <1>3, <1>4, <1>6, <1>7

\* What a guest has been told, compared with the booking and the money, however late
\* it came, for any bookings, calls of pay() and faults: a cancellation, a refund and
\* a declined attempt are so; a confirmation is so, or has been taken back by a
\* cancellation that is staged, tells why and asks for the refund.
THEOREM NoticesAgree == NoticeSpec => []NoticesMatchBookings
<1>1. NoticeInit => NoticeInv
  BY SagaInitInv DEF NoticeInit, NotificationInit, NoticeInv, ConfirmationStands, Confirmed, Init, BookingInit
<1>2. NoticeSpec => []NoticeInv
  BY <1>1, NoticeStepInv, PTL DEF NoticeSpec
<1> QED
  BY <1>2, NoticeInvImplies, PTL
=============================================================================
