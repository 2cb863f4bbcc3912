------------------------ MODULE PaymentServiceProofs ------------------------
(***************************************************************************)
(* What the payment service keeps, for any number of concurrent calls and  *)
(* any cancellations: one success per booking, one refund per charge but   *)
(* for failed commits, and events that agree with the rows.                *)
(***************************************************************************)
EXTENDS PaymentService, EventBusProofs, FiniteSetTheorems

(***************************************************************************)
(* Types.                                                                  *)
(***************************************************************************)

\* The service starts with values of the right types.
LEMMA PaymentInitType == PaymentInit => PaymentTypeOK
BY MaxPaymentFaultsAssumption DEF PaymentInit, PaymentTypeOK, CallSteps

\* No step of a call gives a variable a value out of its type.
LEMMA CallKeepsType ==
    ASSUME PaymentTypeOK, NEW p \in Payments, LookUp(p) \/ PayStep(p)
    PROVE  PaymentTypeOK'
<1>1. PaymentSucceeded(PaysFor[p], p) \in PaymentEvents /\ PaymentFailed(PaysFor[p], p) \in PaymentEvents
  BY PaysForAssumption DEF PaymentEvents
<1>2. CASE LookUp(p)
  BY <1>2 DEF LookUp, Proceed, PaymentTypeOK, CallSteps
<1>3. CASE Charge(p)
  BY <1>3 DEF Charge, Proceed, PaymentTypeOK, CallSteps
<1>4. CASE StorePayment(p)
  BY <1>1, <1>4 DEF StorePayment, Proceed, PaymentTypeOK, CallSteps, PaymentStatus
<1>5. CASE RefusePayment(p)
  BY <1>5 DEF RefusePayment, Proceed, PaymentTypeOK, CallSteps
<1>6. CASE PayCrash(p)
  BY <1>6, MaxPaymentFaultsAssumption DEF PayCrash, Proceed, PaymentTypeOK, CallSteps
<1> QED
  BY <1>2, <1>3, <1>4, <1>5, <1>6 DEF PayStep

\* Nor does handling a cancellation.
LEMMA PaymentHandlerKeepsType ==
    ASSUME PaymentTypeOK, NEW e \in BookingEvents, PaymentHandles(e)
    PROVE  PaymentTypeOK'
<1>1. CASE SkipRefund(e)
  BY <1>1 DEF SkipRefund, PaymentTypeOK
<1>2. ASSUME NEW p \in Payments, Refund(e, p)
      PROVE  PaymentTypeOK'
  <2>1. PaymentRefunded(e.booking, p) \in PaymentEvents
    BY BookingEventIs DEF PaymentEvents
  <2> QED
    BY <1>2, <2>1 DEF Refund, PaymentTypeOK, PaymentStatus
<1>3. ASSUME NEW p \in Payments, RefundAborted(e, p)
      PROVE  PaymentTypeOK'
  BY <1>3, MaxPaymentFaultsAssumption DEF RefundAborted, PaymentTypeOK
<1> QED
  BY <1>1, <1>2, <1>3 DEF PaymentHandles

\* Nor does publishing an event, or losing it.
LEMMA PublishKeepsType ==
    ASSUME PaymentTypeOK, NEW e \in paymentUnsent, PaymentPublish(e) \/ PaymentLose(e)
    PROVE  PaymentTypeOK'
BY MaxPaymentFaultsAssumption DEF PaymentPublish, PaymentLose, PaymentTypeOK

\* The status of a payment is always one of PaymentStatus, for any calls.
THEOREM PaymentTypeCorrect == PaymentSpec => []PaymentTypeOK
<1>1. PaymentStart => PaymentTypeOK
  BY PaymentInitType DEF PaymentStart
<1>2. PaymentTypeOK /\ [PaymentNext]_<<paymentVars, sent>> => PaymentTypeOK'
  <2>1. PaymentTypeOK /\ UNCHANGED paymentVars => PaymentTypeOK'
    BY DEF paymentVars, PaymentTypeOK
  <2> QED
    BY <2>1, CallKeepsType, PaymentHandlerKeepsType, PublishKeepsType DEF PaymentNext, PaymentStep
<1> QED
  BY <1>1, <1>2, PTL DEF PaymentSpec

(***************************************************************************)
(* The inductive invariant.  Of one call: a row is there only once the call*)
(* has returned, so that no call stores twice; a call that the PSP approved*)
(* has been charged; and the rows, the refunds and the events fit together.*)
(* Of two calls: what the unique indexes forbid.                           *)
(***************************************************************************)
Settled(p) == payment[p] \in {"SUCCEEDED", "REFUNDED"}

RowsFit(p) ==
    /\ Row(p) => call[p] = "returned"
    /\ call[p] = "approved" => p \in charged
    /\ Settled(p) => p \in charged

RefundsFit(p) ==
    /\ pspRefunds[p] <= paymentFaults + (IF payment[p] = "REFUNDED" THEN 1 ELSE 0)
    /\ payment[p] = "REFUNDED" => pspRefunds[p] > 0
    /\ pspRefunds[p] > 0 => p \in charged

EventsFit(p) ==
    /\ Told(PaymentSucceeded(PaysFor[p], p)) => Settled(p)
    /\ Told(PaymentFailed(PaysFor[p], p)) => payment[p] = "FAILED"
    /\ Told(PaymentRefunded(PaysFor[p], p)) => payment[p] = "REFUNDED"
    /\ Settled(p) => Told(PaymentSucceeded(PaysFor[p], p))
    /\ payment[p] = "FAILED" => Told(PaymentFailed(PaysFor[p], p))
    /\ payment[p] = "REFUNDED" => Told(PaymentRefunded(PaysFor[p], p))

LossesFit ==
    /\ IsFiniteSet(paymentLost)
    /\ Cardinality(paymentLost) <= paymentFaults

RowsDiffer(p, q) ==
    Row(p) /\ Row(q) =>
        /\ ~SameKey(p, q)
        /\ PaysFor[p] = PaysFor[q] => ~(Settled(p) /\ Settled(q))

PaymentInv ==
    /\ PaymentTypeOK
    /\ LossesFit
    /\ \A p \in Payments : RowsFit(p) /\ RefundsFit(p) /\ EventsFit(p)
    /\ \A p, q \in Payments : p # q => RowsDiffer(p, q)

\* The invariant is at least as strong as the properties.
LEMMA PaymentInvImplies ==
    PaymentInv => OneSuccessPerBooking /\ RefundedOnce /\ PaymentEventsMatchRows
<1> SUFFICES ASSUME PaymentInv
             PROVE  OneSuccessPerBooking /\ RefundedOnce /\ PaymentEventsMatchRows
  OBVIOUS
<1>1. OneSuccessPerBooking
  BY DEF PaymentInv, PaymentTypeOK, PaymentStatus, RowsFit, RowsDiffer, Settled, Row, OneSuccessPerBooking
<1>2. RefundedOnce
  BY DEF PaymentInv, RefundsFit, RefundedOnce
<1>3. PaymentEventsMatchRows
  BY DEF PaymentInv, LossesFit, EventsFit, Settled, PaymentEventsMatchRows
<1> QED
  BY <1>1, <1>2, <1>3

\* The events of the payment service are told apart by their fields.
LEMMA OutcomesDiffer ==
    ASSUME NEW b, NEW c, NEW p, NEW q
    PROVE  /\ PaymentSucceeded(b, p) = PaymentSucceeded(c, q) <=> b = c /\ p = q
           /\ PaymentFailed(b, p) = PaymentFailed(c, q) <=> b = c /\ p = q
           /\ PaymentRefunded(b, p) = PaymentRefunded(c, q) <=> b = c /\ p = q
           /\ PaymentSucceeded(b, p) # PaymentFailed(c, q)
           /\ PaymentSucceeded(b, p) # PaymentRefunded(c, q)
           /\ PaymentFailed(b, p) # PaymentRefunded(c, q)
BY InboundFieldsOf

\* Two calls share a key whichever is named first.
LEMMA KeysBothWays == \A p, q : SameKey(p, q) <=> SameKey(q, p)
BY DEF SameKey

\* Telling an event tells it and no other.
LEMMA Telling ==
    ASSUME NEW x, paymentUnsent' = paymentUnsent \cup {x}, UNCHANGED <<paymentLost, sent>>, NEW e
    PROVE  Told(e)' <=> Told(e) \/ e = x
BY DEF Told

\* Telling nothing leaves what has been told.
LEMMA NotTelling ==
    ASSUME UNCHANGED <<paymentUnsent, paymentLost, sent>>, NEW e
    PROVE  Told(e)' <=> Told(e)
BY DEF Told

\* A step that loses nothing keeps the losses within the faults.
LEMMA LosingNothing ==
    ASSUME PaymentTypeOK, LossesFit, UNCHANGED paymentLost,
           paymentFaults' \in {paymentFaults, paymentFaults + 1}
    PROVE  LossesFit'
<1>1. Cardinality(paymentLost) \in Nat
  BY FS_CardinalityType DEF LossesFit
<1> QED
  BY <1>1 DEF LossesFit, PaymentTypeOK

\* A step that loses an event is a fault.
LEMMA LosingOne ==
    ASSUME PaymentTypeOK, LossesFit, NEW e, paymentLost' = paymentLost \cup {e},
           paymentFaults' = paymentFaults + 1
    PROVE  LossesFit'
<1>1. /\ IsFiniteSet(paymentLost \cup {e})
      /\ Cardinality(paymentLost \cup {e}) \in {Cardinality(paymentLost), Cardinality(paymentLost) + 1}
  BY FS_AddElement DEF LossesFit
<1>2. Cardinality(paymentLost) \in Nat
  BY FS_CardinalityType DEF LossesFit
<1> QED
  BY <1>1, <1>2 DEF LossesFit, PaymentTypeOK

\* A step that touches no row keeps what is said of the rows and the events.
LEMMA RowsUntouched ==
    ASSUME PaymentInv, UNCHANGED payment, NEW q \in Payments,
           \A e : Told(e)' <=> Told(e)
    PROVE  EventsFit(q)' /\ \A r \in Payments : q # r => RowsDiffer(q, r)'
<1>1. EventsFit(q) /\ \A r \in Payments : q # r => RowsDiffer(q, r)
  BY DEF PaymentInv
<1>2. EventsFit(q)'
  BY <1>1 DEF EventsFit, Settled
<1>3. ASSUME NEW r \in Payments, q # r
      PROVE  RowsDiffer(q, r)'
  BY <1>1, <1>3 DEF RowsDiffer, Row, Settled
<1> QED
  BY <1>2, <1>3

\* A call that looks up its key, is charged, is refused or dies leaves the rows
\* as they are.
LEMMA CallKeepsInv ==
    ASSUME PaymentInv, UNCHANGED sent, NEW p \in Payments,
           LookUp(p) \/ Charge(p) \/ RefusePayment(p) \/ PayCrash(p)
    PROVE  PaymentInv'
<1>1. PaymentTypeOK /\ PaymentTypeOK'
  BY CallKeepsType DEF PaymentInv, PayStep
<1>2. /\ UNCHANGED <<payment, pspRefunds, paymentUnsent, paymentLost>>
      /\ charged \subseteq charged'
      /\ paymentFaults' \in {paymentFaults, paymentFaults + 1}
  BY DEF LookUp, Charge, RefusePayment, PayCrash
<1>3. ASSUME NEW q \in Payments
      PROVE  RowsFit(q)' /\ RefundsFit(q)' /\ EventsFit(q)' /\ \A r \in Payments : q # r => RowsDiffer(q, r)'
  <2>1. RowsFit(q) /\ RefundsFit(q)
    BY DEF PaymentInv
  <2>2. RowsFit(q)'
    <3>1. CASE q = p
      BY <1>1, <1>2, <2>1, <3>1
      DEF LookUp, Charge, RefusePayment, PayCrash, Proceed, RowsFit, Row, Settled, PaymentTypeOK
    <3>2. CASE q # p
      <4>1. call'[q] = call[q]
        BY <1>1, <3>2 DEF LookUp, Charge, RefusePayment, PayCrash, Proceed, PaymentTypeOK
      <4> QED
        BY <1>2, <2>1, <4>1 DEF RowsFit, Row, Settled
    <3> QED
      BY <3>1, <3>2
  <2>3. RefundsFit(q)'
    BY <1>1, <1>2, <2>1 DEF RefundsFit, PaymentTypeOK
  <2>4. \A e : Told(e)' <=> Told(e)
    BY <1>2, NotTelling
  <2> QED
    BY <1>2, <2>2, <2>3, <2>4, RowsUntouched
<1>4. LossesFit'
  BY <1>1, <1>2, LosingNothing DEF PaymentInv
<1> QED
  BY <1>1, <1>3, <1>4 DEF PaymentInv

\* The insert keeps the rows apart, as the unique indexes refuse it otherwise.
LEMMA StoreKeepsInv ==
    ASSUME PaymentInv, UNCHANGED sent, NEW p \in Payments, StorePayment(p)
    PROVE  PaymentInv'
<1> DEFINE b == PaysFor[p]
<1>1. PaymentTypeOK /\ PaymentTypeOK'
  BY CallKeepsType DEF PaymentInv, PayStep
<1>2. /\ UNCHANGED <<charged, pspRefunds, paymentFaults, paymentLost>>
      /\ call' = [call EXCEPT ![p] = "returned"]
      /\ ~KeyStored(p)
      /\ \/ /\ call[p] = "approved"
            /\ ~BookingPaid(b)
            /\ payment' = [payment EXCEPT ![p] = "SUCCEEDED"]
            /\ paymentUnsent' = paymentUnsent \cup {PaymentSucceeded(b, p)}
         \/ /\ call[p] = "declined"
            /\ payment' = [payment EXCEPT ![p] = "FAILED"]
            /\ paymentUnsent' = paymentUnsent \cup {PaymentFailed(b, p)}
  BY DEF StorePayment, Proceed, InsertRefused
<1>3. RowsFit(p) /\ RefundsFit(p) /\ EventsFit(p) /\ payment[p] = "none"
  BY <1>2 DEF PaymentInv, RowsFit, Row
<1>4. ASSUME NEW q \in Payments
      PROVE  RowsFit(q)' /\ RefundsFit(q)' /\ EventsFit(q)'
  <2>1. RowsFit(q) /\ RefundsFit(q) /\ EventsFit(q)
    BY DEF PaymentInv
  <2>2. CASE q # p
    <3>1. call'[q] = call[q] /\ payment'[q] = payment[q]
      BY <1>1, <1>2, <2>2 DEF PaymentTypeOK
    <3>2. /\ Told(PaymentSucceeded(PaysFor[q], q))' <=> Told(PaymentSucceeded(PaysFor[q], q))
          /\ Told(PaymentFailed(PaysFor[q], q))' <=> Told(PaymentFailed(PaysFor[q], q))
          /\ Told(PaymentRefunded(PaysFor[q], q))' <=> Told(PaymentRefunded(PaysFor[q], q))
      <4>1. PICK x \in {PaymentSucceeded(b, p), PaymentFailed(b, p)} :
              paymentUnsent' = paymentUnsent \cup {x}
        BY <1>2
      <4>2. /\ PaymentSucceeded(PaysFor[q], q) # x
            /\ PaymentFailed(PaysFor[q], q) # x
            /\ PaymentRefunded(PaysFor[q], q) # x
        BY <2>2, <4>1, OutcomesDiffer
      <4> QED
        BY <1>2, <4>1, <4>2 DEF Told
    <3> QED
      BY <1>2, <2>1, <3>1, <3>2 DEF RowsFit, RefundsFit, EventsFit, Row, Settled
  <2>3. CASE q = p /\ payment'[p] = "SUCCEEDED"
    <3>1. /\ Told(PaymentSucceeded(b, p))'
          /\ Told(PaymentFailed(b, p))' <=> Told(PaymentFailed(b, p))
          /\ Told(PaymentRefunded(b, p))' <=> Told(PaymentRefunded(b, p))
      BY <1>1, <1>2, <2>3, Telling, OutcomesDiffer DEF PaymentTypeOK
    <3>2. call'[p] = "returned" /\ p \in charged
      BY <1>1, <1>2, <1>3, <2>3 DEF RowsFit, PaymentTypeOK
    <3> QED
      BY <1>2, <1>3, <2>3, <3>1, <3>2 DEF RowsFit, RefundsFit, EventsFit, Row, Settled
  <2>4. CASE q = p /\ payment'[p] = "FAILED"
    <3>1. /\ Told(PaymentSucceeded(b, p))' <=> Told(PaymentSucceeded(b, p))
          /\ Told(PaymentFailed(b, p))'
          /\ Told(PaymentRefunded(b, p))' <=> Told(PaymentRefunded(b, p))
      BY <1>1, <1>2, <2>4, Telling, OutcomesDiffer DEF PaymentTypeOK
    <3>2. call'[p] = "returned"
      BY <1>1, <1>2 DEF PaymentTypeOK
    <3> QED
      BY <1>2, <1>3, <2>4, <3>1, <3>2 DEF RowsFit, RefundsFit, EventsFit, Row, Settled
  <2> QED
    BY <1>1, <1>2, <2>2, <2>3, <2>4 DEF PaymentTypeOK
<1>5. ASSUME NEW q \in Payments, q # p
      PROVE  RowsDiffer(p, q)' /\ RowsDiffer(q, p)'
  <2>1. payment'[q] = payment[q]
    BY <1>1, <1>2, <1>5 DEF PaymentTypeOK
  <2>2. Row(q) => ~SameKey(p, q)
    BY <1>2 DEF KeyStored
  <2>3. payment'[p] = "SUCCEEDED" /\ PaysFor[q] = b => ~Settled(q)
    BY <1>1, <1>2 DEF BookingPaid, PaymentsOneSuccess, Settled, PaymentTypeOK
  <2>4. payment'[p] \in {"SUCCEEDED", "FAILED"}
    BY <1>1, <1>2 DEF PaymentTypeOK
  <2> QED
    BY <2>1, <2>2, <2>3, <2>4, KeysBothWays DEF RowsDiffer, Row, Settled
<1>6. ASSUME NEW q \in Payments, NEW r \in Payments, q # r, q # p, r # p
      PROVE  RowsDiffer(q, r)'
  <2>1. payment'[q] = payment[q] /\ payment'[r] = payment[r] /\ RowsDiffer(q, r)
    BY <1>1, <1>2, <1>6 DEF PaymentInv, PaymentTypeOK
  <2> QED
    BY <2>1 DEF RowsDiffer, Row, Settled
<1>7. LossesFit'
  BY <1>1, <1>2, LosingNothing DEF PaymentInv
<1> QED
  BY <1>1, <1>4, <1>5, <1>6, <1>7 DEF PaymentInv

\* A refund, made or aborted, is of a payment that succeeded.
LEMMA PaymentHandlerKeepsInv ==
    ASSUME PaymentInv, UNCHANGED sent, NEW e \in BookingEvents, PaymentHandles(e)
    PROVE  PaymentInv'
<1>1. PaymentTypeOK /\ PaymentTypeOK'
  BY PaymentHandlerKeepsType DEF PaymentInv
<1>2. CASE SkipRefund(e)
  BY <1>1, <1>2
  DEF SkipRefund, PaymentInv, LossesFit, RowsFit, RefundsFit, EventsFit, RowsDiffer, Row, Settled, Told
<1>3. ASSUME NEW p \in Payments, RefundAborted(e, p)
      PROVE  PaymentInv'
  <2>1. /\ UNCHANGED <<call, payment, charged, paymentUnsent, paymentLost>>
        /\ pspRefunds' = [pspRefunds EXCEPT ![p] = @ + 1]
        /\ paymentFaults' = paymentFaults + 1
        /\ payment[p] = "SUCCEEDED"
    BY <1>3 DEF RefundAborted, Refundable
  <2>2. ASSUME NEW q \in Payments
        PROVE  /\ RowsFit(q)' /\ RefundsFit(q)' /\ EventsFit(q)'
               /\ \A r \in Payments : q # r => RowsDiffer(q, r)'
    <3>1. RowsFit(q) /\ RefundsFit(q)
      BY DEF PaymentInv
    <3>2. RowsFit(q)'
      BY <2>1, <3>1 DEF RowsFit, Row, Settled
    <3>3. RefundsFit(q)'
      BY <1>1, <2>1, <3>1 DEF RowsFit, RefundsFit, Settled, PaymentTypeOK
    <3>4. \A x : Told(x)' <=> Told(x)
      BY <2>1, NotTelling
    <3> QED
      BY <2>1, <3>2, <3>3, <3>4, RowsUntouched
  <2>3. LossesFit'
    BY <1>1, <2>1, LosingNothing DEF PaymentInv
  <2> QED
    BY <1>1, <2>2, <2>3 DEF PaymentInv
<1>4. ASSUME NEW p \in Payments, Refund(e, p)
      PROVE  PaymentInv'
  <2>1. /\ UNCHANGED <<call, charged, paymentFaults, paymentLost>>
        /\ pspRefunds' = [pspRefunds EXCEPT ![p] = @ + 1]
        /\ payment' = [payment EXCEPT ![p] = "REFUNDED"]
        /\ paymentUnsent' = paymentUnsent \cup {PaymentRefunded(PaysFor[p], p)}
        /\ payment[p] = "SUCCEEDED"
    BY <1>4 DEF Refund, Refundable
  <2>2. \A q \in Payments : payment'[q] = IF q = p THEN "REFUNDED" ELSE payment[q]
    BY <1>1, <2>1 DEF PaymentTypeOK
  <2>3. \A q \in Payments : (Settled(q)' <=> Settled(q)) /\ (Row(q)' <=> Row(q))
    BY <2>1, <2>2 DEF Settled, Row
  <2>4. ASSUME NEW q \in Payments
        PROVE  RowsFit(q)' /\ RefundsFit(q)' /\ EventsFit(q)'
    <3>1. RowsFit(q) /\ RefundsFit(q) /\ EventsFit(q)
      BY DEF PaymentInv
    <3>2. RowsFit(q)'
      BY <2>1, <2>3, <3>1 DEF RowsFit
    <3>3. RefundsFit(q)'
      BY <1>1, <2>1, <2>2, <3>1 DEF RowsFit, RefundsFit, Settled, PaymentTypeOK
    <3>4. /\ Told(PaymentSucceeded(PaysFor[q], q))' <=> Told(PaymentSucceeded(PaysFor[q], q))
          /\ Told(PaymentFailed(PaysFor[q], q))' <=> Told(PaymentFailed(PaysFor[q], q))
          /\ Told(PaymentRefunded(PaysFor[q], q))' <=> Told(PaymentRefunded(PaysFor[q], q)) \/ q = p
      BY <2>1, Telling, OutcomesDiffer
    <3>5. EventsFit(q)'
      BY <2>1, <2>2, <2>3, <3>1, <3>4 DEF EventsFit
    <3> QED
      BY <3>2, <3>3, <3>5
  <2>5. ASSUME NEW q \in Payments, NEW r \in Payments, q # r
        PROVE  RowsDiffer(q, r)'
    <3>1. RowsDiffer(q, r)
      BY <2>5 DEF PaymentInv
    <3> QED
      BY <2>3, <3>1 DEF RowsDiffer
  <2>6. LossesFit'
    BY <1>1, <2>1, LosingNothing DEF PaymentInv
  <2> QED
    BY <1>1, <2>4, <2>5, <2>6 DEF PaymentInv
<1> QED
  BY <1>2, <1>3, <1>4 DEF PaymentHandles

\* Publishing an event, or losing it, touches no row.
LEMMA PublishKeepsInv ==
    ASSUME PaymentInv, NEW e \in paymentUnsent, PaymentPublish(e) \/ PaymentLose(e)
    PROVE  PaymentInv'
<1>1. PaymentTypeOK /\ PaymentTypeOK'
  BY PublishKeepsType DEF PaymentInv
<1>2. /\ UNCHANGED <<call, payment, charged, pspRefunds>>
      /\ paymentFaults' \in {paymentFaults, paymentFaults + 1}
      /\ \A x : Told(x)' <=> Told(x)
  BY <1>1 DEF PaymentPublish, PaymentLose, Publish, Told, PaymentTypeOK
<1>3. ASSUME NEW q \in Payments
      PROVE  RowsFit(q)' /\ RefundsFit(q)' /\ EventsFit(q)' /\ \A r \in Payments : q # r => RowsDiffer(q, r)'
  <2>1. RowsFit(q) /\ RefundsFit(q)
    BY DEF PaymentInv
  <2>2. RowsFit(q)'
    BY <1>2, <2>1 DEF RowsFit, Row, Settled
  <2>3. RefundsFit(q)'
    BY <1>1, <1>2, <2>1 DEF RefundsFit, PaymentTypeOK
  <2> QED
    BY <1>2, <2>2, <2>3, RowsUntouched
<1>4. LossesFit'
  BY <1>1, LosingNothing, LosingOne DEF PaymentInv, PaymentPublish, PaymentLose
<1> QED
  BY <1>1, <1>3, <1>4 DEF PaymentInv

(***************************************************************************)
(* What becomes of a charge.  PaymentInv says nothing of a call that was   *)
(* charged and has no row: it is being stored, was refused the row for one *)
(* that is there already, or was cut short.                                *)
(***************************************************************************)
RefusedFor(p) == KeyStored(p) \/ BookingPaid(PaysFor[p])

ChargesFit ==
    \A p \in charged :
        \/ Settled(p)
        \/ call[p] = "approved"
        \/ call[p] = "refused" /\ RefusedFor(p)
        \/ call[p] = "crashed" /\ paymentFaults > 0

\* A row that is there stays there, and is not unpaid.
LEMMA RowsStay ==
    ASSUME PaymentTypeOK,
           \A q \in Payments : (Row(q) => Row(q)') /\ (Settled(q) => Settled(q)'),
           NEW p, RefusedFor(p)
    PROVE  RefusedFor(p)'
BY DEF RefusedFor, KeyStored, BookingPaid, PaymentsOneSuccess, Settled

\* No step loses a charge: a call goes on from the charge only to the insert, to
\* its refusal or to a crash, and a refund keeps the row.
LEMMA StepKeepsCharges ==
    ASSUME PaymentInv, ChargesFit,
           \/ \E p \in Payments : LookUp(p) \/ PayStep(p)
           \/ \E e : PaymentHandles(e)
           \/ \E e \in paymentUnsent : PaymentPublish(e) \/ PaymentLose(e)
    PROVE  ChargesFit'
<1>1. PaymentTypeOK /\ \A p \in Payments : RowsFit(p)
  BY DEF PaymentInv
<1>2. ASSUME NEW p \in Payments, LookUp(p) \/ PayStep(p), NEW q \in charged'
      PROVE  \/ Settled(q)'
             \/ call'[q] = "approved"
             \/ call'[q] = "refused" /\ RefusedFor(q)'
             \/ call'[q] = "crashed" /\ paymentFaults' > 0
  <2>0. \A r \in Payments : (Row(r) => Row(r)') /\ (Settled(r) => Settled(r)')
    BY <1>1, <1>2
    DEF PaymentTypeOK, RowsFit, LookUp, PayStep, Charge, StorePayment, RefusePayment, PayCrash, Row, Settled
  <2>1. CASE q # p
    <3>1. /\ q \in charged /\ call'[q] = call[q] /\ payment'[q] = payment[q]
          /\ paymentFaults' \in {paymentFaults, paymentFaults + 1}
      BY <1>1, <1>2, <2>1
      DEF PaymentTypeOK, LookUp, PayStep, Charge, StorePayment, RefusePayment, PayCrash, Proceed
    <3> QED
      BY <1>1, <2>0, <3>1, RowsStay DEF ChargesFit, Settled, PaymentTypeOK
  <2>2. CASE q = p /\ LookUp(p)
    BY <1>1, <2>2 DEF LookUp, ChargesFit, RowsFit, Row, Settled
  <2>3. CASE q = p /\ Charge(p)
    <3>1. p \notin charged
      BY <1>1, <2>3 DEF Charge, ChargesFit, RowsFit, Row, Settled
    <3> QED
      BY <1>1, <2>3, <3>1 DEF Charge, Proceed, PaymentTypeOK
  <2>4. CASE q = p /\ StorePayment(p)
    <3>1. call[p] = "approved"
      BY <1>1, <2>4 DEF StorePayment, ChargesFit, RowsFit, Row, Settled
    <3> QED
      BY <1>1, <2>4, <3>1 DEF StorePayment, Settled, PaymentTypeOK
  <2>5. CASE q = p /\ RefusePayment(p)
    <3>1. RefusedFor(p)
      BY <2>5 DEF RefusePayment, InsertRefused, RefusedFor
    <3> QED
      BY <1>1, <2>0, <2>5, <3>1, RowsStay DEF RefusePayment, Proceed, PaymentTypeOK
  <2>6. CASE q = p /\ PayCrash(p)
    BY <1>1, <2>6 DEF PayCrash, Proceed, PaymentTypeOK
  <2> QED
    BY <1>2, <2>1, <2>2, <2>3, <2>4, <2>5, <2>6 DEF PayStep
<1>3. ASSUME UNCHANGED <<call, charged>>,
             \A q \in Payments : (Row(q) => Row(q)') /\ (Settled(q) => Settled(q)'),
             paymentFaults' \in {paymentFaults, paymentFaults + 1}
      PROVE  ChargesFit'
  BY <1>1, <1>3, RowsStay DEF ChargesFit, PaymentTypeOK
<1>4. ASSUME NEW e, PaymentHandles(e)
      PROVE  ChargesFit'
  <2>1. \A q \in Payments : (Row(q) => Row(q)') /\ (Settled(q) => Settled(q)')
    BY <1>1, <1>4 DEF PaymentHandles, SkipRefund, Refund, RefundAborted, PaymentTypeOK, Row, Settled
  <2> QED
    BY <1>3, <1>4, <2>1 DEF PaymentHandles, SkipRefund, Refund, RefundAborted
<1>5. ASSUME NEW e, PaymentPublish(e) \/ PaymentLose(e)
      PROVE  ChargesFit'
  BY <1>3, <1>5 DEF PaymentPublish, PaymentLose, Row, Settled
<1> QED
  BY <1>2, <1>4, <1>5 DEF ChargesFit

(***************************************************************************)
(* The theorems.                                                           *)
(***************************************************************************)

\* The inductive invariant holds, for any calls, crashes and cancellations.
THEOREM PaymentInvariant == PaymentSpec => []PaymentInv
<1>1. PaymentStart => PaymentInv
  BY PaymentInitType, FS_EmptySet
  DEF PaymentStart, PaymentInit, PaymentInv, LossesFit, RowsFit, RefundsFit, EventsFit, RowsDiffer, Row, Settled, Told
<1>2. PaymentInv /\ [PaymentNext]_<<paymentVars, sent>> => PaymentInv'
  <2>1. PaymentInv /\ UNCHANGED <<paymentVars, sent>> => PaymentInv'
    BY DEF paymentVars, PaymentInv, LossesFit, PaymentTypeOK, RowsFit, RefundsFit, EventsFit, RowsDiffer, Row,
           Settled, Told
  <2> QED
    BY <2>1, CallKeepsInv, StoreKeepsInv, PaymentHandlerKeepsInv, PublishKeepsInv
    DEF PaymentNext, PaymentStep, PayStep
<1> QED
  BY <1>1, <1>2, PTL DEF PaymentSpec

\* However many calls of pay() overlap, with whatever keys: a booking's money
\* is taken into the books once, a charge is returned once but for refunds
\* whose commit failed, and the events agree with the rows.
THEOREM PaymentsAgree ==
    PaymentSpec => [](OneSuccessPerBooking /\ RefundedOnce /\ PaymentEventsMatchRows)
BY PaymentInvariant, PaymentInvImplies, PTL

\* A charge is returned once, and once more for each refund whose commit failed.
THEOREM ChargesAreRefundedOnce == PaymentSpec => []RefundedOnce
BY PaymentsAgree, PTL

\* What the payment service tells the others agrees with its rows, whatever crashes
\* between the commit of a row and the publication of its event.
THEOREM EventsAgreeWithRows == PaymentSpec => []PaymentEventsMatchRows
BY PaymentsAgree, PTL
=============================================================================
