--------------------------- MODULE PaymentService ---------------------------
(***************************************************************************)
(* The payment service: the calls of POST /payments, which charge the      *)
(* guest through the payment provider (PSP) and then store the outcome, and*)
(* the handler that refunds a cancelled booking.                           *)
(*                                                                         *)
(* A call of pay() is interleaved with the others at each await: the look  *)
(* up of its idempotency key, the charge, the insert and the publication   *)
(* are separate steps, and several calls, of one guest or of a client that *)
(* retries, run at once in the service's replicas.  As in the inventory    *)
(* service there is no outbox: paymentUnsent are the events of committed   *)
(* transactions that have not been published yet.                          *)
(***************************************************************************)
EXTENDS EventBus, FiniteSets

CONSTANTS
    PaysFor,           \* the booking_id of each call
    PayKey,            \* its Idempotency-Key header
    NoPayKey,          \* a call without the header
    EmptyPayKey,       \* the header without a value: stored as any other key
    MaxPaymentFaults   \* bound: how often a call, refund or publication is cut short

ASSUME PaysForAssumption == PaysFor \in [Payments -> Bookings]

ASSUME MaxPaymentFaultsAssumption == MaxPaymentFaults \in Nat

VARIABLES
    call,            \* how far each call of pay() has come
    payment,         \* payments.status of the row a call inserted; "none" without one
    charged,         \* the calls for which the PSP took money
    pspRefunds,      \* how often the PSP paid the money of a call back
    paymentSeen,     \* the payment service's processed_events
    paymentUnsent,   \* events to publish, their transaction committed
    paymentFaults,   \* calls, refunds and publications cut short so far
    paymentLost      \* history: the events lost, which nothing in the service remembers

\* As in BookingService, <definition>_<what is wrong> is a fault to put in place
\* of the definition.

paymentVars == <<call, payment, charged, pspRefunds, paymentSeen, paymentUnsent, paymentFaults, paymentLost>>

CallSteps == {"new", "charging", "approved", "declined", "returned", "refused", "crashed"}

PaymentStatus == {"SUCCEEDED", "FAILED", "REFUNDED"}

PaymentInit ==
    /\ call = [p \in Payments |-> "new"]
    /\ payment = [p \in Payments |-> "none"]
    /\ charged = {}
    /\ pspRefunds = [p \in Payments |-> 0]
    /\ paymentSeen = {}
    /\ paymentUnsent = {}
    /\ paymentFaults = 0
    /\ paymentLost = {}

Proceed(p, step) == call' = [call EXCEPT ![p] = step]

Row(p) == payment[p] # "none"

(***************************************************************************)
(* pay(): the key is looked up, unless it is empty; the stored outcome of  *)
(* an earlier call with the same key is returned, nothing is charged or    *)
(* published.                                                              *)
(***************************************************************************)
SameKey(p, q) == PayKey[p] = PayKey[q] /\ PayKey[p] # NoPayKey

KeyStored(p) == \E q \in Payments : Row(q) /\ SameKey(p, q)

KeyFound(p) == PayKey[p] # EmptyPayKey /\ KeyStored(p)

LookUp(p) ==
    /\ call[p] = "new"
    /\ Proceed(p, IF KeyFound(p) THEN "returned" ELSE "charging")
    /\ UNCHANGED <<payment, charged, pspRefunds, paymentSeen, paymentUnsent, paymentFaults, paymentLost>>

\* psp.charge: the provider approves or declines.
Charge(p) ==
    /\ call[p] = "charging"
    /\ \/ /\ Proceed(p, "approved")
          /\ charged' = charged \cup {p}
       \/ /\ Proceed(p, "declined")
          /\ UNCHANGED charged
    /\ UNCHANGED <<payment, pspRefunds, paymentSeen, paymentUnsent, paymentFaults, paymentLost>>

(***************************************************************************)
(* The insert, and the unique indexes that can refuse it: one row per key, *)
(* and one row per booking whose payment succeeded (a refund keeps the     *)
(* place taken).  A refused call answers 409 and keeps no record of what it*)
(* has charged.                                                            *)
(***************************************************************************)
PaymentsOneSuccess_NotRefunded == {"SUCCEEDED"}

PaymentsOneSuccess == {"SUCCEEDED", "REFUNDED"}

BookingPaid(b) == \E q \in Payments : PaysFor[q] = b /\ payment[q] \in PaymentsOneSuccess

InsertRefused(p) == KeyStored(p) \/ (call[p] = "approved" /\ BookingPaid(PaysFor[p]))

StorePayment(p) ==
    /\ call[p] \in {"approved", "declined"}
    /\ ~InsertRefused(p)
    /\ Proceed(p, "returned")
    /\ \/ /\ call[p] = "approved"
          /\ payment' = [payment EXCEPT ![p] = "SUCCEEDED"]
          /\ paymentUnsent' = paymentUnsent \cup {PaymentSucceeded(PaysFor[p], p)}
       \/ /\ call[p] = "declined"
          /\ payment' = [payment EXCEPT ![p] = "FAILED"]
          /\ paymentUnsent' = paymentUnsent \cup {PaymentFailed(PaysFor[p], p)}
    /\ UNCHANGED <<charged, pspRefunds, paymentSeen, paymentFaults, paymentLost>>

RefusePayment(p) ==
    /\ call[p] \in {"approved", "declined"}
    /\ InsertRefused(p)
    /\ Proceed(p, "refused")
    /\ UNCHANGED <<payment, charged, pspRefunds, paymentSeen, paymentUnsent, paymentFaults, paymentLost>>

\* The process stops, or the database fails, after the charge.
PayCrash(p) ==
    /\ call[p] \in {"approved", "declined"}
    /\ paymentFaults < MaxPaymentFaults
    /\ Proceed(p, "crashed")
    /\ paymentFaults' = paymentFaults + 1
    /\ UNCHANGED <<payment, charged, pspRefunds, paymentSeen, paymentUnsent, paymentLost>>

(***************************************************************************)
(* on_booking_cancelled.  The event's mark, the PSP's refund and the row's *)
(* REFUNDED commit together, but the PSP does not take part in the         *)
(* transaction: RefundAborted is a refund whose commit fails, and the event*)
(* is handled anew.                                                        *)
(***************************************************************************)
Refundable_Twice(p, b) == PaysFor[p] = b /\ payment[p] \in {"SUCCEEDED", "REFUNDED"}

Refundable_AnyRow(p, b) == PaysFor[p] = b /\ Row(p)

Refundable(p, b) == PaysFor[p] = b /\ payment[p] = "SUCCEEDED"

CancelledFirstTime(e) == e.topic = "booking.cancelled" /\ e \notin paymentSeen

SkipRefund(e) ==
    /\ CancelledFirstTime(e)
    /\ ~e.refund \/ \A p \in Payments : ~Refundable(p, e.booking)
    /\ paymentSeen' = paymentSeen \cup {e}
    /\ UNCHANGED <<call, payment, charged, pspRefunds, paymentUnsent, paymentFaults, paymentLost>>

Refund(e, p) ==
    /\ CancelledFirstTime(e)
    /\ e.refund
    /\ Refundable(p, e.booking)
    /\ paymentSeen' = paymentSeen \cup {e}
    /\ pspRefunds' = [pspRefunds EXCEPT ![p] = @ + 1]
    /\ payment' = [payment EXCEPT ![p] = "REFUNDED"]
    /\ paymentUnsent' = paymentUnsent \cup {PaymentRefunded(e.booking, p)}
    /\ UNCHANGED <<call, charged, paymentFaults, paymentLost>>

RefundAborted(e, p) ==
    /\ CancelledFirstTime(e)
    /\ e.refund
    /\ Refundable(p, e.booking)
    /\ paymentFaults < MaxPaymentFaults
    /\ pspRefunds' = [pspRefunds EXCEPT ![p] = @ + 1]
    /\ paymentFaults' = paymentFaults + 1
    /\ UNCHANGED <<call, payment, charged, paymentSeen, paymentUnsent, paymentLost>>

PaymentHandles(e) ==
    \/ SkipRefund(e)
    \/ \E p \in Payments : Refund(e, p) \/ RefundAborted(e, p)

PaymentPublish(e) ==
    /\ e \in paymentUnsent
    /\ Publish(e)
    /\ paymentUnsent' = paymentUnsent \ {e}
    /\ UNCHANGED <<call, payment, charged, pspRefunds, paymentSeen, paymentFaults, paymentLost>>

PaymentLose(e) ==
    /\ e \in paymentUnsent
    /\ paymentFaults < MaxPaymentFaults
    /\ paymentUnsent' = paymentUnsent \ {e}
    /\ paymentFaults' = paymentFaults + 1
    /\ paymentLost' = paymentLost \cup {e}
    /\ UNCHANGED <<call, payment, charged, pspRefunds, paymentSeen, sent>>

\* What a call of pay() does after it has been received.
PayStep(p) == Charge(p) \/ StorePayment(p) \/ RefusePayment(p) \/ PayCrash(p)

\* What the service does by itself, without an event or a new request.
PaymentStep ==
    \/ \E p \in Payments : PayStep(p) /\ UNCHANGED sent
    \/ \E e \in paymentUnsent : PaymentPublish(e) \/ PaymentLose(e)

(***************************************************************************)
(* The service against an environment that may deliver any cancellation.   *)
(***************************************************************************)
PaymentNext ==
    \/ \E p \in Payments : LookUp(p) /\ UNCHANGED sent
    \/ \E e \in BookingEvents : PaymentHandles(e) /\ UNCHANGED sent
    \/ PaymentStep

PaymentStart == PaymentInit /\ sent = {}

PaymentSpec == PaymentStart /\ [][PaymentNext]_<<paymentVars, sent>>

-----------------------------------------------------------------------------
(***************************************************************************)
(* Properties.                                                             *)
(***************************************************************************)

\* Type invariant: the range of payments.status, the steps of a call and the
\* events of each side.
PaymentTypeOK ==
    /\ call \in [Payments -> CallSteps]
    /\ payment \in [Payments -> PaymentStatus \cup {"none"}]
    /\ charged \subseteq Payments
    /\ pspRefunds \in [Payments -> Nat]
    /\ paymentSeen \subseteq BookingEvents
    /\ paymentUnsent \subseteq PaymentEvents
    /\ paymentFaults \in 0 .. MaxPaymentFaults
    /\ paymentLost \subseteq PaymentEvents

\* A booking's money is taken into the books once: at most one call for it
\* has a SUCCEEDED or REFUNDED row, a call that was charged; and calls that
\* share a key, however they overlap, leave one row.
OneSuccessPerBooking ==
    /\ \A p \in Payments : payment[p] \in {"SUCCEEDED", "REFUNDED"} => p \in charged
    /\ \A p, q \in Payments :
          /\ p # q
          /\ payment[p] # "none"
          /\ payment[q] # "none"
          => /\ ~SameKey(p, q)
             /\ PaysFor[p] = PaysFor[q] => "FAILED" \in {payment[p], payment[q]}

\* The PSP pays a charge back once, plus once for each refund whose commit
\* failed, and never pays back a call it did not charge.
RefundedOnce ==
    \A p \in Payments :
        /\ pspRefunds[p] <= paymentFaults + (IF payment[p] = "REFUNDED" THEN 1 ELSE 0)
        /\ payment[p] = "REFUNDED" => pspRefunds[p] > 0
        /\ pspRefunds[p] > 0 => p \in charged

\* The transaction that stores what the event tells has committed; the event may
\* have been lost afterwards.
Told(e) == e \in paymentUnsent \cup sent \cup paymentLost

\* The events agree with the rows: an outcome is told of the row that has it, and
\* every outcome stored is told, or its event was lost in a fault, whatever other
\* calls, refunds and publications were cut short.
PaymentEventsMatchRows ==
    /\ Cardinality(paymentLost) <= paymentFaults
    /\ \A p \in Payments :
          LET b == PaysFor[p] IN
          /\ Told(PaymentSucceeded(b, p)) => payment[p] \in {"SUCCEEDED", "REFUNDED"}
          /\ Told(PaymentFailed(b, p)) => payment[p] = "FAILED"
          /\ Told(PaymentRefunded(b, p)) => payment[p] = "REFUNDED"
          /\ payment[p] \in {"SUCCEEDED", "REFUNDED"} => Told(PaymentSucceeded(b, p))
          /\ payment[p] = "FAILED" => Told(PaymentFailed(b, p))
          /\ payment[p] = "REFUNDED" => Told(PaymentRefunded(b, p))

\* What the answer 409 "booking already paid" says: a call that was charged
\* and then refused is for a booking that has been paid.
RefusedChargeMeansPaid ==
    \A p \in Payments : call[p] = "refused" /\ p \in charged => BookingPaid(PaysFor[p])
=============================================================================
