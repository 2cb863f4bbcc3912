-------------------------- MODULE MCPaymentService --------------------------
(***************************************************************************)
(* The payment service alone: four calls of pay() for one booking, two     *)
(* with the same key (a client, or the mesh, that retries while the first  *)
(* request is still running) and two with an empty one, and cancellations  *)
(* at any time.                                                            *)
(***************************************************************************)
EXTENDS PaymentService, TLC

CONSTANTS b1, p1, p2, p3, p4

MCRoom == [b \in Bookings |-> "r"]
MCCheckIn == [b \in Bookings |-> 1]
MCCheckOut == [b \in Bookings |-> 2]

MCPaysFor == [p \in Payments |-> b1]
MCPayKey == [p \in Payments |-> IF p \in {p1, p2} THEN "k" ELSE EmptyPayKey]

\* Calls with the same key are alike.
Symmetry == {f @@ g : f \in Permutations({p1, p2}), g \in Permutations({p3, p4})}

\* Bound: two cancellations that refund, and one that does not, are delivered.
FewCancellations ==
    paymentSeen' \subseteq
        {BookingCancelled(b1, NoPayment, "guest_request", TRUE),
         BookingCancelled(b1, NoPayment, "rejected_after_payment", TRUE),
         BookingCancelled(b1, NoPayment, "payment_failed", FALSE)}
=============================================================================
