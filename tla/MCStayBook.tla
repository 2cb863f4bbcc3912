----------------------------- MODULE MCStayBook -----------------------------
(***************************************************************************)
(* Two bookings that compete for one room: their nights overlap, but for   *)
(* the first of the one and the last of the other.  Each has a payment.    *)
(***************************************************************************)
EXTENDS StayBook

CONSTANTS b1, b2, p1, p2

MCRoom == [b \in Bookings |-> "r"]
MCCheckIn == [b \in Bookings |-> IF b = b1 THEN 1 ELSE 2]
MCCheckOut == [b \in Bookings |-> IF b = b1 THEN 3 ELSE 4]
MCRequestKey == [b \in Bookings |-> NoKey]

MCPayKey == [p \in Payments |-> NoPayKey]

\* One payment for each of two bookings.
OneForEach == [p \in Payments |-> IF p = p1 THEN b1 ELSE b2]

\* Bounds: every charge is approved and no guest cancels.  Declined charges and
\* cancellations are in the runs with one booking; here the bookings compete by
\* requests, payments and expiry.
ChargesApproved == \A p \in Payments : call'[p] # "declined"
GuestsStay == \A e \in outbox' : e.reason # "guest_request"
Competition == ChargesApproved /\ GuestsStay
=============================================================================
