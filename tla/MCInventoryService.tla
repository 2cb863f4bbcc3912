------------------------- MODULE MCInventoryService -------------------------
(***************************************************************************)
(* The inventory service alone, given any booking events in any order: two *)
(* bookings of one room, b2 arriving on the second of the two nights of b1.*)
(***************************************************************************)
EXTENDS InventoryService

CONSTANTS b1, b2

MCRoom == [b \in Bookings |-> "r"]
MCCheckIn == [b \in Bookings |-> IF b = b1 THEN 1 ELSE 2]
MCCheckOut == [b \in Bookings |-> IF b = b1 THEN 3 ELSE 4]

\* Bound: at most two cancellations of each booking are delivered, one that
\* refunds and one that does not.
FewCancellations ==
    \A e \in inventorySeen' :
        e.topic = "booking.cancelled" => e.reason = "guest_request" /\ e.payment = NoPayment
=============================================================================
