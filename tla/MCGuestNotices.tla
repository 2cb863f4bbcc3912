--------------------------- MODULE MCGuestNotices ---------------------------
(***************************************************************************)
(* Instances of GuestNotices for TLC: one booking, two attempts to pay.     *)
(***************************************************************************)
EXTENDS GuestNotices

CONSTANTS b1, p1, p2

MCRoom == [b \in Bookings |-> "r"]
MCCheckIn == [b \in Bookings |-> 1]
MCCheckOut == [b \in Bookings |-> 2]
MCRequestKey == [b \in Bookings |-> NoKey]
MCPaysFor == [p \in Payments |-> b1]
MCPayKey == [p \in Payments |-> NoPayKey]
=============================================================================
