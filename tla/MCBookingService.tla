-------------------------- MODULE MCBookingService --------------------------
(***************************************************************************)
(* The booking service alone: one booking, two payment attempts, and every *)
(* order of every event an environment could deliver.                      *)
(***************************************************************************)
EXTENDS BookingService

MCRoom == [b \in Bookings |-> "r"]
MCCheckIn == [b \in Bookings |-> 1]
MCCheckOut == [b \in Bookings |-> 2]
MCRequestKey == [b \in Bookings |-> NoKey]
=============================================================================
