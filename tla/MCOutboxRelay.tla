--------------------------- MODULE MCOutboxRelay ---------------------------
(***************************************************************************)
(* Instances of OutboxRelay for TLC: three or four rows of two bookings.   *)
(***************************************************************************)
EXTENDS OutboxRelay

\* Rows 1, 3 and 4 are of one booking, row 2 is of another.
MCBookingOf == [i \in Rows |-> IF i = 2 THEN "b2" ELSE "b1"]
=============================================================================
