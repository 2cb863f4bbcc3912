---------------------------- MODULE StayContract ----------------------------
(***************************************************************************)
(* What StayBook promises a guest about one booking and its money, over all*)
(* services together: a booking is confirmed only on money taken, money is *)
(* returned only once the booking is over, it is taken and returned at most*)
(* once, and a booking that is over stays over.                            *)
(***************************************************************************)
CONSTANT Bookings

VARIABLES
    stay,    \* "none", "open", "confirmed" or "over"
    money    \* "none", "taken" or "returned"

vars == <<stay, money>>

Init ==
    /\ stay = [b \in Bookings |-> "none"]
    /\ money = [b \in Bookings |-> "none"]

Open(b) ==
    /\ stay[b] = "none"
    /\ stay' = [stay EXCEPT ![b] = "open"]
    /\ UNCHANGED money

Take(b) ==
    /\ stay[b] # "none"
    /\ money[b] = "none"
    /\ money' = [money EXCEPT ![b] = "taken"]
    /\ UNCHANGED stay

Confirm(b) ==
    /\ stay[b] = "open"
    /\ money[b] = "taken"
    /\ stay' = [stay EXCEPT ![b] = "confirmed"]
    /\ UNCHANGED money

Over(b) ==
    /\ stay[b] \in {"open", "confirmed"}
    /\ stay' = [stay EXCEPT ![b] = "over"]
    /\ UNCHANGED money

Return(b) ==
    /\ stay[b] = "over"
    /\ money[b] = "taken"
    /\ money' = [money EXCEPT ![b] = "returned"]
    /\ UNCHANGED stay

Next == \E b \in Bookings : Open(b) \/ Take(b) \/ Confirm(b) \/ Over(b) \/ Return(b)

Spec == Init /\ [][Next]_vars
=============================================================================
