-------------------------- MODULE BookingLifecycle --------------------------
(***************************************************************************)
(* What the booking service promises of one booking, whatever the other    *)
(* services do: a booking is confirmed only when it has been paid, an end  *)
(* is final, and a booking that was confirmed or that waits for its refund *)
(* ends with a refund owed.  A payment that arrives after the end is owed  *)
(* back at once.                                                           *)
(***************************************************************************)
CONSTANT Bookings

VARIABLES
    stage,    \* "none", "open", "confirmed", "refunding" or "ended"
    paid,     \* whether a payment has been recorded
    owed      \* whether a refund has been asked for

vars == <<stage, paid, owed>>

Init ==
    /\ stage = [b \in Bookings |-> "none"]
    /\ paid = [b \in Bookings |-> FALSE]
    /\ owed = [b \in Bookings |-> FALSE]

Open(b) ==
    /\ stage[b] = "none"
    /\ stage' = [stage EXCEPT ![b] = "open"]
    /\ UNCHANGED <<paid, owed>>

RecordPayment(b) ==
    /\ stage[b] \notin {"none", "ended"}
    /\ paid' = [paid EXCEPT ![b] = TRUE]
    /\ UNCHANGED <<stage, owed>>

RecordLatePayment(b) ==
    /\ stage[b] = "ended"
    /\ paid' = [paid EXCEPT ![b] = TRUE]
    /\ owed' = [owed EXCEPT ![b] = TRUE]
    /\ UNCHANGED stage

Confirm(b) ==
    /\ stage[b] = "open"
    /\ stage' = [stage EXCEPT ![b] = "confirmed"]
    /\ paid' = [paid EXCEPT ![b] = TRUE]
    /\ UNCHANGED owed

AskRefund(b) ==
    /\ stage[b] \in {"open", "confirmed"}
    /\ paid[b]
    /\ stage' = [stage EXCEPT ![b] = "refunding"]
    /\ owed' = [owed EXCEPT ![b] = TRUE]
    /\ UNCHANGED paid

End(b) ==
    /\ stage[b] \in {"open", "confirmed", "refunding"}
    /\ stage' = [stage EXCEPT ![b] = "ended"]
    /\ \/ stage[b] # "confirmed" /\ UNCHANGED owed
       \/ paid[b] /\ owed' = [owed EXCEPT ![b] = TRUE]
    /\ UNCHANGED paid

Next ==
    \E b \in Bookings :
        \/ Open(b) \/ RecordPayment(b) \/ RecordLatePayment(b)
        \/ Confirm(b) \/ AskRefund(b) \/ End(b)

Spec == Init /\ [][Next]_vars
=============================================================================
