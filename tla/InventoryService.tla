-------------------------- MODULE InventoryService --------------------------
(***************************************************************************)
(* The inventory service: the hold on each booking's stay, the handlers    *)
(* for the booking service's events and the sweeper of expired holds.      *)
(*                                                                         *)
(* It has no outbox.  A handler commits its transaction and publishes its  *)
(* reply afterwards; inventoryUnsent are the replies in between.  If the   *)
(* process stops there, or the publish fails, the reply is gone: the event *)
(* that asked for it is already marked processed, so delivering it again   *)
(* does nothing.                                                           *)
(*                                                                         *)
(* Time is abstract: the sweeper may find any set of HELD holds expired.   *)
(***************************************************************************)
EXTENDS EventBus, FiniteSets

CONSTANT MaxInventoryFaults   \* bound: how often replies may be lost

ASSUME MaxInventoryFaultsAssumption == MaxInventoryFaults \in Nat

VARIABLES
    hold,              \* holds.status of each booking; "none" while it has no row
    refused,           \* bookings whose handler is between its two transactions:
                       \* the insert was rolled back, the refusal is not recorded yet
    inventorySeen,     \* the inventory service's processed_events
    inventoryUnsent,   \* replies to publish, their transaction committed
    inventoryFaults,   \* how often a crash or an error has lost replies
    inventoryLost      \* history: the replies lost, which nothing in the service remembers

\* As in BookingService, <definition>_<what is wrong> is a fault to put in place
\* of the definition.

inventoryVars == <<hold, refused, inventorySeen, inventoryUnsent, inventoryFaults, inventoryLost>>

HoldStatus_WithoutExpired == {"HELD", "CONFIRMED", "RELEASED"}

HoldStatus == {"HELD", "CONFIRMED", "RELEASED", "EXPIRED"}

InventoryInit ==
    /\ hold = [b \in Bookings |-> "none"]
    /\ refused = {}
    /\ inventorySeen = {}
    /\ inventoryUnsent = {}
    /\ inventoryFaults = 0
    /\ inventoryLost = {}

\* daterange(check_in, check_out, '[)') && ... : the day of departure is free.
SameNight(b, c) == CheckIn[b] < CheckOut[c] /\ CheckIn[c] < CheckOut[b]

Overlaps(b, c) == Room[b] = Room[c] /\ SameNight(b, c)

Active_HeldOnly(b) == hold[b] = "HELD"

\* The holds the exclusion constraint looks at.  The database checks it on every
\* write; the model checks it where a hold is inserted, and leaves the updates free,
\* so that ActiveHoldsAreDisjoint says that none of them would be refused.
Active(b) == hold[b] \in {"HELD", "CONFIRMED"}

FirstTime(e) ==
    /\ e \notin inventorySeen
    /\ inventorySeen' = inventorySeen \cup {e}

Reply(es) == inventoryUnsent' = inventoryUnsent \cup es

(***************************************************************************)
(* on_booking_requested.  The hold is inserted unless an active hold of    *)
(* another booking overlaps it (holds_no_overlap).  On a conflict the      *)
(* transaction is rolled back, its processed_events row with it; a second  *)
(* transaction, RejectRequest, marks the event and the refusal is sent.    *)
(* Until then the event is unmarked: another worker that is given it again *)
(* (the consumer group was rebalanced) may insert the hold, if the room has*)
(* been freed, and both answers are sent, because the second transaction   *)
(* does not look at whether it was the first to mark the event.            *)
(***************************************************************************)
StayFree(b) == \A c \in Bookings \ {b} : Active(c) => ~Overlaps(b, c)

OnBookingRequested(e) ==
    /\ e.topic = "booking.requested"
    /\ LET b == e.booking IN
        \/ /\ StayFree(b)
           /\ FirstTime(e)
           /\ hold' = [hold EXCEPT ![b] = "HELD"]
           /\ Reply({InventoryHeld(b)})
           /\ UNCHANGED <<refused, inventoryFaults, inventoryLost>>
        \/ /\ ~StayFree(b)
           /\ e \notin inventorySeen
           /\ refused' = refused \cup {b}
           /\ UNCHANGED <<hold, inventorySeen, inventoryUnsent, inventoryFaults, inventoryLost>>

RejectRequest(b) ==
    /\ b \in refused
    /\ refused' = refused \ {b}
    /\ inventorySeen' = inventorySeen \cup {BookingRequested(b)}
    /\ Reply({InventoryRejected(b)})
    /\ UNCHANGED <<hold, inventoryFaults, inventoryLost>>

(***************************************************************************)
(* on_booking_confirmed: a hold that is no longer HELD stays as it is.     *)
(***************************************************************************)
ConfirmedHold_Always(b) == "CONFIRMED"

ConfirmedHold(b) == IF hold[b] = "HELD" THEN "CONFIRMED" ELSE hold[b]

InventoryOnBookingConfirmed(e) ==
    /\ e.topic = "booking.confirmed"
    /\ FirstTime(e)
    /\ hold' = [hold EXCEPT ![e.booking] = ConfirmedHold(e.booking)]
    /\ UNCHANGED <<refused, inventoryUnsent, inventoryFaults, inventoryLost>>

(***************************************************************************)
(* on_booking_cancelled: nothing to release, nothing to say.               *)
(***************************************************************************)
Releasable_HeldOnly(b) == hold[b] = "HELD"

Releasable_Expired(b) == hold[b] \in {"HELD", "CONFIRMED", "EXPIRED"}

Releasable(b) == hold[b] \in {"HELD", "CONFIRMED"}

InventoryOnBookingCancelled(e) ==
    /\ e.topic = "booking.cancelled"
    /\ FirstTime(e)
    /\ LET b == e.booking IN
        \/ /\ Releasable(b)
           /\ hold' = [hold EXCEPT ![b] = "RELEASED"]
           /\ Reply({InventoryReleased(b, "cancelled")})
        \/ /\ ~Releasable(b)
           /\ UNCHANGED <<hold, inventoryUnsent>>
    /\ UNCHANGED <<refused, inventoryFaults, inventoryLost>>

InventoryHandles(e) ==
    \/ OnBookingRequested(e)
    \/ InventoryOnBookingConfirmed(e)
    \/ InventoryOnBookingCancelled(e)

(***************************************************************************)
(* sweep_expired: one UPDATE expires every HELD hold that is past its time *)
(* (here: any set of them), then the releases are published one by one.    *)
(***************************************************************************)
Sweepable_Confirmed(b) == hold[b] = "CONFIRMED"

Sweepable(b) == hold[b] = "HELD"

Sweep(rows) ==
    /\ rows # {}
    /\ \A b \in rows : Sweepable(b)
    /\ hold' = [b \in Bookings |-> IF b \in rows THEN "EXPIRED" ELSE hold[b]]
    /\ Reply({InventoryReleased(b, "expired") : b \in rows})
    /\ UNCHANGED <<refused, inventorySeen, inventoryFaults, inventoryLost>>

InventoryPublish(e) ==
    /\ e \in inventoryUnsent
    /\ Publish(e)
    /\ inventoryUnsent' = inventoryUnsent \ {e}
    /\ UNCHANGED <<hold, refused, inventorySeen, inventoryFaults, inventoryLost>>

\* The process stops before it publishes, or the publish fails: producer
\* errors end the handler (and what is left of a sweep).
InventoryLose(lost) ==
    /\ lost # {}
    /\ inventoryFaults < MaxInventoryFaults
    /\ inventoryUnsent' = inventoryUnsent \ lost
    /\ inventoryFaults' = inventoryFaults + 1
    /\ inventoryLost' = inventoryLost \cup lost
    /\ UNCHANGED <<hold, refused, inventorySeen, sent>>

\* What the service does by itself, without an event.
InventoryStep ==
    \/ \E b \in Bookings : RejectRequest(b) /\ UNCHANGED sent
    \/ \E rows \in SUBSET Bookings : Sweep(rows) /\ UNCHANGED sent
    \/ \E e \in inventoryUnsent : InventoryPublish(e)
    \/ \E lost \in SUBSET inventoryUnsent : InventoryLose(lost)

(***************************************************************************)
(* The service against an environment that may deliver any booking event.  *)
(***************************************************************************)
InventoryNext ==
    \/ \E e \in BookingEvents : InventoryHandles(e) /\ UNCHANGED sent
    \/ InventoryStep

InventoryStart == InventoryInit /\ sent = {}

InventorySpec == InventoryStart /\ [][InventoryNext]_<<inventoryVars, sent>>

-----------------------------------------------------------------------------
(***************************************************************************)
(* Properties.                                                             *)
(***************************************************************************)

\* Type invariant: the range of holds.status, and the events of each side.
InventoryTypeOK ==
    /\ hold \in [Bookings -> HoldStatus \cup {"none"}]
    /\ refused \subseteq Bookings
    /\ inventorySeen \subseteq BookingEvents
    /\ inventoryUnsent \subseteq InventoryEvents
    /\ inventoryFaults \in 0 .. MaxInventoryFaults
    /\ inventoryLost \subseteq InventoryEvents

\* No two bookings hold the same night of the same room: an insert that would
\* break this is refused, and no update ever runs into the constraint, since none
\* brings back a hold that was released or expired in the meantime (the handler
\* of such an update would raise, and its event be given up).
ActiveHoldsAreDisjoint ==
    \A b, c \in Bookings : b # c /\ Active(b) /\ Active(c) => ~Overlaps(b, c)

\* The service has answered when the transaction that decides the answer has
\* committed, also if the reply was lost afterwards.
Answered(e) == e \in inventoryUnsent \cup sent \cup inventoryLost

\* The answers agree with the holds, whatever the order of requests, late
\* confirmations, cancellations and sweeps: held is said of a hold that was
\* made, rejected of a request that was handled, a release says how the hold
\* ended; and every request handled, every hold made and every hold ended has
\* been told, or its reply was lost in a fault: one lost reply, or a sweep that
\* is cut short, leaves no other booking without its answer.
AnswersMatchHolds ==
    /\ inventoryFaults = 0 => inventoryLost = {}
    /\ \A b \in Bookings :
          /\ Answered(InventoryHeld(b)) => hold[b] # "none"
          /\ Answered(InventoryRejected(b)) => BookingRequested(b) \in inventorySeen
          /\ Answered(InventoryReleased(b, "cancelled")) => hold[b] = "RELEASED"
          /\ Answered(InventoryReleased(b, "expired")) => hold[b] = "EXPIRED"
          /\ BookingRequested(b) \in inventorySeen =>
                Answered(InventoryHeld(b)) \/ Answered(InventoryRejected(b))
          /\ hold[b] # "none" => Answered(InventoryHeld(b))
          /\ hold[b] = "RELEASED" => Answered(InventoryReleased(b, "cancelled"))
          /\ hold[b] = "EXPIRED" => Answered(InventoryReleased(b, "expired"))
=============================================================================
