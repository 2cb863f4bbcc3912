----------------------- MODULE InventoryServiceProofs -----------------------
(***************************************************************************)
(* What the inventory service keeps whatever booking events it is given,   *)
(* and whatever replies it loses: no room is held twice for one night, and *)
(* its answers agree with its holds.                                       *)
(***************************************************************************)
EXTENDS InventoryService, EventBusProofs

(***************************************************************************)
(* Types.                                                                  *)
(***************************************************************************)

\* The service starts with values of the right types.
LEMMA InventoryInitType == InventoryInit => InventoryTypeOK
BY MaxInventoryFaultsAssumption DEF InventoryInit, InventoryTypeOK

\* No handler gives a variable a value out of its type.
LEMMA InventoryHandlerKeepsType ==
    ASSUME InventoryTypeOK, NEW e \in BookingEvents, InventoryHandles(e)
    PROVE  InventoryTypeOK'
<1> DEFINE b == e.booking
<1>1. b \in Bookings
  BY BookingEventIs
<1>2. /\ InventoryHeld(b) \in InventoryEvents
      /\ InventoryReleased(b, "cancelled") \in InventoryEvents
  BY <1>1 DEF InventoryEvents
<1>3. CASE OnBookingRequested(e)
  BY <1>1, <1>2, <1>3 DEF OnBookingRequested, FirstTime, Reply, InventoryTypeOK, HoldStatus
<1>4. CASE InventoryOnBookingConfirmed(e)
  BY <1>1, <1>4 DEF InventoryOnBookingConfirmed, FirstTime, ConfirmedHold, InventoryTypeOK, HoldStatus
<1>5. CASE InventoryOnBookingCancelled(e)
  BY <1>1, <1>2, <1>5 DEF InventoryOnBookingCancelled, FirstTime, Reply, InventoryTypeOK, HoldStatus
<1> QED
  BY <1>3, <1>4, <1>5 DEF InventoryHandles

\* Nor does a refusal, a sweep, a publication or its loss.
LEMMA InventoryStepKeepsType ==
    ASSUME InventoryTypeOK, InventoryStep
    PROVE  InventoryTypeOK'
<1>1. ASSUME NEW b \in Bookings, RejectRequest(b)
      PROVE  InventoryTypeOK'
  <2>1. BookingRequested(b) \in BookingEvents /\ InventoryRejected(b) \in InventoryEvents
    BY DEF BookingEvents, InventoryEvents
  <2> QED
    BY <1>1, <2>1 DEF RejectRequest, Reply, InventoryTypeOK
<1>2. ASSUME NEW rows \in SUBSET Bookings, Sweep(rows)
      PROVE  InventoryTypeOK'
  <2>1. {InventoryReleased(b, "expired") : b \in rows} \subseteq InventoryEvents
    BY DEF InventoryEvents
  <2> QED
    BY <1>2, <2>1 DEF Sweep, Reply, InventoryTypeOK, HoldStatus
<1>3. ASSUME NEW e \in inventoryUnsent, InventoryPublish(e)
      PROVE  InventoryTypeOK'
  BY <1>3 DEF InventoryPublish, InventoryTypeOK
<1>4. ASSUME NEW lost \in SUBSET inventoryUnsent, InventoryLose(lost)
      PROVE  InventoryTypeOK'
  BY <1>4, MaxInventoryFaultsAssumption DEF InventoryLose, InventoryTypeOK
<1> QED
  BY <1>1, <1>2, <1>3, <1>4 DEF InventoryStep

\* The status of a hold is always one of HoldStatus, for any set of bookings,
\* any rooms and any dates.
THEOREM InventoryTypeCorrect == InventorySpec => []InventoryTypeOK
<1>1. InventoryStart => InventoryTypeOK
  BY InventoryInitType DEF InventoryStart
<1>2. InventoryTypeOK /\ [InventoryNext]_<<inventoryVars, sent>> => InventoryTypeOK'
  <2>1. InventoryTypeOK /\ UNCHANGED inventoryVars => InventoryTypeOK'
    BY DEF inventoryVars, InventoryTypeOK
  <2> QED
    BY <2>1, InventoryHandlerKeepsType, InventoryStepKeepsType DEF InventoryNext
<1> QED
  BY <1>1, <1>2, PTL DEF InventorySpec

(***************************************************************************)
(* No two active holds overlap.                                            *)
(***************************************************************************)

\* Overlapping is mutual.
LEMMA OverlapsBothWays == \A b, c : Overlaps(b, c) <=> Overlaps(c, b)
BY DEF Overlaps, SameNight

\* Holds that end, or stay as they are, leave the rest disjoint.
LEMMA FewerActiveAreDisjoint ==
    ASSUME ActiveHoldsAreDisjoint, \A c \in Bookings : Active(c)' => Active(c)
    PROVE  ActiveHoldsAreDisjoint'
BY DEF ActiveHoldsAreDisjoint

\* A hold for a stay that is free of other holds leaves them disjoint.
LEMMA NewHoldIsDisjoint ==
    ASSUME ActiveHoldsAreDisjoint, NEW b \in Bookings, StayFree(b),
           \A c \in Bookings : Active(c)' => Active(c) \/ c = b
    PROVE  ActiveHoldsAreDisjoint'
BY OverlapsBothWays DEF ActiveHoldsAreDisjoint, StayFree

\* No handler lets two active holds overlap; in particular, a late
\* confirmation does not revive a hold.
LEMMA HandlerKeepsDisjoint ==
    ASSUME InventoryTypeOK, ActiveHoldsAreDisjoint,
           NEW e \in BookingEvents, InventoryHandles(e)
    PROVE  ActiveHoldsAreDisjoint'
<1> DEFINE b == e.booking
<1>1. b \in Bookings
  BY BookingEventIs
<1>2. CASE OnBookingRequested(e) /\ StayFree(b)
  <2>1. \A c \in Bookings : Active(c)' => Active(c) \/ c = b
    BY <1>1, <1>2 DEF OnBookingRequested, InventoryTypeOK, Active
  <2> QED
    BY <1>1, <1>2, <2>1, NewHoldIsDisjoint
<1>3. CASE OnBookingRequested(e) /\ ~StayFree(b)
  <2>1. hold' = hold
    BY <1>3 DEF OnBookingRequested
  <2> QED
    BY <2>1, FewerActiveAreDisjoint DEF Active
<1>4. CASE InventoryOnBookingConfirmed(e)
  <2>1. \A c \in Bookings : Active(c)' => Active(c)
    BY <1>1, <1>4 DEF InventoryOnBookingConfirmed, ConfirmedHold, InventoryTypeOK, Active
  <2> QED
    BY <2>1, FewerActiveAreDisjoint
<1>5. CASE InventoryOnBookingCancelled(e)
  <2>1. \A c \in Bookings : Active(c)' => Active(c)
    BY <1>1, <1>5 DEF InventoryOnBookingCancelled, InventoryTypeOK, Active
  <2> QED
    BY <2>1, FewerActiveAreDisjoint
<1> QED
  BY <1>2, <1>3, <1>4, <1>5 DEF InventoryHandles

\* Nor does any other step.
LEMMA StepKeepsDisjoint ==
    ASSUME InventoryTypeOK, ActiveHoldsAreDisjoint, InventoryStep
    PROVE  ActiveHoldsAreDisjoint'
<1>1. \A c \in Bookings : Active(c)' => Active(c)
  BY DEF InventoryStep, RejectRequest, Sweep, InventoryPublish, InventoryLose, InventoryTypeOK, Active
<1> QED
  BY <1>1, FewerActiveAreDisjoint

\* No two bookings ever hold the same night of the same room, for any number
\* of bookings, rooms and nights, whatever the booking service sends when.
THEOREM HoldsAreDisjoint == InventorySpec => []ActiveHoldsAreDisjoint
<1>1. InventoryStart => ActiveHoldsAreDisjoint
  BY DEF InventoryStart, InventoryInit, ActiveHoldsAreDisjoint, Active
<1>2. InventoryTypeOK /\ ActiveHoldsAreDisjoint /\ [InventoryNext]_<<inventoryVars, sent>>
        => ActiveHoldsAreDisjoint'
  <2>1. ActiveHoldsAreDisjoint /\ UNCHANGED inventoryVars => ActiveHoldsAreDisjoint'
    BY DEF inventoryVars, ActiveHoldsAreDisjoint, Active
  <2> QED
    BY <2>1, HandlerKeepsDisjoint, StepKeepsDisjoint DEF InventoryNext
<1> QED
  BY <1>1, <1>2, InventoryTypeCorrect, PTL DEF InventorySpec

(***************************************************************************)
(* The answers agree with the holds.                                       *)
(***************************************************************************)

\* The answers are told apart by their fields.
LEMMA AnswersDiffer ==
    ASSUME NEW b, NEW c, NEW reason, NEW other
    PROVE  /\ InventoryHeld(b) = InventoryHeld(c) <=> b = c
           /\ InventoryRejected(b) = InventoryRejected(c) <=> b = c
           /\ InventoryReleased(b, reason) = InventoryReleased(c, other) <=> b = c /\ reason = other
           /\ InventoryHeld(b) # InventoryReleased(c, reason)
           /\ InventoryHeld(b) # InventoryRejected(c)
           /\ InventoryReleased(b, reason) # InventoryRejected(c)
BY InboundFieldsOf

\* AnswersMatchHolds is not inductive: a hold that has ended must not be made
\* anew, and it is not, as its request has been marked processed.
RequestSeen(b) == BookingRequested(b) \in inventorySeen

Agrees(b) ==
    /\ hold[b] # "none" => RequestSeen(b)
    /\ Answered(InventoryHeld(b)) => hold[b] # "none"
    /\ Answered(InventoryRejected(b)) => RequestSeen(b)
    /\ Answered(InventoryReleased(b, "cancelled")) => hold[b] = "RELEASED"
    /\ Answered(InventoryReleased(b, "expired")) => hold[b] = "EXPIRED"
    /\ RequestSeen(b) => Answered(InventoryHeld(b)) \/ Answered(InventoryRejected(b))
    /\ hold[b] # "none" => Answered(InventoryHeld(b))
    /\ hold[b] = "RELEASED" => Answered(InventoryReleased(b, "cancelled"))
    /\ hold[b] = "EXPIRED" => Answered(InventoryReleased(b, "expired"))

LossesAreFaults == inventoryFaults = 0 => inventoryLost = {}

InventoryInv ==
    /\ InventoryTypeOK
    /\ LossesAreFaults
    /\ \A b \in Bookings : Agrees(b)

\* What a handler, a sweep or a refusal adds to the answers.
LEMMA Replying ==
    ASSUME NEW es, Reply(es), UNCHANGED <<sent, inventoryLost>>, NEW e
    PROVE  Answered(e)' <=> Answered(e) \/ e \in es
BY DEF Reply, Answered

\* Without a reply the answers stay as they are.
LEMMA NotReplying ==
    ASSUME UNCHANGED <<inventoryUnsent, sent, inventoryLost>>, NEW e
    PROVE  Answered(e)' <=> Answered(e)
BY DEF Answered

\* A booking whose hold and answers stay as they are, agrees as before.
LEMMA UntouchedAgrees ==
    ASSUME NEW c, Agrees(c), hold'[c] = hold[c], RequestSeen(c)' <=> RequestSeen(c),
           Answered(InventoryHeld(c))' <=> Answered(InventoryHeld(c)),
           Answered(InventoryRejected(c))' <=> Answered(InventoryRejected(c)),
           \A reason : Answered(InventoryReleased(c, reason))' <=> Answered(InventoryReleased(c, reason))
    PROVE  Agrees(c)'
BY DEF Agrees

\* Only a request's own event marks it seen.
LEMMA SeenRequests ==
    ASSUME NEW e, FirstTime(e), NEW c
    PROVE  RequestSeen(c)' <=> RequestSeen(c) \/ e = BookingRequested(c)
BY DEF FirstTime, RequestSeen

LEMMA RequestsDiffer ==
    ASSUME NEW b, NEW c
    PROVE  BookingRequested(b) = BookingRequested(c) <=> b = c
BY AnnouncedFields

\* Handling an event keeps every booking's answers in agreement with its hold.
LEMMA InventoryHandlerKeepsInv ==
    ASSUME InventoryInv, NEW e \in BookingEvents, InventoryHandles(e), UNCHANGED sent
    PROVE  InventoryInv'
<1> DEFINE b == e.booking
<1>1. InventoryTypeOK' /\ b \in Bookings
  BY InventoryHandlerKeepsType, BookingEventIs DEF InventoryInv
<1>2. ASSUME NEW c \in Bookings
      PROVE  Agrees(c)'
  <2>1. InventoryTypeOK /\ Agrees(c) /\ Agrees(b)
    BY <1>1 DEF InventoryInv
  <2>2. CASE OnBookingRequested(e) /\ ~StayFree(b)
    <3>1. UNCHANGED <<hold, inventorySeen, inventoryUnsent, inventoryFaults, inventoryLost>>
      BY <2>2 DEF OnBookingRequested
    <3> QED
      BY <2>1, <3>1, NotReplying, UntouchedAgrees DEF RequestSeen
  <2>3. CASE OnBookingRequested(e) /\ StayFree(b)
    <3>1. /\ FirstTime(e)
          /\ hold' = [hold EXCEPT ![b] = "HELD"]
          /\ Reply({InventoryHeld(b)})
          /\ UNCHANGED <<inventoryFaults, inventoryLost>>
      BY <2>3 DEF OnBookingRequested
    <3>2. e = BookingRequested(b)
      BY <2>3, BookingEventIs DEF OnBookingRequested
    <3>3. \A reason : /\ Answered(InventoryHeld(c))' <=> Answered(InventoryHeld(c)) \/ c = b
                      /\ Answered(InventoryRejected(c))' <=> Answered(InventoryRejected(c))
                      /\ Answered(InventoryReleased(c, reason))' <=> Answered(InventoryReleased(c, reason))
      BY <3>1, Replying, AnswersDiffer
    <3>4. CASE c # b
      <4>1. RequestSeen(c)' <=> RequestSeen(c)
        BY <3>1, <3>2, <3>4, SeenRequests, RequestsDiffer
      <4> QED
        BY <2>1, <3>1, <3>3, <3>4, <4>1, UntouchedAgrees DEF InventoryTypeOK
    <3>5. CASE c = b
      <4>1. ~RequestSeen(b) /\ RequestSeen(b)'
        BY <3>1, <3>2 DEF FirstTime, RequestSeen
      <4> QED
        BY <1>1, <2>1, <3>1, <3>3, <3>5, <4>1 DEF Agrees, InventoryTypeOK
    <3> QED
      BY <3>4, <3>5
  <2>4. CASE InventoryOnBookingConfirmed(e)
    <3>1. UNCHANGED <<inventoryUnsent, inventoryFaults, inventoryLost>> /\ (RequestSeen(c)' <=> RequestSeen(c))
      BY <2>4, SeenRequests, AnnouncedFields DEF InventoryOnBookingConfirmed
    <3>2. \/ hold'[c] = hold[c]
          \/ hold[c] = "HELD" /\ hold'[c] = "CONFIRMED"
      BY <1>1, <2>1, <2>4 DEF InventoryOnBookingConfirmed, ConfirmedHold, InventoryTypeOK
    <3> QED
      BY <2>1, <3>1, <3>2, NotReplying, UntouchedAgrees DEF Agrees
  <2>5. CASE InventoryOnBookingCancelled(e) /\ ~Releasable(b)
    <3>1. UNCHANGED <<hold, inventoryUnsent, inventoryFaults, inventoryLost>> /\ (RequestSeen(c)' <=> RequestSeen(c))
      BY <2>5, SeenRequests, AnnouncedFields DEF InventoryOnBookingCancelled
    <3> QED
      BY <2>1, <3>1, NotReplying, UntouchedAgrees
  <2>6. CASE InventoryOnBookingCancelled(e) /\ Releasable(b)
    <3>1. /\ hold' = [hold EXCEPT ![b] = "RELEASED"]
          /\ Reply({InventoryReleased(b, "cancelled")})
          /\ UNCHANGED <<inventoryFaults, inventoryLost>>
          /\ RequestSeen(c)' <=> RequestSeen(c)
      BY <2>6, SeenRequests, AnnouncedFields DEF InventoryOnBookingCancelled
    <3>2. \A reason : /\ Answered(InventoryHeld(c))' <=> Answered(InventoryHeld(c))
                      /\ Answered(InventoryRejected(c))' <=> Answered(InventoryRejected(c))
                      /\ Answered(InventoryReleased(c, reason))'
                            <=> Answered(InventoryReleased(c, reason)) \/ (c = b /\ reason = "cancelled")
      BY <3>1, Replying, AnswersDiffer
    <3>3. CASE c # b
      BY <2>1, <3>1, <3>2, <3>3, UntouchedAgrees DEF InventoryTypeOK
    <3>4. CASE c = b
      BY <1>1, <2>1, <2>6, <3>1, <3>2, <3>4 DEF Agrees, Releasable, InventoryTypeOK
    <3> QED
      BY <3>3, <3>4
  <2> QED
    BY <2>2, <2>3, <2>4, <2>5, <2>6 DEF InventoryHandles
<1>3. LossesAreFaults'
  BY DEF InventoryHandles, OnBookingRequested, InventoryOnBookingConfirmed,
         InventoryOnBookingCancelled, InventoryInv, LossesAreFaults
<1> QED
  BY <1>1, <1>2, <1>3 DEF InventoryInv

\* So does every step of the service on its own.
LEMMA InventoryStepKeepsInv ==
    ASSUME InventoryInv, InventoryStep
    PROVE  InventoryInv'
<1>1. InventoryTypeOK' /\ InventoryTypeOK
  BY InventoryStepKeepsType DEF InventoryInv
<1>2. ASSUME NEW c \in Bookings
      PROVE  Agrees(c)'
  <2>1. Agrees(c)
    BY DEF InventoryInv
  <2>2. ASSUME NEW b \in Bookings, RejectRequest(b), UNCHANGED sent
        PROVE  Agrees(c)'
    <3>1. /\ Reply({InventoryRejected(b)})
          /\ UNCHANGED <<hold, inventoryLost>>
          /\ RequestSeen(c)' <=> RequestSeen(c) \/ c = b
      BY <2>2, RequestsDiffer DEF RejectRequest, RequestSeen
    <3>2. \A reason : /\ Answered(InventoryHeld(c))' <=> Answered(InventoryHeld(c))
                      /\ Answered(InventoryRejected(c))' <=> Answered(InventoryRejected(c)) \/ c = b
                      /\ Answered(InventoryReleased(c, reason))' <=> Answered(InventoryReleased(c, reason))
      BY <2>2, <3>1, Replying, AnswersDiffer
    <3> QED
      BY <2>1, <3>1, <3>2 DEF Agrees
  <2>3. ASSUME NEW rows \in SUBSET Bookings, Sweep(rows), UNCHANGED sent
        PROVE  Agrees(c)'
    <3>1. /\ Reply({InventoryReleased(b, "expired") : b \in rows})
          /\ UNCHANGED <<inventorySeen, inventoryLost>>
          /\ hold'[c] = IF c \in rows THEN "EXPIRED" ELSE hold[c]
          /\ c \in rows => hold[c] = "HELD"
      BY <2>3 DEF Sweep, Sweepable
    <3>2. \A reason : /\ Answered(InventoryHeld(c))' <=> Answered(InventoryHeld(c))
                      /\ Answered(InventoryRejected(c))' <=> Answered(InventoryRejected(c))
                      /\ Answered(InventoryReleased(c, reason))'
                            <=> Answered(InventoryReleased(c, reason)) \/ (c \in rows /\ reason = "expired")
      BY <2>3, <3>1, Replying, AnswersDiffer
    <3>3. RequestSeen(c)' <=> RequestSeen(c)
      BY <3>1 DEF RequestSeen
    <3> QED
      BY <2>1, <3>1, <3>2, <3>3 DEF Agrees
  <2>4. ASSUME NEW e \in inventoryUnsent, InventoryPublish(e)
        PROVE  Agrees(c)'
    <3>1. \A x : Answered(x)' <=> Answered(x)
      BY <2>4 DEF InventoryPublish, Publish, Answered
    <3> QED
      BY <2>1, <2>4, <3>1, UntouchedAgrees DEF InventoryPublish, RequestSeen
  <2>5. ASSUME NEW lost \in SUBSET inventoryUnsent, InventoryLose(lost)
        PROVE  Agrees(c)'
    <3>1. \A x : Answered(x)' <=> Answered(x)
      BY <2>5 DEF InventoryLose, Answered
    <3>2. UNCHANGED <<hold, inventorySeen>>
      BY <2>5 DEF InventoryLose
    <3> QED
      BY <2>1, <3>1, <3>2, UntouchedAgrees DEF RequestSeen
  <2> QED
    BY <2>2, <2>3, <2>4, <2>5 DEF InventoryStep
<1>3. LossesAreFaults'
  <2>1. ASSUME UNCHANGED <<inventoryFaults, inventoryLost>>
        PROVE  LossesAreFaults'
    BY <2>1 DEF InventoryInv, LossesAreFaults
  <2>2. ASSUME inventoryFaults' = inventoryFaults + 1
        PROVE  LossesAreFaults'
    BY <1>1, <2>2 DEF InventoryTypeOK, LossesAreFaults
  <2> QED
    BY <2>1, <2>2 DEF InventoryStep, RejectRequest, Sweep, InventoryPublish, InventoryLose
<1> QED
  BY <1>1, <1>2, <1>3 DEF InventoryInv

\* The answers the service has given agree with its holds, and none is missing but
\* those lost in a fault, whatever it is given in whatever order.
THEOREM AnswersAgree == InventorySpec => []AnswersMatchHolds
<1>1. InventoryStart => InventoryInv
  <2>1. ASSUME InventoryStart, NEW b \in Bookings
        PROVE  Agrees(b)
    BY <2>1 DEF InventoryStart, InventoryInit, Agrees, Answered, RequestSeen
  <2> QED
    BY <2>1, InventoryInitType DEF InventoryStart, InventoryInit, InventoryInv, LossesAreFaults
<1>2. InventoryInv /\ [InventoryNext]_<<inventoryVars, sent>> => InventoryInv'
  <2>1. InventoryInv /\ UNCHANGED <<inventoryVars, sent>> => InventoryInv'
    BY DEF inventoryVars, InventoryInv, InventoryTypeOK, LossesAreFaults, Agrees, Answered, RequestSeen
  <2> QED
    BY <2>1, InventoryHandlerKeepsInv, InventoryStepKeepsInv DEF InventoryNext
<1>3. InventoryInv => AnswersMatchHolds
  BY DEF InventoryInv, LossesAreFaults, Agrees, AnswersMatchHolds, RequestSeen
<1> QED
  BY <1>1, <1>2, <1>3, PTL DEF InventorySpec
=============================================================================
