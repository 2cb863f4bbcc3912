--------------------------- MODULE EventDelivery ---------------------------
(***************************************************************************)
(* What a service may count on from its consumer group: every event that   *)
(* can be decoded takes effect once, or is lost, and the events of a       *)
(* partition end in their order.                                           *)
(***************************************************************************)
EXTENDS Sequences

CONSTANTS
    Events,        \* the events of the topics the group subscribes to
    Undecodable,   \* those no handler can read
    Before         \* pairs <<d, e>>: d stands before e in its partition

VARIABLES
    applied,   \* the events whose effect is in the service's database, in order
    lost       \* the events given up

vars == <<applied, lost>>

Applied == {applied[i] : i \in DOMAIN applied}

Init == applied = <<>> /\ lost = Undecodable

InTurn(e) == \A d \in Events : <<d, e>> \in Before => d \in Applied \cup lost

Apply(e) ==
    /\ e \notin Applied
    /\ InTurn(e)
    /\ applied' = Append(applied, e)
    /\ UNCHANGED lost

\* An event may be given up after it has taken effect, when what follows the
\* effect keeps failing.
Lose(e) ==
    /\ InTurn(e)
    /\ lost' = lost \cup {e}
    /\ UNCHANGED applied

End(e) == e \notin Applied \cup lost /\ (Apply(e) \/ Lose(e))

Next == \E e \in Events : Apply(e) \/ Lose(e)

SafeSpec == Init /\ [][Next]_vars

Spec == SafeSpec /\ \A e \in Events : WF_vars(End(e))
=============================================================================
