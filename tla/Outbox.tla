------------------------------- MODULE Outbox -------------------------------
(***************************************************************************)
(* What a transactional outbox promises the transactions that stage events *)
(* in it: an event is published only if its transaction has committed, and *)
(* then it is published in the end.  This is the outbox module             *)
(* BookingService is built on: its PublishStaged is Publish here.          *)
(***************************************************************************)
CONSTANT Rows

VARIABLES
    staged,   \* the rows of committed transactions
    sent      \* the rows whose event has been published

vars == <<staged, sent>>

Init == staged = {} /\ sent = {}

Stage(i) ==
    /\ i \notin staged
    /\ staged' = staged \cup {i}
    /\ UNCHANGED sent

Publish(i) ==
    /\ i \in staged \ sent
    /\ sent' = sent \cup {i}
    /\ UNCHANGED staged

Next == \E i \in Rows : Stage(i) \/ Publish(i)

SafeSpec == Init /\ [][Next]_vars

Spec == SafeSpec /\ \A i \in Rows : WF_vars(Publish(i))
=============================================================================
