-------------------------- MODULE MCEventConsumer --------------------------
(***************************************************************************)
(* Instances of EventConsumer for TLC: one or two replicas and two         *)
(* partitions.  One holds an event twice, with another in between, the     *)
(* other a message that cannot be decoded.                                 *)
(***************************************************************************)
EXTENDS EventConsumer, TLC

CONSTANTS q1, q2, e1, e2, bad

MCLog == (q1 :> <<e1, e2, e1>>) @@ (q2 :> <<bad>>)
=============================================================================
