------------------------ MODULE NotificationService ------------------------
(***************************************************************************)
(* The notification service: it records a notice of each event that has a  *)
(* template, under the event's id, so that an event handled again adds     *)
(* nothing.  A notice is removed after 90 days, which the model leaves out.*)
(***************************************************************************)
EXTENDS EventBus

VARIABLE notices   \* the collection of notifications: the events noticed

TEMPLATES_WithoutRefund == {"booking.confirmed", "booking.cancelled", "payment.failed"}

TEMPLATES == {"booking.confirmed", "booking.cancelled", "payment.failed", "payment.refunded"}

NotificationInit == notices = {}

\* The insert; a DuplicateKeyError is taken for done.
Notify(e) ==
    /\ e.topic \in TEMPLATES
    /\ e \notin notices
    /\ notices' = notices \cup {e}
=============================================================================
