---------------------------- MODULE GuestNotices ----------------------------
(***************************************************************************)
(* The saga with the notification service beside it: what a guest is told, *)
(* compared with what has become of the booking and the money.             *)
(***************************************************************************)
EXTENDS StayBook, NotificationService

noticeVars == <<vars, notices>>

NoticeInit == Init /\ NotificationInit

NotificationConsumes ==
    /\ \E e \in sent : Notify(e)
    /\ UNCHANGED vars

NoticeNext ==
    \/ Next /\ UNCHANGED notices
    \/ NotificationConsumes

NoticeSpec == NoticeInit /\ [][NoticeNext]_noticeVars

\* The notification service's consumer is a loop as the others are.
NoticeFairSpec ==
    /\ NoticeSpec
    /\ WF_noticeVars(BookingConsumes /\ UNCHANGED notices)
    /\ WF_noticeVars(BookingRelays /\ UNCHANGED notices)
    /\ WF_noticeVars(InventoryConsumes /\ UNCHANGED notices)
    /\ WF_noticeVars(InventoryPublishes /\ UNCHANGED notices)
    /\ WF_noticeVars(InventoryRefuses /\ UNCHANGED notices)
    /\ WF_noticeVars(InventorySweeps /\ UNCHANGED notices)
    /\ WF_noticeVars(PaymentConsumes /\ UNCHANGED notices)
    /\ WF_noticeVars(PaymentPublishes /\ UNCHANGED notices)
    /\ WF_noticeVars(NotificationConsumes)

-----------------------------------------------------------------------------
(***************************************************************************)
(* Properties.                                                             *)
(***************************************************************************)

Noticed(topic, b) == \E e \in notices : e.topic = topic /\ e.booking = b

\* The cancellation that takes a confirmation back: the guest's own, or that of a
\* rejection that came late.  It asks for a refund.
TakenBack(b) ==
    \E e \in outbox :
        /\ e.topic = "booking.cancelled"
        /\ e.booking = b
        /\ e.reason \in {"guest_request", "rejected_after_payment"}
        /\ e.refund

\* What a notice says, against what is so, however late it comes.  The notice of a
\* cancellation, a refund or a declined attempt stays true: the booking is over,
\* the money is back, the attempt was declined.  "Booking ... is confirmed" need
\* not be true when the guest reads it, nor when it is recorded: the event may
\* have been overtaken by a cancellation.  But then that cancellation is staged
\* and asks for the refund, and brings a notice of its own; any other booking the
\* guest believes confirmed is confirmed, and paid.
NoticesMatchBookings ==
    \A b \in Bookings :
        /\ Noticed("booking.confirmed", b) =>
              /\ MoneyOf(b) # "none"
              /\ status[b] = "CONFIRMED" \/ (Over(b) /\ TakenBack(b))
        /\ Noticed("booking.cancelled", b) => Over(b)
        /\ Noticed("payment.refunded", b) => Over(b) /\ MoneyOf(b) = "returned"
        /\ Noticed("payment.failed", b) => \E p \in Payments : PaysFor[p] = b /\ payment[p] = "FAILED"

\* In the end a guest has heard how the booking ended, and of each refund.  Only
\* a rejection and an expiry have no notice of their own.
GuestIsTold ==
    \A b \in Bookings :
        /\ status[b] = "CONFIRMED" ~> Noticed("booking.confirmed", b)
        /\ status[b] = "CANCELLED" ~> Noticed("booking.cancelled", b)
        /\ MoneyOf(b) = "returned" ~> Noticed("payment.refunded", b)
=============================================================================
