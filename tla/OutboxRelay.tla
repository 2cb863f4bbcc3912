---------------------------- MODULE OutboxRelay ----------------------------
(***************************************************************************)
(* The relay of the booking service's outbox: transactions stage rows, and *)
(* the relay of each replica of the service publishes them in batches.     *)
(*                                                                         *)
(* A batch is one transaction: its rows are locked when they are selected  *)
(* (rows that another relay has locked are skipped), sent one after the    *)
(* other, and marked published when it commits.  A failure in between      *)
(* leaves the rows unmarked, and those already sent will be sent again.    *)
(***************************************************************************)
EXTENDS Naturals, FiniteSets

CONSTANTS
    Relays,        \* the replicas of the booking service, each with one relay
    MaxRows,       \* bound: the rows ever staged
    BatchSize,     \* settings.outbox_batch_size
    BookingOf,     \* the booking (the Kafka key) of each row
    MaxFailures    \* bound: batches cut short by an error or a crash

ASSUME BatchAssumption == BatchSize \in Nat \ {0}

ASSUME BoundsAssumption == MaxRows \in Nat /\ MaxFailures \in Nat

VARIABLES
    tx,          \* the transaction that stages each row
    notified,    \* rows after whose commit relay.notify() has been called
    published,   \* rows with published_at set
    phase,       \* what each relay is doing
    batch,       \* the rows it has locked
    rest,        \* those it has not sent yet
    wakeup,      \* its wakeup event
    sends,       \* how often the event of each row has been sent
    failures     \* batches cut short so far

vars == <<tx, notified, published, phase, batch, rest, wakeup, sends, failures>>

\* The definitions named <definition>_<what is wrong> are faults: each is put
\* in place of its definition to see a property fail.

Rows == 1 .. MaxRows

Init ==
    /\ tx = [i \in Rows |-> "none"]
    /\ notified = {}
    /\ published = {}
    /\ phase = [r \in Relays |-> "select"]
    /\ batch = [r \in Relays |-> {}]
    /\ rest = [r \in Relays |-> {}]
    /\ wakeup = [r \in Relays |-> FALSE]
    /\ sends = [i \in Rows |-> 0]
    /\ failures = 0

Committed == {i \in Rows : tx[i] = "committed"}

(***************************************************************************)
(* stage_event, in the transaction of a handler.  The row's id is taken    *)
(* from a sequence when it is inserted; transactions of different bookings *)
(* may commit in another order.  Those of one booking are serialised by    *)
(* the lock on its row, which the handler takes before it stages.          *)
(***************************************************************************)
Begin(i) ==
    /\ tx[i] = "none"
    /\ \A j \in Rows : j < i => tx[j] # "none"
    /\ \A j \in Rows : BookingOf[j] = BookingOf[i] => tx[j] # "open"
    /\ tx' = [tx EXCEPT ![i] = "open"]
    /\ UNCHANGED <<notified, published, phase, batch, rest, wakeup, sends, failures>>

Finish(i) ==
    /\ tx[i] = "open"
    /\ \E outcome \in {"committed", "rolled back"} : tx' = [tx EXCEPT ![i] = outcome]
    /\ UNCHANGED <<notified, published, phase, batch, rest, wakeup, sends, failures>>

\* After its commit the handler wakes the relay of its own replica.  (Handlers
\* that staged nothing wake it too; it may wake at any time in any case.)
Notify(i, r) ==
    /\ i \in Committed \ notified
    /\ notified' = notified \cup {i}
    /\ wakeup' = [wakeup EXCEPT ![r] = TRUE]
    /\ UNCHANGED <<tx, published, phase, batch, rest, sends, failures>>

(***************************************************************************)
(* _publish_batch.                                                         *)
(***************************************************************************)
Locked_NotSkipped == {}

Locked == UNION {batch[r] : r \in Relays}

Unpublished_Uncommitted == {i \in Rows : tx[i] # "none"} \ (published \cup Locked)

Unpublished == (Committed \ published) \ Locked

Selected_OneMore ==
    {i \in Unpublished : Cardinality({j \in Unpublished : j < i}) <= BatchSize}

\* ORDER BY id LIMIT batch_size
Selected ==
    {i \in Unpublished : Cardinality({j \in Unpublished : j < i}) < BatchSize}

Select(r) ==
    /\ phase[r] = "select"
    /\ \/ /\ Selected # {}
          /\ phase' = [phase EXCEPT ![r] = "sending"]
       \/ /\ Selected = {}
          /\ phase' = [phase EXCEPT ![r] = "waiting"]
    /\ batch' = [batch EXCEPT ![r] = Selected]
    /\ rest' = [rest EXCEPT ![r] = Selected]
    /\ UNCHANGED <<tx, notified, published, wakeup, sends, failures>>

NextToSend_AnyRow(r, i) == i \in rest[r]

NextToSend(r, i) == i \in rest[r] /\ \A j \in rest[r] : i <= j

Send(r, i) ==
    /\ phase[r] = "sending"
    /\ NextToSend(r, i)
    /\ sends' = [sends EXCEPT ![i] = @ + 1]
    /\ rest' = [rest EXCEPT ![r] = @ \ {i}]
    /\ UNCHANGED <<tx, notified, published, phase, batch, wakeup, failures>>

AllSent_OrNot(r) == TRUE

AllSent(r) == rest[r] = {}

\* A full batch is followed by the next at once.
AfterBatch(r) == IF Cardinality(batch[r]) < BatchSize THEN "waiting" ELSE "select"

\* The wakeup event as the relay starts to wait.
WakeupKept_Cleared(r) == FALSE

WakeupKept(r) == wakeup[r]

CommitBatch(r) ==
    /\ phase[r] = "sending"
    /\ AllSent(r)
    /\ published' = published \cup batch[r]
    /\ phase' = [phase EXCEPT ![r] = AfterBatch(r)]
    /\ batch' = [batch EXCEPT ![r] = {}]
    /\ rest' = [rest EXCEPT ![r] = {}]
    /\ wakeup' = [wakeup EXCEPT ![r] = WakeupKept(r)]
    /\ UNCHANGED <<tx, notified, sends, failures>>

\* The select, a send or the commit fails: the transaction is rolled back, the
\* iteration counts as having published nothing and the relay waits.
Fail(r) ==
    /\ phase[r] \in {"select", "sending"}
    /\ failures < MaxFailures
    /\ failures' = failures + 1
    /\ phase' = [phase EXCEPT ![r] = "waiting"]
    /\ batch' = [batch EXCEPT ![r] = {}]
    /\ rest' = [rest EXCEPT ![r] = {}]
    /\ UNCHANGED <<tx, notified, published, wakeup, sends>>

\* The replica stops and starts again, with a new relay.
Crash(r) ==
    /\ failures < MaxFailures
    /\ failures' = failures + 1
    /\ phase' = [phase EXCEPT ![r] = "select"]
    /\ batch' = [batch EXCEPT ![r] = {}]
    /\ rest' = [rest EXCEPT ![r] = {}]
    /\ wakeup' = [wakeup EXCEPT ![r] = FALSE]
    /\ UNCHANGED <<tx, notified, published, sends>>

\* The wait ends by the wakeup event or by the poll interval; the event is
\* cleared before the next batch is selected.
Wake(r) ==
    /\ phase[r] = "waiting"
    /\ phase' = [phase EXCEPT ![r] = "select"]
    /\ wakeup' = [wakeup EXCEPT ![r] = FALSE]
    /\ UNCHANGED <<tx, notified, published, batch, rest, sends, failures>>

RelayStep(r) ==
    \/ Select(r)
    \/ \E i \in Rows : Send(r, i)
    \/ CommitBatch(r)
    \/ Wake(r)

Next ==
    \/ \E i \in Rows : Begin(i) \/ Finish(i)
    \/ \E i \in Rows, r \in Relays : Notify(i, r)
    \/ \E r \in Relays : RelayStep(r) \/ Fail(r) \/ Crash(r)

Spec == Init /\ [][Next]_vars

\* The relay is a loop that runs as long as its replica does.  Failures
\* are bounded: an outage that never ends is not a run of FairSpec.
FairSpec == Spec /\ \A r \in Relays : WF_vars(RelayStep(r))

-----------------------------------------------------------------------------
(***************************************************************************)
(* Properties.                                                             *)
(***************************************************************************)

\* Type invariant: a relay holds the locks of at most one batch, and only
\* while it sends it.
RelayTypeOK ==
    /\ tx \in [Rows -> {"none", "open", "committed", "rolled back"}]
    /\ notified \subseteq Rows
    /\ published \subseteq Rows
    /\ phase \in [Relays -> {"select", "sending", "waiting"}]
    /\ batch \in [Relays -> SUBSET Rows]
    /\ rest \in [Relays -> SUBSET Rows]
    /\ wakeup \in [Relays -> BOOLEAN]
    /\ sends \in [Rows -> Nat]
    /\ failures \in 0 .. MaxFailures
    /\ \A r \in Relays :
          /\ rest[r] \subseteq batch[r]
          /\ batch[r] # {} <=> phase[r] = "sending"
          /\ Cardinality(batch[r]) <= BatchSize

Sent == {i \in Rows : sends[i] > 0}

\* A row is marked published only after its event has been sent, and an event
\* is sent only of a row whose transaction has committed: no crash, and no
\* second relay, makes an event disappear or announces what was rolled back.
PublishedWasSent == published \subseteq Sent /\ Sent \subseteq Committed

\* Duplicates come from failures only: any number of relays send an event once,
\* plus at most once for each batch that was cut short.
DuplicatesNeedFailure == \A i \in Rows : sends[i] <= 1 + failures

SeveralRelays == \E q, r \in Relays : q # r

\* The events of a booking are first sent in the order of their transactions.
\* One may overtake an earlier one only while another relay has the earlier one
\* locked, or after a batch of several relays was cut short; a single relay
\* keeps the order across failures too.
FirstSentInOrder ==
    \A i, j \in Rows :
        /\ i < j
        /\ BookingOf[i] = BookingOf[j]
        /\ tx[i] = "committed"
        /\ sends[j] = 0
        /\ sends'[j] > 0
        => \/ sends[i] > 0
           \/ \E q \in Relays : i \in batch[q] /\ j \notin batch[q]
           \/ failures > 0 /\ SeveralRelays

OrderPerBooking == [][FirstSentInOrder]_vars

\* Without failures, the relays do not all wait while a row that one of them
\* has been told of is unpublished, unless one has its wakeup event set: no
\* wakeup is lost, and the poll interval is not needed.
NoLostWakeup ==
    \A i \in notified \ published :
        failures = 0 /\ (\A r \in Relays : phase[r] = "waiting") => \E r \in Relays : wakeup[r]

\* The relays keep the promises of Outbox, its fairness included.
AbstractOutbox == INSTANCE Outbox WITH staged <- Committed, sent <- Sent

ImplementsOutbox == AbstractOutbox!Spec
=============================================================================
