--------------------------- MODULE EventConsumer ---------------------------
(***************************************************************************)
(* EventConsumer: the loop in which every replica of a service handles the *)
(* events of its consumer group, one message at a time, and the group that *)
(* hands partitions to the replicas.                                       *)
(*                                                                         *)
(* The offset of a message is committed after its handler has returned, so *)
(* a rebalance, a stop or a crash in between hands the message to another  *)
(* replica, while the first may still be running its handler.  A handler   *)
(* is the transaction of its effect, which marks the event (a row in       *)
(* processed_events, or the _id of a notification), and what follows it.   *)
(***************************************************************************)
EXTENDS Naturals, Sequences

CONSTANTS
    Replicas,          \* the replicas of one service
    Nobody,            \* the owner of a partition that is not assigned
    NoMessage,         \* what a loop without a message has in hand
    Partitions,        \* the partitions of the topics it subscribes to
    Log,               \* the events in each; a relay that failed sends some twice
    Undecodable,       \* the events Event.from_bytes refuses
    MaxDisturbances,   \* bound: stops, crashes and rebalances without a need
    MaxCommitFailures  \* bound: offset commits the broker refuses

ASSUME NobodyAssumption == Nobody \notin Replicas

ASSUME BoundsAssumption == MaxDisturbances \in Nat /\ MaxCommitFailures \in Nat

Events == UNION {{Log[p][i] : i \in DOMAIN Log[p]} : p \in Partitions}

\* The copies of an event have one key, and so one partition.
ASSUME LogAssumption ==
    /\ \A p \in Partitions : Log[p] \in Seq(Events)
    /\ \A p, q \in Partitions : \A i \in DOMAIN Log[p], j \in DOMAIN Log[q] :
          Log[p][i] = Log[q][j] => p = q

VARIABLES
    owner,           \* the replica each partition is assigned to
    committed,       \* how many messages of it the committed offset is past
    position,        \* how many of them its owner has taken
    phase,           \* what each replica's loop is doing
    inHand,          \* the message it is handling
    attempt,         \* which attempt at it this is
    applied,         \* the events that have taken effect, in order
    gaveUp,          \* the messages whose third attempt failed
    disturbances,    \* stops, crashes and rebalances without a need so far
    commitFailures   \* refused commits so far

vars == <<owner, committed, position, phase, inHand, attempt, applied, gaveUp,
          disturbances, commitFailures>>

groupVars == <<owner, committed, position, disturbances>>

\* The definitions named <definition>_<what is wrong> are faults: each is put
\* in place of its definition to see a property fail.

Phases == {"idle", "handling", "applied", "done", "dead", "expelled", "stopped"}

Messages == UNION {{p} \X DOMAIN Log[p] : p \in Partitions}

EventOf(m) == Log[m[1]][m[2]]

Applied == {applied[i] : i \in DOMAIN applied}

Init ==
    /\ owner = [p \in Partitions |-> Nobody]
    /\ committed = [p \in Partitions |-> 0]
    /\ position = [p \in Partitions |-> 0]
    /\ phase = [r \in Replicas |-> "idle"]
    /\ inHand = [r \in Replicas |-> NoMessage]
    /\ attempt = [r \in Replicas |-> 0]
    /\ applied = <<>>
    /\ gaveUp = {}
    /\ disturbances = 0
    /\ commitFailures = 0

GoTo(r, step) == phase' = [phase EXCEPT ![r] = step]

(***************************************************************************)
(* The loop: _run and _handle.                                             *)
(***************************************************************************)

\* A message that cannot be decoded is skipped: it is done at once.
Fetch(r, p) ==
    /\ phase[r] = "idle"
    /\ owner[p] = r
    /\ position[p] < Len(Log[p])
    /\ position' = [position EXCEPT ![p] = @ + 1]
    /\ LET m == <<p, position[p] + 1>> IN
          /\ inHand' = [inHand EXCEPT ![r] = m]
          /\ GoTo(r, IF EventOf(m) \in Undecodable THEN "done" ELSE "handling")
    /\ attempt' = [attempt EXCEPT ![r] = 1]
    /\ UNCHANGED <<owner, committed, applied, gaveUp, disturbances, commitFailures>>

FirstTime_Always(e) == TRUE

FirstTime(e) == e \notin Applied

\* The handler's transaction commits.  It has no effect for an event that is
\* marked already; two transactions that mark one event do not run at once.
TakeEffect(r) ==
    /\ phase[r] = "handling"
    /\ LET e == EventOf(inHand[r]) IN
          \/ FirstTime(e) /\ applied' = Append(applied, e)
          \/ ~FirstTime(e) /\ UNCHANGED applied
    /\ GoTo(r, "applied")
    /\ UNCHANGED <<groupVars, inHand, attempt, gaveUp, commitFailures>>

HandlerReturns(r) ==
    /\ phase[r] = "applied"
    /\ GoTo(r, "done")
    /\ UNCHANGED <<groupVars, inHand, attempt, applied, gaveUp, commitFailures>>

Attempts_OneMore == 4

Attempts == 3

\* The handler raises, before its transaction commits or after.
HandlerRaises(r) ==
    /\ phase[r] \in {"handling", "applied"}
    /\ \/ /\ attempt[r] < Attempts
          /\ attempt' = [attempt EXCEPT ![r] = @ + 1]
          /\ GoTo(r, "handling")
          /\ UNCHANGED gaveUp
       \/ /\ attempt[r] = Attempts
          /\ gaveUp' = gaveUp \cup {inHand[r]}
          /\ GoTo(r, "done")
          /\ UNCHANGED attempt
    /\ UNCHANGED <<groupVars, inHand, applied, commitFailures>>

LetGo(r) ==
    /\ inHand' = [inHand EXCEPT ![r] = NoMessage]
    /\ attempt' = [attempt EXCEPT ![r] = 0]

CommitOffset_OffByOne(p) == IF position[p] = 0 THEN 0 ELSE position[p] - 1

CommitOffset(p) == position[p]

\* commit(): the positions of the partitions that are assigned to the replica
\* now, which need not include the one its message came from.
Commit(r) ==
    /\ phase[r] = "done"
    /\ committed' = [p \in Partitions |-> IF owner[p] = r THEN CommitOffset(p) ELSE committed[p]]
    /\ GoTo(r, "idle")
    /\ LetGo(r)
    /\ UNCHANGED <<owner, position, applied, gaveUp, disturbances, commitFailures>>

\* The commit is refused (the group is rebalancing, or has expelled the
\* replica).  Nothing catches the exception: the loop's task ends and `running'
\* stays TRUE.
CommitFails(r) ==
    /\ phase[r] = "done"
    /\ commitFailures < MaxCommitFailures
    /\ commitFailures' = commitFailures + 1
    /\ GoTo(r, "dead")
    /\ LetGo(r)
    /\ UNCHANGED <<groupVars, applied, gaveUp>>

(***************************************************************************)
(* The life of a replica, and the group.                                   *)
(***************************************************************************)

Leave(r) == owner' = [p \in Partitions |-> IF owner[p] = r THEN Nobody ELSE owner[p]]

\* A consumer that nobody reads from leaves the group in the end
\* (max_poll_interval_ms).
Expel(r) ==
    /\ phase[r] = "dead"
    /\ Leave(r)
    /\ GoTo(r, "expelled")
    /\ UNCHANGED <<committed, position, disturbances, inHand, attempt, applied, gaveUp, commitFailures>>

\* stop() cancels the loop wherever it is and leaves the group; a crash does
\* the same once the broker notices it.
Stop(r) ==
    /\ phase[r] # "stopped"
    /\ disturbances < MaxDisturbances
    /\ disturbances' = disturbances + 1
    /\ Leave(r)
    /\ GoTo(r, "stopped")
    /\ LetGo(r)
    /\ UNCHANGED <<committed, position, applied, gaveUp, commitFailures>>

Start(r) ==
    /\ phase[r] = "stopped"
    /\ GoTo(r, "idle")
    /\ UNCHANGED <<groupVars, inHand, attempt, applied, gaveUp, commitFailures>>

Members == {r \in Replicas : phase[r] \notin {"expelled", "stopped"}}

StartPosition_Kept == position

\* Where a new assignment begins to read: after the committed offset, or at
\* the earliest message when nothing has been committed.
StartPosition == committed

\* The loops are not told: one that has a message in hand goes on with it.
Assign ==
    /\ owner' \in [Partitions -> Members]
    /\ position' = StartPosition
    /\ UNCHANGED <<committed, phase, inHand, attempt, applied, gaveUp, commitFailures>>

Rebalance ==
    /\ \E p \in Partitions : owner[p] = Nobody
    /\ Assign
    /\ UNCHANGED disturbances

\* A heartbeat that comes late, or a replica that joins.
Unsettle ==
    /\ disturbances < MaxDisturbances
    /\ disturbances' = disturbances + 1
    /\ Assign

LoopStep(r) ==
    \/ \E p \in Partitions : Fetch(r, p)
    \/ TakeEffect(r)
    \/ HandlerReturns(r)
    \/ HandlerRaises(r)
    \/ Commit(r)

Next ==
    \/ \E r \in Replicas : LoopStep(r) \/ CommitFails(r) \/ Expel(r) \/ Stop(r) \/ Start(r)
    \/ Rebalance
    \/ Unsettle

Spec == Init /\ [][Next]_vars

\* The loop runs as long as nothing ends it, a replica that has stopped is
\* started again, and the group assigns every partition to its members.
FairSpec ==
    /\ Spec
    /\ \A r \in Replicas : WF_vars(LoopStep(r)) /\ WF_vars(Start(r)) /\ WF_vars(Expel(r))
    /\ WF_vars(Rebalance)

-----------------------------------------------------------------------------
(***************************************************************************)
(* Properties.                                                             *)
(***************************************************************************)

Busy == {"handling", "applied", "done"}

\* Type invariant: a loop has a message in hand exactly while it is busy, and
\* no partition is committed past what has been taken from it.
ConsumerTypeOK ==
    /\ owner \in [Partitions -> Replicas \cup {Nobody}]
    /\ committed \in [Partitions -> Nat]
    /\ position \in [Partitions -> Nat]
    /\ \A p \in Partitions : committed[p] <= position[p] /\ position[p] <= Len(Log[p])
    /\ phase \in [Replicas -> Phases]
    /\ \A r \in Replicas :
          IF phase[r] \in Busy THEN inHand[r] \in Messages ELSE inHand[r] = NoMessage
    /\ DOMAIN inHand = Replicas
    /\ attempt \in [Replicas -> 0 .. 3]
    /\ applied \in Seq(Events)
    /\ gaveUp \subseteq Messages
    /\ disturbances \in 0 .. MaxDisturbances
    /\ commitFailures \in 0 .. MaxCommitFailures

Ended(m) == EventOf(m) \in Applied \cup Undecodable \/ m \in gaveUp

\* The committed offset passes a message only when its event has taken effect,
\* cannot be decoded, or has failed three times in a row: no rebalance, no stop
\* and no handler of an earlier owner that is still running makes the group
\* skip one.
OffsetsSkipNothing ==
    \A m \in Messages : m[2] <= committed[m[1]] => Ended(m)

\* However replicas are stopped and partitions reassigned, a partition is at most
\* one message ahead of its committed offset, and a replica's partitions are not
\* ahead but for the one its message is from: a crash has at most one message of
\* the replica handled again, and a loop that is idle has nothing left to commit.
OneMessageAtRisk ==
    /\ \A p \in Partitions : position[p] <= committed[p] + 1
    /\ \A p, q \in Partitions :
          /\ p # q
          /\ owner[p] = owner[q]
          /\ owner[p] # Nobody
          => position[p] = committed[p] \/ position[q] = committed[q]
    /\ \A p \in Partitions :
          owner[p] # Nobody => phase[owner[p]] # "idle" \/ position[p] = committed[p]

Lost == {EventOf(m) : m \in gaveUp} \cup (Undecodable \cap Events)

\* d stands before every copy of e in their partition.
StandsBefore(d, e) ==
    \E p \in Partitions : \E i, j \in DOMAIN Log[p] :
        /\ Log[p][i] = d
        /\ Log[p][j] = e
        /\ \A k \in DOMAIN Log[p] : Log[p][k] = e => i < k

Before == {pair \in Events \X Events : StandsBefore(pair[1], pair[2])}

\* The group keeps the promises of EventDelivery: each event takes effect at
\* most once, whatever is redelivered, in the order of its partition but for
\* events that were lost, and in the end every event has taken effect or is
\* lost.
Delivery == INSTANCE EventDelivery
    WITH Undecodable <- Undecodable \cap Events, lost <- Lost

ImplementsDelivery == Delivery!Spec

\* One loop is enough: in the end every partition is handled to its last
\* message, whatever is stopped, rebalanced or expelled, unless a refused commit
\* has ended the loop of every replica.
OneLoopIsEnough ==
    \A p \in Partitions :
        <>[](\/ committed[p] = Len(Log[p])
             \/ \A r \in Replicas : phase[r] \in {"dead", "expelled"})

\* What /readyz says of a replica's consumer (consumer.running).
Ready(r) == phase[r] # "stopped"

\* A service whose replicas answer "ready", and keep answering it, gets through
\* its messages: /readyz is to answer "kafka unavailable" when it does not.
ReadyConsumes ==
    <>[](\A r \in Replicas : Ready(r)) => \A p \in Partitions : <>(committed[p] = Len(Log[p]))
=============================================================================
