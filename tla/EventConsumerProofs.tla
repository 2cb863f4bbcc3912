------------------------ MODULE EventConsumerProofs ------------------------
(***************************************************************************)
(* Proofs about EventConsumer, for any replicas, partitions and logs: the  *)
(* group skips no message, and implements EventDelivery (but for its       *)
(* fairness, which the run consumer_group checks).                         *)
(***************************************************************************)
EXTENDS EventConsumer, TLAPS

-----------------------------------------------------------------------------
(***************************************************************************)
(* The inductive invariant.  OffsetsSkipNothing is not inductive, as commit*)
(* takes the offset from the position: what has been taken from a partition*)
(* by its owner is ended, but for the message it has in hand, and that one *)
(* is ended once its handler is done.                                      *)
(***************************************************************************)

TakenIsEnded(m) ==
    LET r == owner[m[1]] IN
    r \in Replicas /\ m[2] <= position[m[1]] =>
        Ended(m) \/ (phase[r] \in Busy /\ inHand[r] = m)

DoneIsEnded(r) ==
    /\ phase[r] = "done" => Ended(inHand[r])
    /\ phase[r] = "applied" => EventOf(inHand[r]) \in Applied

\* What stands before the message a loop has in hand, also a loop that owns the
\* partition no longer.
EarlierIsEnded(r) ==
    phase[r] \in Busy =>
        \A m \in Messages : m[1] = inHand[r][1] /\ m[2] < inHand[r][2] => Ended(m)

ConsumerInv ==
    /\ ConsumerTypeOK
    /\ OffsetsSkipNothing
    /\ \A m \in Messages : TakenIsEnded(m)
    /\ \A r \in Replicas : DoneIsEnded(r) /\ EarlierIsEnded(r)

-----------------------------------------------------------------------------
(***************************************************************************)
(* Facts about messages.                                                   *)
(***************************************************************************)

LEMMA MessageFields ==
    ASSUME NEW m \in Messages
    PROVE  /\ m[1] \in Partitions
           /\ m[2] \in 1 .. Len(Log[m[1]])
           /\ m = <<m[1], m[2]>>
           /\ EventOf(m) \in Events
<1>1. PICK p \in Partitions : m \in {p} \X DOMAIN Log[p]
  BY DEF Messages
<1>2. Log[p] \in Seq(Events)
  BY LogAssumption
<1>3. DOMAIN Log[p] = 1 .. Len(Log[p])
  BY <1>2
<1>4. m[1] = p /\ m[2] \in 1 .. Len(Log[p]) /\ m = <<m[1], m[2]>>
  BY <1>1, <1>3
<1>5. Log[p][m[2]] \in Events
  BY <1>3, <1>4 DEF Events
<1> QED
  BY <1>4, <1>5 DEF EventOf

LEMMA NextIsMessage ==
    ASSUME NEW p \in Partitions, NEW k \in Nat, k < Len(Log[p])
    PROVE  <<p, k + 1>> \in Messages
<1>1. Log[p] \in Seq(Events)
  BY LogAssumption
<1>2. k + 1 \in DOMAIN Log[p]
  BY <1>1
<1>3. <<p, k + 1>> \in {p} \X DOMAIN Log[p]
  BY <1>2
<1> QED
  BY <1>3 DEF Messages

\* What has ended stays ended.
LEMMA EndedStays ==
    ASSUME Applied \subseteq Applied', gaveUp \subseteq gaveUp'
    PROVE  \A m : Ended(m) => Ended(m)'
BY DEF Ended, EventOf

LEMMA AppendGrows ==
    ASSUME ConsumerTypeOK, NEW e \in Events, applied' = Append(applied, e)
    PROVE  applied' \in Seq(Events) /\ Applied' = Applied \cup {e}
<1>1. applied \in Seq(Events)
  BY DEF ConsumerTypeOK
<1>2. /\ applied' \in Seq(Events)
      /\ Len(applied') = Len(applied) + 1
      /\ \A i \in 1 .. Len(applied) : applied'[i] = applied[i]
      /\ applied'[Len(applied) + 1] = e
  BY <1>1
<1>3. DOMAIN applied = 1 .. Len(applied) /\ DOMAIN applied' = 1 .. (Len(applied) + 1) /\ Len(applied) \in Nat
  BY <1>1, <1>2
<1> QED
  BY <1>2, <1>3 DEF Applied

-----------------------------------------------------------------------------
(***************************************************************************)
(* Types.                                                                  *)
(***************************************************************************)

LEMMA InitType == Init => ConsumerTypeOK
<1> SUFFICES ASSUME Init PROVE ConsumerTypeOK
  OBVIOUS
<1>1. \A p \in Partitions : Len(Log[p]) \in Nat
  BY LogAssumption
<1> QED
  BY <1>1, BoundsAssumption DEF Init, ConsumerTypeOK, Phases, Busy

LEMMA FetchKeepsType ==
    ASSUME ConsumerTypeOK, NEW r \in Replicas, NEW p \in Partitions, Fetch(r, p)
    PROVE  ConsumerTypeOK'
<1>1. Len(Log[p]) \in Nat /\ position[p] \in Nat
  BY LogAssumption DEF ConsumerTypeOK
<1>2. <<p, position[p] + 1>> \in Messages
  BY <1>1, NextIsMessage DEF Fetch
<1>3. \E step \in {"done", "handling"} : phase' = [phase EXCEPT ![r] = step]
  BY DEF Fetch, GoTo
<1>4. \A q \in Replicas :
         IF phase'[q] \in Busy THEN inHand'[q] \in Messages ELSE inHand'[q] = NoMessage
  BY <1>2, <1>3 DEF Fetch, ConsumerTypeOK, Busy
<1>5. \A q \in Partitions : Len(Log[q]) \in Nat
  BY LogAssumption
<1>6. /\ position' \in [Partitions -> Nat]
      /\ \A q \in Partitions : committed'[q] <= position'[q] /\ position'[q] <= Len(Log[q])
  BY <1>1, <1>5 DEF Fetch, ConsumerTypeOK
<1>7. phase' \in [Replicas -> Phases] /\ attempt' \in [Replicas -> 0 .. 3]
  BY <1>3 DEF Fetch, ConsumerTypeOK, Phases
<1>8. /\ DOMAIN inHand' = Replicas
      /\ UNCHANGED <<owner, committed, applied, gaveUp, disturbances, commitFailures>>
  BY DEF Fetch, ConsumerTypeOK
<1> QED
  BY <1>4, <1>6, <1>7, <1>8 DEF ConsumerTypeOK

LEMMA HandlerKeepsType ==
    ASSUME ConsumerTypeOK, NEW r \in Replicas,
           TakeEffect(r) \/ HandlerReturns(r) \/ HandlerRaises(r)
    PROVE  ConsumerTypeOK'
<1>1. phase[r] \in Busy /\ inHand[r] \in Messages
  BY DEF ConsumerTypeOK, TakeEffect, HandlerReturns, HandlerRaises, Busy
<1>2. \E step \in Busy : phase' = [phase EXCEPT ![r] = step]
  BY DEF TakeEffect, HandlerReturns, HandlerRaises, GoTo, Busy
<1>3. /\ phase' \in [Replicas -> Phases]
      /\ \A q \in Replicas : phase'[q] \in Busy <=> phase[q] \in Busy
  BY <1>1, <1>2 DEF ConsumerTypeOK, Busy, Phases
<1>4. attempt' \in [Replicas -> 0 .. 3]
  <2>1. attempt \in [Replicas -> 0 .. 3]
    BY DEF ConsumerTypeOK
  <2>2. attempt' = attempt \/ (attempt[r] < 3 /\ attempt' = [attempt EXCEPT ![r] = attempt[r] + 1])
    BY DEF TakeEffect, HandlerReturns, HandlerRaises, Attempts
  <2> QED
    BY <2>1, <2>2
<1>5. gaveUp' \subseteq Messages
  BY <1>1 DEF ConsumerTypeOK, TakeEffect, HandlerReturns, HandlerRaises
<1>6. applied' \in Seq(Events)
  <2>1. EventOf(inHand[r]) \in Events
    BY <1>1, MessageFields
  <2>2. applied' = applied \/ applied' = Append(applied, EventOf(inHand[r]))
    BY DEF TakeEffect, HandlerReturns, HandlerRaises
  <2>3. applied \in Seq(Events)
    BY DEF ConsumerTypeOK
  <2> QED
    BY <2>1, <2>2, <2>3
<1>7. UNCHANGED <<owner, committed, position, disturbances, commitFailures, inHand>>
  BY DEF TakeEffect, HandlerReturns, HandlerRaises, groupVars
<1> QED
  BY <1>3, <1>4, <1>5, <1>6, <1>7 DEF ConsumerTypeOK

LEMMA CommitKeepsType ==
    ASSUME ConsumerTypeOK, NEW r \in Replicas, Commit(r) \/ CommitFails(r)
    PROVE  ConsumerTypeOK'
<1>1. \E step \in {"idle", "dead"} : phase' = [phase EXCEPT ![r] = step]
  BY DEF Commit, CommitFails, GoTo
<1>2. inHand' = [inHand EXCEPT ![r] = NoMessage] /\ attempt' = [attempt EXCEPT ![r] = 0]
  BY DEF Commit, CommitFails, LetGo
<1>3. /\ phase' \in [Replicas -> Phases]
      /\ phase'[r] \notin Busy
      /\ \A q \in Replicas : q # r => phase'[q] = phase[q]
      /\ attempt' \in [Replicas -> 0 .. 3]
      /\ DOMAIN inHand' = Replicas
  BY <1>1, <1>2 DEF ConsumerTypeOK, Busy, Phases
<1>4. \A q \in Replicas :
         IF phase'[q] \in Busy THEN inHand'[q] \in Messages ELSE inHand'[q] = NoMessage
  BY <1>2, <1>3 DEF ConsumerTypeOK
<1>5. \/ committed' = committed
      \/ committed' = [p \in Partitions |-> IF owner[p] = r THEN position[p] ELSE committed[p]]
  BY DEF Commit, CommitFails, CommitOffset, groupVars
<1>6. \A p \in Partitions :
         /\ committed[p] \in Nat
         /\ position[p] \in Nat
         /\ committed[p] <= position[p]
         /\ position[p] <= Len(Log[p])
  BY DEF ConsumerTypeOK
<1>7. /\ committed' \in [Partitions -> Nat]
      /\ \A p \in Partitions : committed'[p] \in {committed[p], position[p]}
  <2>1. committed \in [Partitions -> Nat]
    BY DEF ConsumerTypeOK
  <2> QED
    BY <1>5, <1>6, <2>1
<1>8. \A p \in Partitions : committed'[p] <= position[p]
  BY <1>6, <1>7
<1>9. commitFailures' \in 0 .. MaxCommitFailures
  BY BoundsAssumption DEF ConsumerTypeOK, Commit, CommitFails
<1>10. UNCHANGED <<owner, position, applied, gaveUp, disturbances>>
  BY DEF Commit, CommitFails, groupVars
<1> QED
  BY <1>3, <1>4, <1>6, <1>7, <1>8, <1>9, <1>10 DEF ConsumerTypeOK

LEMMA LifeKeepsType ==
    ASSUME ConsumerTypeOK, NEW r \in Replicas, Expel(r) \/ Stop(r) \/ Start(r)
    PROVE  ConsumerTypeOK'
<1>1. \E step \in {"expelled", "stopped", "idle"} : phase' = [phase EXCEPT ![r] = step]
  BY DEF Expel, Stop, Start, GoTo
<1>2. /\ phase' \in [Replicas -> Phases]
      /\ phase'[r] \notin Busy
      /\ \A q \in Replicas : q # r => phase'[q] = phase[q]
  BY <1>1 DEF ConsumerTypeOK, Busy, Phases
<1>3. \/ inHand' = [inHand EXCEPT ![r] = NoMessage]
      \/ phase[r] \notin Busy /\ inHand' = inHand
  BY DEF Expel, Stop, Start, LetGo, Busy
<1>4. \A q \in Replicas :
         IF phase'[q] \in Busy THEN inHand'[q] \in Messages ELSE inHand'[q] = NoMessage
  BY <1>2, <1>3 DEF ConsumerTypeOK
<1>5. DOMAIN inHand' = Replicas
  BY <1>3 DEF ConsumerTypeOK
<1>6. attempt' \in [Replicas -> 0 .. 3]
  BY DEF ConsumerTypeOK, Expel, Stop, Start, LetGo
<1>7. owner' \in [Partitions -> Replicas \cup {Nobody}]
  BY DEF ConsumerTypeOK, Expel, Stop, Start, Leave, groupVars
<1>8. disturbances' \in 0 .. MaxDisturbances
  BY BoundsAssumption DEF ConsumerTypeOK, Expel, Stop, Start, groupVars
<1>9. UNCHANGED <<committed, position, applied, gaveUp, commitFailures>>
  BY DEF Expel, Stop, Start, groupVars
<1> QED
  BY <1>2, <1>4, <1>5, <1>6, <1>7, <1>8, <1>9 DEF ConsumerTypeOK

LEMMA AssignKeepsType ==
    ASSUME ConsumerTypeOK, Rebalance \/ Unsettle
    PROVE  ConsumerTypeOK'
<1>1. owner' \in [Partitions -> Replicas \cup {Nobody}]
  BY DEF Rebalance, Unsettle, Assign, Members
<1>2. /\ position' = committed
      /\ UNCHANGED <<committed, phase, inHand, attempt, applied, gaveUp, commitFailures>>
  BY DEF Rebalance, Unsettle, Assign, StartPosition
<1>3. disturbances' \in 0 .. MaxDisturbances
  BY BoundsAssumption DEF ConsumerTypeOK, Rebalance, Unsettle
<1>4. \A p \in Partitions : committed[p] \in Nat /\ position[p] \in Nat /\ Len(Log[p]) \in Nat
  BY LogAssumption DEF ConsumerTypeOK
<1>5. \A p \in Partitions : committed'[p] <= position'[p] /\ position'[p] <= Len(Log[p])
  BY <1>2, <1>4 DEF ConsumerTypeOK
<1> QED
  BY <1>1, <1>2, <1>3, <1>5 DEF ConsumerTypeOK

LEMMA NextKeepsType == ConsumerTypeOK /\ [Next]_vars => ConsumerTypeOK'
<1> SUFFICES ASSUME ConsumerTypeOK, [Next]_vars PROVE ConsumerTypeOK'
  OBVIOUS
<1>1. CASE UNCHANGED vars
  BY <1>1 DEF vars, ConsumerTypeOK
<1>2. ASSUME NEW r \in Replicas, LoopStep(r) PROVE ConsumerTypeOK'
  BY <1>2, FetchKeepsType, HandlerKeepsType, CommitKeepsType DEF LoopStep
<1>3. ASSUME NEW r \in Replicas, CommitFails(r) \/ Expel(r) \/ Stop(r) \/ Start(r)
      PROVE  ConsumerTypeOK'
  BY <1>3, CommitKeepsType, LifeKeepsType
<1>4. CASE Rebalance \/ Unsettle
  BY <1>4, AssignKeepsType
<1> QED
  BY <1>1, <1>2, <1>3, <1>4 DEF Next

\* Type correctness: a loop has a message in hand exactly while it is busy.
THEOREM ConsumerTypeCorrect == Spec => []ConsumerTypeOK
<1> QED
  BY InitType, NextKeepsType, PTL DEF Spec

-----------------------------------------------------------------------------
(***************************************************************************)
(* The invariant.                                                          *)
(***************************************************************************)

\* What all of the proofs use of the types.
LEMMA Numbers ==
    ASSUME ConsumerTypeOK
    PROVE  /\ \A p \in Partitions : position[p] \in Nat /\ committed[p] \in Nat
           /\ \A m \in Messages : m[1] \in Partitions /\ m[2] \in Nat
           /\ \A r \in Replicas : phase[r] \in Busy => inHand[r] \in Messages
<1>1. \A m \in Messages : m[1] \in Partitions /\ m[2] \in Nat
  BY MessageFields
<1> QED
  BY <1>1 DEF ConsumerTypeOK

LEMMA FetchKeepsInv ==
    ASSUME ConsumerInv, ConsumerTypeOK', NEW r \in Replicas, NEW p \in Partitions, Fetch(r, p)
    PROVE  ConsumerInv'
<1> DEFINE new == <<p, position[p] + 1>>
<1>1. /\ phase[r] = "idle" /\ owner[p] = r
      /\ position' = [position EXCEPT ![p] = position[p] + 1]
      /\ inHand' = [inHand EXCEPT ![r] = new]
      /\ phase' = [phase EXCEPT ![r] = IF EventOf(new) \in Undecodable THEN "done" ELSE "handling"]
      /\ UNCHANGED <<owner, committed, applied, gaveUp>>
  BY DEF Fetch, GoTo
<1>2. \A m : Ended(m)' <=> Ended(m)
  BY <1>1 DEF Ended, EventOf, Applied
<1>3. ConsumerTypeOK
  BY DEF ConsumerInv
<1>4. /\ phase'[r] \in {"done", "handling"} /\ inHand'[r] = new
      /\ phase'[r] = "done" => EventOf(new) \in Undecodable
      /\ \A q \in Replicas : q # r => phase'[q] = phase[q] /\ inHand'[q] = inHand[q]
      /\ position'[p] = position[p] + 1
      /\ \A q \in Partitions : q # p => position'[q] = position[q]
  BY <1>1, <1>3 DEF ConsumerTypeOK
<1>5. \A m \in Messages : owner[m[1]] = r /\ m[2] <= position[m[1]] => Ended(m)
  BY <1>1 DEF ConsumerInv, TakenIsEnded, Busy
<1>6. \A m \in Messages : TakenIsEnded(m)'
  <2> SUFFICES ASSUME NEW m \in Messages, owner[m[1]] \in Replicas, m[2] <= position'[m[1]]
               PROVE  Ended(m) \/ (phase'[owner[m[1]]] \in Busy /\ inHand'[owner[m[1]]] = m)
    BY <1>1, <1>2 DEF TakenIsEnded
  <2>1. CASE m[1] = p /\ m[2] = position[p] + 1
    <3>1. m = new
      BY <2>1, MessageFields
    <3> QED
      BY <1>1, <1>4, <2>1, <3>1 DEF Busy
  <2>2. CASE ~(m[1] = p /\ m[2] = position[p] + 1)
    <3>1. m[2] <= position[m[1]]
      BY <1>3, <1>4, <2>2, Numbers
    <3>2. CASE owner[m[1]] = r
      BY <1>5, <3>1, <3>2
    <3>3. CASE owner[m[1]] # r
      BY <1>4, <3>1, <3>3 DEF ConsumerInv, TakenIsEnded
    <3> QED
      BY <3>2, <3>3
  <2> QED
    BY <2>1, <2>2
<1>7. \A q \in Replicas : DoneIsEnded(q)'
  <2>1. DoneIsEnded(r)'
    BY <1>2, <1>4 DEF DoneIsEnded, Ended
  <2>2. ASSUME NEW q \in Replicas, q # r PROVE DoneIsEnded(q)'
    BY <1>1, <1>2, <1>4, <2>2 DEF ConsumerInv, DoneIsEnded, EventOf, Applied
  <2> QED
    BY <2>1, <2>2
<1>8. \A q \in Replicas : EarlierIsEnded(q)'
  <2>1. EarlierIsEnded(r)'
    <3> SUFFICES ASSUME NEW m \in Messages, m[1] = p, m[2] < position[p] + 1
                 PROVE  Ended(m)
      BY <1>2, <1>4 DEF EarlierIsEnded
    <3>1. m[2] <= position[p]
      BY <1>3, Numbers
    <3> QED
      BY <1>1, <1>5, <3>1
  <2>2. ASSUME NEW q \in Replicas, q # r PROVE EarlierIsEnded(q)'
    BY <1>2, <1>4, <2>2 DEF ConsumerInv, EarlierIsEnded
  <2> QED
    BY <2>1, <2>2
<1>9. OffsetsSkipNothing'
  BY <1>1, <1>2 DEF ConsumerInv, OffsetsSkipNothing
<1> QED
  BY <1>6, <1>7, <1>8, <1>9 DEF ConsumerInv

\* The handler: more is ended than before, and the loop keeps its message.
LEMMA HandlerKeepsInv ==
    ASSUME ConsumerInv, ConsumerTypeOK', NEW r \in Replicas,
           TakeEffect(r) \/ HandlerReturns(r) \/ HandlerRaises(r)
    PROVE  ConsumerInv'
<1>1. ConsumerTypeOK
  BY DEF ConsumerInv
<1>2. phase[r] \in Busy /\ inHand[r] \in Messages /\ EventOf(inHand[r]) \in Events
  <2>1. phase[r] \in Busy
    BY DEF TakeEffect, HandlerReturns, HandlerRaises, Busy
  <2> QED
    BY <1>1, <2>1, Numbers, MessageFields
<1>3. /\ UNCHANGED <<owner, committed, position, inHand>>
      /\ \E step \in Busy : phase' = [phase EXCEPT ![r] = step]
  BY DEF TakeEffect, HandlerReturns, HandlerRaises, GoTo, Busy, groupVars
<1>4. \A q \in Replicas : (phase'[q] \in Busy <=> phase[q] \in Busy) /\ (q # r => phase'[q] = phase[q])
  BY <1>1, <1>2, <1>3 DEF ConsumerTypeOK
<1>5. Applied \subseteq Applied' /\ gaveUp \subseteq gaveUp'
  <2>1. CASE TakeEffect(r)
    <3>1. \/ applied' = Append(applied, EventOf(inHand[r]))
          \/ UNCHANGED applied
      BY <2>1 DEF TakeEffect
    <3>2. UNCHANGED gaveUp
      BY <2>1 DEF TakeEffect
    <3> QED
      BY <1>1, <1>2, <3>1, <3>2, AppendGrows DEF Applied
  <2>2. CASE HandlerReturns(r) \/ HandlerRaises(r)
    BY <2>2 DEF HandlerReturns, HandlerRaises, Applied
  <2> QED
    BY <2>1, <2>2
<1>6. \A m : Ended(m) => Ended(m)'
  BY <1>5, EndedStays
<1>7. OffsetsSkipNothing' /\ \A m \in Messages : TakenIsEnded(m)'
  BY <1>3, <1>4, <1>6 DEF ConsumerInv, OffsetsSkipNothing, TakenIsEnded
<1>8. \A q \in Replicas : EarlierIsEnded(q)'
  BY <1>3, <1>4, <1>6 DEF ConsumerInv, EarlierIsEnded
<1>9. DoneIsEnded(r)'
  <2>1. CASE TakeEffect(r)
    <3>1. phase'[r] = "applied" /\ EventOf(inHand[r]) \in Applied'
      <4>1. CASE FirstTime(EventOf(inHand[r]))
        BY <1>1, <1>2, <2>1, <4>1, AppendGrows DEF TakeEffect, GoTo, ConsumerTypeOK
      <4>2. CASE ~FirstTime(EventOf(inHand[r]))
        BY <1>1, <1>5, <2>1, <4>2 DEF TakeEffect, GoTo, ConsumerTypeOK, FirstTime
      <4> QED
        BY <4>1, <4>2
    <3> QED
      BY <1>3, <3>1 DEF DoneIsEnded, EventOf
  <2>2. CASE HandlerReturns(r)
    <3>1. phase'[r] = "done" /\ EventOf(inHand[r]) \in Applied'
      BY <1>1, <1>5, <2>2 DEF HandlerReturns, GoTo, ConsumerTypeOK, ConsumerInv, DoneIsEnded
    <3> QED
      BY <1>3, <3>1 DEF DoneIsEnded, Ended, EventOf
  <2>3. CASE HandlerRaises(r)
    <3>1. phase'[r] = "handling" \/ (phase'[r] = "done" /\ inHand[r] \in gaveUp')
      BY <1>1, <2>3 DEF HandlerRaises, GoTo, ConsumerTypeOK
    <3> QED
      BY <1>3, <3>1 DEF DoneIsEnded, Ended
  <2> QED
    BY <2>1, <2>2, <2>3
<1>10. ASSUME NEW q \in Replicas, q # r PROVE DoneIsEnded(q)'
  BY <1>3, <1>4, <1>5, <1>6, <1>10 DEF ConsumerInv, DoneIsEnded, EventOf
<1> QED
  BY <1>7, <1>8, <1>9, <1>10 DEF ConsumerInv

\* The commit takes the offset from the position, where everything is ended: also
\* the message in hand, as its handler is done.
LEMMA CommitKeepsInv ==
    ASSUME ConsumerInv, ConsumerTypeOK', NEW r \in Replicas, Commit(r) \/ CommitFails(r)
    PROVE  ConsumerInv'
<1>1. ConsumerTypeOK
  BY DEF ConsumerInv
<1>2. phase[r] = "done" /\ UNCHANGED <<owner, position, applied, gaveUp>>
  BY DEF Commit, CommitFails, groupVars
<1>3. \E step \in {"idle", "dead"} : phase' = [phase EXCEPT ![r] = step]
  BY DEF Commit, CommitFails, GoTo
<1>4. inHand' = [inHand EXCEPT ![r] = NoMessage]
  BY DEF Commit, CommitFails, LetGo
<1>5. \/ UNCHANGED committed
      \/ committed' = [p \in Partitions |-> IF owner[p] = r THEN position[p] ELSE committed[p]]
  BY DEF Commit, CommitFails, CommitOffset, groupVars
<1>6. /\ phase'[r] \notin Busy
      /\ \A q \in Replicas : q # r => phase'[q] = phase[q] /\ inHand'[q] = inHand[q]
  BY <1>1, <1>3, <1>4 DEF ConsumerTypeOK, Busy
<1>7. \A m : Ended(m)' <=> Ended(m)
  BY <1>2 DEF Ended, EventOf, Applied
<1>8. \A m \in Messages : owner[m[1]] = r /\ m[2] <= position[m[1]] => Ended(m)
  BY <1>2 DEF ConsumerInv, TakenIsEnded, DoneIsEnded
<1>9. OffsetsSkipNothing'
  <2> SUFFICES ASSUME NEW m \in Messages, m[2] <= committed'[m[1]] PROVE Ended(m)
    BY <1>7 DEF OffsetsSkipNothing
  <2>1. m[2] <= committed[m[1]] \/ (owner[m[1]] = r /\ m[2] <= position[m[1]])
    BY <1>5, MessageFields
  <2> QED
    BY <1>8, <2>1 DEF ConsumerInv, OffsetsSkipNothing
<1>10. \A m \in Messages : TakenIsEnded(m)'
  <2> SUFFICES ASSUME NEW m \in Messages, owner[m[1]] \in Replicas, m[2] <= position[m[1]]
               PROVE  Ended(m) \/ (phase'[owner[m[1]]] \in Busy /\ inHand'[owner[m[1]]] = m)
    BY <1>2, <1>7 DEF TakenIsEnded
  <2>1. CASE owner[m[1]] = r
    BY <1>8, <2>1
  <2>2. CASE owner[m[1]] # r
    BY <1>6, <2>2 DEF ConsumerInv, TakenIsEnded
  <2> QED
    BY <2>1, <2>2
<1>11. DoneIsEnded(r)' /\ EarlierIsEnded(r)'
  BY <1>6 DEF DoneIsEnded, EarlierIsEnded, Busy
<1>12. ASSUME NEW q \in Replicas, q # r PROVE DoneIsEnded(q)' /\ EarlierIsEnded(q)'
  BY <1>2, <1>6, <1>7, <1>12 DEF ConsumerInv, DoneIsEnded, EarlierIsEnded, EventOf, Applied
<1> QED
  BY <1>9, <1>10, <1>11, <1>12 DEF ConsumerInv

\* Who leaves the group owns nothing, and who starts has taken nothing.
LEMMA LifeKeepsInv ==
    ASSUME ConsumerInv, ConsumerTypeOK', NEW r \in Replicas, Expel(r) \/ Stop(r) \/ Start(r)
    PROVE  ConsumerInv'
<1>1. ConsumerTypeOK
  BY DEF ConsumerInv
<1>2. UNCHANGED <<committed, position, applied, gaveUp>>
  BY DEF Expel, Stop, Start, groupVars
<1>3. \E step \in {"expelled", "stopped", "idle"} : phase' = [phase EXCEPT ![r] = step]
  BY DEF Expel, Stop, Start, GoTo
<1>4. inHand' = inHand \/ inHand' = [inHand EXCEPT ![r] = NoMessage]
  BY DEF Expel, Stop, Start, LetGo
<1>5. /\ phase'[r] \notin Busy
      /\ \A q \in Replicas : q # r => phase'[q] = phase[q] /\ inHand'[q] = inHand[q]
  BY <1>1, <1>3, <1>4 DEF ConsumerTypeOK, Busy
<1>6. \A m : Ended(m)' <=> Ended(m)
  BY <1>2 DEF Ended, EventOf, Applied
<1>7. \/ phase[r] \notin Busy /\ UNCHANGED owner
      \/ owner' = [p \in Partitions |-> IF owner[p] = r THEN Nobody ELSE owner[p]]
  BY DEF Expel, Stop, Start, Leave, groupVars, Busy
<1>8. \A m \in Messages : TakenIsEnded(m)'
  <2> SUFFICES ASSUME NEW m \in Messages, owner'[m[1]] \in Replicas, m[2] <= position[m[1]]
               PROVE  Ended(m) \/ (phase'[owner'[m[1]]] \in Busy /\ inHand'[owner'[m[1]]] = m)
    BY <1>2, <1>6 DEF TakenIsEnded
  <2>1. owner'[m[1]] = owner[m[1]] /\ (owner[m[1]] = r => phase[r] \notin Busy)
    BY <1>7, MessageFields, NobodyAssumption
  <2> QED
    BY <1>5, <2>1 DEF ConsumerInv, TakenIsEnded
<1>9. OffsetsSkipNothing'
  BY <1>2, <1>6 DEF ConsumerInv, OffsetsSkipNothing
<1>10. DoneIsEnded(r)' /\ EarlierIsEnded(r)'
  BY <1>5 DEF DoneIsEnded, EarlierIsEnded, Busy
<1>11. ASSUME NEW q \in Replicas, q # r PROVE DoneIsEnded(q)' /\ EarlierIsEnded(q)'
  BY <1>2, <1>5, <1>6, <1>11 DEF ConsumerInv, DoneIsEnded, EarlierIsEnded, EventOf, Applied
<1> QED
  BY <1>8, <1>9, <1>10, <1>11 DEF ConsumerInv

\* A new owner begins after the committed offset.
LEMMA AssignKeepsInv ==
    ASSUME ConsumerInv, ConsumerTypeOK', Rebalance \/ Unsettle
    PROVE  ConsumerInv'
<1>1. position' = committed /\ UNCHANGED <<committed, phase, inHand, applied, gaveUp>>
  BY DEF Rebalance, Unsettle, Assign, StartPosition
<1>2. \A m : Ended(m)' <=> Ended(m)
  BY <1>1 DEF Ended, EventOf, Applied
<1>3. OffsetsSkipNothing'
  BY <1>1, <1>2 DEF ConsumerInv, OffsetsSkipNothing
<1>4. \A m \in Messages : TakenIsEnded(m)'
  BY <1>1, <1>2 DEF ConsumerInv, OffsetsSkipNothing, TakenIsEnded
<1>5. \A r \in Replicas : DoneIsEnded(r)' /\ EarlierIsEnded(r)'
  BY <1>1, <1>2 DEF ConsumerInv, DoneIsEnded, EarlierIsEnded, EventOf, Applied
<1> QED
  BY <1>3, <1>4, <1>5 DEF ConsumerInv

LEMMA InitInv == Init => ConsumerInv
<1> SUFFICES ASSUME Init PROVE ConsumerInv
  OBVIOUS
<1>1. ConsumerTypeOK
  BY InitType
<1>2. \A m \in Messages : m[1] \in Partitions /\ m[2] \in Nat /\ m[2] >= 1
  BY MessageFields
<1>3. OffsetsSkipNothing
  BY <1>2 DEF Init, OffsetsSkipNothing
<1>4. \A m \in Messages : TakenIsEnded(m)
  BY <1>2, NobodyAssumption DEF Init, TakenIsEnded
<1>5. \A r \in Replicas : DoneIsEnded(r) /\ EarlierIsEnded(r)
  BY DEF Init, DoneIsEnded, EarlierIsEnded, Busy
<1> QED
  BY <1>1, <1>3, <1>4, <1>5 DEF ConsumerInv

LEMMA NextKeepsInv == ConsumerInv /\ [Next]_vars => ConsumerInv'
<1> SUFFICES ASSUME ConsumerInv, [Next]_vars PROVE ConsumerInv'
  OBVIOUS
<1>1. ConsumerTypeOK'
  BY NextKeepsType DEF ConsumerInv
<1>2. CASE UNCHANGED vars
  BY <1>1, <1>2
  DEF vars, ConsumerInv, OffsetsSkipNothing, TakenIsEnded, DoneIsEnded, EarlierIsEnded, Ended,
      EventOf, Applied
<1>3. ASSUME NEW r \in Replicas, LoopStep(r) PROVE ConsumerInv'
  BY <1>1, <1>3, FetchKeepsInv, HandlerKeepsInv, CommitKeepsInv DEF LoopStep
<1>4. ASSUME NEW r \in Replicas, CommitFails(r) \/ Expel(r) \/ Stop(r) \/ Start(r)
      PROVE  ConsumerInv'
  BY <1>1, <1>4, CommitKeepsInv, LifeKeepsInv
<1>5. CASE Rebalance \/ Unsettle
  BY <1>1, <1>5, AssignKeepsInv
<1> QED
  BY <1>2, <1>3, <1>4, <1>5 DEF Next

\* The invariant holds in every reachable state.
THEOREM ConsumerInvariant == Spec => []ConsumerInv
<1> QED
  BY InitInv, NextKeepsInv, PTL DEF Spec

\* The committed offset passes a message only when it has ended, for any number
\* of replicas, partitions, messages, stops, rebalances and refused commits.
THEOREM GroupSkipsNothing == Spec => []OffsetsSkipNothing
<1>1. ConsumerInv => OffsetsSkipNothing
  BY DEF ConsumerInv
<1> QED
  BY <1>1, ConsumerInvariant, PTL

-----------------------------------------------------------------------------
(***************************************************************************)
(* The group implements EventDelivery.                                     *)
(***************************************************************************)

\* A message in hand is handled in its turn: what stands before its event, and
\* so before this copy of it, has ended.
LEMMA InHandIsInTurn ==
    ASSUME ConsumerInv, NEW r \in Replicas, phase[r] \in Busy
    PROVE  Delivery!InTurn(EventOf(inHand[r]))
<1> DEFINE m == inHand[r]
<1>1. m \in Messages
  BY Numbers DEF ConsumerInv
<1>2. m[1] \in Partitions /\ m[2] \in DOMAIN Log[m[1]] /\ EventOf(m) = Log[m[1]][m[2]]
  <2>1. Log[m[1]] \in Seq(Events)
    BY <1>1, MessageFields, LogAssumption
  <2> QED
    BY <1>1, <2>1, MessageFields DEF EventOf
<1> SUFFICES ASSUME NEW d \in Events, <<d, EventOf(m)>> \in Before
             PROVE  d \in Applied \cup Lost
  BY DEF Delivery!InTurn, Delivery!Applied, Applied
<1>3. PICK p \in Partitions : \E i, j \in DOMAIN Log[p] :
         /\ Log[p][i] = d
         /\ Log[p][j] = EventOf(m)
         /\ \A k \in DOMAIN Log[p] : Log[p][k] = EventOf(m) => i < k
  BY DEF Before, StandsBefore
<1>4. p = m[1]
  BY <1>2, <1>3, LogAssumption
<1>5. PICK i \in DOMAIN Log[p] : Log[p][i] = d /\ i < m[2]
  BY <1>2, <1>3, <1>4
<1>6. <<p, i>> \in Messages /\ EventOf(<<p, i>>) = d
  BY <1>5 DEF Messages, EventOf
<1>7. Ended(<<p, i>>)
  BY <1>4, <1>5, <1>6 DEF ConsumerInv, EarlierIsEnded
<1> QED
  BY <1>6, <1>7 DEF Ended, Lost

LEMMA InitDelivers == Init => Delivery!Init
BY DEF Init, Delivery!Init, Lost

LEMMA HandlerDelivers ==
    ASSUME ConsumerInv, NEW r \in Replicas, TakeEffect(r) \/ HandlerRaises(r)
    PROVE  [Delivery!Next]_(Delivery!vars)
<1> DEFINE e == EventOf(inHand[r])
<1>1. phase[r] \in Busy
  BY DEF TakeEffect, HandlerRaises, Busy
<1>2. e \in Events /\ Delivery!InTurn(e)
  <2>1. inHand[r] \in Messages
    BY <1>1, Numbers DEF ConsumerInv
  <2> QED
    BY <1>1, <2>1, MessageFields, InHandIsInTurn
<1>3. CASE TakeEffect(r)
  <2>1. Lost' = Lost
    BY <1>3 DEF TakeEffect, Lost, EventOf
  <2>2. CASE FirstTime(e)
    <3>1. applied' = Append(applied, e) /\ e \notin Applied
      BY <1>3, <2>2 DEF TakeEffect, FirstTime
    <3>2. Delivery!Apply(e)
      BY <1>2, <2>1, <3>1 DEF Delivery!Apply, Delivery!Applied, Applied
    <3> QED
      BY <1>2, <3>2 DEF Delivery!Next
  <2>3. CASE ~FirstTime(e)
    BY <1>3, <2>1, <2>3 DEF TakeEffect, Delivery!vars
  <2> QED
    BY <2>2, <2>3
<1>4. CASE HandlerRaises(r)
  <2>1. applied' = applied
    BY <1>4 DEF HandlerRaises
  <2>2. CASE gaveUp' = gaveUp
    BY <2>1, <2>2 DEF Lost, EventOf, Delivery!vars
  <2>3. CASE gaveUp' = gaveUp \cup {inHand[r]}
    <3>1. Lost' = Lost \cup {e}
      BY <2>3 DEF Lost, EventOf
    <3>2. Delivery!Lose(e)
      BY <1>2, <2>1, <3>1 DEF Delivery!Lose
    <3> QED
      BY <1>2, <3>2 DEF Delivery!Next
  <2> QED
    BY <1>4, <2>2, <2>3 DEF HandlerRaises
<1> QED
  BY <1>3, <1>4

LEMMA NextDelivers == ConsumerInv /\ [Next]_vars => [Delivery!Next]_(Delivery!vars)
<1> SUFFICES ASSUME ConsumerInv, [Next]_vars PROVE [Delivery!Next]_(Delivery!vars)
  OBVIOUS
<1>1. CASE UNCHANGED <<applied, gaveUp>>
  BY <1>1 DEF Lost, EventOf, Delivery!vars
<1>2. CASE \E r \in Replicas : TakeEffect(r) \/ HandlerRaises(r)
  BY <1>2, HandlerDelivers
<1>3. CASE Rebalance \/ Unsettle \/ UNCHANGED vars
  BY <1>1, <1>3 DEF Rebalance, Unsettle, Assign, vars
<1>4. ASSUME NEW r \in Replicas,
             \/ \E p \in Partitions : Fetch(r, p)
             \/ HandlerReturns(r) \/ Commit(r) \/ CommitFails(r)
             \/ Expel(r) \/ Stop(r) \/ Start(r)
      PROVE  UNCHANGED <<applied, gaveUp>>
  BY <1>4 DEF Fetch, HandlerReturns, Commit, CommitFails, Expel, Stop, Start
<1> QED
  BY <1>1, <1>2, <1>3, <1>4 DEF Next, LoopStep

\* Every event takes effect at most once, and in the order of its partition but for
\* events that were lost: every step of the group is one of EventDelivery or leaves
\* what it speaks of as it was.
THEOREM GroupRefinesDelivery == Spec => Delivery!SafeSpec
<1>1. Spec => Delivery!Init
  BY InitDelivers DEF Spec
<1>2. Spec => [][Delivery!Next]_(Delivery!vars)
  <2>1. Spec => []ConsumerInv
    BY ConsumerInvariant
  <2>2. Spec => [][Next]_vars
    BY PTL DEF Spec
  <2> QED
    BY <2>1, <2>2, NextDelivers, PTL
<1> QED
  BY <1>1, <1>2, PTL DEF Delivery!SafeSpec
-----------------------------------------------------------------------------
(***************************************************************************)
(* One message of a replica is at risk.  That only the message in hand is  *)
(* uncommitted is inductive once it is known that a replica that is stopped*)
(* or expelled owns nothing: else one could start again, idle, with a      *)
(* partition that is ahead of its committed offset.                        *)
(***************************************************************************)
OwnersAreMembers ==
    \A p \in Partitions : owner[p] # Nobody => phase[owner[p]] \notin {"expelled", "stopped"}

\* The loop: only an idle one takes a message, and only its commit makes it idle.
LEMMA LoopKeepsRisk ==
    ASSUME ConsumerTypeOK, OneMessageAtRisk, OwnersAreMembers,
           NEW r \in Replicas, LoopStep(r) \/ CommitFails(r)
    PROVE  OneMessageAtRisk' /\ OwnersAreMembers'
<1>1. /\ \A p \in Partitions :
            owner[p] \in Replicas \cup {Nobody} /\ position[p] \in Nat /\ committed[p] \in Nat
      /\ phase \in [Replicas -> Phases] /\ position \in [Partitions -> Nat]
      /\ Nobody \notin Replicas
  BY NobodyAssumption DEF ConsumerTypeOK
<1>2. owner' = owner
  BY DEF LoopStep, Fetch, TakeEffect, HandlerReturns, HandlerRaises, Commit, CommitFails, groupVars
<1>3. \E step \in Phases \ {"expelled", "stopped"} : phase' = [phase EXCEPT ![r] = step]
  BY DEF LoopStep, Fetch, TakeEffect, HandlerReturns, HandlerRaises, Commit, CommitFails, GoTo, Phases
<1>4. OwnersAreMembers'
  BY <1>1, <1>2, <1>3 DEF OwnersAreMembers
<1>5. CASE \E p \in Partitions : Fetch(r, p)
  <2>1. PICK p \in Partitions : Fetch(r, p)
    BY <1>5
  <2>2. /\ phase[r] = "idle" /\ owner[p] = r
        /\ position' = [position EXCEPT ![p] = position[p] + 1]
        /\ UNCHANGED committed
        /\ phase'[r] # "idle"
        /\ \A q \in Replicas : q # r => phase'[q] = phase[q]
    BY <1>1, <2>1 DEF Fetch, GoTo
  <2>3. \A q \in Partitions : owner[q] = r => position[q] = committed[q]
    BY <1>1, <2>2 DEF OneMessageAtRisk
  <2>4. /\ position'[p] = committed[p] + 1
        /\ \A q \in Partitions : q # p => position'[q] = position[q]
    BY <1>1, <2>2, <2>3
  <2>5. OneMessageAtRisk'
    BY <1>1, <1>2, <2>2, <2>3, <2>4 DEF OneMessageAtRisk
  <2> QED
    BY <1>4, <2>5
<1>6. CASE Commit(r)
  <2>1. /\ \A p \in Partitions :
              committed'[p] = IF owner[p] = r THEN position[p] ELSE committed[p]
        /\ UNCHANGED position
        /\ \A q \in Replicas : q # r => phase'[q] = phase[q]
    BY <1>1, <1>6 DEF Commit, CommitOffset, GoTo
  <2>2. OneMessageAtRisk'
    BY <1>1, <1>2, <2>1 DEF OneMessageAtRisk
  <2> QED
    BY <1>4, <2>2
<1>7. CASE TakeEffect(r) \/ HandlerReturns(r) \/ HandlerRaises(r) \/ CommitFails(r)
  <2>1. /\ UNCHANGED <<committed, position>>
        /\ phase'[r] # "idle"
        /\ \A q \in Replicas : q # r => phase'[q] = phase[q]
    BY <1>1, <1>7 DEF TakeEffect, HandlerReturns, HandlerRaises, CommitFails, GoTo, groupVars
  <2>2. OneMessageAtRisk'
    BY <1>1, <1>2, <2>1 DEF OneMessageAtRisk
  <2> QED
    BY <1>4, <2>2
<1> QED
  BY <1>5, <1>6, <1>7 DEF LoopStep

\* A replica that leaves the group gives up its partitions, also those that are
\* ahead; one that starts has none.
LEMMA LifeKeepsRisk ==
    ASSUME ConsumerTypeOK, OneMessageAtRisk, OwnersAreMembers,
           NEW r \in Replicas, Expel(r) \/ Stop(r) \/ Start(r)
    PROVE  OneMessageAtRisk' /\ OwnersAreMembers'
<1>1. /\ \A p \in Partitions : owner[p] \in Replicas \cup {Nobody}
      /\ phase \in [Replicas -> Phases]
      /\ Nobody \notin Replicas
  BY NobodyAssumption DEF ConsumerTypeOK
<1>2. UNCHANGED <<committed, position>>
  BY DEF Expel, Stop, Start, groupVars
<1>3. \A q \in Replicas : q # r => phase'[q] = phase[q]
  BY <1>1 DEF Expel, Stop, Start, GoTo
<1>4. \A p \in Partitions : owner'[p] # r /\ (owner'[p] = owner[p] \/ owner'[p] = Nobody)
  BY <1>1 DEF Expel, Stop, Start, Leave, OwnersAreMembers, groupVars
<1>5. OwnersAreMembers'
  BY <1>1, <1>3, <1>4 DEF OwnersAreMembers
<1>6. OneMessageAtRisk'
  BY <1>1, <1>2, <1>3, <1>4 DEF OneMessageAtRisk
<1> QED
  BY <1>5, <1>6

\* A new assignment begins at the committed offsets.
LEMMA AssignKeepsRisk ==
    ASSUME ConsumerTypeOK, OneMessageAtRisk, OwnersAreMembers, Rebalance \/ Unsettle
    PROVE  OneMessageAtRisk' /\ OwnersAreMembers'
<1>1. /\ owner' \in [Partitions -> Members]
      /\ position' = committed
      /\ UNCHANGED <<committed, phase>>
  BY DEF Rebalance, Unsettle, Assign, StartPosition
<1>2. \A p \in Partitions : committed[p] \in Nat
  BY DEF ConsumerTypeOK
<1> QED
  BY <1>1, <1>2 DEF Members, OneMessageAtRisk, OwnersAreMembers

\* A partition is at most one message ahead of its committed offset, and a replica
\* has at most one partition that is, for any replicas, partitions and logs and
\* however often the group is disturbed: what a crash has handled again is one
\* message.
THEOREM OneMessageIsAtRisk == Spec => []OneMessageAtRisk
<1>1. Init => OneMessageAtRisk /\ OwnersAreMembers
  BY DEF Init, OneMessageAtRisk, OwnersAreMembers
<1>2. ConsumerTypeOK /\ OneMessageAtRisk /\ OwnersAreMembers /\ [Next]_vars
        => OneMessageAtRisk' /\ OwnersAreMembers'
  <2> SUFFICES ASSUME ConsumerTypeOK, OneMessageAtRisk, OwnersAreMembers, [Next]_vars
               PROVE  OneMessageAtRisk' /\ OwnersAreMembers'
    OBVIOUS
  <2>1. CASE UNCHANGED vars
    BY <2>1 DEF vars, OneMessageAtRisk, OwnersAreMembers
  <2>2. CASE Next
    BY <2>2, LoopKeepsRisk, LifeKeepsRisk, AssignKeepsRisk DEF Next
  <2> QED
    BY <2>1, <2>2
<1> QED
  BY <1>1, <1>2, ConsumerTypeCorrect, PTL DEF Spec
=============================================================================
