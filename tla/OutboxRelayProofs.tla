------------------------- MODULE OutboxRelayProofs -------------------------
(***************************************************************************)
(* What the outbox relay keeps, for any number of relays, rows, batch size *)
(* and failures: nothing is announced that was rolled back, nothing marked *)
(* published that was not sent, duplicates come from failures only, the    *)
(* events of a booking keep their order as far as locks and failures let   *)
(* them, and no wakeup is lost.                                            *)
(***************************************************************************)
EXTENDS OutboxRelay, FiniteSetTheorems, TLAPS

(***************************************************************************)
(* Batches: the first rows, by id, of those that can be selected.          *)
(***************************************************************************)

Before(S, i) == {j \in S : j < i}

\* Rows are numbered.
LEMMA RowsAreNumbers == Rows \subseteq Nat
BY BoundsAssumption DEF Rows

\* A nonempty set of rows has a first and a last one.
LEMMA RowsHaveEnds ==
    ASSUME NEW S \in SUBSET Rows, S # {}
    PROVE  /\ \E m \in S : \A i \in S : m <= i
           /\ \E m \in S : \A i \in S : i <= m
<1> DEFINE Less == {ss \in Nat \X Nat : ss[1] < ss[2]}
           Bounds == {n \in Nat : \A i \in S : i <= n}
<1>1. ASSUME NEW T \in SUBSET Nat, T # {}
      PROVE  \E m \in T : \A n \in T : m <= n
  <2>1. Less = OpToRel(<, Nat)
    BY DEF OpToRel
  <2>2. PICK m \in T : \A n \in T : <<n, m>> \notin Less
    BY <1>1, <2>1, NatLessThanWellFounded, WFMin
  <2>3. ASSUME NEW n \in T
        PROVE  m <= n
    BY <2>2, <2>3, <<n, m>> \in Nat \X Nat
  <2> QED
    BY <2>3
<1>2. S \subseteq Nat /\ MaxRows \in Bounds
  BY BoundsAssumption DEF Rows
<1>3. PICK m \in Bounds : \A n \in Bounds : m <= n
  BY <1>1, <1>2
<1>4. m \in S
  <2>1. PICK i \in S : TRUE
    OBVIOUS
  <2>2. SUFFICES ASSUME m \notin S PROVE FALSE
    OBVIOUS
  <2>3. m - 1 \in Bounds
    BY <1>2, <2>1, <2>2
  <2> QED
    BY <1>3, <2>3
<1> QED
  BY <1>1, <1>2, <1>4

\* Sets of rows are finite, and a smaller set has no more rows.
LEMMA RowsAreFinite ==
    ASSUME NEW S \in SUBSET Rows, NEW T \in SUBSET S
    PROVE  /\ IsFiniteSet(S)
           /\ Cardinality(S) \in Nat
           /\ Cardinality(T) \in Nat
           /\ Cardinality(T) <= Cardinality(S)
<1>1. IsFiniteSet(Rows)
  BY BoundsAssumption, FS_Interval DEF Rows
<1>2. IsFiniteSet(S)
  BY <1>1, FS_Subset
<1> QED
  BY <1>2, FS_Subset, FS_CardinalityType

\* The first n rows of U, when there are that many, are n rows, and otherwise
\* they are all of U.
LEMMA FirstRows ==
    ASSUME NEW U \in SUBSET Rows, NEW n \in Nat \ {0},
           NEW F, F = {i \in U : Cardinality(Before(U, i)) < n}
    PROVE  /\ Cardinality(F) <= n
           /\ Cardinality(F) < n => F = U
<1>1. Cardinality(F) <= n
  <2>1. CASE F = {}
    BY <2>1, FS_EmptySet
  <2>2. CASE F # {}
    <3>1. PICK m \in F : \A i \in F : i <= m
      BY <2>2, RowsHaveEnds
    <3>2. F \ {m} \subseteq Before(U, m)
      <4>1. \A i \in F : i \in Nat /\ i \in U
        BY RowsAreNumbers
      <4> QED
        BY <3>1, <4>1 DEF Before
    <3>3. /\ Cardinality(Before(U, m)) \in Nat
          /\ Cardinality(F \ {m}) <= Cardinality(Before(U, m))
          /\ Cardinality(F \ {m}) \in Nat
      BY <3>2, RowsAreFinite DEF Before
    <3>4. Cardinality(F \ {m}) = Cardinality(F) - 1 /\ Cardinality(F) \in Nat
      BY RowsAreFinite, FS_RemoveElement
    <3> QED
      BY <3>1, <3>3, <3>4
  <2> QED
    BY <2>1, <2>2
<1>2. ASSUME F # U
      PROVE  n <= Cardinality(F)
  <2>1. PICK i \in U \ F : \A j \in U \ F : i <= j
    <3>1. U \ F \in SUBSET Rows /\ U \ F # {}
      BY <1>2
    <3> QED
      BY <3>1, RowsHaveEnds
  <2>2. Before(U, i) \subseteq F
    <3>1. SUFFICES ASSUME NEW j \in Before(U, i), j \notin F
                   PROVE  FALSE
      OBVIOUS
    <3>2. j \in U \ F /\ j < i /\ i \in U
      BY <3>1 DEF Before
    <3>3. i <= j /\ i \in Nat /\ j \in Nat
      BY <2>1, <3>2, RowsAreNumbers
    <3> QED
      BY <3>2, <3>3
  <2>3. n <= Cardinality(Before(U, i)) /\ Cardinality(Before(U, i)) \in Nat
    <3>1. Cardinality(Before(U, i)) \in Nat
      BY RowsAreFinite DEF Before
    <3> QED
      BY <2>1, <3>1
  <2>4. Cardinality(Before(U, i)) <= Cardinality(F) /\ Cardinality(F) \in Nat
    BY <2>2, RowsAreFinite
  <2> QED
    BY <2>3, <2>4
<1>3. Cardinality(F) \in Nat
  BY RowsAreFinite
<1> QED
  BY <1>1, <1>2, <1>3

\* A batch is of unpublished rows, of committed transactions, that no relay
\* has locked; it is no longer than allowed, it leaves nothing out unless it
\* is full, and what it leaves out comes after it.
LEMMA SelectedRows ==
    /\ Selected \subseteq Unpublished
    /\ Cardinality(Selected) <= BatchSize
    /\ Cardinality(Selected) < BatchSize => Selected = Unpublished
    /\ Selected = {} => Unpublished = {}
    /\ \A i \in Unpublished, j \in Selected : i < j => i \in Selected
<1>1. Unpublished \in SUBSET Rows
  BY DEF Unpublished, Committed
<1>2. Selected = {i \in Unpublished : Cardinality(Before(Unpublished, i)) < BatchSize}
  BY DEF Selected, Before
<1>3. /\ Cardinality(Selected) <= BatchSize
      /\ Cardinality(Selected) < BatchSize => Selected = Unpublished
  BY <1>1, <1>2, BatchAssumption, FirstRows
<1>4. Selected = {} => Unpublished = {}
  BY <1>3, BatchAssumption, FS_EmptySet
<1>5. ASSUME NEW i \in Unpublished, NEW j \in Selected, i < j
      PROVE  i \in Selected
  <2>1. Before(Unpublished, i) \subseteq Before(Unpublished, j)
    <3>1. /\ \A k \in Unpublished : k \in Nat
          /\ j \in Unpublished
      BY <1>1, <1>2, RowsAreNumbers
    <3> QED
      BY <1>5, <3>1 DEF Before
  <2>2. /\ Cardinality(Before(Unpublished, i)) <= Cardinality(Before(Unpublished, j))
        /\ Cardinality(Before(Unpublished, i)) \in Nat
        /\ Cardinality(Before(Unpublished, j)) \in Nat
    BY <1>1, <2>1, RowsAreFinite DEF Before
  <2> QED
    BY <1>2, <2>2, BatchAssumption
<1> QED
  BY <1>2, <1>3, <1>4, <1>5

(***************************************************************************)
(* Types, and what each relay has locked.                                  *)
(***************************************************************************)

\* The relays start with empty batches.
LEMMA RelayInitType == Init => RelayTypeOK
BY BoundsAssumption, BatchAssumption, FS_EmptySet DEF Init, RelayTypeOK

\* A relay that drops its batch holds no lock afterwards.
LEMMA DroppedBatch ==
    ASSUME RelayTypeOK, NEW r \in Relays, NEW p \in {"select", "waiting"},
           phase' = [phase EXCEPT ![r] = p],
           batch' = [batch EXCEPT ![r] = {}],
           rest' = [rest EXCEPT ![r] = {}]
    PROVE  /\ phase' \in [Relays -> {"select", "sending", "waiting"}]
           /\ batch' \in [Relays -> SUBSET Rows]
           /\ rest' \in [Relays -> SUBSET Rows]
           /\ \A s \in Relays :
                 /\ rest'[s] \subseteq batch'[s]
                 /\ batch'[s] # {} <=> phase'[s] = "sending"
                 /\ Cardinality(batch'[s]) <= BatchSize
<1>1. /\ phase' \in [Relays -> {"select", "sending", "waiting"}]
      /\ batch' \in [Relays -> SUBSET Rows]
      /\ rest' \in [Relays -> SUBSET Rows]
  BY DEF RelayTypeOK
<1>2. batch'[r] = {} /\ rest'[r] = {} /\ phase'[r] # "sending"
  BY DEF RelayTypeOK
<1>3. Cardinality({}) <= BatchSize
  BY BatchAssumption, FS_EmptySet
<1>4. ASSUME NEW s \in Relays, s # r
      PROVE  batch'[s] = batch[s] /\ rest'[s] = rest[s] /\ phase'[s] = phase[s]
  BY <1>4 DEF RelayTypeOK
<1>5. ASSUME NEW s \in Relays
      PROVE  /\ rest'[s] \subseteq batch'[s]
             /\ batch'[s] # {} <=> phase'[s] = "sending"
             /\ Cardinality(batch'[s]) <= BatchSize
  <2>1. CASE s = r
    BY <1>2, <1>3, <2>1
  <2>2. CASE s # r
    BY <1>4, <2>2 DEF RelayTypeOK
  <2> QED
    BY <2>1, <2>2
<1> QED
  BY <1>1, <1>5

\* Every step of the system gives each variable a value of its type.
LEMMA RelayTypeStep == RelayTypeOK /\ [Next]_vars => RelayTypeOK'
<1> SUFFICES ASSUME RelayTypeOK, [Next]_vars
             PROVE  RelayTypeOK'
  OBVIOUS
<1>1. ASSUME NEW i \in Rows, Begin(i) \/ Finish(i)
      PROVE  RelayTypeOK'
  <2>1. tx' \in [Rows -> {"none", "open", "committed", "rolled back"}]
    BY <1>1 DEF Begin, Finish, RelayTypeOK
  <2>2. UNCHANGED <<notified, published, phase, batch, rest, wakeup, sends, failures>>
    BY <1>1 DEF Begin, Finish
  <2> QED
    BY <2>1, <2>2 DEF RelayTypeOK
<1>2. ASSUME NEW i \in Rows, NEW r \in Relays, Notify(i, r)
      PROVE  RelayTypeOK'
  BY <1>2 DEF Notify, RelayTypeOK
<1>3. ASSUME NEW r \in Relays, Select(r)
      PROVE  RelayTypeOK'
  <2>1. Selected \in SUBSET Rows
    BY SelectedRows DEF Unpublished, Committed
  <2>2. /\ phase' \in [Relays -> {"select", "sending", "waiting"}]
        /\ batch' = [batch EXCEPT ![r] = Selected]
        /\ rest' = [rest EXCEPT ![r] = Selected]
        /\ phase'[r] = "sending" <=> Selected # {}
        /\ \A s \in Relays : s # r => phase'[s] = phase[s]
    BY <1>3 DEF Select, RelayTypeOK
  <2>3. \A s \in Relays :
           /\ rest'[s] \subseteq batch'[s]
           /\ batch'[s] # {} <=> phase'[s] = "sending"
           /\ Cardinality(batch'[s]) <= BatchSize
    BY <2>2, SelectedRows DEF RelayTypeOK
  <2> QED
    BY <1>3, <2>1, <2>2, <2>3 DEF Select, RelayTypeOK
<1>4. ASSUME NEW r \in Relays, NEW i \in Rows, Send(r, i)
      PROVE  RelayTypeOK'
  <2>1. rest' \in [Relays -> SUBSET Rows] /\ sends' \in [Rows -> Nat]
    <3>1. rest \in [Relays -> SUBSET Rows] /\ sends \in [Rows -> Nat]
      BY DEF RelayTypeOK
    <3>2. /\ rest' = [rest EXCEPT ![r] = @ \ {i}]
          /\ sends' = [sends EXCEPT ![i] = @ + 1]
      BY <1>4 DEF Send
    <3>3. rest' \in [Relays -> SUBSET Rows]
      BY <3>1, <3>2
    <3>4. sends' \in [Rows -> Nat]
      BY <3>1, <3>2
    <3> QED
      BY <3>3, <3>4
  <2>2. \A s \in Relays : rest'[s] \subseteq rest[s]
    BY <1>4 DEF Send, RelayTypeOK
  <2>3. UNCHANGED <<tx, notified, published, phase, batch, wakeup, failures>>
    BY <1>4 DEF Send
  <2> QED
    BY <2>1, <2>2, <2>3 DEF RelayTypeOK
<1>5. ASSUME NEW r \in Relays, CommitBatch(r)
      PROVE  RelayTypeOK'
  <2>1. WakeupKept(r) \in BOOLEAN
    BY DEF RelayTypeOK, WakeupKept
  <2>2. AfterBatch(r) \in {"select", "waiting"}
    BY DEF AfterBatch
  <2> QED
    BY <1>5, <2>1, <2>2, DroppedBatch DEF CommitBatch, RelayTypeOK
<1>6. ASSUME NEW r \in Relays, Fail(r) \/ Crash(r)
      PROVE  RelayTypeOK'
  <2>1. failures' \in 0 .. MaxFailures
    <3>1. failures \in 0 .. MaxFailures
      BY DEF RelayTypeOK
    <3>2. failures < MaxFailures /\ failures' = failures + 1
      BY <1>6 DEF Fail, Crash
    <3> QED
      BY <3>1, <3>2, BoundsAssumption
  <2> QED
    <3>1. CASE Fail(r)
      BY <2>1, <3>1, DroppedBatch DEF Fail, RelayTypeOK
    <3>2. CASE Crash(r)
      BY <2>1, <3>2, DroppedBatch DEF Crash, RelayTypeOK
    <3> QED
      BY <1>6, <3>1, <3>2
<1>7. ASSUME NEW r \in Relays, Wake(r)
      PROVE  RelayTypeOK'
  BY <1>7 DEF Wake, RelayTypeOK
<1>8. CASE UNCHANGED vars
  BY <1>8 DEF vars, RelayTypeOK
<1> QED
  BY <1>1, <1>2, <1>3, <1>4, <1>5, <1>6, <1>7, <1>8 DEF Next, RelayStep

\* A relay's batch is never longer than outbox_batch_size, and it holds locks
\* only while it sends; every variable keeps its type, for any constants.
THEOREM RelayTypeCorrect == Spec => []RelayTypeOK
BY RelayInitType, RelayTypeStep, PTL DEF Spec

(***************************************************************************)
(* The inductive invariant.  What has been sent is counted: a row that no  *)
(* batch has got through is sent at most once for each failure, and one    *)
(* that was sent in a batch still open, or marked, once more.  For this a  *)
(* batch must be of one relay only and of rows not marked yet.             *)
(***************************************************************************)
Done(i) == i \in published \/ \E r \in Relays : i \in batch[r] \ rest[r]

SendsFit(i) ==
    /\ Done(i) => sends[i] > 0 /\ sends[i] <= 1 + failures
    /\ ~Done(i) => sends[i] <= failures
    /\ sends[i] > 0 => tx[i] = "committed"

LocksFit(r) ==
    /\ batch[r] \subseteq Committed \ published
    /\ \A s \in Relays : s # r => batch[r] \cap batch[s] = {}

RelayInv ==
    /\ RelayTypeOK
    /\ \A i \in Rows : SendsFit(i)
    /\ \A r \in Relays : LocksFit(r)

\* Failures and sends are counted in natural numbers.
LEMMA CountsAreNatural ==
    RelayTypeOK => failures \in Nat /\ \A i \in Rows : sends[i] \in Nat
<1> SUFFICES ASSUME RelayTypeOK
             PROVE  failures \in Nat /\ \A i \in Rows : sends[i] \in Nat
  OBVIOUS
<1>1. failures \in 0 .. MaxFailures /\ sends \in [Rows -> Nat]
  BY DEF RelayTypeOK
<1> QED
  BY <1>1, BoundsAssumption

\* The invariant is at least as strong as the properties.
LEMMA RelayInvImplies == RelayInv => PublishedWasSent /\ DuplicatesNeedFailure
<1> SUFFICES ASSUME RelayInv
             PROVE  PublishedWasSent /\ DuplicatesNeedFailure
  OBVIOUS
<1>1. PublishedWasSent
  BY DEF RelayInv, RelayTypeOK, SendsFit, Done, PublishedWasSent, Sent, Committed
<1>2. ASSUME NEW i \in Rows
      PROVE  sends[i] <= 1 + failures
  <2>1. sends[i] \in Nat /\ failures \in Nat
    BY CountsAreNatural DEF RelayInv
  <2> QED
    BY <2>1 DEF RelayInv, SendsFit
<1> QED
  BY <1>1, <1>2 DEF DuplicatesNeedFailure

\* The relays start with nothing sent.
LEMMA RelayInitInv == Init => RelayInv
BY RelayInitType DEF Init, RelayInv, SendsFit, LocksFit, Done

\* A transaction that has committed has committed for good.
LEMMA CommitIsFinal ==
    ASSUME RelayTypeOK, [Next]_vars
    PROVE  \A i \in Rows : tx[i] = "committed" => tx'[i] = "committed"
<1>1. ASSUME NEW j \in Rows, Begin(j) \/ Finish(j)
      PROVE  \A i \in Rows : tx[i] = "committed" => tx'[i] = "committed"
  BY <1>1 DEF Begin, Finish, RelayTypeOK
<1>2. CASE UNCHANGED tx
  BY <1>2
<1> QED
  BY <1>1, <1>2 DEF Next, RelayStep, Notify, Select, Send, CommitBatch, Wake, Fail, Crash, vars

\* A step that sends, locks and marks nothing keeps the invariant.
LEMMA QuietKeepsInv ==
    ASSUME RelayInv, [Next]_vars, RelayTypeOK',
           UNCHANGED <<published, batch, rest, sends, failures>>
    PROVE  RelayInv'
<1>1. \A i \in Rows : tx[i] = "committed" => tx'[i] = "committed"
  BY CommitIsFinal DEF RelayInv
<1>2. \A i \in Rows : Done(i)' <=> Done(i)
  BY DEF Done
<1>3. \A i \in Rows : SendsFit(i)'
  BY <1>1, <1>2 DEF RelayInv, SendsFit
<1>4. \A r \in Relays : LocksFit(r)'
  BY <1>1 DEF RelayInv, LocksFit, Committed
<1> QED
  BY <1>3, <1>4 DEF RelayInv

\* Selecting a batch locks rows that nobody had locked.
LEMMA SelectKeepsInv ==
    ASSUME RelayInv, RelayTypeOK', NEW r \in Relays, Select(r)
    PROVE  RelayInv'
<1>1. batch[r] = {} /\ rest[r] = {}
  BY DEF RelayInv, RelayTypeOK, Select
<1>2. /\ UNCHANGED <<tx, published, sends, failures>>
      /\ batch'[r] = Selected /\ rest'[r] = Selected
      /\ \A s \in Relays : s # r => batch'[s] = batch[s] /\ rest'[s] = rest[s]
  BY DEF Select, RelayInv, RelayTypeOK
<1>3. \A i \in Rows : Done(i)' <=> Done(i)
  BY <1>1, <1>2 DEF Done
<1>4. \A i \in Rows : SendsFit(i)'
  BY <1>2, <1>3 DEF RelayInv, SendsFit
<1>5. Selected \subseteq Committed \ published /\ \A s \in Relays : Selected \cap batch[s] = {}
  BY SelectedRows DEF Unpublished, Locked
<1>6. \A s \in Relays : LocksFit(s)'
  BY <1>2, <1>5 DEF RelayInv, LocksFit, Committed
<1> QED
  BY <1>4, <1>6 DEF RelayInv

\* A row is sent once in a batch.
LEMMA SendKeepsInv ==
    ASSUME RelayInv, RelayTypeOK', NEW r \in Relays, NEW i \in Rows, Send(r, i)
    PROVE  RelayInv'
<1>1. /\ UNCHANGED <<tx, published, batch, failures>>
      /\ i \in rest[r]
      /\ rest'[r] = rest[r] \ {i}
      /\ \A s \in Relays : s # r => rest'[s] = rest[s]
      /\ sends'[i] = sends[i] + 1
      /\ \A j \in Rows : j # i => sends'[j] = sends[j]
      /\ sends[i] \in Nat
      /\ failures \in Nat
  <2>1. sends[i] \in Nat /\ failures \in Nat
    BY CountsAreNatural DEF RelayInv
  <2>2. sends \in [Rows -> Nat] /\ rest \in [Relays -> SUBSET Rows]
    BY DEF RelayInv, RelayTypeOK
  <2> QED
    BY <2>1, <2>2 DEF Send, NextToSend
<1>2. i \in batch[r]
  BY <1>1 DEF RelayInv, RelayTypeOK
<1>3. ~Done(i) /\ Done(i)' /\ tx[i] = "committed"
  BY <1>1, <1>2 DEF Done, RelayInv, LocksFit, Committed
<1>4. \A j \in Rows : j # i => (Done(j)' <=> Done(j))
  BY <1>1 DEF Done
<1>5. SendsFit(i)'
  BY <1>1, <1>3 DEF RelayInv, SendsFit
<1>6. \A j \in Rows : j # i => SendsFit(j)'
  BY <1>1, <1>4 DEF RelayInv, SendsFit
<1>7. \A s \in Relays : LocksFit(s)'
  BY <1>1 DEF RelayInv, LocksFit, Committed
<1> QED
  BY <1>5, <1>6, <1>7 DEF RelayInv

\* The rows a batch marks have all been sent in it.
LEMMA CommitKeepsInv ==
    ASSUME RelayInv, RelayTypeOK', NEW r \in Relays, CommitBatch(r)
    PROVE  RelayInv'
<1>1. /\ UNCHANGED <<tx, sends, failures>>
      /\ rest[r] = {}
      /\ published' = published \cup batch[r]
      /\ batch'[r] = {} /\ rest'[r] = {}
      /\ \A s \in Relays : s # r => batch'[s] = batch[s] /\ rest'[s] = rest[s]
  BY DEF CommitBatch, AllSent, RelayInv, RelayTypeOK
<1>2. \A i \in Rows : Done(i)' <=> Done(i)
  BY <1>1 DEF Done
<1>3. \A i \in Rows : SendsFit(i)'
  BY <1>1, <1>2 DEF RelayInv, SendsFit
<1>4. \A s \in Relays : LocksFit(s)'
  BY <1>1 DEF RelayInv, LocksFit, Committed
<1> QED
  BY <1>3, <1>4 DEF RelayInv

\* The rows of a batch that is cut short may be sent once more each.
LEMMA FailureKeepsInv ==
    ASSUME RelayInv, RelayTypeOK', NEW r \in Relays, Fail(r) \/ Crash(r)
    PROVE  RelayInv'
<1>1. /\ UNCHANGED <<tx, sends, published>>
      /\ failures' = failures + 1
      /\ batch'[r] = {} /\ rest'[r] = {}
      /\ \A s \in Relays : s # r => batch'[s] = batch[s] /\ rest'[s] = rest[s]
  BY DEF Fail, Crash, RelayInv, RelayTypeOK
<1>2. failures \in Nat /\ \A i \in Rows : sends[i] \in Nat
  BY CountsAreNatural DEF RelayInv
<1>3. \A i \in Rows : Done(i)' => Done(i)
  BY <1>1 DEF Done
<1>4. ASSUME NEW i \in Rows
      PROVE  SendsFit(i)'
  <2>1. SendsFit(i)
    BY DEF RelayInv
  <2> QED
    BY <1>1, <1>2, <1>3, <2>1 DEF SendsFit
<1>5. \A s \in Relays : LocksFit(s)'
  BY <1>1 DEF RelayInv, LocksFit, Committed
<1> QED
  BY <1>4, <1>5 DEF RelayInv

\* Every step keeps the invariant.
LEMMA RelayInvStep == RelayInv /\ [Next]_vars => RelayInv'
<1> SUFFICES ASSUME RelayInv, [Next]_vars
             PROVE  RelayInv'
  OBVIOUS
<1>1. RelayTypeOK'
  BY RelayTypeStep DEF RelayInv
<1>2. CASE \E i \in Rows : Begin(i) \/ Finish(i)
  BY <1>1, <1>2, QuietKeepsInv DEF Begin, Finish
<1>3. CASE \E i \in Rows, r \in Relays : Notify(i, r)
  BY <1>1, <1>3, QuietKeepsInv DEF Notify
<1>4. CASE \E r \in Relays : Wake(r)
  BY <1>1, <1>4, QuietKeepsInv DEF Wake
<1>5. CASE UNCHANGED vars
  BY <1>1, <1>5, QuietKeepsInv DEF vars
<1> QED
  BY <1>1, <1>2, <1>3, <1>4, <1>5, SelectKeepsInv, SendKeepsInv, CommitKeepsInv, FailureKeepsInv
  DEF Next, RelayStep

\* Locks, marks and the number of sends fit together whatever commits, fails
\* or crashes, with any number of relays.
THEOREM RelayInvariant == Spec => []RelayInv
BY RelayInitInv, RelayInvStep, PTL DEF Spec

\* A row is marked published only after it was sent, sent only after its
\* transaction committed, and at most once more than there were failures.
THEOREM RelayDelivers == Spec => [](PublishedWasSent /\ DuplicatesNeedFailure)
BY RelayInvariant, RelayInvImplies, PTL

\* A row is marked published only after its event was sent.
THEOREM PublishedRowsWereSent == Spec => []PublishedWasSent
BY RelayDelivers, PTL

\* The relays implement the outbox BookingService is built on: no step of
\* theirs does to the committed and the sent rows what Outbox does not allow.
THEOREM RelayRefinesOutbox == Spec => AbstractOutbox!SafeSpec
<1>1. Init => AbstractOutbox!Init
  BY DEF Init, AbstractOutbox!Init, Committed, Sent
<1>2. RelayInv /\ RelayInv' /\ [Next]_vars => [AbstractOutbox!Next]_(AbstractOutbox!vars)
  <2> SUFFICES ASSUME RelayInv, RelayInv', [Next]_vars
               PROVE  [AbstractOutbox!Next]_(AbstractOutbox!vars)
    OBVIOUS
  <2> USE DEF AbstractOutbox!Next, AbstractOutbox!vars, AbstractOutbox!Stage, AbstractOutbox!Publish
  <2>1. ASSUME NEW i \in Rows, Begin(i)
        PROVE  UNCHANGED <<Committed, Sent>>
    BY <2>1 DEF Begin, Committed, Sent, RelayInv, RelayTypeOK
  <2>2. ASSUME NEW i \in Rows, Finish(i)
        PROVE  UNCHANGED <<Committed, Sent>> \/ AbstractOutbox!Stage(i)
    <3>1. UNCHANGED Sent
      BY <2>2 DEF Finish, Sent
    <3>2. i \notin Committed
      BY <2>2 DEF Finish, Committed
    <3>3. Committed' \in {Committed, Committed \cup {i}}
      <4>1. PICK outcome \in {"committed", "rolled back"} : tx' = [tx EXCEPT ![i] = outcome]
        BY <2>2 DEF Finish
      <4>2. /\ tx'[i] = outcome
            /\ \A j \in Rows : j # i => tx'[j] = tx[j]
        BY <4>1 DEF RelayInv, RelayTypeOK
      <4>3. CASE outcome = "committed"
        BY <4>2, <4>3 DEF Committed
      <4>4. CASE outcome = "rolled back"
        BY <3>2, <4>2, <4>4 DEF Committed
      <4> QED
        BY <4>3, <4>4
    <3> QED
      BY <3>1, <3>2, <3>3
  <2>3. ASSUME NEW r \in Relays, NEW i \in Rows, Send(r, i)
        PROVE  UNCHANGED <<Committed, Sent>> \/ AbstractOutbox!Publish(i)
    <3>1. UNCHANGED Committed
      BY <2>3 DEF Send, Committed
    <3>2. i \in Sent' /\ Sent' \subseteq Committed'
      <4>1. sends'[i] = sends[i] + 1 /\ sends[i] \in Nat
        BY <2>3 DEF Send, RelayInv, RelayTypeOK
      <4>2. RelayInv' => PublishedWasSent'
        BY RelayInvImplies, PTL
      <4> QED
        BY <4>1, <4>2 DEF PublishedWasSent, Sent
    <3>3. Sent' = Sent \cup {i}
      <4>1. \A j \in Rows : j # i => sends'[j] = sends[j]
        BY <2>3 DEF Send, RelayInv, RelayTypeOK
      <4> QED
        BY <3>2, <4>1 DEF Sent
    <3> QED
      BY <3>1, <3>2, <3>3
  <2>4. ASSUME UNCHANGED <<tx, sends>>
        PROVE  UNCHANGED <<Committed, Sent>>
    BY <2>4 DEF Committed, Sent
  <2> QED
    BY <2>1, <2>2, <2>3, <2>4
    DEF Next, RelayStep, Notify, Select, CommitBatch, Wake, Fail, Crash, vars
<1> QED
  BY <1>1, <1>2, RelayInvariant, PTL DEF Spec, AbstractOutbox!SafeSpec

(***************************************************************************)
(* Order and wakeups.  The order of the events of a booking rests on the   *)
(* lock of the booking's row, by which its earlier rows are decided before *)
(* a later one is staged, and on the order of ids within a batch; the      *)
(* wakeup on a batch that is not full having taken every row there was.    *)
(***************************************************************************)
EarlierDecided ==
    \A i, j \in Rows :
        i < j /\ BookingOf[i] = BookingOf[j] /\ tx[j] # "none" => tx[i] \in {"committed", "rolled back"}

\* Rows i and j are of one booking, in this order, and i may be sent.
Precedes(i, j) == i < j /\ BookingOf[i] = BookingOf[j] /\ tx[i] = "committed"

\* When a relay has locked a row, those before it have been published or are
\* locked too.
EarlierTaken ==
    \/ failures > 0 /\ SeveralRelays
    \/ \A r \in Relays : \A i \in Rows, j \in batch[r] :
          Precedes(i, j) => i \in published \cup Locked

\* The relay will select another batch before it waits for the poll interval.
WillSelect(r) ==
    \/ wakeup[r]
    \/ phase[r] = "select"
    \/ phase[r] = "sending" /\ ~(Cardinality(batch[r]) < BatchSize)

ToldIsTaken ==
    /\ notified \subseteq Committed
    /\ failures = 0 =>
          \A i \in notified \ published : i \in Locked \/ \E r \in Relays : WillSelect(r)

OrderInv == RelayInv /\ EarlierDecided /\ EarlierTaken /\ ToldIsTaken

\* The rows of a booking are decided in the order of their ids.
LEMMA EarlierDecidedStep ==
    ASSUME RelayInv, EarlierDecided, [Next]_vars
    PROVE  EarlierDecided'
<1>1. ASSUME NEW k \in Rows, Begin(k)
      PROVE  EarlierDecided'
  <2>1. /\ tx[k] = "none" /\ tx'[k] = "open"
        /\ \A i \in Rows : i # k => tx'[i] = tx[i]
        /\ \A i \in Rows : i < k => tx[i] # "none"
        /\ \A i \in Rows : BookingOf[i] = BookingOf[k] => tx[i] # "open"
        /\ \A i \in Rows : tx[i] \in {"none", "open", "committed", "rolled back"}
    BY <1>1 DEF Begin, RelayInv, RelayTypeOK
  <2>2. \A i \in Rows : i \in Nat
    BY RowsAreNumbers
  <2> QED
    BY <2>1, <2>2 DEF EarlierDecided
<1>2. ASSUME NEW k \in Rows, Finish(k)
      PROVE  EarlierDecided'
  <2>1. /\ tx[k] = "open" /\ tx'[k] \in {"committed", "rolled back"}
        /\ \A i \in Rows : i # k => tx'[i] = tx[i]
    BY <1>2 DEF Finish, RelayInv, RelayTypeOK
  <2> QED
    BY <2>1 DEF EarlierDecided
<1>3. CASE UNCHANGED tx
  BY <1>3 DEF EarlierDecided
<1> QED
  BY <1>1, <1>2, <1>3 DEF Next, RelayStep, Notify, Select, Send, CommitBatch, Wake, Fail, Crash, vars

\* A batch takes the earlier rows of a booking before the later ones, and
\* no earlier one commits once it is selected.
LEMMA EarlierTakenStep ==
    ASSUME RelayInv, EarlierDecided, EarlierTaken, [Next]_vars
    PROVE  EarlierTaken'
<1>1. /\ batch \in [Relays -> SUBSET Rows]
      /\ failures \in Nat
  BY CountsAreNatural DEF RelayInv, RelayTypeOK
<1>2. CASE UNCHANGED <<batch, published, tx, failures>>
  BY <1>2 DEF EarlierTaken, Precedes, Locked, SeveralRelays
<1>3. ASSUME NEW k \in Rows, Begin(k) \/ Finish(k)
      PROVE  EarlierTaken'
  <2>1. /\ UNCHANGED <<batch, published, failures>>
        /\ tx[k] \in {"none", "open"}
        /\ \A i \in Rows : i # k => tx'[i] = tx[i]
    BY <1>3 DEF Begin, Finish, RelayInv, RelayTypeOK
  <2>2. \A r \in Relays : \A j \in batch[r] : j \in Rows /\ tx[j] = "committed"
    BY DEF RelayInv, LocksFit, Committed
  <2>3. ASSUME NEW r \in Relays, NEW i \in Rows, NEW j \in batch[r], Precedes(i, j)'
        PROVE  Precedes(i, j)
    <3>1. i # k
      BY <2>1, <2>2, <2>3 DEF Precedes, EarlierDecided
    <3> QED
      BY <2>1, <2>3, <3>1 DEF Precedes
  <2>4. Locked' = Locked
    BY <2>1 DEF Locked
  <2> QED
    BY <2>1, <2>3, <2>4 DEF EarlierTaken, SeveralRelays
<1>4. ASSUME NEW r \in Relays, Select(r)
      PROVE  EarlierTaken'
  <2>1. /\ UNCHANGED <<tx, published, failures>>
        /\ batch[r] = {} /\ batch'[r] = Selected
        /\ \A s \in Relays : s # r => batch'[s] = batch[s]
    BY <1>1, <1>4 DEF Select, RelayInv, RelayTypeOK
  <2>2. Locked \cup Selected \subseteq Locked'
    BY <1>1, <2>1 DEF Locked
  <2>3. \A i \in Rows, j \in Selected : Precedes(i, j) => i \in published \cup Locked \cup Selected
    BY SelectedRows DEF Precedes, Unpublished, Committed
  <2> QED
    BY <2>1, <2>2, <2>3 DEF EarlierTaken, Precedes, SeveralRelays
<1>5. ASSUME NEW r \in Relays, CommitBatch(r)
      PROVE  EarlierTaken'
  <2>1. /\ UNCHANGED <<tx, failures>>
        /\ published' = published \cup batch[r]
        /\ batch'[r] = {}
        /\ \A s \in Relays : s # r => batch'[s] = batch[s]
    BY <1>1, <1>5 DEF CommitBatch
  <2>2. published \cup Locked \subseteq published' \cup Locked'
    BY <2>1 DEF Locked
  <2>3. \A s \in Relays : batch'[s] \subseteq batch[s]
    BY <2>1
  <2> QED
    BY <2>1, <2>2, <2>3 DEF EarlierTaken, Precedes, SeveralRelays
<1>6. ASSUME NEW r \in Relays, Fail(r) \/ Crash(r)
      PROVE  EarlierTaken'
  <2>1. failures' > 0 /\ batch'[r] = {}
    BY <1>1, <1>6 DEF Fail, Crash
  <2>2. CASE SeveralRelays
    BY <2>1, <2>2 DEF EarlierTaken, SeveralRelays
  <2>3. CASE ~SeveralRelays
    BY <2>1, <2>3 DEF EarlierTaken, SeveralRelays
  <2> QED
    BY <2>2, <2>3
<1> QED
  BY <1>2, <1>3, <1>4, <1>5, <1>6 DEF Next, RelayStep, Notify, Send, Wake, vars

\* A row that was told of and is not locked by any relay will be looked for.
LEMMA ToldIsTakenStep ==
    ASSUME RelayInv, ToldIsTaken, [Next]_vars
    PROVE  ToldIsTaken'
<1>1. /\ batch \in [Relays -> SUBSET Rows]
      /\ phase \in [Relays -> {"select", "sending", "waiting"}]
      /\ wakeup \in [Relays -> BOOLEAN]
      /\ failures \in Nat
  BY CountsAreNatural DEF RelayInv, RelayTypeOK
<1>2. \A i \in Rows : tx[i] = "committed" => tx'[i] = "committed"
  BY CommitIsFinal DEF RelayInv
<1>3. Committed \subseteq Committed'
  BY <1>2 DEF Committed
<1>4. CASE UNCHANGED <<notified, published, phase, batch, wakeup, failures>>
  BY <1>3, <1>4 DEF ToldIsTaken, WillSelect, Locked
<1>5. ASSUME NEW i \in Rows, NEW r \in Relays, Notify(i, r)
      PROVE  ToldIsTaken'
  <2>1. notified' \subseteq Committed' /\ wakeup'[r]
    BY <1>1, <1>3, <1>5 DEF Notify, ToldIsTaken
  <2> QED
    BY <2>1 DEF ToldIsTaken, WillSelect
<1>6. ASSUME NEW r \in Relays, Select(r)
      PROVE  ToldIsTaken'
  <2>1. /\ UNCHANGED <<notified, published, failures>>
        /\ batch[r] = {} /\ batch'[r] = Selected
        /\ \A s \in Relays : s # r => batch'[s] = batch[s]
        /\ phase'[r] = IF Selected = {} THEN "waiting" ELSE "sending"
    BY <1>1, <1>6 DEF Select, RelayInv, RelayTypeOK
  <2>2. Locked \cup Selected \subseteq Locked'
    BY <1>1, <2>1 DEF Locked
  <2>3. CASE Cardinality(Selected) < BatchSize
    <3>1. Selected = Unpublished
      BY <2>3, SelectedRows
    <3>2. notified \ published \subseteq Locked'
      BY <2>2, <3>1 DEF Unpublished, ToldIsTaken
    <3> QED
      BY <1>3, <2>1, <3>2 DEF ToldIsTaken
  <2>4. CASE ~(Cardinality(Selected) < BatchSize)
    <3>1. Selected # {}
      BY <2>4, BatchAssumption, FS_EmptySet
    <3>2. WillSelect(r)'
      BY <2>1, <2>4, <3>1 DEF WillSelect
    <3> QED
      BY <1>3, <2>1, <3>2 DEF ToldIsTaken
  <2> QED
    BY <2>3, <2>4
<1>7. ASSUME NEW r \in Relays, CommitBatch(r)
      PROVE  ToldIsTaken'
  <2>1. /\ phase[r] = "sending"
        /\ UNCHANGED <<notified, failures>>
        /\ published' = published \cup batch[r]
        /\ phase'[r] = AfterBatch(r)
        /\ \A s \in Relays : wakeup'[s] = wakeup[s]
        /\ \A s \in Relays : s # r => batch'[s] = batch[s] /\ phase'[s] = phase[s]
    BY <1>1, <1>7 DEF CommitBatch, WakeupKept
  <2>2. Locked \subseteq Locked' \cup published'
    BY <2>1 DEF Locked
  <2>3. \A s \in Relays : WillSelect(s) => WillSelect(s)'
    BY <2>1 DEF WillSelect, AfterBatch
  <2> QED
    BY <1>3, <2>1, <2>2, <2>3 DEF ToldIsTaken
<1>8. ASSUME NEW r \in Relays, Fail(r) \/ Crash(r)
      PROVE  ToldIsTaken'
  <2>1. failures' # 0 /\ UNCHANGED notified
    BY <1>1, <1>8 DEF Fail, Crash
  <2> QED
    BY <1>3, <2>1 DEF ToldIsTaken
<1>9. ASSUME NEW r \in Relays, Wake(r)
      PROVE  ToldIsTaken'
  <2>1. UNCHANGED <<notified, published, batch, failures>> /\ phase'[r] = "select"
    BY <1>1, <1>9 DEF Wake
  <2> QED
    BY <1>3, <2>1 DEF ToldIsTaken, WillSelect
<1> QED
  BY <1>4, <1>5, <1>6, <1>7, <1>8, <1>9 DEF Next, RelayStep, Begin, Finish, Send, vars

\* What the relays keep in addition.
LEMMA OrderInvariant == Spec => []OrderInv
<1>1. Init => OrderInv
  BY RelayInitInv DEF Init, OrderInv, EarlierDecided, EarlierTaken, ToldIsTaken
<1>2. OrderInv /\ [Next]_vars => OrderInv'
  BY RelayInvStep, EarlierDecidedStep, EarlierTakenStep, ToldIsTakenStep DEF OrderInv
<1> QED
  BY <1>1, <1>2, PTL DEF Spec

\* Only a lock of another relay, or a failure beside another relay, lets an
\* event of a booking overtake an earlier one; with one relay nothing does.
THEOREM RelaysKeepOrder == Spec => OrderPerBooking
<1>1. OrderInv /\ [Next]_vars => [FirstSentInOrder]_vars
  <2> SUFFICES ASSUME OrderInv, [Next]_vars,
                      NEW i \in Rows, NEW j \in Rows, Precedes(i, j),
                      sends[j] = 0, sends'[j] > 0, ~(failures > 0 /\ SeveralRelays)
               PROVE  sends[i] > 0 \/ \E q \in Relays : i \in batch[q] /\ j \notin batch[q]
    BY DEF FirstSentInOrder, Precedes
  <2>1. PICK r \in Relays : Send(r, j)
    <3>1. ASSUME NEW r \in Relays, NEW k \in Rows, Send(r, k), k # j
          PROVE  FALSE
      <4>1. sends'[j] = sends[j]
        BY <3>1 DEF Send, OrderInv, RelayInv, RelayTypeOK
      <4> QED
        BY <4>1
    <3>2. sends' # sends
      OBVIOUS
    <3> QED
      BY <3>1, <3>2 DEF Next, RelayStep, Begin, Finish, Notify, Select, CommitBatch, Wake, Fail, Crash, vars
  <2>2. j \in rest[r] /\ (i \in rest[r] => j <= i)
    BY <2>1 DEF Send, NextToSend
  <2>3. i \notin rest[r]
    BY <2>2, RowsAreNumbers DEF Precedes
  <2>4. j \in batch[r]
    BY <2>2 DEF OrderInv, RelayInv, RelayTypeOK
  <2>5. i \in published \cup Locked
    BY <2>4 DEF OrderInv, EarlierTaken
  <2>6. CASE i \in published \cup batch[r]
    <3>1. Done(i)
      BY <2>3, <2>6 DEF Done
    <3> QED
      BY <3>1 DEF OrderInv, RelayInv, SendsFit
  <2>7. ASSUME NEW q \in Relays, q # r, i \in batch[q]
        PROVE  j \notin batch[q]
    BY <2>4, <2>7 DEF OrderInv, RelayInv, LocksFit
  <2> QED
    BY <2>5, <2>6, <2>7 DEF Locked
<1> QED
  BY <1>1, OrderInvariant, PTL DEF Spec, OrderPerBooking

\* Without failures, no committed row waits for the poll interval: the relays
\* wait only when they have seen the row or one of them will be woken.
THEOREM NoWakeupIsLost == Spec => []NoLostWakeup
<1>1. OrderInv => NoLostWakeup
  <2> SUFFICES ASSUME OrderInv, NEW i \in notified \ published,
                      failures = 0, \A r \in Relays : phase[r] = "waiting"
               PROVE  \E r \in Relays : wakeup[r]
    BY DEF NoLostWakeup
  <2>1. \A r \in Relays : batch[r] = {}
    BY DEF OrderInv, RelayInv, RelayTypeOK
  <2>2. i \notin Locked
    BY <2>1 DEF Locked
  <2> QED
    BY <2>2 DEF OrderInv, ToldIsTaken, WillSelect
<1> QED
  BY <1>1, OrderInvariant, PTL
=============================================================================
