------------------------- MODULE CatalogCacheProofs -------------------------
(***************************************************************************)
(* Proofs about CatalogCache, for any keys, rooms, searches, updates and   *)
(* bounds: what a cached search may show that is out of date.              *)
(***************************************************************************)
EXTENDS CatalogCache, TLAPS

-----------------------------------------------------------------------------
(***************************************************************************)
(* The inductive invariant: what OldPriceIsExcused and WrongRoomIsExcused  *)
(* say of the entries holds of the searches in flight too, whose views     *)
(* become entries; and no invalidation reaches an alias.                   *)
(***************************************************************************)

\* Excused, without the distinction of what has left q unreached: q is an alias, or
\* there was a fault.
Unsettled(q, v) ==
    \/ v.overtaken
    \/ q \in unreached
    \/ \E w \in Workers : q \in scan[w]

FaultsLeaveUnreached == faults = 0 => unreached \subseteq Aliases

PriceExcused(q, v) == v.price # price => Unsettled(q, v)

Wrong(r, v) == IF r \in v.free THEN room[r] = "booked" ELSE room[r] = "free"

RoomsExcused(q, v) ==
    ~v.degraded => \A r \in Rooms : Wrong(r, v) => Unsettled(q, v) \/ Announced(r)

EntryExcused(q) ==
    cache[q] # NoEntry => PriceExcused(q, cache[q]) /\ RoomsExcused(q, cache[q])

\* The hotels have been read once the search is priced, what is free once it is ready.
FlightExcused(s) ==
    /\ search[s].step \in {"priced", "ready"} => PriceExcused(search[s].query, search[s].view)
    /\ search[s].step = "ready" => RoomsExcused(search[s].query, search[s].view)

CatalogInv ==
    /\ CacheTypeOK
    /\ Aliases \subseteq unreached
    /\ \A q \in Queries : EntryExcused(q)
    /\ \A s \in Searches : FlightExcused(s)

\* Nothing makes a view of q worse without an excuse.
ExcusesStay(q) ==
    \A v \in Views :
        /\ PriceExcused(q, v) => (v.price # price' => Unsettled(q, v)')
        /\ RoomsExcused(q, v) =>
              (~v.degraded =>
                  \A r \in Rooms : Wrong(r, v)' => Unsettled(q, v)' \/ Announced(r)')

-----------------------------------------------------------------------------
(***************************************************************************)
(* Types.                                                                  *)
(***************************************************************************)

SearchStates == [step : {"idle", "missed", "priced", "ready"}, query : Queries, view : Views]

LEMMA NewViewIsView ==
    ASSUME CacheTypeOK
    PROVE  View(0, {}, FALSE) \in Views /\ View(price, {}, FALSE) \in Views
BY BoundsAssumption DEF CacheTypeOK, View, Views

LEMMA IdleIsState == Idle \in SearchStates
<1>1. View(0, {}, FALSE) \in Views
  BY BoundsAssumption DEF View, Views
<1>2. (CHOOSE q \in Queries : TRUE) \in Queries
  BY QueriesAssumption
<1> QED
  BY <1>1, <1>2 DEF Idle, Search, SearchStates

LEMMA InitType == Init => CacheTypeOK
<1> SUFFICES ASSUME Init PROVE CacheTypeOK
  OBVIOUS
<1>1. search \in [Searches -> SearchStates]
  BY IdleIsState DEF Init
<1> QED
  BY <1>1, BoundsAssumption, QueriesAssumption DEF Init, CacheTypeOK, SearchStates

LEMMA RoomKeepsType ==
    ASSUME CacheTypeOK, NEW r \in Rooms, Hold(r) \/ Confirm(r) \/ Release(r)
    PROVE  CacheTypeOK'
<1>1. \E to \in {"free", "held", "booked"} : Change(r, to)
  BY DEF Hold, Confirm, Release
<1>2. changes' \in 1 .. MaxChanges
  BY <1>1, BoundsAssumption DEF Change, CacheTypeOK
<1>3. pending' = pending \/ pending' = pending \cup {<<r, changes'>>}
  BY DEF Hold, Confirm, Release, Announce
<1>4. pending' \subseteq Rooms \X (1 .. MaxChanges)
  BY <1>2, <1>3 DEF CacheTypeOK
<1>5. room' \in [Rooms -> {"free", "held", "booked"}]
  BY <1>1 DEF Change, CacheTypeOK
<1> QED
  BY <1>1, <1>2, <1>4, <1>5, BoundsAssumption DEF Change, CacheTypeOK

LEMMA FaultType == CacheTypeOK /\ (Fault \/ UNCHANGED faults) => faults' \in 0 .. MaxFaults
BY BoundsAssumption DEF CacheTypeOK, Fault

LEMMA SearchKeepsType ==
    ASSUME CacheTypeOK, NEW s \in Searches,
           (\E q \in Queries : Miss(s, q)) \/ SearchStep(s)
    PROVE  CacheTypeOK'
<1>1. faults' \in 0 .. MaxFaults
  BY FaultType DEF Miss, ReadHotels, SearchStep, FetchAvailability, WriteCache
<1>2. search \in [Searches -> SearchStates]
  BY DEF CacheTypeOK, SearchStates
<1>3. search' \in [Searches -> SearchStates]
  <2>1. ASSUME NEW q \in Queries, Miss(s, q) PROVE search' \in [Searches -> SearchStates]
    <3>1. Search("missed", q, View(0, {}, FALSE)) \in SearchStates
      BY NewViewIsView DEF Search, SearchStates
    <3> QED
      BY <1>2, <2>1, <3>1 DEF Miss, Step
  <2>2. CASE ReadHotels(s)
    <3>1. Search("priced", search[s].query, View(price, {}, FALSE)) \in SearchStates
      BY <1>2, NewViewIsView DEF Search, SearchStates
    <3> QED
      BY <1>2, <2>2, <3>1 DEF ReadHotels, Step
  <2>3. CASE FetchAvailability(s)
    <3>1. search[s] \in SearchStates /\ search[s].view \in Views
      BY <1>2 DEF SearchStates
    <3>2. \A free \in SUBSET Rooms, failed \in BOOLEAN :
             [search[s] EXCEPT !.step = "ready", !.view.free = free, !.view.degraded = failed]
             \in SearchStates
      BY <3>1 DEF SearchStates, Views
    <3>3. PICK failed \in BOOLEAN :
             Step(s, [search[s] EXCEPT !.step = "ready",
                                       !.view.free = IF failed THEN ShownWhenDegraded ELSE Free,
                                       !.view.degraded = failed])
      BY <2>3 DEF FetchAvailability
    <3>4. (IF failed THEN ShownWhenDegraded ELSE Free) \in SUBSET Rooms
      BY DEF ShownWhenDegraded, Free
    <3>5. [search[s] EXCEPT !.step = "ready",
                            !.view.free = IF failed THEN ShownWhenDegraded ELSE Free,
                            !.view.degraded = failed] \in SearchStates
      BY <3>2, <3>4
    <3> QED
      BY <1>2, <3>3, <3>5 DEF Step
  <2>4. CASE WriteCache(s)
    BY <1>2, <2>4, IdleIsState DEF WriteCache, Step
  <2> QED
    BY <2>1, <2>2, <2>3, <2>4 DEF SearchStep
<1>4. cache' \in [Queries -> Views \cup {NoEntry}]
  <2>1. search[s].query \in Queries /\ search[s].view \in Views
    BY <1>2 DEF SearchStates
  <2>2. cache' = cache \/ cache' = [cache EXCEPT ![search[s].query] = search[s].view]
    BY DEF Miss, ReadHotels, SearchStep, FetchAvailability, WriteCache
  <2> QED
    BY <2>1, <2>2 DEF CacheTypeOK
<1>5. UNCHANGED <<price, room, changes, pending, scan, unreached>>
  BY DEF Miss, ReadHotels, SearchStep, FetchAvailability, WriteCache
<1> QED
  BY <1>1, <1>3, <1>4, <1>5 DEF CacheTypeOK, SearchStates

LEMMA VisitKeepsType ==
    ASSUME CacheTypeOK, NEW w \in Workers, NEW q \in Queries, Visit(w, q)
    PROVE  CacheTypeOK'
<1>1. search \in [Searches -> SearchStates]
  BY DEF CacheTypeOK, SearchStates
<1>2. \A s \in Searches : [search[s] EXCEPT !.view.overtaken = TRUE] \in SearchStates
  <2> SUFFICES ASSUME NEW s \in Searches
               PROVE  [search[s] EXCEPT !.view.overtaken = TRUE] \in SearchStates
    OBVIOUS
  <2>1. search[s] \in SearchStates
    BY <1>1
  <2> QED
    BY <2>1 DEF SearchStates, Views
<1>3. search' \in [Searches -> SearchStates]
  BY <1>1, <1>2 DEF Visit, Overtaken
<1>4. cache' \in [Queries -> Views \cup {NoEntry}] /\ scan' \in [Workers -> SUBSET Queries]
  BY DEF Visit, CacheTypeOK
<1> QED
  BY <1>3, <1>4 DEF Visit, CacheTypeOK, SearchStates

LEMMA WorkKeepsType ==
    ASSUME CacheTypeOK,
           \/ \E e \in pending : LoseEvent(e) \/ OnAvailabilityChanged(e)
           \/ \E q \in Queries : Expire(q)
           \/ \E w \in Workers : InvalidationFails(w)
           \/ \E w \in Updates : UpdatePrice(w)
    PROVE  CacheTypeOK'
<1>1. faults' \in 0 .. MaxFaults
  BY FaultType DEF LoseEvent, OnAvailabilityChanged, Expire, InvalidationFails, UpdatePrice
<1>2. price' \in 0 .. MaxPrice
  BY BoundsAssumption
  DEF CacheTypeOK, LoseEvent, OnAvailabilityChanged, Expire, InvalidationFails, UpdatePrice
<1>3. pending' \subseteq Rooms \X (1 .. MaxChanges)
  BY DEF CacheTypeOK, LoseEvent, OnAvailabilityChanged, Expire, InvalidationFails, UpdatePrice
<1>4. cache' \in [Queries -> Views \cup {NoEntry}]
  BY DEF CacheTypeOK, LoseEvent, OnAvailabilityChanged, Expire, InvalidationFails, UpdatePrice
<1>5. scan' \in [Workers -> SUBSET Queries]
  BY DEF CacheTypeOK, LoseEvent, OnAvailabilityChanged, Expire, InvalidationFails, UpdatePrice,
         Workers, ScannedKeys
<1>6. unreached' \subseteq Queries
  BY DEF CacheTypeOK, LoseEvent, OnAvailabilityChanged, Expire, InvalidationFails, UpdatePrice
<1>7. UNCHANGED <<room, changes, search>>
  BY DEF LoseEvent, OnAvailabilityChanged, Expire, InvalidationFails, UpdatePrice
<1> QED
  BY <1>1, <1>2, <1>3, <1>4, <1>5, <1>6, <1>7 DEF CacheTypeOK

LEMMA NextKeepsType == CacheTypeOK /\ [Next]_vars => CacheTypeOK'
<1> SUFFICES ASSUME CacheTypeOK, [Next]_vars PROVE CacheTypeOK'
  OBVIOUS
<1>1. CASE UNCHANGED vars
  BY <1>1 DEF vars, CacheTypeOK
<1>2. CASE Next
  BY <1>2, RoomKeepsType, SearchKeepsType, VisitKeepsType, WorkKeepsType DEF Next
<1> QED
  BY <1>1, <1>2

\* Type correctness: an entry is a whole view, whatever races.
THEOREM CacheTypeCorrect == Spec => []CacheTypeOK
<1> QED
  BY InitType, NextKeepsType, PTL DEF Spec

-----------------------------------------------------------------------------
(***************************************************************************)
(* The invariant.                                                          *)
(***************************************************************************)

LEMMA ViewsOfSearches ==
    ASSUME CacheTypeOK, NEW s \in Searches
    PROVE  search[s].query \in Queries /\ search[s].view \in Views
BY DEF CacheTypeOK

LEMMA EntriesAreViews ==
    ASSUME CacheTypeOK, NEW q \in Queries, cache[q] # NoEntry
    PROVE  cache[q] \in Views
BY DEF CacheTypeOK

\* An entry that stays or goes, and a search that stays as it is, keep their excuse.
LEMMA EntryStays ==
    ASSUME CacheTypeOK, NEW q \in Queries, ExcusesStay(q), EntryExcused(q),
           cache'[q] = cache[q] \/ cache'[q] = NoEntry
    PROVE  EntryExcused(q)'
<1>1. CASE cache'[q] = NoEntry
  BY <1>1 DEF EntryExcused
<1>2. CASE cache'[q] = cache[q] /\ cache[q] # NoEntry
  <2> DEFINE v == cache[q]
  <2>1. v \in Views
    BY <1>2, EntriesAreViews
  <2>2. PriceExcused(q, v) /\ RoomsExcused(q, v)
    BY <1>2 DEF EntryExcused
  <2>3. /\ v.price # price' => v.overtaken \/ q \in unreached' \/ \E w \in Workers : q \in scan'[w]
        /\ ~v.degraded =>
              \A r \in Rooms :
                  (IF r \in v.free THEN room'[r] = "booked" ELSE room'[r] = "free")
                  => \/ v.overtaken \/ q \in unreached' \/ \E w \in Workers : q \in scan'[w]
                     \/ \E e \in pending' : e[1] = r
    BY <2>1, <2>2 DEF ExcusesStay, Unsettled, Announced, Wrong
  <2> QED
    BY <1>2, <2>3 DEF EntryExcused, PriceExcused, RoomsExcused, Unsettled, Announced, Wrong
<1> QED
  BY <1>1, <1>2

LEMMA FlightStays ==
    ASSUME CacheTypeOK, NEW s \in Searches, ExcusesStay(search[s].query), FlightExcused(s),
           search'[s] = search[s]
    PROVE  FlightExcused(s)'
<1> DEFINE v == search[s].view
           q == search[s].query
<1>1. v \in Views
  BY ViewsOfSearches
<1>2. /\ PriceExcused(q, v) =>
            (v.price # price' => v.overtaken \/ q \in unreached' \/ \E w \in Workers : q \in scan'[w])
      /\ RoomsExcused(q, v) =>
            (~v.degraded =>
              \A r \in Rooms :
                  (IF r \in v.free THEN room'[r] = "booked" ELSE room'[r] = "free")
                  => \/ v.overtaken \/ q \in unreached' \/ \E w \in Workers : q \in scan'[w]
                     \/ \E e \in pending' : e[1] = r)
  BY <1>1 DEF ExcusesStay, Unsettled, Announced, Wrong
<1> QED
  BY <1>2 DEF FlightExcused, PriceExcused, RoomsExcused, Unsettled, Announced, Wrong

\* A search that begins has read the price of now; one that asks for the rooms sees
\* what is free now; one that ends leaves its view as an entry.
LEMMA SearchKeepsInv ==
    ASSUME CatalogInv, CacheTypeOK', NEW s \in Searches,
           (\E q \in Queries : Miss(s, q)) \/ SearchStep(s)
    PROVE  CatalogInv'
<1>1. CacheTypeOK /\ UNCHANGED <<price, room, pending, scan, unreached>>
  BY DEF CatalogInv, Miss, ReadHotels, SearchStep, FetchAvailability, WriteCache
<1>2. \A q \in Queries : ExcusesStay(q)
  BY <1>1 DEF ExcusesStay, PriceExcused, RoomsExcused, Unsettled, Announced, Wrong
<1>3. \A t \in Searches : search[t].query \in Queries
  BY <1>1, ViewsOfSearches
<1>4. \A t \in Searches : t # s => search'[t] = search[t]
  <2>1. \E next : Step(s, next)
    BY DEF Miss, ReadHotels, SearchStep, FetchAvailability, WriteCache
  <2> QED
    BY <1>1, <2>1 DEF Step, CacheTypeOK
<1>5. \A t \in Searches : t # s => FlightExcused(t)'
  BY <1>1, <1>2, <1>3, <1>4, FlightStays DEF CatalogInv
<1>6. DOMAIN search = Searches
  BY <1>1 DEF CacheTypeOK
<1>7. CASE ReadHotels(s) \/ \E q \in Queries : Miss(s, q)
  <2>1. /\ \/ search'[s].step = "missed"
           \/ search'[s].step = "priced" /\ search'[s].view.price = price
        /\ UNCHANGED cache
    BY <1>6, <1>7 DEF Miss, ReadHotels, Step, Search, View
  <2>2. FlightExcused(s)'
    BY <1>1, <2>1 DEF FlightExcused, PriceExcused
  <2>3. \A q \in Queries : EntryExcused(q)'
    BY <1>1, <1>2, <2>1, EntryStays DEF CatalogInv
  <2> QED
    BY <1>1, <1>5, <2>2, <2>3 DEF CatalogInv
<1>8. CASE FetchAvailability(s)
  <2>1. PICK failed \in BOOLEAN :
           search' = [search EXCEPT ![s] =
               [search[s] EXCEPT !.step = "ready",
                                 !.view.free = IF failed THEN ShownWhenDegraded ELSE Free,
                                 !.view.degraded = failed]]
    BY <1>8 DEF FetchAvailability, Step
  <2> DEFINE v == search[s].view
             free == IF failed THEN ShownWhenDegraded ELSE Free
  <2>2. search[s] \in SearchStates /\ v \in Views /\ search[s].step = "priced"
    BY <1>1, <1>8 DEF CacheTypeOK, SearchStates, FetchAvailability
  <2>3. /\ search'[s].query = search[s].query
        /\ search'[s].view.price = v.price
        /\ search'[s].view.overtaken = v.overtaken
        /\ search'[s].view.free = free
        /\ search'[s].view.degraded = failed
    BY <1>6, <2>1, <2>2 DEF SearchStates, Views
  <2>4. PriceExcused(search[s].query, v)
    BY <2>2 DEF CatalogInv, FlightExcused
  <2>5. PriceExcused(search[s].query, search[s].view)'
    BY <1>1, <2>3, <2>4 DEF PriceExcused, Unsettled
  <2>6. RoomsExcused(search[s].query, search[s].view)'
    BY <1>1, <2>3 DEF RoomsExcused, Wrong, Free
  <2>7. \A q \in Queries : EntryExcused(q)'
    BY <1>1, <1>2, <1>8, EntryStays DEF CatalogInv, FetchAvailability
  <2> QED
    BY <1>1, <1>5, <2>5, <2>6, <2>7 DEF CatalogInv, FlightExcused
<1>9. CASE WriteCache(s)
  <2>1. search[s].step = "ready" /\ search'[s] = Idle
    BY <1>6, <1>9 DEF WriteCache, Step
  <2>2. FlightExcused(s)'
    BY <2>1 DEF FlightExcused, Idle, Search
  <2>3. CASE UNCHANGED cache
    <3>1. \A q \in Queries : EntryExcused(q)'
      BY <1>1, <1>2, <2>3, EntryStays DEF CatalogInv
    <3> QED
      BY <1>1, <1>5, <2>2, <3>1 DEF CatalogInv
  <2>4. CASE cache' = [cache EXCEPT ![search[s].query] = search[s].view]
    <3> DEFINE key == search[s].query
               v == search[s].view
    <3>1. PriceExcused(key, v) /\ RoomsExcused(key, v)
      BY <2>1 DEF CatalogInv, FlightExcused
    <3>2. cache'[key] = v /\ \A q \in Queries : q # key => cache'[q] = cache[q]
      BY <1>1, <1>3, <2>4 DEF CacheTypeOK
    <3>3. ASSUME NEW q \in Queries, q # key PROVE EntryExcused(q)'
      BY <1>1, <1>2, <3>2, <3>3, EntryStays DEF CatalogInv
    <3>4. \A q \in Queries : EntryExcused(q)'
      BY <1>1, <3>1, <3>2, <3>3
      DEF EntryExcused, PriceExcused, RoomsExcused, Unsettled, Announced, Wrong
    <3> QED
      BY <1>1, <1>5, <2>2, <3>4 DEF CatalogInv
  <2> QED
    BY <1>9, <2>3, <2>4 DEF WriteCache
<1> QED
  BY <1>7, <1>8, <1>9 DEF SearchStep

\* A key is visited: its entry goes, and the searches for it are overtaken.  The
\* other keys stay to be visited.
LEMMA VisitKeepsInv ==
    ASSUME CatalogInv, CacheTypeOK', NEW w \in Workers, NEW key \in Queries, Visit(w, key)
    PROVE  CatalogInv'
<1>1. CacheTypeOK /\ UNCHANGED <<price, room, pending, unreached>>
  BY DEF CatalogInv, Visit
<1>2. /\ cache'[key] = NoEntry
      /\ \A q \in Queries : q # key => cache'[q] = cache[q]
  BY <1>1 DEF Visit, CacheTypeOK
<1>3. scan' = [scan EXCEPT ![w] = scan[w] \ {key}] /\ scan \in [Workers -> SUBSET Queries]
  BY <1>1 DEF Visit, CacheTypeOK
<1>4. \A q \in Queries : q # key => \A u \in Workers : q \in scan[u] => q \in scan'[u]
  BY <1>3
<1>5. \A q \in Queries : q # key => ExcusesStay(q)
  BY <1>1, <1>4 DEF ExcusesStay, PriceExcused, RoomsExcused, Unsettled, Announced, Wrong
<1>6. ASSUME NEW q \in Queries PROVE EntryExcused(q)'
  <2>1. CASE q = key
    BY <1>2, <2>1 DEF EntryExcused
  <2>2. CASE q # key
    BY <1>1, <1>2, <1>5, <2>2, EntryStays DEF CatalogInv
  <2> QED
    BY <2>1, <2>2
<1>7. ASSUME NEW s \in Searches PROVE FlightExcused(s)'
  <2>1. search'[s] = IF search[s].query = key /\ search[s].step \in {"priced", "ready"}
                     THEN [search[s] EXCEPT !.view.overtaken = TRUE]
                     ELSE search[s]
    BY DEF Visit, Overtaken
  <2>2. search[s] \in SearchStates /\ search[s].query \in Queries
    BY <1>1 DEF CacheTypeOK, SearchStates
  <2>3. CASE search[s].query = key /\ search[s].step \in {"priced", "ready"}
    <3>1. search'[s].view.overtaken
      BY <2>1, <2>2, <2>3 DEF SearchStates, Views
    <3> QED
      BY <3>1 DEF FlightExcused, PriceExcused, RoomsExcused, Unsettled
  <2>4. CASE search[s].query = key /\ search[s].step \notin {"priced", "ready"}
    BY <2>1, <2>4 DEF FlightExcused
  <2>5. CASE search[s].query # key
    BY <1>1, <1>5, <2>1, <2>2, <2>5, FlightStays DEF CatalogInv
  <2> QED
    BY <2>3, <2>4, <2>5
<1> QED
  BY <1>1, <1>6, <1>7 DEF CatalogInv

\* A room changes: what is announced is excused, and a hold makes no view wrong that
\* was not wrong before.
LEMMA RoomExcuses ==
    ASSUME CatalogInv, NEW r \in Rooms, Hold(r) \/ Confirm(r) \/ Release(r), NEW q \in Queries
    PROVE  ExcusesStay(q)
<1>1. CacheTypeOK
  BY DEF CatalogInv
<1>2. UNCHANGED <<price, scan, unreached>>
  BY DEF Hold, Confirm, Release, Change
<1>3. pending \subseteq pending'
  BY DEF Hold, Confirm, Release, Announce
<1>4. \/ room[r] = "free" /\ room' = [room EXCEPT ![r] = "held"]
      \/ <<r, changes'>> \in pending' /\ \E to : room' = [room EXCEPT ![r] = to]
  BY DEF Hold, Confirm, Release, Change, Announce
<1>5. \A p \in Rooms : p # r => room'[p] = room[p]
  BY <1>1, <1>4 DEF CacheTypeOK
<1>6. room'[r] = "held" \/ \E e \in pending' : e[1] = r
  BY <1>1, <1>4 DEF CacheTypeOK
<1> QED
  BY <1>2, <1>3, <1>5, <1>6 DEF ExcusesStay, PriceExcused, RoomsExcused, Unsettled, Announced, Wrong

\* An update, and an event that is handled or lost: every key that an invalidation
\* finds is to be visited, and the others are unreached.
LEMMA WorkExcuses ==
    ASSUME CatalogInv,
           \/ \E e \in pending : LoseEvent(e) \/ OnAvailabilityChanged(e)
           \/ \E w \in Workers : InvalidationFails(w)
           \/ \E w \in Updates : UpdatePrice(w),
           NEW q \in Queries
    PROVE  ExcusesStay(q)
<1>1. CacheTypeOK /\ Aliases \subseteq unreached
  BY DEF CatalogInv
<1>2. scan \in [Workers -> SUBSET Queries] /\ Consumer \in Workers /\ Updates \subseteq Workers
  BY <1>1 DEF CacheTypeOK, Workers
<1>3. CASE \E e \in pending : LoseEvent(e)
  BY <1>3 DEF LoseEvent, ExcusesStay, Unsettled
<1>4. ASSUME NEW w \in Workers,
             scan' = [scan EXCEPT ![w] = ScannedKeys],
             UNCHANGED unreached
      PROVE  ExcusesStay(q)
  <2>1. scan'[w] = Queries \ Aliases
    BY <1>2, <1>4 DEF ScannedKeys
  <2>2. q \in unreached' \/ q \in scan'[w]
    BY <1>1, <1>4, <2>1
  <2> QED
    BY <1>4, <2>2 DEF ExcusesStay, Unsettled
<1>5. CASE \E e \in pending : OnAvailabilityChanged(e)
  BY <1>2, <1>4, <1>5 DEF OnAvailabilityChanged
<1>6. CASE \E w \in Updates : UpdatePrice(w)
  BY <1>2, <1>4, <1>6 DEF UpdatePrice
<1>7. ASSUME NEW w \in Workers, InvalidationFails(w) PROVE ExcusesStay(q)
  <2>1. /\ UNCHANGED <<price, room, pending>>
        /\ unreached' = unreached \cup scan[w]
        /\ \A u \in Workers : u # w => scan'[u] = scan[u]
    BY <1>2, <1>7 DEF InvalidationFails
  <2>2. (q \in unreached \/ \E u \in Workers : q \in scan[u])
        => (q \in unreached' \/ \E u \in Workers : q \in scan'[u])
    BY <2>1
  <2> QED
    BY <2>1, <2>2 DEF ExcusesStay, PriceExcused, RoomsExcused, Unsettled, Announced, Wrong
<1> QED
  BY <1>3, <1>5, <1>6, <1>7

LEMMA RestKeepsInv ==
    ASSUME CatalogInv, CacheTypeOK',
           \/ \E r \in Rooms : Hold(r) \/ Confirm(r) \/ Release(r)
           \/ \E e \in pending : LoseEvent(e) \/ OnAvailabilityChanged(e)
           \/ \E w \in Workers : InvalidationFails(w)
           \/ \E w \in Updates : UpdatePrice(w)
           \/ \E q \in Queries : Expire(q)
    PROVE  CatalogInv'
<1>1. CacheTypeOK
  BY DEF CatalogInv
<1>2. UNCHANGED search
  BY DEF Hold, Confirm, Release, Change, LoseEvent, OnAvailabilityChanged, InvalidationFails,
         UpdatePrice, Expire
<1>3. \A q \in Queries : cache'[q] = cache[q] \/ cache'[q] = NoEntry
  BY <1>1 DEF Hold, Confirm, Release, Change, LoseEvent, OnAvailabilityChanged, InvalidationFails,
              UpdatePrice, Expire, CacheTypeOK
<1>4. unreached \subseteq unreached'
  BY <1>1 DEF Hold, Confirm, Release, Change, LoseEvent, OnAvailabilityChanged, InvalidationFails,
              UpdatePrice, Expire, CacheTypeOK
<1>5. ASSUME NEW q \in Queries PROVE ExcusesStay(q)
  <2>1. CASE \E k \in Queries : Expire(k)
    BY <2>1 DEF Expire, ExcusesStay, PriceExcused, RoomsExcused, Unsettled, Announced, Wrong
  <2> QED
    BY <2>1, RoomExcuses, WorkExcuses
<1>6. \A q \in Queries : EntryExcused(q)'
  BY <1>1, <1>3, <1>5, EntryStays DEF CatalogInv
<1>7. \A s \in Searches : FlightExcused(s)'
  BY <1>1, <1>2, <1>5, ViewsOfSearches, FlightStays DEF CatalogInv
<1> QED
  BY <1>4, <1>6, <1>7 DEF CatalogInv

LEMMA InitInv == Init => CatalogInv
<1> SUFFICES ASSUME Init PROVE CatalogInv
  OBVIOUS
<1>1. \A q \in Queries : EntryExcused(q)
  BY DEF Init, EntryExcused
<1>2. \A s \in Searches : FlightExcused(s)
  BY DEF Init, FlightExcused, Idle, Search
<1> QED
  BY <1>1, <1>2, InitType DEF Init, CatalogInv

LEMMA NextKeepsInv == CatalogInv /\ [Next]_vars => CatalogInv'
<1> SUFFICES ASSUME CatalogInv, [Next]_vars PROVE CatalogInv'
  OBVIOUS
<1>1. CacheTypeOK'
  BY NextKeepsType DEF CatalogInv
<1>2. CASE UNCHANGED vars
  BY <1>1, <1>2
  DEF vars, CatalogInv, EntryExcused, FlightExcused, PriceExcused, RoomsExcused, Unsettled,
      Announced, Wrong
<1>3. CASE Next
  BY <1>1, <1>3, RestKeepsInv, SearchKeepsInv, VisitKeepsInv DEF Next
<1> QED
  BY <1>2, <1>3

THEOREM CatalogInvariant == Spec => []CatalogInv
<1> QED
  BY InitInv, NextKeepsInv, PTL DEF Spec

\* Only a failed invalidation leaves a key unreached that is no alias.
LEMMA StepLeavesReached ==
    CacheTypeOK /\ FaultsLeaveUnreached /\ [Next]_vars => FaultsLeaveUnreached'
<1> SUFFICES ASSUME CacheTypeOK, FaultsLeaveUnreached, [Next]_vars
             PROVE  FaultsLeaveUnreached'
  OBVIOUS
<1>1. CASE UNCHANGED <<unreached, faults>>
  BY <1>1 DEF FaultsLeaveUnreached
<1>2. CASE Fault
  BY <1>2 DEF Fault, CacheTypeOK, FaultsLeaveUnreached
<1> QED
  BY <1>1, <1>2
  DEF Next, vars, Hold, Confirm, Release, Change, LoseEvent, OnAvailabilityChanged, Miss,
      ReadHotels, SearchStep, FetchAvailability, WriteCache, Expire, Visit, InvalidationFails, UpdatePrice

LEMMA OnlyFaultsLeaveUnreached == Spec => []FaultsLeaveUnreached
<1>1. Init => FaultsLeaveUnreached
  BY DEF Init, FaultsLeaveUnreached
<1> QED
  BY <1>1, StepLeavesReached, CacheTypeCorrect, PTL DEF Spec

\* So what is unsettled is excused.
LEMMA UnsettledIsExcused ==
    ASSUME CacheTypeOK, FaultsLeaveUnreached, NEW q, NEW v, Unsettled(q, v)
    PROVE  Excused(q, v)
BY DEF CacheTypeOK, FaultsLeaveUnreached, Unsettled, Excused

\* A cached search with an old price was overtaken by an invalidation, is about to
\* be visited by one, has a key no invalidation finds, or, after a fault, was not
\* reached by one.
THEOREM OldPricesAreExcused == Spec => []OldPriceIsExcused
<1>1. CatalogInv /\ FaultsLeaveUnreached => OldPriceIsExcused
  BY UnsettledIsExcused DEF CatalogInv, EntryExcused, PriceExcused, OldPriceIsExcused
<1> QED
  BY <1>1, CatalogInvariant, OnlyFaultsLeaveUnreached, PTL

\* So has one that is wrong about a room, or the room's event is still to be handled.
THEOREM WrongRoomsAreExcused == Spec => []WrongRoomIsExcused
<1>1. CatalogInv /\ FaultsLeaveUnreached => WrongRoomIsExcused
  BY UnsettledIsExcused DEF CatalogInv, EntryExcused, RoomsExcused, Wrong, WrongRoomIsExcused
<1> QED
  BY <1>1, CatalogInvariant, OnlyFaultsLeaveUnreached, PTL
=============================================================================
