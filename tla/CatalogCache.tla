---------------------------- MODULE CatalogCache ----------------------------
(***************************************************************************)
(* The search cache of the catalog service: searches that fill it, and the *)
(* two that empty it, price updates and the consumer of availability       *)
(* events.                                                                 *)
(*                                                                         *)
(* The model has the searches of one city and one stay in it.  A search is *)
(* interleaved with everything else at each of its awaits: it asks the     *)
(* cache, reads the prices from MongoDB, asks the inventory service what is*)
(* free, then writes the cache; an invalidation deletes one key at a time. *)
(* A price is known by its version.  The rooms, and the events about them, *)
(* are those of the inventory and booking services (external here).        *)
(***************************************************************************)
EXTENDS Naturals

CONSTANTS
    Queries,      \* the cache keys of the searches that can find the hotels
    Aliases,      \* those whose city is spelled as another pattern that matches
    Rooms,
    Searches,     \* the searches that may run at once
    Updates,      \* the price updates that may run at once
    Consumer,     \* the consumer of booking.confirmed and inventory.released
    NoEntry,      \* the cache has nothing for a key
    MaxPrice,     \* bound: the price updates
    MaxChanges,   \* bound: the changes of a room's state
    MaxFaults     \* bound: failing cache calls and lost events

ASSUME ConsumerAssumption == Consumer \notin Updates

ASSUME QueriesAssumption == Aliases \subseteq Queries /\ Queries # {}

ASSUME BoundsAssumption == MaxPrice \in Nat /\ MaxChanges \in Nat /\ MaxFaults \in Nat

VARIABLES
    price,      \* version of the price in the hotels collection
    room,       \* what the inventory has for each room
    changes,    \* how often a room has changed
    pending,    \* availability events not handled yet, each with the change it tells
    cache,      \* the entry of each key
    search,     \* what each search has read
    scan,       \* the keys each invalidation has still to visit
    unreached,  \* keys that invalidations may have left out
    faults      \* failed calls and lost events so far

vars == <<price, room, changes, pending, cache, search, scan, unreached, faults>>

\* The definitions named <definition>_<what is wrong> are faults: each is put
\* in place of its definition to see a property fail.

Workers == Updates \cup {Consumer}

(***************************************************************************)
(* What a search has read, in flight or in the cache.  `overtaken' is set  *)
(* when an invalidation visits its key while it is in flight.              *)
(***************************************************************************)
View(p, free, degraded) ==
    [price |-> p, free |-> free, degraded |-> degraded, overtaken |-> FALSE]

Search(step, q, view) == [step |-> step, query |-> q, view |-> view]

Idle == Search("idle", CHOOSE q \in Queries : TRUE, View(0, {}, FALSE))

Init ==
    /\ price = 0
    /\ room = [r \in Rooms |-> "free"]
    /\ changes = 0
    /\ pending = {}
    /\ cache = [q \in Queries |-> NoEntry]
    /\ search = [s \in Searches |-> Idle]
    /\ scan = [w \in Workers |-> {}]
    /\ unreached = Aliases
    /\ faults = 0

Fault == faults < MaxFaults /\ faults' = faults + 1

(***************************************************************************)
(* Rooms: held for a booking, booked when it is confirmed, free again when *)
(* the hold is released.  A hold is not announced to the catalog.          *)
(***************************************************************************)
Change(r, to) ==
    /\ changes < MaxChanges
    /\ changes' = changes + 1
    /\ room' = [room EXCEPT ![r] = to]
    /\ UNCHANGED <<price, cache, search, scan, unreached, faults>>

Hold(r) == room[r] = "free" /\ Change(r, "held") /\ UNCHANGED pending

Announce_NotSubscribed(r) == UNCHANGED pending

Announce(r) == pending' = pending \cup {<<r, changes'>>}

Confirm(r) == room[r] = "held" /\ Change(r, "booked") /\ Announce(r)

Release(r) == room[r] \in {"held", "booked"} /\ Change(r, "free") /\ Announce(r)

\* The event is not published, or is given up after three attempts.
LoseEvent(e) ==
    /\ e \in pending
    /\ Fault
    /\ pending' = pending \ {e}
    /\ unreached' = Queries
    /\ UNCHANGED <<price, room, changes, cache, search, scan>>

(***************************************************************************)
(* GET /catalog/search.  A hit changes nothing; an error of the cache is   *)
(* taken for a miss.                                                       *)
(***************************************************************************)
Free == {r \in Rooms : room[r] = "free"}

Step(s, next) == search' = [search EXCEPT ![s] = next]

Miss(s, q) ==
    /\ search[s].step = "idle"
    /\ \/ cache[q] = NoEntry /\ UNCHANGED faults
       \/ cache[q] # NoEntry /\ Fault
    /\ Step(s, Search("missed", q, View(0, {}, FALSE)))
    /\ UNCHANGED <<price, room, changes, pending, cache, scan, unreached>>

\* hotels.find.  What was invalidated before it has no bearing on what it reads.
ReadHotels(s) ==
    /\ search[s].step = "missed"
    /\ Step(s, Search("priced", search[s].query, View(price, {}, FALSE)))
    /\ UNCHANGED <<price, room, changes, pending, cache, scan, unreached, faults>>

ShownWhenDegraded == Rooms

\* fetch_availability: every room is shown when the call fails.
FetchAvailability(s) ==
    /\ search[s].step = "priced"
    /\ \E failed \in BOOLEAN :
          Step(s, [search[s] EXCEPT !.step = "ready",
                                    !.view.free = IF failed THEN ShownWhenDegraded ELSE Free,
                                    !.view.degraded = failed])
    /\ UNCHANGED <<price, room, changes, pending, cache, scan, unreached, faults>>

\* cache.set, which replaces whatever another search has written meanwhile; an
\* error is ignored.
WriteCache(s) ==
    /\ search[s].step = "ready"
    /\ \/ cache' = [cache EXCEPT ![search[s].query] = search[s].view] /\ UNCHANGED faults
       \/ UNCHANGED cache /\ Fault
    /\ Step(s, Idle)
    /\ UNCHANGED <<price, room, changes, pending, scan, unreached>>

SearchStep(s) ==
    \/ ReadHotels(s)
    \/ FetchAvailability(s)
    \/ WriteCache(s)

Expires_DegradedOnly(q) == cache[q] # NoEntry /\ cache[q].degraded

Expires(q) == cache[q] # NoEntry

\* The time to live ends: 60 seconds, or 5 for a degraded answer.
Expire(q) ==
    /\ Expires(q)
    /\ cache' = [cache EXCEPT ![q] = NoEntry]
    /\ UNCHANGED <<price, room, changes, pending, search, scan, unreached, faults>>

(***************************************************************************)
(* Invalidation: invalidate_city scans the keys of the city, in any order, *)
(* and deletes them one by one.  A key written after its visit stays.      *)
(***************************************************************************)
ScannedKeys_CaseSensitive == {}

ScannedKeys == Queries \ Aliases

Overtaken(q) ==
    [s \in Searches |->
        IF search[s].query = q /\ search[s].step \in {"priced", "ready"}
        THEN [search[s] EXCEPT !.view.overtaken = TRUE]
        ELSE search[s]]

Visit(w, q) ==
    /\ q \in scan[w]
    /\ scan' = [scan EXCEPT ![w] = @ \ {q}]
    /\ cache' = [cache EXCEPT ![q] = NoEntry]
    /\ search' = Overtaken(q)
    /\ UNCHANGED <<price, room, changes, pending, unreached, faults>>

\* The cache fails in the middle: the update answers 500, its price written; the
\* event is given up after three attempts.
InvalidationFails(w) ==
    /\ scan[w] # {}
    /\ Fault
    /\ unreached' = unreached \cup scan[w]
    /\ scan' = [scan EXCEPT ![w] = {}]
    /\ UNCHANGED <<price, room, changes, pending, cache, search>>

\* PUT /catalog/rooms/{room_id}/price.
UpdatePrice(w) ==
    /\ scan[w] = {}
    /\ price < MaxPrice
    /\ price' = price + 1
    /\ scan' = [scan EXCEPT ![w] = ScannedKeys]
    /\ UNCHANGED <<room, changes, pending, cache, search, unreached, faults>>

\* on_availability_changed.
OnAvailabilityChanged(e) ==
    /\ e \in pending
    /\ scan[Consumer] = {}
    /\ pending' = pending \ {e}
    /\ scan' = [scan EXCEPT ![Consumer] = ScannedKeys]
    /\ UNCHANGED <<price, room, changes, cache, search, unreached, faults>>

Next ==
    \/ \E r \in Rooms : Hold(r) \/ Confirm(r) \/ Release(r)
    \/ \E e \in pending : LoseEvent(e) \/ OnAvailabilityChanged(e)
    \/ \E s \in Searches, q \in Queries : Miss(s, q)
    \/ \E s \in Searches : SearchStep(s)
    \/ \E q \in Queries : Expire(q)
    \/ \E w \in Workers, q \in Queries : Visit(w, q)
    \/ \E w \in Workers : InvalidationFails(w)
    \/ \E w \in Updates : UpdatePrice(w)

Spec == Init /\ [][Next]_vars

\* A search that has begun goes on, an invalidation too, and time passes; no
\* one has to search, or to change anything.
FairSpec ==
    /\ Spec
    /\ \A s \in Searches : WF_vars(SearchStep(s))
    /\ \A w \in Workers : WF_vars(\E q \in Queries : Visit(w, q))
    /\ \A q \in Queries : WF_vars(Expire(q))
    /\ WF_vars(\E e \in pending : OnAvailabilityChanged(e))

-----------------------------------------------------------------------------
(***************************************************************************)
(* Properties.                                                             *)
(***************************************************************************)

Views == [price : 0 .. MaxPrice, free : SUBSET Rooms, degraded : BOOLEAN, overtaken : BOOLEAN]

\* Type invariant: an entry is a view, and no search reads a price to come.
CacheTypeOK ==
    /\ price \in 0 .. MaxPrice
    /\ room \in [Rooms -> {"free", "held", "booked"}]
    /\ changes \in 0 .. MaxChanges
    /\ pending \subseteq Rooms \X (1 .. MaxChanges)
    /\ cache \in [Queries -> Views \cup {NoEntry}]
    /\ search \in [Searches -> [step : {"idle", "missed", "priced", "ready"}, query : Queries, view : Views]]
    /\ scan \in [Workers -> SUBSET Queries]
    /\ unreached \subseteq Queries
    /\ faults \in 0 .. MaxFaults

\* A view of q may be out of date while an invalidation is on its way to q, or
\* when an invalidation has come by while the view was being made, or will not
\* find q at all; and, only after a fault, when one has not reached q.
Excused(q, v) ==
    \/ v.overtaken
    \/ q \in Aliases
    \/ faults > 0 /\ q \in unreached
    \/ \E w \in Workers : q \in scan[w]

\* A cached search with an old price has one of those reasons, however
\* searches, updates and deletions of single keys overlap.
OldPriceIsExcused ==
    \A q \in Queries : cache[q] # NoEntry /\ cache[q].price # price => Excused(q, cache[q])

Announced(r) == \E e \in pending : e[1] = r

\* So has one that is not marked "pending" and shows a booked room, or hides a
\* free one; or the event that tells of the room has not been handled yet.
\* (A room that is only held may be shown.)  The end-to-end test expects the
\* search to hide a booked room; this is what is true of it.
WrongRoomIsExcused ==
    \A q \in Queries : cache[q] # NoEntry /\ ~cache[q].degraded =>
        \A r \in Rooms :
            (IF r \in cache[q].free THEN room[r] = "booked" ELSE room[r] = "free")
            => Excused(q, cache[q]) \/ Announced(r)

UpToDate(v) == v.price = price /\ (v.degraded \/ v.free = Free)

\* Whatever raced, was lost or has failed: once prices and rooms stay as they
\* are, the cache gives right answers, or degraded ones, and goes on doing so; and
\* no degraded answer stays: it gives way, again and again, to one with the rooms
\* the inventory service says are free, or to none.
CacheHeals ==
    \A q \in Queries :
        /\ <>[](cache[q] = NoEntry \/ UpToDate(cache[q]))
        /\ []<>(cache[q] = NoEntry \/ ~cache[q].degraded)
=============================================================================
