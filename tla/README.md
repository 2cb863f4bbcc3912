# StayBook: a verification project in TLA+

StayBook (`src/`) is a hotel booking platform: five Python services that
exchange events over Kafka. This directory models the five services and the
consumer loop they share, checks them with TLC on small instances, and proves
their safety with TLAPS for every instance.

## 1. The system

| Component | Source | State it keeps | Operations |
|---|---|---|---|
| Booking service, requests and saga | `booking-service/app/main.py`, `saga.py`, `db.py` | `bookings` (status, `payment_received`), `processed_events` | `POST /bookings`, `POST /bookings/{id}/cancel`, six event handlers |
| Booking service, outbox relay | `booking-service/app/outbox.py` | `outbox` (`published_at`), the relay's wakeup event | stage in a transaction, publish in batches |
| Inventory service | `inventory-service/app/holds.py`, `db.py`, `main.py` | `holds` (status, stay), `processed_events` | three event handlers, the sweeper of expired holds, availability (read only) |
| Payment service | `payment-service/app/main.py`, `psp.py`, `db.py` | `payments`, `processed_events`, and, outside it, what the PSP has charged | `POST /payments`, the refund handler |
| Catalog service | `catalog-service/app/main.py` | prices (MongoDB), cached searches (Redis) | search, price update, invalidation on two events |
| Notification service | `notification-service/app/main.py` | one document for each event that has a template | one event handler |
| Event consumer loop | `common/staybook_common/kafka.py` | the offsets of the group, the running flag | fetch, three attempts, commit, stop; rebalance by the broker |
| Rest of the common library | `common/staybook_common/` | none the services depend on | event format, publish; web, logging, metrics, fault injection |
| Charts, infra, platform, gitops, CI | `charts/`, `infra/`, `platform/`, `gitops/`, `ci/` | none of their own | deployment |

How they interact. A guest's request creates a booking (PENDING) and stages
`booking.requested`; the inventory service holds the room and answers
`inventory.held`, or `inventory.rejected` when an active hold overlaps. The
booking awaits payment; `POST /payments` goes to the payment service directly,
which answers the booking service with `payment.succeeded` or `payment.failed`.
A payment confirms the booking (`booking.confirmed`), and the inventory makes
the hold permanent. Cancellations (`booking.cancelled`, with or without a
refund) release the hold and return the money (`payment.refunded`); a hold that
is not confirmed in time is expired by the sweeper (`inventory.released`).
The notification service records a notice for the guest of four of these
events. The catalog asks the inventory service what is free when it searches,
caches the answer, and drops cached searches when `booking.confirmed`,
`inventory.released` or a price update tells it that they may be out of date.

What is hard in it:

- *Ordering.* Every event type has its own topic and every topic six partitions,
  so events of one booking overtake each other: a payment before the hold, a
  cancellation before the request, a confirmation after the cancellation.
- *Publishing after the commit.* Only the booking service has an outbox. The
  others publish once their transaction has committed; a crash in between loses
  the event, and redelivering the cause does nothing, as it is marked processed.
- *Side effects inside transactions.* The PSP is called before the insert that
  enforces uniqueness, and inside the transaction of the refund.
- *Time.* The sweeper may expire a hold while a payment is on its way.
- *Several replicas.* Relays share one table; calls of `pay()` run at once.
- *Redelivery.* Offsets are committed after the handler returns: a stop, a
  rebalance or a refused commit delivers a message again, perhaps while its
  first handler is still running; after three attempts it is dropped.
- *A cache filled and emptied at once.* A search reads prices, then rooms, then
  writes the cache; an invalidation that comes by in between deletes nothing.

`PROJECT.json` lists each hazard at its line with the properties that cover it.

What makes each component correct:

- booking service: status, payment and announced events of a booking agree in
  every order of events; each outcome is announced once; the status only moves
  on; whoever has paid and loses the booking is refunded;
- outbox relay: committed rows are published, only they are, duplicates come
  from failures only, the events of a booking keep their order but for locks and
  failures, and no wakeup is lost;
- inventory: active holds do not overlap; what is answered agrees with the holds;
- payments: one success per booking, one refund per charge, events agree with
  the rows;
- consumer: no committed offset passes an event that was neither handled nor
  given up, and none falls more than one message behind; an event takes effect once, in the order of its partition; while one
  loop is alive everything is handled;
- catalog: a cached search that is out of date has one of a few named reasons,
  and does not stay so;
- notices: what a guest is told is so, or, of a confirmation, has been taken back
  by a cancellation with its refund; and the guest is told in the end;
- all together: no booking is confirmed without money taken, money is returned
  only when the booking is over, no room is kept for a booking that is over,
  nobody waits for what is neither coming nor lost after a commit, where the
  money of every charge is can be told, and every booking settles.

## 2. The modules

```
EventBus                      the events, the set `sent' of those published
  BookingService              requests and saga       --implements--> BookingLifecycle
  InventoryService            holds, sweeper, lost replies
  PaymentService              pay(), refunds, lost publications
    StayBook                  the three together      --implements--> StayContract
      GuestNotices            StayBook with the NotificationService beside it
OutboxRelay                   batches, locks, crashes --implements--> Outbox
EventConsumer                 offsets, attempts, group --implements--> EventDelivery
CatalogCache                  searches, invalidations, expiry
<module>Proofs                the theorems about each, checked by TLAPS
MC*                           instances for TLC
```

**EventBus.** An event is a record of its topic, its booking, the payment and
the reason it names, and whether it asks for a refund. `sent` only grows. A
service may handle any event of `sent` at any time, so late, reordered and
never delivered events need no action of their own, and a duplicate is the same
element, which `processed_events` recognises. This allows more orders than
Kafka does inside one partition; for safety that is the stronger statement, and
the orders that matter here are between topics, which Kafka does not order.
What a consumer group really does with its partitions is in EventConsumer. It
implements EventDelivery: one effect for each event, or none. That is how the
services use `sent`; composing them with EventConsumer itself is planned.

**BookingService.** `status`, `paymentReceived`, `outbox` and `bookingSeen` are
the columns and tables of `db.py`. Each handler of `saga.py` is one database
transaction that locks the row, so it is one action: `OnInventoryHeld`,
`OnInventoryRejected`, `OnInventoryReleased`, `OnPaymentSucceeded`,
`OnPaymentFailed`, `OnPaymentRefunded`; `CreateBooking` and `CancelBooking` are
the two requests. Amounts are reduced to whether a refund is asked for. The
outbox is a set of events. `PublishStaged` sends one of them at any time; that
the relays do no more than this is proved in two halves that meet in Outbox:
OutboxRelay implements it (RelayRefinesOutbox), and StayBook, with its events for
rows, uses it (`UsesOutbox`, SagaUsesOutbox).
`BookingSpec` runs the service against an environment that may deliver any
event of any other service.

**InventoryService.** `hold` is `holds.status`. A conflict takes two actions, as
the code takes two transactions: the rolled back insert (`refused`), then
`RejectRequest`, which marks the event without asking whether it was first.
`inventoryUnsent` are replies whose transaction has committed;
`InventoryLose` is a crash or a producer error before they are sent, and
`inventoryLost` remembers, for the properties, which replies that took. Time is
abstract: `Sweep` expires any set of HELD holds. The exclusion constraint guards
the insert only; PostgreSQL checks it on an UPDATE too. The model lets any update
through, and ActiveHoldsAreDisjoint says that none would ever be refused: an
update that brought an ended hold back would raise in the code, and overlap here.

**PaymentService.** `call` is where each call of `pay()` is between its awaits
(`LookUp`, `Charge`, `StorePayment` or `RefusePayment`), `payment` its row,
`charged` and `pspRefunds` what the PSP has done. `KeyFound` is the lookup of the
idempotency key, which an empty key skips (`EmptyPayKey`), while the unique index
of the insert (`InsertRefused`) does not. `RefundAborted` is a refund
whose commit fails, `PayCrash` a call that dies after the charge, `PaymentLose` an
event that is never published; `paymentLost` remembers these.

**StayBook.** The three services over one bus. A call pays only for a booking
that exists (its id is a random UUID the guest has been told); the payment
service checks nothing else.

**OutboxRelay.** Rows have ids; `tx` is the transaction that stages each, and
commits out of order except within a booking, whose row it locks. `Select`
locks a batch and skips locked rows, `Send` sends in order of id, `CommitBatch`
marks them, `Fail` is an error of the SELECT or in the middle of a batch, `Crash`
cuts a batch short too, `Notify` and `Wake` are the wakeup event.

**EventConsumer.** The replicas of one service and their group. Each replica's
loop has a `phase` and the message `inHand`: `Fetch`, `TakeEffect` (the
handler's transaction, which marks the event), `HandlerReturns`,
`HandlerRaises` (before or after the transaction; the third time the message is
given up), `Commit` of the positions of whatever is assigned then, and
`CommitFails`, which ends the loop's task, as nothing catches the exception.
`Stop` cancels a loop anywhere, and stands for a crash; `Start`, `Expel`,
`Rebalance` and `Unsettle` are the life of the group, and the last two do not
wait for a handler that is running. A message that cannot be decoded is done at
once. A partition's `Log` is fixed: that it may hold an event twice is what a
relay that fails leaves behind.

**CatalogCache.** The searches of one city and one stay. A search is interleaved
at each of its awaits (`Miss`, which asks the cache, `ReadHotels`, `FetchAvailability`, `WriteCache`), an
invalidation at each key (`Visit`); `UpdatePrice` and `OnAvailabilityChanged`
begin one, `InvalidationFails` ends it early. The entry of a key is what the
search that wrote it had read. `Aliases` are keys whose city is spelled as
another pattern MongoDB matches, which no invalidation finds. Rooms are held,
booked and freed by the services the catalog hears of (external).

**NotificationService, GuestNotices.** `Notify` records an event of a topic that
has a template under the event's id; GuestNotices runs it beside the saga, to
compare what guests are told with what is so.

Definitions named `X_Something`, beside `X`, are plausible faults in `X`. Each
property fails when one of them takes the place of its definition.

## 3. The runs

| Run | Instance | Shows |
|---|---|---|
| booking_service | 1 booking, 2 payments, any environment | PaymentMatchesStatus, EventsMatchStatus, PaidEndIsRefunded, AnnouncedOnce, StatusOnlyMovesOn; implements BookingLifecycle |
| inventory_service | 2 overlapping bookings, any booking events, 1 lost reply | ActiveHoldsAreDisjoint, AnswersMatchHolds |
| payment_service | 4 calls for 1 booking, 2 with one key and 2 with an empty one, 2 faults | OneSuccessPerBooking, RefundedOnce, PaymentEventsMatchRows |
| one_booking | saga and notices: 1 booking, 2 payments, 1 lost reply, 1 payment fault | ConfirmedHoldIsBacked, RefundIsNotMissed, MoneyIsTracked, NobodyWaitsInVain, NoticesMatchBookings; implements StayContract |
| two_bookings | saga: 2 overlapping bookings, 1 payment each, fair | SharedNightNeedsExpiry, NobodyWaitsInVain, BookingSettles |
| liveness_payment | saga and notices: 1 booking, 2 payments, no fault, fair | BookingSettles, OverFreesRoom, RefundIsMade, MoneySettles, GuestIsTold |
| two_relays | 2 relays, 3 rows, batches of 2, 2 failures | PublishedWasSent, DuplicatesNeedFailure, NoLostWakeup, OrderPerBooking; implements Outbox, with its fairness |
| consumer_group | 2 replicas, 2 partitions, 3 and 1 messages, 2 disturbances, 1 refused commit | OffsetsSkipNothing, OneMessageAtRisk, OneLoopIsEnough; implements EventDelivery, with its fairness |
| catalog_cache | 2 keys, 2 searches, 1 room, 1 updater and the consumer, 2 prices, 2 changes, 1 fault | OldPriceIsExcused, WrongRoomIsExcused, CacheHeals |
| double_booking | as two_bookings | **violated**: NoDoubleBooking |
| refused_charge | as payment_service, no fault | **violated**: RefusedChargeMeansPaid |
| ready_consumer | 1 replica, 1 refused commit | **violated**: ReadyConsumes |

The type invariants are checked by one_booking (TypeOK, of the three services
and the bus), two_relays and consumer_group; that of the cache is proved
(CacheTypeCorrect).

The safety properties of the services hold after faults as well as before them: a
lost event excuses what follows from its own loss and nothing else. NobodyWaitsInVain
is in two runs, as `Competition` leaves no cancellation in two_bookings: there it
is about two bookings that wait for answers and for the end of their holds, in
one_booking about refunds too, and about what a fault leaves behind.

The bounds and why they are enough. One booking is enough for everything a
service decides from one row, and every handler of the booking and payment
services touches the rows of one booking only; two bookings are needed where
they compete for a room, and a third would only compete in the same way, since
`StayFree` looks at pairs. Two payments give a success and a late or failed
second one; four calls give a pair that shares a key and a pair that sends an
empty one (calls of a pair are alike, hence the symmetry). One lost inventory
reply (`MaxInventoryFaults`) and one or two payment faults (`MaxPaymentFaults`)
put a crash at every point of a run. Two relays, and batches shorter than the
table, give full batches, partial ones and interleaved ones; that a single relay
keeps the order across failures too is not run, but proved. Two stops or
rebalances (`MaxDisturbances`) are one that takes a message from its handler and
one while the handler of the first owner is still running, and one refused
commit (`MaxCommitFailures`) leaves one replica of two; the log has an event,
another, and the first again, and a message that cannot be decoded. Two searches
can overlap each other and an invalidation; two price versions (`MaxPrice`), two
changes of a room (`MaxChanges`: held and booked) and one fault (`MaxFaults`)
give each reason of OldPriceIsExcused and WrongRoomIsExcused. `FewCancellations`
bounds the cancellations an arbitrary environment delivers (two or three
different ones of a booking, with and without a refund, where the saga sends at
most one that does not refund and one for each late payment). `Competition` has
every charge in two_bookings approved and no guest cancel: declined charges and
cancellations are in the runs with one booking.

Where `CHECK_DEADLOCK` is FALSE, the system may really come to rest: every
booking settled, every event handled, every price and room at its last version.
The relays never rest, and there deadlock is checked.

Fairness. `FairSpec` of StayBook is weakly fair to the consumers, the relay, the
publications after a commit, the recording of a refusal, and the sweeper: each
is a loop or a coroutine that runs as long as its service does. It asks nothing
of the guests, nor of calls of `pay()`. `NoticeFairSpec` adds the notification
service's consumer. The liveness runs of the saga set the fault bounds to 0:
after a lost reply a booking really may wait forever (section 4), which is no
accident of the model. The consumer's fairness there also stands for "a handler
succeeds within its three attempts"; an event dropped after the third has the
effect of a lost one, and ImplementsDelivery says which those are. MoneySettles
names two ends at which money that was taken stays where it is (section 4).

The relays of `OutboxRelay` are fair while failures are bounded. In
EventConsumer a loop is fair as long as nothing ends it, a replica that has
stopped is started again (its deployment does that), the broker expels a
consumer that no longer polls, and assigns every partition to its members. In
CatalogCache a search that has begun goes on, an invalidation too, the consumer
handles its events, and entries expire; nobody has to search or to change
anything. CacheHeals is about the time after the last change, which the bounds
bring about.

## 4. What the runs found

1. *Two confirmed bookings for one night* (double_booking). A hold that expires
   after the payment and before `booking.confirmed` is handled is gone; the
   handler changes nothing and tells nobody. The room goes to another guest.
   SharedNightNeedsExpiry shows that this is the only way.
2. *Charged and told "already paid"* (refused_charge). A retry with the same key
   that overlaps a declined first call is charged and refused. An empty
   `Idempotency-Key` has the same end without any overlap, as it is stored but
   never looked up.
3. *Ready, and consuming nothing* (ready_consumer). A refused offset commit
   raises (`kafka.py:116`) and ends the consumer's task; nobody reads the
   exception, `running` stays True, and `/readyz` (`main.py:100-102`), which is to
   answer "kafka unavailable" when a service does not consume, goes on answering
   "ready". OneLoopIsEnough shows that another replica takes over, if there is one.

The properties that hold name further gaps, which have no run of their own:

- AnswersMatchHolds, PaymentEventsMatchRows and NobodyWaitsInVain have an excuse
  each for the event that was lost (`inventoryLost`, `paymentLost`): a hold or a
  payment nobody hears of, a booking that waits forever. The README names a
  transactional outbox (`README.md:5`), and only the booking service has one. The
  others publish after their commit. The properties say how far the damage goes:
  to the booking of the event that was lost.
- MoneyIsTracked names money that no service has a record of and nobody returns
  (`Unrecorded`): the charge of a call that died before its insert, and that of a
  call refused because another row has its key or has paid the booking
  (`main.py:134`). Two calls for one booking that overlap are both charged.
- NoticesMatchBookings does not say that a confirmation the guest reads is still
  so. `booking.confirmed` may be handled after the cancellation that overtook it,
  and nothing compares the notice with the booking (`notify`, `main.py:29-46` of
  the notification service): the guest may read "is confirmed" last. What holds is
  that the cancellation is staged by then, asks for the refund, and brings a notice
  of its own.
- WrongRoomIsExcused and OldPriceIsExcused: after the consumer or an update has
  emptied the cache, a search that was in flight (`overtaken`) writes what it
  had read before. `smoke.py:74` expects a search to hide a booked room after
  the event; it is shown until the entry expires.
- MoneySettles, MoneyIsTracked and PaidEndIsRefunded: a booking that expires with its payment
  received is not refunded (`saga.py:72`), and a declined second payment cancels
  a paid PENDING booking with refund 0 (`saga.py:99`).

## 5. What is proved

The runs check small instances; the theorems hold for every value of the
constants: any sets of bookings, payments, relays, replicas, partitions and
searches, any rooms, stays and logs, any bounds on the faults. They assume no
more than the modules' named assumptions: stays are between natural numbers,
every call pays for a booking, NoPayment is no payment, the bounds are natural
numbers, batches are not empty, the copies of an event are in one partition, and
Nobody and Consumer are nobody else.

| Theorem | Says |
|---|---|
| BookingTypeCorrect, BookingInvariant | BookingTypeOK and the inductive invariant BookingInv always hold |
| BookingAgrees, StatusTellsPayment, PaidEndsAreRefunded | so do EventsMatchStatus, PaymentMatchesStatus and PaidEndIsRefunded |
| BookingMovesOn, AnnouncementsAreMadeOnce | StatusOnlyMovesOn and AnnouncedOnce |
| BookingRefinesLifecycle | the booking service implements BookingLifecycle |
| InventoryTypeCorrect, HoldsAreDisjoint, AnswersAgree | InventoryTypeOK, ActiveHoldsAreDisjoint, AnswersMatchHolds |
| PaymentTypeCorrect, PaymentInvariant | PaymentTypeOK and the inductive PaymentInv |
| PaymentsAgree, ChargesAreRefundedOnce, EventsAgreeWithRows | OneSuccessPerBooking, RefundedOnce, PaymentEventsMatchRows |
| RelayTypeCorrect, RelayInvariant | RelayTypeOK and the inductive RelayInv |
| PublishedRowsWereSent, RelayDelivers | PublishedWasSent, DuplicatesNeedFailure |
| RelayRefinesOutbox | the relays implement the safety half of Outbox |
| RelaysKeepOrder, NoWakeupIsLost | OrderPerBooking and NoLostWakeup, for any number of relays |
| SagaTypeCorrect, SagaInvariant | TypeOK and SagaInv of the services together |
| SagaIsSafe, SharedNightsNeedExpiry, RefundsAreNotMissed | ConfirmedHoldIsBacked, SharedNightNeedsExpiry, RefundIsNotMissed |
| SettledInvariant | the second inductive invariant of the services together, SettledInv |
| NobodyIsLeftWaiting, MoneyIsNeverLost | NobodyWaitsInVain and MoneyIsTracked: the safe core of BookingSettles and MoneySettles |
| ServicesKeepTheirPromises, SagaKeepsLifecycle | what is proved of each service in any environment holds of it in the saga |
| SagaUsesOutbox | the saga stages and sends as the abstract Outbox does |
| NoticesAgree | NoticesMatchBookings of the saga with the notification service |
| SagaKeepsContract | the services together implement StayContract |
| ConsumerTypeCorrect, ConsumerInvariant | ConsumerTypeOK and the inductive ConsumerInv |
| GroupSkipsNothing, OneMessageIsAtRisk | OffsetsSkipNothing and OneMessageAtRisk |
| GroupRefinesDelivery | the group implements the safety half of EventDelivery |
| CacheTypeCorrect, CatalogInvariant | CacheTypeOK and the inductive CatalogInv |
| OldPricesAreExcused, WrongRoomsAreExcused | OldPriceIsExcused, WrongRoomIsExcused |

The theorems about one service hold in any environment: whatever events of the
others it is given, in any order.

*Booking service.* EventsMatchStatus is not inductive: that a confirmation is
taken back only with a refund rests on a confirmed booking being paid, and that
on what each status says of the payment. `Coherent(b)` conjoins what the three
properties say of one booking, and BookingInv is Coherent for all of them with
the types; AnnouncedOnce follows from it, with the reasons a cancellation may
name (`ReasonsFit`). A handler changes one booking, and in one of five ways
(`HandlerKinds`: it moves quietly, confirms, asks for a refund, ends on a failed
payment, or records a payment); each keeps that booking coherent, and the others
are untouched. The refinement reuses the five kinds: each is one action of
BookingLifecycle, or leaves it alone. StatusOnlyMovesOn reuses them as well: each
keeps the status or raises its rank (`RankOf`).

*Inventory service.* ActiveHoldsAreDisjoint is inductive with the types: a hold
becomes active only in the insert that `StayFree` guards. AnswersMatchHolds is
not: a request handled twice would bring an ended hold back. `Agrees(b)` adds
that a hold is there only if its request is marked processed, and that whoever is
answered had a request handled.

*Payment service.* The rows, refunds and events of a call fit together
(`RowsFit`, `RefundsFit`, `EventsFit`) because a row is there only once its call
has returned, so that no call stores twice; `RowsDiffer` says of two calls what
the unique indexes forbid. An outcome that is stored has been told or was
lost, and `LossesFit` bounds what was lost by the faults. `ChargesFit`, inductive
beside them, accounts for every charge: its call has a row, is being stored, was
refused for a row that is there (`RefusedFor`), or crashed in a fault; the last
two leave no record.

*Outbox relay.* `SendsFit` counts how often a row has been sent against the
batches that were cut short and the one in hand; `LocksFit` says which relay
holds it. That a batch is never longer than its size rests on `FirstRows`: among
any rows there is a first. For the order, a booking's rows are decided in their
order (`EarlierDecided`), and when a relay has locked a row, the committed ones
before it are published or locked too (`EarlierTaken`), unless a failure beside
another relay has unlocked some; OrderPerBooking names the same two exceptions,
a row locked by another relay and such a failure, and with a single relay
neither exists. For the wakeup, a row some relay was told of is published, or
locked, or some relay will select again before it waits (`ToldIsTaken`).

*Consumer.* What has been taken from a partition has ended or is in hand of its
owner (`TakenIsEnded`); a loop that is done with a message has ended it
(`DoneIsEnded`); and everything before a message in hand has ended
(`EarlierIsEnded`), also in the hand of a replica the partition has been taken
from. That makes a late commit harmless: it moves an offset to the position of
a partition the replica owns then, up to which everything has ended. A position
moves only when the replica fetches, and it fetches only once it has committed
the positions of all its partitions: hence OneMessageAtRisk, for which
`OwnersAreMembers` adds that a stopped or expelled replica owns no partition. The last conjunct is the guard of EventDelivery's actions (`InTurn`).

*Catalog.* CatalogInv says of every entry, and of what every search in flight
has read, that it is up to date or has a reason not to be (`EntryExcused`,
`FlightExcused`), and that the aliases are among the keys left out. A price
update begins with every key either to be visited or left out; a visit empties
the entry and marks the searches in flight, so that what they write later is
excused by its mark.

*Together.* SagaInv takes the three invariants as they are and adds how far the
services have got with each other: what is consumed was staged (`BusFits`); a
confirmation is staged only after a hold, and a hold that has ended does not
come back (`RoomFits`); a payment recorded was stored, a refund asked for was of
a recorded payment, a refund made was asked for (`MoneyFits`). A step of one
service leaves the invariants of the other two alone, as they do not mention
what it changes (`OthersKeepInventoryInv`, `OthersKeepPaymentInv`), and what it
does to a booking is one of a few changes (`BookingEffect`, `HoldEffect`,
`RowsMove`). The contract follows: a booking is confirmed when money was taken,
and none of it was returned, since a refund is asked for only when the booking
is over.

That nothing is lost on the way rests on a second invariant. SagaInv says what an
event's being there implies; `SeenFits(b)` says what its having been consumed
does: whatever the booking service has consumed it has acted on, so that a
status that still waits for an event shows that the event was not consumed too
early (a handler does nothing, but marks the event processed, when the status
does not let it act). A consumed `inventory.held` has the booking out of PENDING, a
consumed rejection or refund has it ended, a consumed payment is recorded. It
is inductive because the statuses that wait are never entered again
(`StopsWaitingForGood`), and because an event is consumed by a booking that exists
(`AnsweredIsKnown`, `OutcomeIsKnown`). SettledInv is SagaInv with SeenFits and
ChargesFit. With it, a booking that waits has not consumed what it waits for,
while the invariants of the other services say that it was sent: hence
NobodyWaitsInVain, with faults too, as what was lost is remembered. A payment not
consumed is news, or its event was lost; one that was consumed is
recorded, and what Coherent says of a recorded payment is what MoneyIsTracked
asks for. A charge without a row is what ChargesFit leaves. Both leave to
fairness only that what is coming arrives.

What a service was proved to keep in any environment it keeps in the saga, whose
bus delivers some of the events that environment may: every step of Next is a
step of BookingSpec's next-state relation or leaves the booking service alone,
and the invariants of the other services are conjuncts of SagaInv.

A notice is of an event that was sent (`NoticeInv`), and what events say
stays true, but for a confirmation: BusFits has it for the money, `Over` is final, and
the outcome of an attempt is stored before it is told (`OutcomeTold`). A confirmed
booking leaves that status in two ways only, the guest's cancellation and a late
rejection, and each stages a refund in the same transaction (`LeavingConfirmed`);
so `ConfirmationStands` is inductive beside SagaInv.

Only model-checked: liveness (BookingSettles, OverFreesRoom, RefundIsMade,
MoneySettles, GuestIsTold, OneLoopIsEnough, CacheHeals) and the fairness of
ImplementsOutbox and ImplementsDelivery, as the prover has neither fairness nor
ENABLED; and the three claims that are violated. UsesOutbox is proved only: no run
repeats it.

## 6. What is not modelled

- Read-only requests: views of a booking, of a hotel, of notices, and the
  availability query but for the answer the catalog gets from it.
- Amounts, prices, texts and trace contexts: an amount is whether there is one,
  a price its version.
- The removal of notices after 90 days, and the length of a cache entry's life: an
  entry expires at any time.
- `catalog.room-updated`, which no service subscribes to.
- Several cities and stays: an invalidation of one city touches no key of
  another.
- Fault injection (`fault.py`), which delays or refuses a request before its
  handler runs, so that the request was not made; logging, metrics, web
  middleware; charts, infra, platform, gitops and CI, which have no operations.
- The order in which the notices of one booking are recorded: nothing in the
  repository promises one.

## 7. Plan

1. StayBook over `EventConsumer` instead of the set `sent`, with the order inside
   one partition: to show that the set allows every delivery the consumer makes,
   and which properties would be stronger with that order.
2. The order of notices: which ones a guest can get in the wrong order.
3. A second search city, if invalidation ever comes to cover more than one.
