CONSTANTS
    Bookings = {b1}
    Payments = {p1, p2}
    NoPayment = NoPayment
    NoKey = NoKey
    Room <- MCRoom
    CheckIn <- MCCheckIn
    CheckOut <- MCCheckOut
    RequestKey <- MCRequestKey
SPECIFICATION BookingSpec
INVARIANTS
    PaymentMatchesStatus
    EventsMatchStatus
    PaidEndIsRefunded
    AnnouncedOnce
PROPERTIES
    StatusOnlyMovesOn
    ImplementsLifecycle
CHECK_DEADLOCK FALSE
