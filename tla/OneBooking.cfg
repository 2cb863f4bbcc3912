CONSTANTS
    b1 = b1
    p1 = p1
    p2 = p2
    NoPayment = NoPayment
    NoKey = NoKey
    NoPayKey = NoPayKey
    EmptyPayKey = EmptyPayKey
    Bookings = {b1}
    Payments = {p1, p2}
    PaysFor <- MCPaysFor
    Room <- MCRoom
    CheckIn <- MCCheckIn
    CheckOut <- MCCheckOut
    RequestKey <- MCRequestKey
    PayKey <- MCPayKey
    MaxInventoryFaults = 1
    MaxPaymentFaults = 1
SPECIFICATION NoticeSpec
INVARIANTS
    TypeOK
    ConfirmedHoldIsBacked
    RefundIsNotMissed
    MoneyIsTracked
    NobodyWaitsInVain
    NoticesMatchBookings
PROPERTIES
    ImplementsContract
CHECK_DEADLOCK FALSE
