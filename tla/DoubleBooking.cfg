CONSTANTS
    b1 = b1
    b2 = b2
    p1 = p1
    p2 = p2
    NoPayment = NoPayment
    NoKey = NoKey
    NoPayKey = NoPayKey
    EmptyPayKey = EmptyPayKey
    Bookings = {b1, b2}
    Payments = {p1, p2}
    PaysFor <- OneForEach
    Room <- MCRoom
    CheckIn <- MCCheckIn
    CheckOut <- MCCheckOut
    RequestKey <- MCRequestKey
    PayKey <- MCPayKey
    MaxInventoryFaults = 0
    MaxPaymentFaults = 0
SPECIFICATION Spec
CHECK_DEADLOCK FALSE
ACTION_CONSTRAINT Competition
INVARIANT NoDoubleBooking
