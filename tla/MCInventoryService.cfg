CONSTANTS
    b1 = b1
    b2 = b2
    Bookings = {b1, b2}
    Payments = {}
    NoPayment = NoPayment
    Room <- MCRoom
    CheckIn <- MCCheckIn
    CheckOut <- MCCheckOut
    MaxInventoryFaults = 1
SPECIFICATION InventorySpec
ACTION_CONSTRAINT FewCancellations
INVARIANTS
    ActiveHoldsAreDisjoint
    AnswersMatchHolds
CHECK_DEADLOCK FALSE
