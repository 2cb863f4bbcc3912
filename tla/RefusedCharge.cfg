CONSTANTS
    b1 = b1
    p1 = p1
    p2 = p2
    p3 = p3
    p4 = p4
    Bookings = {b1}
    Payments = {p1, p2, p3, p4}
    NoPayment = NoPayment
    NoPayKey = NoPayKey
    EmptyPayKey = EmptyPayKey
    Room <- MCRoom
    CheckIn <- MCCheckIn
    CheckOut <- MCCheckOut
    PaysFor <- MCPaysFor
    PayKey <- MCPayKey
    MaxPaymentFaults = 0
SPECIFICATION PaymentSpec
SYMMETRY Symmetry
ACTION_CONSTRAINT FewCancellations
INVARIANTS
    RefusedChargeMeansPaid
CHECK_DEADLOCK FALSE
