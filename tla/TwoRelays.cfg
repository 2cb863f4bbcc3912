CONSTANTS
    Relays = {r1, r2}
    MaxRows = 3
    BatchSize = 2
    BookingOf <- MCBookingOf
    MaxFailures = 2
SPECIFICATION FairSpec
INVARIANTS
    RelayTypeOK
    PublishedWasSent
    DuplicatesNeedFailure
    NoLostWakeup
PROPERTIES
    OrderPerBooking
    ImplementsOutbox
