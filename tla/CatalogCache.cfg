CONSTANTS
    Queries = {kazan, pattern}
    Aliases = {pattern}
    Rooms = {r1}
    Searches = {s1, s2}
    Updates = {u1}
    Consumer = Consumer
    NoEntry = NoEntry
    MaxPrice = 2
    MaxChanges = 2
    MaxFaults = 1
SPECIFICATION FairSpec
INVARIANTS
    OldPriceIsExcused
    WrongRoomIsExcused
PROPERTIES
    CacheHeals
CHECK_DEADLOCK FALSE
