CONSTANTS
    q1 = q1
    q2 = q2
    e1 = e1
    e2 = e2
    bad = bad
    Replicas = {r1, r2}
    Nobody = Nobody
    NoMessage = NoMessage
    Partitions = {q1, q2}
    Log <- MCLog
    Undecodable = {bad}
    MaxDisturbances = 2
    MaxCommitFailures = 1
SPECIFICATION FairSpec
INVARIANTS
    ConsumerTypeOK
    OffsetsSkipNothing
    OneMessageAtRisk
PROPERTIES
    ImplementsDelivery
    OneLoopIsEnough
CHECK_DEADLOCK FALSE
