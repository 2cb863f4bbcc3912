CONSTANTS
    q1 = q1
    q2 = q2
    e1 = e1
    e2 = e2
    bad = bad
    Replicas = {r1}
    Nobody = Nobody
    NoMessage = NoMessage
    Partitions = {q1, q2}
    Log <- MCLog
    Undecodable = {bad}
    MaxDisturbances = 0
    MaxCommitFailures = 1
SPECIFICATION FairSpec
PROPERTIES
    ReadyConsumes
CHECK_DEADLOCK FALSE
