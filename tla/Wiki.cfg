SPECIFICATION FairSpec
CONSTANTS
    Docs = {d1, d2}
    Slugs = {s1}
    Workers = {1, 2}
    BatchSize = 2
    MaxFail = 0
    Settled = {d2}
    Reparsable = {d2}
    Deletable = {d1}
    Faults = {"crash", "redis", "insert", "trigger", "database", "setup", "edit", "cleanup"}
    MaxFaults = 1
INVARIANTS TypeOK OneBatch NoStrandedOp  NoGhostAtRest
PROPERTIES SlotsDrain
CHECK_DEADLOCK FALSE
