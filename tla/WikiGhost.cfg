SPECIFICATION Spec
CONSTANTS
    Docs = {d1}
    Slugs = {s1}
    Workers = {1}
    BatchSize = 2
    MaxFail = 0
    Settled = {}
    Reparsable = {d1}
    Deletable = {d1}
    Faults = {}
    MaxFaults = 0
INVARIANTS NoGhostAtRest
CHECK_DEADLOCK FALSE
