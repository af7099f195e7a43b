SPECIFICATION FairSpec
CONSTANTS
    Calls = {c1}
    Resolvers = {r1, r2}
    Instances = {a, b}
    WithRedis = TRUE
INVARIANTS
    TypeOK
    NoUnapprovedRun
    RepliesHonest
PROPERTIES
    Implements
    CallsEnd
    ResolversReturn
CHECK_DEADLOCK FALSE
