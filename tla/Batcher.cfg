SPECIFICATION FairSpec
CONSTANTS
    Callers = {1, 2, 3}
    Texts = {t1, t2}
    MaxBatch = 2
    MaxPending = 1
    MaxBatchers = 2
    Nothing = Nothing
    Nil = Nil
    Error = Error
INVARIANTS TypeOK OwnVector OneBatcher
PROPERTIES Answered ShutdownEnds
CHECK_DEADLOCK FALSE
