SPECIFICATION FairSpec
CONSTANTS
    Images = {1, 2}
    Posters = {p1}
    Modes = {TRUE, FALSE}
    MaxTry = 1
    MaxFan = 2
    Events = {"redis", "expire", "send", "enqueue", "crash", "cancel", "reparse", "overlap"}
    MaxEvents = 2
INVARIANTS TypeOK CounterExact PostAfterLastImage ImageTextOnce
PROPERTIES LeavesProcessing
CHECK_DEADLOCK FALSE
