SPECIFICATION Spec
CONSTANTS
    summary = summary
    question = question
    wiki = wiki
    Slots = {summary, wiki}
    SummarySlot = summary
    WikiSlot = wiki
    MaxRetry = 1
    MaxReparse = 0
    MaxCrash = 0
    NeedsEmbedding = TRUE
    MaxCancel = 0
    MaxDelete = 0
    MaxRestart = 0
    MaxMiss = 0
    InspectorSees = TRUE
    FlakyStore = TRUE
INVARIANTS TypeOK CounterCoversOutstanding CompletedIsIndexed
PROPERTIES FailedIsFinal ImplementsJob
CHECK_DEADLOCK FALSE
