SPECIFICATION Spec
CONSTANTS
    summary = summary
    question = question
    wiki = wiki
    Slots = {summary}
    SummarySlot = summary
    WikiSlot = wiki
    MaxRetry = 0
    MaxReparse = 0
    MaxCrash = 0
    NeedsEmbedding = TRUE
    MaxCancel = 2
    MaxDelete = 1
    MaxRestart = 0
    MaxMiss = 0
    InspectorSees = TRUE
    FlakyStore = FALSE
PROPERTIES DeletedStaysEmpty CancelHolds
CHECK_DEADLOCK FALSE
