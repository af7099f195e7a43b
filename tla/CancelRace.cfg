SPECIFICATION FairSpec
CONSTANTS
    summary = summary
    question = question
    wiki = wiki
    Slots = {summary}
    SummarySlot = summary
    WikiSlot = wiki
    MaxRetry = 0
    MaxReparse = 0
    MaxCrash = 0
    NeedsEmbedding = FALSE
    MaxCancel = 1
    MaxDelete = 0
    MaxRestart = 0
    MaxMiss = 0
    InspectorSees = TRUE
    FlakyStore = FALSE
PROPERTIES CancelNeverPromoted
CHECK_DEADLOCK FALSE
