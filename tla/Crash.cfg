SPECIFICATION Spec
CONSTANTS
    summary = summary
    question = question
    wiki = wiki
    Slots = {summary}
    SummarySlot = summary
    WikiSlot = wiki
    MaxRetry = 1
    MaxReparse = 0
    MaxCrash = 1
    NeedsEmbedding = FALSE
    MaxCancel = 0
    MaxDelete = 0
    MaxRestart = 0
    MaxMiss = 0
    InspectorSees = TRUE
    FlakyStore = FALSE
INVARIANTS NoDuplicateText
CHECK_DEADLOCK FALSE
