SPECIFICATION PatientSpec
CONSTANTS
    summary = summary
    question = question
    wiki = wiki
    Slots = {summary, question}
    SummarySlot = summary
    WikiSlot = wiki
    MaxRetry = 0
    MaxReparse = 1
    MaxCrash = 0
    NeedsEmbedding = TRUE
    MaxCancel = 0
    MaxDelete = 0
    MaxRestart = 1
    MaxMiss = 0
    InspectorSees = TRUE
    FlakyStore = FALSE
INVARIANTS CounterCoversOutstanding NoEarlyCompletion
CHECK_DEADLOCK FALSE
