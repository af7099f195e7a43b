SPECIFICATION FairSpec
CONSTANTS
    summary = summary
    question = question
    wiki = wiki
    Slots = {summary, wiki}
    SummarySlot = summary
    WikiSlot = wiki
    MaxRetry = 0
    MaxReparse = 0
    MaxCrash = 2
    NeedsEmbedding = TRUE
    MaxCancel = 0
    MaxDelete = 0
    MaxRestart = 1
    MaxMiss = 1
    InspectorSees = TRUE
    FlakyStore = TRUE
PROPERTIES Settles SweepSparesScanned
CHECK_DEADLOCK FALSE
