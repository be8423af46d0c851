SPECIFICATION FairSpec
CONSTANTS
    MaxTickets = 2
    Before = {1, 2}
    Limit = 1
    Starts = {"open", "acknowledged"}
    Filters = {"all", "open"}
    MaxActs = 3
    MaxSwipes = 2
    MaxOthers = 1
INVARIANTS
    HiddenRowsExplained
    BulkTruthful
    QueueInv
PROPERTIES
    EventuallyShown
CHECK_DEADLOCK FALSE
