CONSTANTS
    None = None
    MaxEpoch = 2
    MaxWaiting = 1
    MaxDeliveries = 2
    MaxInputs = 1
    MaxReports = 0
    MaxUnread = 0
    MaxThreads = 3
    MaxRenudges = 0
    Prompt = FALSE
    Handles = {a, b, c}
    Readers = {a}
    All = All
    MaxEvents = 4
    MaxRemounts = 1
    Filters = {"from"}
SPECIFICATION PartsSpec
SYMMETRY Symmetry
INVARIANTS
    DeliveredAtMostOnce
    RelaysInOrder
    UnreadIsExact
    ReadWasShown
CHECK_DEADLOCK FALSE
