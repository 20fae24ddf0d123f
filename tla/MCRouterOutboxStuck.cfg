CONSTANTS
    None = None
    MaxEpoch = 1
    MaxWaiting = 1
    MaxDeliveries = 2
    MaxInputs = 2
    MaxReports = 0
    MaxUnread = 0
    MaxThreads = 9
    MaxRenudges = 0
    Prompt = TRUE
SPECIFICATION FairSpec
PROPERTIES
    ParkedIsFlushed
CHECK_DEADLOCK FALSE
