CONSTANTS
    None = None
    MaxEpoch = 2
    MaxWaiting = 0
    MaxDeliveries = 2
    MaxInputs = 2
    MaxReports = 1
    MaxUnread = 1
    MaxThreads = 9
    MaxRenudges = 1
    Prompt = TRUE
    Sessions = {c1, c2}
    Tabs = {t1, t2}
    Windows = {w1}
    NoOne = NoOne
    MaxTurns = 4
SPECIFICATION PartsFairSpec
INVARIANTS
    PillIsCurrent
    NoDotInView
    TurnsAreAnnounced
PROPERTIES
    ParkedIsFlushed
CHECK_DEADLOCK FALSE
