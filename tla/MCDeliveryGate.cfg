CONSTANTS
    Typers = {t1, t2}
    Routers = {r1, r2}
    None = None
    MaxGeneration = 2
    MaxTicket = 3
SPECIFICATION FairSpec
INVARIANTS
    OneHolder
    TicketsAccounted
PROPERTIES
    BodyIsFollowedByItsEnter
    StaleThreadsAreInert
    ImplementsComposerLock
    QueuedInputIsAnswered
CHECK_DEADLOCK FALSE
