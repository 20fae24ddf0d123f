CONSTANTS
    Writers = {w1, w2}
    Nobody = Nobody
    MaxId = 3
    MaxRemounts = 1
    ReaderLocks = {TRUE, FALSE}
SPECIFICATION FairSpec
INVARIANTS
    NoGluedLines
    LockedSkipsNothing
    BusReadsInOrder
PROPERTIES
    ImplementsAppendLog
    CommittedIsDelivered
