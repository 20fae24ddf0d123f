CONSTANTS
    None = None
    Slots = {s1, s2}
    Callers = {k1}
    Ops = {"stop"}
    MaxChildren = 2
    MaxMoves = 3
    Clients = {i1, i2}
    Nobody = Nobody
    MaxRouters = 2
    MaxCommands = 6
SPECIFICATION PartsSpec
INVARIANTS
    OneTerminalEvent
    RuntimeIsTheMissions
    TreeShowsTheMission
PROPERTIES
    SiblingsAreReaped
    RowsSettle
CHECK_DEADLOCK FALSE
