CONSTANTS
    Handles = {a, b, c}
    Readers = {a}
    All = All
    MaxEvents = 4
    MaxRemounts = 1
    Filters = {"since", "from"}
SPECIFICATION InboxSpec
SYMMETRY Symmetry
INVARIANTS
    ReadWasShown
CHECK_DEADLOCK FALSE
