CONSTANTS
    SlotIds = {i1, i2, i3}
    Names = {renamed, l1}
    renamed = renamed
    claude = claude
    codex = codex
    Runners = {k1, k2}
    Engines <- MCEngines
    NewSlots <- MCNewSlots
    Patches <- MCPatches
    Editors = {j1, j2}
    Inherit = Inherit
    Omit = Omit
    MaxEdits = 2
    Slots = {j1, j2}
    None = None
    Callers = {k1, k2}
    Ops = {"archive", "kill", "resume", "restart"}
    MaxChildren = 2
    MaxMoves = 3
    CodexRows = {j1, j2}
    Stranger = Stranger
    Watchers = {k1, k2}
    Markers = {TRUE, FALSE}
    MaxLaunches = 2
    MaxAppRuns = 2
SPECIFICATION WorkspaceSpec
SYMMETRY WorkspaceSymmetry
INVARIANTS
    SlotsAreOrdered
    OneLeadUnlessStale
    ModelFitsEngine
    OneChildUnlessOvertaken
    ExitIsTheTruth
    ArchivedIsDeadUnlessMissed
    EveryChildHasItsHandle
    KilledIsNotACrash
    KeysAreNotShared
    NobodyIsRobbed
    FreshStaysFresh
CHECK_DEADLOCK FALSE
