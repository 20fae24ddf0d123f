SPECIFICATION FairSpec
CONSTANTS
    Handles = {"lead", "impl"}
    Lead = "lead"
    Posts <- MCPosts
    MaxLog = 5
    MaxBoots = 2
INVARIANTS
    HandedInLogOrder
    AnswersGoToTheAsker
    PendingAgreesWithLog
    BadgeAgreesWithFile
PROPERTIES
    AsksArePosed
CHECK_DEADLOCK FALSE
