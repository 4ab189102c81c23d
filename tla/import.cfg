SPECIFICATION ImportSpec
CONSTANTS
    MaxImports = 2
    QuotaMax = 1
    CancelOn = TRUE
    MaxFaults = 1
    Documents <- MCDocuments
    Aliases <- MCAliases
    Tongues <- MCTongues
    Typed <- MCTyped
    Tabs = {p1, p2}
    Now = 40
    MaxEdits = 3
INVARIANTS
    TurnIsHeld
    CancelledStaysGone
    CancelIsRecorded
    ReviewIsKept
PROPERTIES
    ProcessingEnds
CHECK_DEADLOCK FALSE
