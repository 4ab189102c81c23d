SPECIFICATION Spec
CONSTANTS
    r1 = r1
    r2 = r2
    u1 = u1
    u2 = u2
    Runs <- MCRuns
    Urls <- MCUrls
    Settings <- MCSettings
    Batch = 1
    ReadAgainAfter = 2
    MaxDay = 2
    MaxFaults = 1
INVARIANTS
    OneWorks
    ExcessIsRaced
    UncountedHasACause
    RepeatIsRaced
PROPERTIES
    EndedPutsNothing
SYMMETRY Sym
