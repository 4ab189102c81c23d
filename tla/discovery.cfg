SPECIFICATION FairSpec
CONSTANTS
    k1 = k1
    Requests = {q1}
    Users = {u1}
    Keys = {k1}
    Settings <- MCSettings
    Timer = timer
    MaxRuns = 2
    MaxFaults = 1
INVARIANTS
    PlanFollows
    OneSweep
    SkippedWasSearched
PROPERTIES
    SweepsEnd
