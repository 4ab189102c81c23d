SPECIFICATION FairSpec
CONSTANTS
    Calls = {"c1"}
    Saves = {1, 2}
    Asked = {"triage", "import"}
    Forms <- MCForms
    Stored <- MCStored
    ScrapeEnv = FALSE
    MaxRetries = 2
INVARIANTS
    StaleChainHasACause
    ChainOfOneSave
PROPERTIES
    PauseMeansLimited
    KeyIsKept
    CallEnds
CHECK_DEADLOCK FALSE
