SPECIFICATION FairSpec
CONSTANTS
    MaxJobs = 1
    Slots = {s1}
    BatchSize = 1
    RecoveryOn = TRUE
    Sources = {"pasted"}
    Langs = {"pt-br"}
    Modes = {"full"}
    RetryFrom <- FromPages
    MaxRequests = 0
    MaxFaults = 1
PROPERTY
    RunningEnds
