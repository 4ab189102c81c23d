SPECIFICATION FairSpec
CONSTANTS
    MaxJobs = 2
    Slots = {s1}
    BatchSize = 1
    RecoveryOn = TRUE
    Sources = {}
    Langs = {"pt-br"}
    Modes = {"full"}
    RetryFrom <- FromApi
    MaxRequests = 1
    MaxFaults = 1
PROPERTIES
    ProcessingIsRecovered
    PendingIsTaken
