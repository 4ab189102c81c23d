SPECIFICATION Spec
CONSTANTS
    MaxJobs = 2
    Slots = {s1, s2}
    BatchSize = 2
    RecoveryOn = TRUE
    Sources = {"pasted"}
    Langs = {"pt-br"}
    Modes = {"full"}
    RetryFrom <- FromApi
    MaxRequests = 1
    MaxFaults = 1
SYMMETRY SlotSymmetry
INVARIANTS
    TypeOK
    OneRunPerJob
    InFlightIsOwned
    
