SPECIFICATION Spec
CONSTANTS
    MaxJobs = 1
    Slots = {s1, s2}
    BatchSize = 2
    RecoveryOn = TRUE
    Sources = {"pasted"}
    Langs = {"pt-br", "en"}
    Modes = {"full", "cover_only"}
    RetryFrom <- FromPages
    MaxRequests = 2
    MaxFaults = 2
SYMMETRY SlotSymmetry

    
PROPERTIES
    SettledStaysSettled
    
