SPECIFICATION FairSpec
CONSTANTS
    MaxImports = 2
    QuotaMax = 1
    CancelOn = FALSE
    MaxFaults = 1
PROPERTY
    QuotaReturns
CHECK_DEADLOCK FALSE
