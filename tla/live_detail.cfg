SPECIFICATION FairSpec
CONSTANTS
    Jobs = {j1}
    Watched = {j1}
    View = "detail"
    Publishers = {w}
    Recovered = {}
    Buffer = 1
    MaxConns = 2
    MaxLoads = 2
    MaxWrites = 3
    MaxFaults = 1
INVARIANT
    ToldIsShown
PROPERTIES
    PageSettles
