SPECIFICATION Spec
CONSTANTS
    Jobs = {j1}
    Watched = {j1}
    View = "list"
    Publishers = {w, h}
    Recovered = {h}
    Buffer = 1
    MaxConns = 2
    MaxLoads = 2
    MaxWrites = 3
    MaxFaults = 1
INVARIANTS
    OutdatedHasACause
