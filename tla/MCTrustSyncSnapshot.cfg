SPECIFICATION Spec
CONSTANTS
    Server = Server
    Clients = {c1}
    Agents = {a1, a2}
    Started = {c1, a2}
    BroadcastCap = 1
    MaxStops = 0
    MaxRestarts = 0
CHECK_DEADLOCK FALSE
INVARIANT SnapshotSuffices
