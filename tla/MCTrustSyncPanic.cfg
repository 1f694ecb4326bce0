SPECIFICATION Spec
CONSTANTS
    Server = Server
    Clients = {c1, c2}
    Agents = {a1, a2}
    Started = {c1, c2}
    BroadcastCap = 1
    MaxStops = 0
    MaxRestarts = 0
CHECK_DEADLOCK FALSE
INVARIANT ApplyNeverPanics
