SPECIFICATION Spec
CONSTANTS
    Server = Server
    Clients = {c1}
    Agents = {a1}
    Started = {c1}
    BroadcastCap = 1
    MaxStops = 0
    MaxRestarts = 1
CHECK_DEADLOCK FALSE
PROPERTY NoServerRollback
