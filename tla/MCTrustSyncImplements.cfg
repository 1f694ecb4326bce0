SPECIFICATION Spec
CONSTANTS
    Server = Server
    Clients = {c1}
    Agents = {a1, a2}
    Started = {c1, a1}
    BroadcastCap = 1
    MaxStops = 1
    MaxRestarts = 1
CONSTRAINT OneFault
CHECK_DEADLOCK FALSE
PROPERTY Implements
