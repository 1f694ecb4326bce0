SPECIFICATION NodesSpec
CONSTANTS
    Server = Server
    Clients = {c1, c2}
    Agents = {a1, a2}
    Started = {c1, c2, a1, a2}
    BroadcastCap = 1
    MaxStops = 1
    MaxRestarts = 1
SYMMETRY Symmetry
CHECK_DEADLOCK FALSE
INVARIANTS
    TypeOK
    TableIsOneChain
    ServerFollowsTable
    NoFork
    Recoverable
    LiveNodeComplete
    JoinedAgentsRecorded
PROPERTY NeverRegresses
