SPECIFICATION ProcessesSpec
CONSTANTS
    Clients = {c1, c2}
    MaxStops = 1
    MaxBreaks = 1
    Server = Server
    TrustClients = {t1}
    Agents = {a1, a2}
    BroadcastCap = 1
    MaxRestarts = 1
    MaxLogins = 2
    TunnelIds = {"t1", "t2"}
    LocalPort <- MCLocalPort
    Streams = {"x1", "x2"}
    LengthBytes = 2
    Sizes = {127, 128, 32768}
    PipeCap = 1
    MaxInputs = 1
    MaxOutputs = 1
CHECK_DEADLOCK FALSE
INVARIANTS
    ProcessesTypeOK
    InitialisedByOne
    SessionsFit
    TunnelsAreKnown
    ReadsWhatWasWritten
PROPERTIES
    SessionsAreProven
    EverythingEnds
