SPECIFICATION DevicesSpec
CONSTANTS
    agent = agent
    root = root
    user = user
    session = session
    Members <- MCMembers
    CertificateType <- MCCertificateType
    Device = agent
    Chain <- MCChain
    MetaCreators <- MCMetaCreators
    Adders <- MCAdders
    MaxOperations = 4
    MaxFaults = 1
    GroupIds = {"g1", "g2"}
    DataTypes = {"Tree", "GroupState"}
    KeyTables = {"openmls_epoch_key_pairs", "openmls_key_package"}
    Keys = {"k1"}
    ProposalRefs = {"r1", "r2"}
    Values = {"v1", "v2"}
    MaxCalls = 4
    ChannelCap = 1
    MaxItems = 3
    MaxStamp = 3
    MaxMains = 1
    MaxCrashes = 1
    Slots <- MCSlots
    Requests = {"u1", "u2"}
    MaxManual = 1
    Nodes = {"n1", "n2"}
    SpkiHashes = {"k1", "k2"}
    ValidityDuration <- MCValidityDuration
    MaxParents = 2
    MaxTime = 4
    MaxSkew = 1
CHECK_DEADLOCK FALSE
INVARIANTS
    DevicesTypeOK
    
    BackendsAgree
    ShowsWhatItWasTold
    
    StoredIsAccepted
 
