SPECIFICATION NetworkSpec
CONSTANTS
    alpha = alpha
    beta = beta
    a1 = a1
    b1 = b1
    u1 = u1
    u2 = u2
    k1 = k1
    i1 = i1
    ip1 = ip1
    ip2 = ip2
    h1 = h1
    h2 = h2
    gu = gu
    hc = hc
    hd = hd
    None = None
    Servers <- MCServers
    Users <- MCUsers
    Home <- MCHome
    Keys = {}
    Topics = {}
    MaxTime = 2
    MaxLinks = 2
    MaxLines = 3
    Linked <- MCComeAndGo
    SoUsers = {u1, u2}
    SoLinks = {k1}
    SoIdents = {i1}
    SoMaxFd = 2
    SoOverlap = FALSE
    SoNone = SoNone
    ReIds = {0, 1}
    ReUsers = {ru}
    ReAddresses = {ip1, ip2}
    ReReverse <- MCReReverse
    ReForward <- MCReForward
    ReModule = ReModule
    ReNone = ReNone
    SlModules = {"openssl", "gnutls", "zip"}
    SlConns = 2
    SlWrites = 3
    SlReads = 2
    SlDropsBusy = FALSE
    NsServers <- MCNsServers
    NsHome <- MCNsHome
    NsNicks = {"n", "m"}
    NsWire = 1
    NsActs = 2
    NsSplits = 1
    TrServers = {"a", "b", "c"}
    TrPlans <- MCTrPlans
    TrDials = 3
    TrLosses = 1
    TrNone = "none"
    GwUsers = {gu}
    GwAddresses <- MCGwAddresses
    GwConfs <- MCGwConfs
    GwSent <- MCGwSent
    GwLists = {"bl"}
    GwAction <- MCGwAction
    GwListed <- MCGwListed
    GwMaxClones = 1
    GwElsewhere <- MCGwElsewhere
    GwMaxLookups = 2
    GwMaxLines = 1
    GwNobody = GwNobody
    HtConns = {hc, hd}
    HtRequests <- MCHtRequests
    HtSays = 1
    HtTimers = {1, 2, 3, 4}
INVARIANTS
    NetworkTypeOK SplitsHeal NsAgree SoDescriptorsLive ReAnswered
    SlSessionsOwn TrOneTree HtAnswered
PROPERTIES
    GwRightAddress
CHECK_DEADLOCK FALSE
