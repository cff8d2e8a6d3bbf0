SPECIFICATION ProgressFairSpec
CONSTANTS
    alpha = alpha
    beta = beta
    c1 = c1
    b1 = b1
    b2 = b2
    ea = ea
    eb = eb
    ec = ec
    None = None
    Servers <- MCServers
    Conns <- MCConns
    Dialer <- MCDialer
    MaxFailures = 3
    BgClients = {b1, b2}
    BgSilent = {b1}
    BgReg = 2
    BgPing = 3
    BgDns = 1
    BgDummy = 9
    BgSteps = {1}
    PiOutside = PiOutside
    PiEnds = {ea, eb, ec}
    PiPeer <- MCPiPeer
    PiEngines = {"epoll", "select"}
    PiRoom = 1
    PiQueue = 2
    QuFlood = 2
    QuThreshold = 1
    QuRecvMax = 3
    QuSendMax = 2
    QuPing = 2
    DbUsers = {d1, d2}
    DbNobody = nobody
    DbProviders = {"pgsql", "mysql", "sqlite"}
    DbQueries = 2
    DbLosses = 1
    CoLinks = {"hub", "spare"}
    CoFailover <- MCCoFailover
    CoNamed = {"spare"}
    CoAuto = {"hub"}
    CoPeriod = 1
    CoConfigs <- MCCoConfigs
    CoFlaps = 1
    CoNone = "none"
INVARIANTS
    ProgressTypeOK
PROPERTIES
    LinkKept BgEnds PiWritten QuLimits DbAnswersArrive CoKeepsLinks
CHECK_DEADLOCK FALSE
