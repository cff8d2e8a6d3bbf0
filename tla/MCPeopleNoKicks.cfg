SPECIFICATION PeopleSpec
CONSTANTS
    l1 = l1
    l2 = l2
    r1 = r1
    r2 = r2
    ip1 = ip1
    ip2 = ip2
    u1 = u1
    sa = sa
    sb = sb
    fa = fa
    fb = fb
    cu = cu
    cr = cr
    ClNone = ClNone
    ClLocal <- MCLocals
    ClRemote <- MCRemotes
    ClIp <- MCIp
    ClNicks = {n1, n2}
    ClMaxLocal = 1
    UmUsers = {u1}
    UmSplits = 1
    UmWire = 2
    MoUsers = {"u1", "u2"}
    MoKeys = {"k1", "k2"}
    MoMasks <- MCMoMasks
    MoLimits <- MCMoLimits
    MoHalf = 8
    MoMaxBans = 0
    MoMaxModes = 0
    MoWire = 1
    Users <- MCCnUsers
    Local <- MCCnLocal
    ULined <- MCCnRemote
    Chans = {c1, c2}
    Statuses = {"o"}
    ChanModes = {}
    Bannable <- MCCnLocal
    Limit = 1
    MaxChans = 1
    OperMaxChans = 2
    MaxInvites = 1
    SaJoinEarly = TRUE
    WtUsers = {w1, w2}
    WtNicks = {"a", "b"}
    WtMax = 2
    DaUsers = {d1, d2}
    DaNicks = {"a", "b"}
    DaHost <- MCDaHost
    DaLengths = {0, 2}
    DaMax = 2
    SiMasks = {"all", "bob"}
    SiSenders = {"bob", "eve"}
    SiMatches <- MCSiMatches
    SiPatterns <- MCSiPatterns
    SiMax = 1
    SpUsers <- MCSpUsers
    SpPrefixes = {"", "@"}
    SpLocal <- MCSpUsers
    SpModeSets <- MCSpModeSets
    SpUserModes <- MCSpUserModes
    SpSilencers <- MCSpSilencers
    SpTexts <- MCSpTexts
    SpOrders <- MCSpOrders
    SpExemptOps = {"g"}
    SpReplace = TRUE
    FlUsers = {fa, fb}
    FlOps = {fa}
    FlLines = 2
    FlJoins = 2
    FlSecs = 1
    FlLock = 1
    FlDelay = 2
    FlMost = 2
    BnUsers = {"u", "v"}
    BnChans = {"x", "y"}
    BnMasks = {"m"}
    BnMatches <- MCBnMatches
    BnBanSet <- MCBnBanSet
    BnListed <- MCBnListed
    BnMaxBans = 1
    BnLimits = {1}
    BnTime = {1}
    BnInvites = 1
    BnMost = 1
    BnModes = 3
    AcUsers = {"ann", "bob"}
    AcTypes <- MCAcTypes
    AcStatuses = {"h", "o"}
    AcOrders <- MCAcNoKicksFirst
    AcFounderFirst = TRUE
    AcDeprivSelf = FALSE
    AcRemoveNoKicks = TRUE
PROPERTIES
    AcNobodyKicks
CHECK_DEADLOCK FALSE
