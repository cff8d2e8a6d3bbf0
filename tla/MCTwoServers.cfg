SPECIFICATION TwoSpec
CONSTANTS
    alpha = alpha
    beta = beta
    c1 = c1
    c2 = c2
    c3 = c3
    a1 = a1
    a2 = a2
    b1 = b1
    None = None
    Servers <- MCServers
    Users <- MCThree
    Home <- MCHomeThree
    Keys = {"k1"}
    Topics = {"t1", "t2"}
    MaxTime = 2
    MaxLinks = 1
    MaxLines = 4
    Linked <- MCNone
INVARIANTS
    RecordsExact
    HalvesAgree
    FollowsExactly
SYMMETRY Symmetry
CHECK_DEADLOCK FALSE
