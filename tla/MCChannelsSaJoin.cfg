SPECIFICATION Spec
CONSTANTS
    u1 = u1
    u2 = u2
    r1 = r1
    Users <- MCLocal
    Local <- MCLocal
    ULined = {}
    Chans = {c1}
    Statuses = {"o"}
    ChanModes = {}
    Bannable = {}
    Limit = 1
    MaxChans = 1
    OperMaxChans = 1
    MaxInvites = 1
    SaJoinEarly = TRUE
SYMMETRY LocalSymmetry
INVARIANTS NoDanglingMember
CHECK_DEADLOCK FALSE
