SPECIFICATION Spec
CONSTANTS
    u1 = u1
    u2 = u2
    r1 = r1
    Users <- MCUsers
    Local <- MCLocal
    ULined = {}
    Chans = {c1}
    Statuses = {"o", "h"}
    ChanModes = {"i", "k", "l"}
    Bannable = {}
    Limit = 1
    MaxChans = 1
    OperMaxChans = 1
    MaxInvites = 1
    SaJoinEarly = FALSE
SYMMETRY LocalSymmetry
INVARIANT MembersExact
PROPERTIES
    ImplementsMembership
    OplessStaysOpless
CHECK_DEADLOCK FALSE
