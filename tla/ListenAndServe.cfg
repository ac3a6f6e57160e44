CONSTANTS
    Conns = {c1, c2}
    Routines = {r1, r2, r3}
    Requests = {q1, q2, q3}
SPECIFICATION ListenFairSpec
INVARIANTS
    NothingLeft
    ConnectionsAreIsolated
    PacketNothingLeft
    ChannelFits
    CutOnlyAfterTimeout
PROPERTIES
    CancelEnds
    AcceptErrorEndsServe
    FirstEndsAll
    HelperEnds
