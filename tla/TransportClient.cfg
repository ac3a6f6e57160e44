CONSTANTS
    c1 = c1
    c2 = c2
    NoOne = NoOne
    Callers <- TwoCallers
    Ops = {"call", "notify", "close"}
    Transports = {"deadline", "closer", "plain"}
    IdleTimeouts = {TRUE, FALSE}
SPECIFICATION FairSpec
INVARIANTS
    ResponseMatches
    SpentAfterFailure
PROPERTIES
    CancelledReturn
