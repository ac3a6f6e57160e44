SPECIFICATION BridgeSpec
CONSTANTS
    Posts = {p1, p2}
    Stoppable = {p2}
    Lookups = {p1, p2}
    p1 = p1
    p2 = p2
    Roles <- MCRoles
    Payloads <- MCPayloads
    OtherBodies <- MCOtherBodies
    Nobody = Nobody
    Handlers = {h}
    Defaults = {d}
    NoHandler = NoHandler
    MaxChanges = 2
INVARIANTS
    OwnHTTPResponse
    StatusTells
    RoutedWhileRegistered
CHECK_DEADLOCK FALSE
PROPERTY ExchangeEnds
