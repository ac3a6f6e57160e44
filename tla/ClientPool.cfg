CONSTANTS
    c1 = c1
    c2 = c2
    k1 = k1
    k2 = k2
    None = None
    Callers <- TwoCallers
    Notifiers <- OneNotifier
    Patient <- OneNotifier
    Conns <- TwoConns
    MaxSize = 2
    Retries = 1
    AcquireOnCreate = FALSE
SPECIFICATION FairSpec
INVARIANTS
    ExclusiveUse
    FailedNeverReused
    TokensConserved
    CloseIsFinal
    RetryBudget
    ResetCondemns
PROPERTIES
    EverythingEnds
    ReaperLives
