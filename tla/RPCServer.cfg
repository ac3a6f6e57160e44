CONSTANTS
    Configs <- IOConfigs
    MaxMessages = 2
    MaxBatch = 1
    Entries = {"call"}
    Outcomes = {"return", "unencodable"}
SPECIFICATION FairSpec
INVARIANTS
    EverythingSettled
    GracefulShutdown
    InOrder
PROPERTIES
    QuietAfterReturn
    ImplementsService
    CancelReturns
    InputEndReturns
