CONSTANTS
    Configs <- NetConfigs
    MaxMessages = 1
    MaxBatch = 3
    Entries = {"call", "notify", "invalid"}
    Outcomes = {"return", "panic", "unencodable"}
SPECIFICATION Spec
INVARIANTS
    FrameComplete
    SerialInOrder
