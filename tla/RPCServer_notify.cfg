CONSTANTS
    Configs <- DefaultConfig
    MaxMessages = 1
    MaxBatch = 1
    Entries = {"call", "notify"}
    Outcomes = {"return", "panic"}
SPECIFICATION Spec
INVARIANT NotificationSilent
