CONSTANTS
    Streams <- SomeStreams
    Limits = {0, 1, 2, 3}
SPECIFICATION Spec
INVARIANTS
    ExcessBounded
    FittingNeverRefused
