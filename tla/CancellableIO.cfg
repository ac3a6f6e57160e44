CONSTANTS
    c1 = c1
    c2 = c2
    NoOne = NoOne
    Callers <- TwoCallers
    Kinds = {"StreamEncoder", "StreamDecoder", "PacketEncoder", "PacketDecoder"}
    Transports = {"deadline", "closer"}
    TimeoutKinds = {"StreamEncoder", "StreamDecoder", "PacketEncoder"}
SPECIFICATION FairSpec
INVARIANTS
    StreamOwnDeadline
    NothingOutlives
PROPERTY
    InterruptedEnds
