CONSTANTS
    c1 = c1
    c2 = c2
    NoOne = NoOne
    Callers <- TwoCallers
    Kinds = {"PacketEncoder"}
    Transports = {"deadline"}
    TimeoutKinds = {"PacketEncoder"}
SPECIFICATION FairSpec
PROPERTY
    TimeoutEnds
