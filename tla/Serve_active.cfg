CONSTANT
    Conns = {c1}
SPECIFICATION Spec
INVARIANT
    ActiveConnectionsFinish
