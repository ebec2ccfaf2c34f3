SPECIFICATION Spec
CONSTANTS
    W = 2
    INTERVAL = 2
    RETRIES = 15
    Malformed = Malformed
    NoPrefix = NoPrefix
    V6 = V6
    None = None
INVARIANTS
    TypeOK
    GateIsTheSubnet
    StaysHealthy
