SPECIFICATION Spec
CONSTANTS
    Conn = {c1, c2, c3}
    Name = {n1, n2}
    None = None
INVARIANTS
    TypeOK
    CheckedNameStaysFree
PROPERTIES
    EveryRequestIsAnswered
    SignUpIsAtomic
