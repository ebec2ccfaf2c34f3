SPECIFICATION Spec
CONSTANTS
    Device = {d1}
    IP = {a, b}
    Name = {n1, n2}
    Token = {t1, t2}
    Call = {c1, c2}
    Group = {g1, g2}
    Password = {p1}
    None = None
    Unknown = Unknown
    Gone = Gone
SYMMETRY Symmetry
INVARIANTS
    TypeOK
    ReferencesHold
    ShownToOwner
    ServedWhereApproved
PROPERTIES
    PasswordsKeepTheirOwner
