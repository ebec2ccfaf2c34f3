SPECIFICATION Spec
CONSTANTS
    Device = {d1}
    IP = {a}
    Name = {n1, n2}
    Secret = {s}
    Token = {t1, t2, t3}
    Request = {r1, r2}
    None = None
    Unknown = Unknown
    Gone = Gone
INVARIANTS
    TokenServesVerifiedUser
