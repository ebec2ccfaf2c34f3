SPECIFICATION Spec
CONSTANTS
    Device = {d1, d2}
    IP = {a, b}
    Name = {n1, n2}
    Secret = {s}
    Token = {t1, t2}
    Request = {r1, r2}
    None = None
    Unknown = Unknown
    Gone = Gone
SYMMETRY Symmetry
INVARIANTS
    TypeOK
    ApprovalCoversBinding
    LinkedDevicesAreWhole
    OneDevicePerAddress
    TokenNamesItsDevice
    NoUserWithoutToken
    RequestsAreBacked
PROPERTIES
    DeadTokensStayDead
    DeletedDevicesStayDeleted
    RefinesRegistry
