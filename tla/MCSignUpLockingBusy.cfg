SPECIFICATION Spec
CONSTANTS
    Conn = {c1, c2}
    Name = {n1, n2}
    None = None
PROPERTIES
    BusyWaits
