SPECIFICATION Spec
CONSTANTS
    MaxPassword = 2
    Group = {1, 2}
    DAY = 2
    MaxNow = 3
    MaxSurprises = 2
    MaxDays = 2
    DefaultDays = 2
    MaxSize = 2
    DefaultSize = 1
    AskedDays = {0, None, 3}
    AskedSize = {None, 9}
    None = None
INVARIANTS
    TypeOK
    EntriesAreRight
    PagesMissNothing
    PagesRepeatNothing
