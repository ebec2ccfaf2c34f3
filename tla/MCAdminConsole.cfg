SPECIFICATION Spec
CONSTANTS
    PAGE_SIZE = 2
    MaxDevice = 4
    MaxUser = 3
    MaxSurprises = 1
    Owners <- MCOwners
    Archive <- MCArchive
    None = None
INVARIANTS
    TypeOK
    SelectionIsShown
    OneQuestionAtATime
    ColumnsTellTheServer
    DecisionsReachTheUsersDevices
