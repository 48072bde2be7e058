SPECIFICATION Spec
CONSTANTS
    Clients = {c1, c2, c3}
    Steady = {c2, c3}
    NoClient = NoClient
    MAX_CLIENTS = 2
    BACKLOG = 1
    FdLimit = 6
    Present = {page}
    Unreadable = {dir}
    Absent = {index}
    Index = index
    Home = Home
    Malformed = Malformed
    NoName = NoName
INVARIANTS
    TypeOK
    TablesAgree
    ReadNeverBlocks
    AnswerFitsRequest
PROPERTIES
    ClosedOnlyAnswered
    ExhaustionIsPermanent
SYMMETRY SteadyAlike
CHECK_DEADLOCK FALSE
