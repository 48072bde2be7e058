SPECIFICATION FairSpec
CONSTANTS
    Clients = {c1, c2}
    Steady = {c2}
    NoClient = NoClient
    MAX_CLIENTS = 1
    BACKLOG = 2
    FdLimit = 6
    Present = {page}
    Unreadable = {dir}
    Absent = {missing}
    Index = page
    Home = Home
    Malformed = Malformed
    NoName = NoName
PROPERTIES
    SplitRequestIsLost
    RequestsAreAnswered
CHECK_DEADLOCK FALSE
