SPECIFICATION FairSpec
CONSTANTS
    DataBits = 1
    Samples = 4
    Div = 2
    Ten = 1
    Words <- TestWords
    Addresses = {1}
INVARIANTS
    TypeOK
    StatusIsTrue
    TicksAgree
PROPERTIES
    SenderReturns
    WordIsAnnounced
