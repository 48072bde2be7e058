SPECIFICATION FairSpec
CONSTANTS
    DataBits = 8
    Samples = 16
    Words <- TestWords
    MaxSlip = 6
INVARIANTS
    TypeOK
    NoFrameError
PROPERTIES
    ImplementsChannel
    WordsArrive
