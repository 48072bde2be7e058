SPECIFICATION Spec
CONSTANTS
    DataBits = 1
    Samples = 4
    Div = 2
    Ten = 1
    Words <- TestWords
    Addresses = {0, 2}
PROPERTIES
    ReadyClearedByReader
