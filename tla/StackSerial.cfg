SPECIFICATION Spec
CONSTANTS
    Callers = {p1, p2}
    Values = {1, 2, 3}
    STACK_SIZE = 2
    NoCall = NoCall
    Overlap = FALSE
INVARIANTS
    TypeOK
    NoDuplicates
PROPERTIES
    ImplementsUniqueStack
