SPECIFICATION Spec
CONSTANTS
    Callers = {p1, p2}
    Values = {1, 2, 3}
    STACK_SIZE = 3
    NoCall = NoCall
    Overlap = TRUE
INVARIANTS
    NoDuplicates
