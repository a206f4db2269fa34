SPECIFICATION Spec
CONSTANTS
    Nil = Nil
    Null = Null
    Ints = {1, 2, 4}
    Names = {a}
    Values = {v1, v2}
    HASHES = {0, 1, 3}
    LOOPS = TRUE
    MAX_USED = 4
    HBITS = {0}
    ASIZES = {4}
VIEW Future
SYMMETRY Symmetric
CHECK_DEADLOCK FALSE
INVARIANTS
    TypeOK
    LengthIsBorder
PROPERTY ImplementsDict
