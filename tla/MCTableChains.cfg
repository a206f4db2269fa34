SPECIFICATION Spec
CONSTANTS
    Nil = Nil
    Null = Null
    Ints = {}
    Names = {a, b, c, d}
    Values = {v}
    HASHES = {0, 5, 6, 7}
    LOOPS = FALSE
    MAX_USED = 5
    HBITS = {0, 3}
    ASIZES = {}
VIEW Future
SYMMETRY Symmetric
CHECK_DEADLOCK FALSE
PROPERTY ImplementsDict
