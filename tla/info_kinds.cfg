\* Blocks of every kind, marks, misuse; one freed block is kept.
CONSTANTS
    Threads = {t1}
    Addresses = {a1, a2, a3}
    NULL = NULL
    SIZES = {0, 1, 2}
    NEWTYPES = {"malloc", "alloca", "new", "newvec"}
    RESIZETYPES = {"realloc", "reallocf", "expand"}
    FREETYPES = {"free", "dealloca", "delete", "deletevec"}
    FMAX = 1
    LIMIT = 0
    INFOS = 5
    SITES = {s1}
    MAXPATH = 2
    HANDLER = FALSE
    HANDLERCALLS = 0
    MARKS = TRUE
    MISUSE = TRUE
SPECIFICATION Spec
SYMMETRY BlockSymmetry
INVARIANT BlocksExact ErrorsExact
CHECK_DEADLOCK FALSE
