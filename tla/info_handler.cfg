\* A low-memory handler that frees and allocates, under a limit.
CONSTANTS
    Threads = {t1}
    Addresses = {a1, a2}
    NULL = NULL
    SIZES = {1, 2}
    NEWTYPES = {"malloc", "xmalloc"}
    RESIZETYPES = {"realloc", "expand", "xrealloc"}
    FREETYPES = {"free"}
    FMAX = 0
    LIMIT = 3
    INFOS = 2
    SITES = {s1}
    MAXPATH = 1
    HANDLER = TRUE
    HANDLERCALLS = 2
    MARKS = TRUE
    MISUSE = FALSE
SPECIFICATION FairSpec
INVARIANT BlocksExact
PROPERTY CallsAreAnswered
CHECK_DEADLOCK FALSE
