\* Two threads that use alloca().
CONSTANTS
    Threads = {t1, t2}
    Addresses = {a1}
    NULL = NULL
    SIZES = {1}
    NEWTYPES = {"alloca"}
    RESIZETYPES = {"realloc"}
    FREETYPES = {"dealloca"}
    FMAX = 0
    LIMIT = 0
    INFOS = 3
    SITES = {s1, s2}
    MAXPATH = 2
    HANDLER = FALSE
    HANDLERCALLS = 0
    MARKS = FALSE
    MISUSE = FALSE
SPECIFICATION Spec
INVARIANT AllocaInScopeIsLive
CHECK_DEADLOCK FALSE
