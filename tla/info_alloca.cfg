\* One thread, calls down to three functions deep, under a limit.
CONSTANTS
    Threads = {t1}
    Addresses = {a1, a2, a3}
    NULL = NULL
    SIZES = {1, 2}
    NEWTYPES = {"malloc", "alloca"}
    RESIZETYPES = {"realloc"}
    FREETYPES = {"free", "dealloca"}
    FMAX = 0
    LIMIT = 4
    INFOS = 3
    SITES = {s1, s2}
    MAXPATH = 3
    HANDLER = FALSE
    HANDLERCALLS = 0
    MARKS = FALSE
    MISUSE = TRUE
SPECIFICATION Spec
SYMMETRY SiteSymmetry
INVARIANT AllocaExact AllocaInScopeIsLive LimitKept
CHECK_DEADLOCK FALSE
