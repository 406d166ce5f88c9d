SPECIFICATION Spec
CONSTANTS
    WORD = 128
    PAGE = 4
    ALIGN = 2
    OFLOWSIZE = 0
    PAGEALLOC = TRUE
    ALLOCUPPER = FALSE
    OFLOWWATCH = TRUE
    PRESERVE = TRUE
    HEAPPAGES <- EightPagesOf4
    SLOTS = 4
    CHUNKS = 4
    SIZES = {1, 3, 6}
    ALIGNS = {0}
    LIMITS = {0, 1}
INVARIANT GuardsInPlace
