SPECIFICATION Spec
CONSTANTS
    WORD = 128
    PAGE = 8
    ALIGN = 2
    OFLOWSIZE = 2
    PAGEALLOC = FALSE
    ALLOCUPPER = FALSE
    OFLOWWATCH = FALSE
    PRESERVE = FALSE
    HEAPPAGES <- FourPagesOf8
    SLOTS = 4
    CHUNKS = 4
    SIZES = {1, 4}
    ALIGNS = {0}
    LIMITS = {0, 1, 2}
INVARIANT TypeOK
INVARIANT SlotsBalanced
INVARIANT HeapInOrder
INVARIANT CheckinfoSilent
PROPERTY ImplementsBlockStore
