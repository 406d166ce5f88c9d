\* Trees of up to nine nodes, two of which share a key; tables of slots of all
\* sizes around that of a link; two lists of four nodes; memory of sixteen bytes
\* in words of two; command lines of two options of every kind, the library's
\* variable unset or with one of three texts, and one change of an option by the
\* program; two calls within one another, tables of up to two blocks, and one refusal.
SPECIFICATION PartsSpec
CONSTANTS
    NODES = {1, 2, 3, 4, 5, 6, 7, 8, 9}
    KEYS <- KeysWithTwins
    ENTRYSIZE = 2
    ENTRYALIGN = 2
    SLOTSIZES = {1, 2, 3, 4, 5}
    SLOTALIGNS = {0, 2, 3, 4}
    CHUNKS <- SomeChunks
    LISTS = {l1, l2}
    ITEMS = {n1, n2, n3, n4}
    WORDBYTES = 2
    ADDRSPACE = 32
    TOP = 16
    PAGEBYTES = 4
    HEAPS <- SomeHeaps
    LOOKS <- SomeLooks
    OPTIONS <- SomeOptions
    LENGTHS = {0, 5, 6}
    PATLENGTHS = {0, 1, 2}
    LIMITS = {0, 1, 3, 6, 15}
    BYTES = {1, 9}
    NUMBERS <- SomeNumbers
    PAGE = 16
    ENVMAX = 26
    VALUES = {0, 300}
    FLAGS <- SeldomSet
    CHANGES = 1
    SITUATIONS <- SomeSituations
    MAXINSIDE = 2
    AREAS <- SomeAreas
    MAXREFUSALS = 1
    REFUSED = {"ro"}
    ROOMY = TRUE
INVARIANT ContainersWork
PROPERTY MemoryIsExact
INVARIANT CommandObeys
INVARIANT SettingsFit
INVARIANT WritesAllowed
INVARIANT ClosedAgain
CHECK_DEADLOCK FALSE
