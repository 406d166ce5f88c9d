\* One recorder at a time.
SPECIFICATION Spec
CONSTANTS
    LEB = 4
    NAMECACHE = 2
    RESCACHE = 1
    MAGIC = 2
    NoName = "none"
    BYTEBITS = 2
    INTBITS = 10
    WORDBITS = 10
    BUFFER = 6
    ENOUGH = 3
    SLOTS = 4
    BINS = 2
    Bounds <- Limits
    SymbolOf <- Symbols
    NoSymbol = "none"
    NameLen <- Lengths
    LEAKSLOTS = 2
    HashOf <- Hashes
    Recorders = {"trace", "profile", "leaks", "log"}
    PlacesOf <- Callers3
    FreersOf <- Freers
    Sizes = {1, 6}
    Reserved = {3}
    Autosaves = {0, 2}
    LogOptions <- Logs
    MaxCalls <- Calls
    MaxReserves = 2
    NoPlace <- LibraryCalls
INVARIANT StoryComesBack
INVARIANT SimulationReplays
INVARIANT NothingUnsaved
INVARIANT LeaksAreLive
INVARIANT GraphConserves
INVARIANT LeakTableHolds
INVARIANT MLeakFindsLeaks
CHECK_DEADLOCK FALSE
