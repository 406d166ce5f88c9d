SPECIFICATION Spec
CONSTANTS
    NODESLOTS = 12
    HEAPS <- SomeNodes
    HEAPLIMIT = 8
    SIZES = {1, 2}
    MAXFINIS = 3
    MAXDELSTACK = 2
    MAXCALLS = 6
    MAXNESTED = 3
    CAREFUL = TRUE
    ADDRS = {x, y, z}
    CONTENTS <- SomeContents
    QUEUES = {0, 1}
    FLAGS <- SomeFlags
    RATES = {0}
    MAXDIFFS = 2
    MAXSTEPS = 6
SYMMETRY Symmetric
INVARIANT FinishersRun
INVARIANT SignalsHeld
INVARIANT DeletionsTold
INVARIANT WalkMeetsAll
INVARIANT TraceTells
INVARIANT DiffsAreTrue
INVARIANT FilesBelong
INVARIANT GaugeIsCurrent
CHECK_DEADLOCK FALSE
