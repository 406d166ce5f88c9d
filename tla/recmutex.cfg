SPECIFICATION FairSpec
CONSTANTS
    Threads = {t1, t2, t3}
    NoThread = none
    MaxDepth = 2
    StrayUnlocks = TRUE
INVARIANT MutualExclusion
INVARIANT DepthMatchesCount
INVARIANT NothingLeftLocked
PROPERTY ImplementsRecLock
PROPERTY CallsReturn
