SPECIFICATION FairSpec
CONSTANTS
    Process = {x, y, z}
    MaxCrashes = 1
INVARIANT MutualExclusion
INVARIANT LiveOwnerKeepsLock
PROPERTY StaleLockIsCleared
