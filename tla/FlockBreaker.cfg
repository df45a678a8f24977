SPECIFICATION Spec
CONSTANTS
    Process = {x, y, z}
    MaxCrashes = 1
INVARIANT OneCleaner
