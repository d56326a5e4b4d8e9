SPECIFICATION CacheSpec
CONSTANTS
    p1 = p1  p2 = p2  ax = ax
    Processes <- MCProcesses
    Commands <- MCCommands
    Keys = {a, b, c}
    MaxSize = 2
    Keep = 1
    MaxMemorySize = 1
    MaxStamp = 3
SYMMETRY MCSymmetry
INVARIANT ClearedStaysCleared
PROPERTIES NoGoingBack EvictionSparing
CHECK_DEADLOCK FALSE
