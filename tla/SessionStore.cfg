\* Two servers, and a command beside them; saves that overlap, any fault.
CONSTANTS
    Procs = {p1, p2, c1}
    Commands = {c1}
    MaxChanges = 2
    MaxJobs = 2
    Faults = {"crash", "io"}
SPECIFICATION FairSpec
INVARIANTS
    FileIntact
PROPERTIES
    NoRollback
    EventuallySaved
CHECK_DEADLOCK FALSE
