\* Two processes on one run, crashes and failing file operations at every step.
CONSTANTS
    N = 2
    PromptStages = {1, 2}
    MaxRetries = 1
    MaxUserRetries = 1
    MaxProcesses = 2
    MaxDeletions = 1
    Modes <- Options
    Faults = {"crash", "io"}
SPECIFICATION FairSpec
INVARIANTS
    StageOrder
    CheckpointPrefixSettled
    MetadataInStep
    NoRepeat
PROPERTIES
    CompletedStays
    EndsRecorded
CHECK_DEADLOCK FALSE
