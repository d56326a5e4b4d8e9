SPECIFICATION Spec
CONSTANTS
    Providers = {p1, p2}
    Calls = {c1, c2}
    Prompts = {q}
    Prompt <- SamePrompt
    Signalled = {c1}
    MaxAttempts = 2
    Threshold = 2
    Priority <- Order
    Direct = {c2}
    Fallback = TRUE
INVARIANTS
    BreakerHasTimer
    FailingIsCutOff
    NoProcessLeftRunning
PROPERTIES
    CallsEnd
