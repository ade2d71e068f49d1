SPECIFICATION Spec
CONSTANTS
    Interval = 15
    WatchdogSec = 60
    VLLMTimeout = 5
    SmiTime = 6
    PublishTimeout = 10
    Jitter = 1
    WithVLLM = TRUE
INVARIANT TypeOK
INVARIANT HealthyNotKilled
INVARIANT PublishGap
INVARIANT WedgeKilledInTime
INVARIANT StopIsPrompt
INVARIANT LoopInv
CHECK_DEADLOCK FALSE
