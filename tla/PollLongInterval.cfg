SPECIFICATION Spec
CONSTANTS
    Interval = 60
    WatchdogSec = 60
    VLLMTimeout = 5
    SmiTime = 6
    PublishTimeout = 10
    Jitter = 0
    WithVLLM = TRUE
INVARIANT HealthyNotKilled
CHECK_DEADLOCK FALSE
