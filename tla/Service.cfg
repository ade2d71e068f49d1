\* Five seconds to the unit of time.  The shipped timeouts, with four starts in
\* 225 s for the five in 300 s.  Quiesce is 1 s, rounded up to a whole unit, and
\* TimeoutStopSec one unit more than the shipped 20 s to make up for that.
CONSTANTS
    Interval = 3
    WatchdogSec = 12
    VLLMTimeout = 1
    SmiTime = 1
    PublishTimeout = 2
    Jitter = 0
    WithVLLM = TRUE
    ConnectTimeout = 6
    ConnectTime = 2
    RestartSec = 2
    StartLimitInterval = 45
    StartLimitBurst = 4
    TimeoutStopSec = 5
    Quiesce = 1
    Prompt = 1
SPECIFICATION ServiceFairSpec
INVARIANTS SupervisionInv GivesUpForAReason AttemptsEnd
PROPERTIES CutShortOnlyWhenSlow WedgeRepaired
CHECK_DEADLOCK FALSE
