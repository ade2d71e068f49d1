\* One unit between passes and per request, a counter that goes to one and, with a
\* restart, back to zero or past what it was, and an engine that changes its model.
CONSTANTS
    Interval = 1
    VLLMTimeout = 1
    Models = {"m1", "m2"}
    MaxTokens = 1
    MaxIdle = 1
SPECIFICATION FairSpec
INVARIANTS TypeOK FalseIsExplained
PROPERTIES SaysOnlyWhatWasSaid RateNotOverstated RateOverTheGap EngineFollowed
\* A daemon that was told to stop has returned.
CHECK_DEADLOCK FALSE
