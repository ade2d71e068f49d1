\* One unit between passes and per request, one token.
CONSTANTS
    Interval = 1
    VLLMTimeout = 1
    Models = {"m1", "m2"}
    MaxTokens = 1
    MaxIdle = 1
SPECIFICATION Spec
\* A daemon that was told to stop has returned.
CHECK_DEADLOCK FALSE
INVARIANT FalseMeansDown
