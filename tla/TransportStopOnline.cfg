SPECIFICATION Spec
CONSTANTS
    QoS = 1
    MaxConnects = 2
    MaxStates = 1
    MaxRestarts = 0
INVARIANT StoppedShowsOffline
CHECK_DEADLOCK FALSE
