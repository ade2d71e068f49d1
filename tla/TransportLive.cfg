SPECIFICATION FairSpec
CONSTANTS
    QoS = 1
    MaxConnects = 2
    MaxStates = 0
    MaxRestarts = 1
PROPERTY ConnectionAnnounced
PROPERTY StopTerminates
PROPERTY PowerLossShown
CHECK_DEADLOCK FALSE
