SPECIFICATION FairSpec
CONSTANTS
    QoS = 1
    MaxConnects = 2
    MaxStates = 0
    MaxRestarts = 0
PROPERTY ConnectedIsMarkedOnline
CHECK_DEADLOCK FALSE
