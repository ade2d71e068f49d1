\* Two connections, two states and one restart, of the process or of the broker.
CONSTANTS
    QoS = 1
    MaxConnects = 2
    MaxStates = 2
    MaxRestarts = 1
SPECIFICATION Spec
INVARIANTS
    TypeOK NoSessionNoOnline OnlineIsDiscoverable AnnouncedShowsOnline
    LatestShown TransportInv
PROPERTY ImplementsAvailability
CHECK_DEADLOCK FALSE
