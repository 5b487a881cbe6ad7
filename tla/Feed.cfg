CONSTANTS
    MaxRetries = 2
SPECIFICATION Spec
INVARIANTS
    ConnectedIsWatched
PROPERTIES
    HeartbeatSettles
    SilenceIsRepaired
