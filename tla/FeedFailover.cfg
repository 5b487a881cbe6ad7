CONSTANTS
    MaxRetries = 2
SPECIFICATION Spec
PROPERTIES
    Failover
