SPECIFICATION FairSpec
CONSTANTS
    Ports = {p1}
    MaxAttempts = 3
    MaxRetries = 1
    MaxConnectRetries = 3
    ChaosNonces = 2
    MaxWire = 3
CONSTRAINT WireBound
INVARIANTS
    Agreement
    ConnectedMeansRegistered
PROPERTIES
    AuthedNeverReset
    EventuallyConnected
CHECK_DEADLOCK FALSE
