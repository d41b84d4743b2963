\* Both channels; one failure at any read or write, one VLAN from elsewhere.
SPECIFICATION Spec
CONSTANTS
    PortCount = 2
    VIDs <- MCVIDs
    StartStates <- MCStartStates
    Configs <- MCConfigs
    Transports = {"http", "nsdp"}
    MaxFailures = 1
    MaxIntruded = 1
INVARIANTS PVIDsBacked EndsAsAsked
PROPERTIES DeleteIsLast GuardedDeletion HitlessSpec Converges
CHECK_DEADLOCK TRUE
