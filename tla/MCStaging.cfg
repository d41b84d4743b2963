\* Every state the driver accepts, on two ports.
SPECIFICATION Spec
CONSTANTS
    PortCount = 2
    VIDs <- MCVIDs
    StartFiles <- MCStartFiles
    WantedVLANs <- MCWantedVLANs
    WantedPorts <- MCWantedPorts
    ForeignFiles <- MCForeignFiles
    SplicedVLANs <- MCSplicedVLANs
    SplicedPorts <- MCWantedPorts
INVARIANTS Splices ReadsBack ReadIsRenderable
CHECK_DEADLOCK TRUE
