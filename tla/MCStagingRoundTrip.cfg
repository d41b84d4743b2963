\* decode(render(x)) = x, for every state the driver accepts.
SPECIFICATION Spec
CONSTANTS
    PortCount = 2
    VIDs <- MCVIDs
    StartFiles <- MCStartFiles
    WantedVLANs <- MCWantedVLANs
    WantedPorts <- MCWantedPorts
    ForeignFiles <- MCForeignFiles
    SplicedVLANs <- MCSplicedVLANs
    SplicedPorts <- MCWantedPorts
INVARIANT RoundTrip
CHECK_DEADLOCK TRUE
