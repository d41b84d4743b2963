\* One fault and one foreign write.
SPECIFICATION Spec
CONSTANTS
    PortCount = 2
    VIDs <- MCVIDs
    StartFiles <- MCStartFiles
    Configurations <- MCConfigurations
    ForeignFiles <- MCForeignFiles
    RebootToApply <- Both
    MaxFaults = 1
    MaxForeign = 1
    MaxPolls = 1
    MaxUptime = 1
PROPERTIES StagingSpec ToldOrActive NoFalseDrift Returns Settles
CHECK_DEADLOCK TRUE
