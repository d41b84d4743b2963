\* The part of the file the provider does not manage.
SPECIFICATION Spec
CONSTANTS
    PortCount = 2
    VIDs <- MCVIDs
    StartFiles <- MCStartFiles
    Configurations <- MCConfigurations
    ForeignFiles <- MCForeignFiles
    RebootToApply <- Both
    MaxFaults = 1
    MaxForeign = 1
    MaxPolls = 1
    MaxUptime = 1
INVARIANT RestKept
CHECK_DEADLOCK TRUE
