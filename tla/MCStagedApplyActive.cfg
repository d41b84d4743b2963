\* Every apply has reboot_to_apply = true; nobody else writes the file.
SPECIFICATION Spec
CONSTANTS
    PortCount = 2
    VIDs <- MCVIDs
    StartFiles <- MCStartFiles
    Configurations <- MCConfigurations
    ForeignFiles <- MCForeignFiles
    RebootToApply <- Always
    MaxFaults = 1
    MaxForeign = 0
    MaxPolls = 1
    MaxUptime = 1
PROPERTY ActiveOnSuccess
CHECK_DEADLOCK TRUE
