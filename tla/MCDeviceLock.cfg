\* Two switches, four blocks, two operations at a time.
SPECIFICATION Spec
CONSTANTS
    Operations = {o1, o2}
    Blocks <- MCBlocks
    Keys <- MCKeys
    MAC <- MCMAC
    Host <- MCHost
    Models <- MCModels
    Spacing <- MCSpacing
    MaxAge = 2
INVARIANTS TypeOK Exclusive ClientsStayOpen
PROPERTIES Spaced Served
CHECK_DEADLOCK TRUE
