\* One block is named otherwise than the others of its switch.
SPECIFICATION Spec
CONSTANTS
    Operations = {o1, o2}
    Blocks <- MCBlocks
    Keys <- MCKeys
    MAC <- MCMAC
    Host <- MCHost
    Models <- MCModels
    Spacing <- MCSpacing
    MaxAge = 2
INVARIANT SerializedPerHost
CHECK_DEADLOCK TRUE
