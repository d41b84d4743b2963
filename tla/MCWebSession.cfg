\* Right and wrong password, faults anywhere.
SPECIFICATION RestoreSpec
CONSTANTS
    Sids <- MCSids
    AuthLimit = 3
    SwitchLimit = 3
    Plan <- MCPlan
    MaxFaults = 3
    Files = {1, 2}
    MaxRestores = 2
    MaxPolls = 1
INVARIANTS RestoreLasts NoSkippedWrite LimitHolds
PROPERTIES Returns Recovers
