\* Block numbers wrap just past the largest file; as many attempts and
\* sessions as faults, one more fault than the senders ride out.
SPECIFICATION Spec
CONSTANTS
  Mod = 4
  MaxBlocks = 3
  Retries = 3
  MaxSessions = 3
  MaxFaults = 3
INVARIANTS SavedWhole RidesOut
PROPERTIES TransferSpec Ending
