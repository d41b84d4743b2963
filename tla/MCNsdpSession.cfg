\* Right and wrong password, tolerant and strict applies, two faults anywhere.
SPECIFICATION Spec
CONSTANTS
    Settings <- MCSettings
    Nonces <- MCNonces
    Seqs <- MCSeqs
    Attempts = 2
    StrikeLimit = 3
    MaxFaults = 2
    LoginCap = 3
INVARIANTS OneFaultIsMended Verified StrikesCostFaults OneRelogin
PROPERTIES Ends Recovers
