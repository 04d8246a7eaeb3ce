CONSTANTS
    Targets <- MCTargets
    Present <- MCPresent
    Garble <- MCGarble
    NoiseByte = 0
    ICRNL = TRUE
    MaxLate = 2
    MaxFaults = 1
SPECIFICATION FairSpec
INVARIANTS TrueAck TruePosition OnlyUnreadableFails
PROPERTY CallReturns
