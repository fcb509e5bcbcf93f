SPECIFICATION FairSpec
CONSTANTS
    Secrets = {s1, s2}
    Readings = {x}
    SamplesPerRound = 1
    LostAnswers <- AllKinds
    StateLoss = TRUE
    None = None
    MaxRounds = 2
    MaxSnapshots = 2
    MaxFaults = 3
INVARIANTS
    RoundKept
    BoughtForIsKept
PROPERTIES
    OnlyOpenWindowsStall
CHECK_DEADLOCK FALSE
