SPECIFICATION FairSpec
CONSTANTS
    Secrets = {s1, s2}
    Readings = {x}
    SamplesPerRound = 1
    LostAnswers = {"abandon"}
    StateLoss = FALSE
    None = None
    MaxRounds = 2
    MaxSnapshots = 2
    MaxFaults = 2
PROPERTY RoundsEnd
CHECK_DEADLOCK FALSE
