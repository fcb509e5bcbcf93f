SPECIFICATION FairSpec
CONSTANTS
    Keys = {k1, k2}
    NoKey = NoKey
    Secrets = {s1, s2}
    ChainHeads = {h1}
    Feeds <- MCFeeds
    HashWindow = 2
    SeedSlotOffset = 1
    MinWindowSecs = 1
    MinExpirySecs = 1
    MaxPriceAge = 1
    MaxPriceConfBps = 100
    ExpiredSeedDelay = 4
    SeededDelay = 5
    MaxAssets = 1
    AssetCounts = {0, 1, 2}
    ExpiryLeads = {0, 1}
    MaxRounds = 2
    MaxSkip = 1
    MaxSkipped = 1
    SecsPerSlot = {1}
    MaxSlot = 6
    MaxWait = 10
INVARIANTS
    Lifecycle
    SeedIsFirstBlock
PROPERTIES
    DrawSpec
    ClosedRoundEnds
