SPECIFICATION FairSpec
CONSTANTS
    AssetCount = 2
    LeafAmounts <- MCLeafAmounts
    Fund <- MCFund
    FeePercent <- MCFeePercent
    GrossTries = 8
    MaxActivationAttempts = 2
    MaxPushAttempts = 2
    MaxPushesPerStep = 2
    BlockSize = 2
    Unfundable <- MCUnfundable
    HasAccount <- MCHasAccount
    Purchased <- MCPurchased
    AccountRent <- MCAccountRent
    MinRentMultiple = 3
    Room <- MCRoom
    Frozen <- MCFrozen
    Fatal <- MCFatal
    SlowNearExpiry = FALSE
    MaxFaults = 1
INVARIANTS
    InventoryBacked
    LeftoversBooked
    CompleteMeansServed
PROPERTIES
    PayoutEnds
CHECK_DEADLOCK FALSE
