SPECIFICATION RoundDataSpec
CONSTANTS
    Mints <- MCMints
    OtherMint <- MCSound
    Listings <- MCListings
    Exclude = {"own"}
    BasketSize = 2
    MinLiquidity = 2
    KeeperMaxFee = 2
    MaxTransferFeeBps = 2
    CoinFees = {1, 3}
    MaxEpoch = 3
    TokenAccounts = {1, 2, 3}
    Supply = 3
    MaxSlot = 3
    Lag = 1
    PageSize = 1
    MaxPages = 3
    Markets <- MCMarkets
    Others <- MCOthers
    OtherSwaps <- MCOtherSwaps
    Lamports = {1, 50, 100}
    Moves = {0, 1, 2}
    SlippageBps = 100
    MaxPriceImpactBps = 150
    SwapMaxTransferFeeBps = 300
    Overhead = 10
    SwapFees = {1, 10}
    Owners = {1, 2, 3, 4, 5}
    Accounts = {"a", "a2", "b", "c", "d", "x"}
    OwnerOf <- MCOwnerOf
    HolderSnapshots <- MCSnapshots
    Excluded = {5}
    Samples = {1, 2}
    SolUsd = 1
    MinUsd = 1
    LamportsPerSol = 1
    Allocatables = {0, 7, 11}
    MinLeafs = {2}
    MaxLeaves = 3
    MaxPasses = 1
    LeafCounts = {1, 2, 3, 4, 5, 6}
    Levels = {0, 1, 2}
    Policies <- MCPolicies
    Txs <- MCTxs
    Purchases <- MCPurchases
    Bodies = {"b1", "b2"}
    Secrets = {"s1", "s2"}
    Seeds = {"h1", "h2"}
    MaxSnapshots = 2
    Shareholders = {1, 2, 3, 4}
    Cap = 3
    ExpectedBasketSize = 3
    SwapOverhead = 250000
    MinWindow = 1
    MaxWindow = 2
    Revenues = {480000, 3000000}
    MaxPot = 16000000
    Overflow = 120000
    MaxOverflows = 2
INVARIANTS
    TriggerLeavesBuys
    VettingAgrees
    OpenedStaysPayable
    SnapshotFaithful
    GuardJudgesDepth
    SplitIsFair
    VerdictIsRight
    AcceptedFollows
    OwnIsAccepted
CHECK_DEADLOCK FALSE
