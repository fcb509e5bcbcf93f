SPECIFICATION FairSpec
CONSTANTS
    w1 = w1
    w2 = w2
    AssetLeaves <- MCLeaves
    AssetsRoot <- MCRoot
    AssetCount = 2
    Recipients = {w1, w2}
    AssetPda = AssetPda
    Expiry = 1
    MaxBlockLevel = 1
    Arrivals = {1, 2}
    MaxDeposited = 3
    MaxNow = 2
INVARIANTS
    Solvent
    PaidOnce
    AccountsAgree
PROPERTIES
    UnclaimedStayUntilExpiry
    LeftoversReturned
