SPECIFICATION Spec
CONSTANTS
    Shares <- MCShares
    ClaimEffects <- MCClaimEffects
    SwapCosts <- MCSwapCosts
    RoundCosts <- MCRoundCosts
    Fee = 1
    MinFeeClaim = 2
    MinPayout = 2
    MinBuyback = 4
    Life = 0
    Lag = 1
    Margin = 1
    RefusalsBeforeDone = 2
    Claimed = 20
    MaxSends = 2
    MaxRoundSteps = 1
    MaxFaults = 1
INVARIANTS
    SettledOnce
    DriftExplained
    SpendStillCovered
