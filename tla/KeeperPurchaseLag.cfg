SPECIFICATION Spec
CONSTANTS
    CoinCount = 1
    Pots = {4}
    Reserve = 1
    Overhead = 2
    MaxBuyAttempts = 1
    MaxChecks = 2
    Lagging = {"balance"}
    MaxLags = 1
    MaxAborts = 0
INVARIANTS
    NothingStranded
CHECK_DEADLOCK FALSE
