SPECIFICATION FairSpec
CONSTANTS
    CoinCount = 1
    Pots = {2, 4}
    Reserve = 1
    Overhead = 2
    MaxBuyAttempts = 2
    MaxChecks = 3
    Lagging = {"tokens"}
    MaxLags = 2
    MaxAborts = 3
INVARIANTS
    BooksAgree
    NothingStranded
    BoughtOnce
PROPERTIES
    BuyingEnds
CHECK_DEADLOCK FALSE
