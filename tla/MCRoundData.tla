----------------------------- MODULE MCRoundData ----------------------------
(***************************************************************************)
(* The path of a round's data: the decision to run it (RoundTrigger), the  *)
(* snapshot of the holders (HolderPages), the coins chosen (MintVet) and   *)
(* bought (SwapGuard), their split (Allocation), the trees whose blocks    *)
(* the program proves (MerkleBlocks), and the reader who recomputes it all *)
(* (RoundVerify).  These seven share no state: a behaviour is a behaviour  *)
(* of one of them, chosen at the start, and the others' variables rest.    *)
(***************************************************************************)
EXTENDS MerkleBlocks, TLC

CONSTANTS
    Owners, Accounts, OwnerOf, HolderSnapshots, Excluded, Samples, SolUsd, MinUsd, LamportsPerSol, Allocatables, MinLeafs,
    Mints, OtherMint, Listings, Exclude, BasketSize, MinLiquidity, KeeperMaxFee, MaxTransferFeeBps, CoinFees, MaxEpoch,
    TokenAccounts, Supply, MaxSlot, Lag, PageSize, MaxPages,
    Markets, Others, OtherSwaps, Lamports, Moves, SlippageBps, MaxPriceImpactBps, SwapMaxTransferFeeBps, Overhead, SwapFees,
    MaxLeaves, MaxPasses, Policies, Bodies, Secrets, Seeds, Txs, Purchases, MaxSnapshots,
    Shareholders, Cap, ExpectedBasketSize, SwapOverhead, MinWindow, MaxWindow, Revenues, MaxPot, Overflow, MaxOverflows

VARIABLES
    part,
    history, rows, cursor, slot, page, result,                                            \* HolderPages
    mint, epoch, bought, reserved, changed, opened, wrong,                                \* MintVet
    trade, market, lamports, honest, netQuoted, quote, impact, swap, refusal,             \* SwapGuard
    snapshot, asset, split, twab, eligible, heirs, amounts, pass,                         \* Allocation
    stage, distributor, intent, header, taken, secret, now, policy, directory,            \* RoundVerify
    basketLamports, operationsLamports, status, candidates, latestEligibleCount, basketBudgetLamports, age, overflows \* RoundTrigger

MCOwnerOf == ("a" :> 1) @@ ("a2" :> 1) @@ ("b" :> 2) @@ ("c" :> 3) @@ ("d" :> 4) @@ ("x" :> 5)
MCSnapshots ==
    {[balance |-> ("a" :> a) @@ ("a2" :> a2) @@ ("b" :> b) @@ ("c" :> 1) @@ ("d" :> d) @@ ("x" :> 9),
      price |-> [num |-> 1, den |-> den]] :
        a \in {0, 1, 3}, a2 \in {0, 2}, b \in {0, 1, 3}, d \in {1, 4}, den \in {1, 2}}

MCPolicy(v, x) == [samples |-> 1, offset |-> 1, minWindow |-> 1, minLeafValue |-> v, excluded |-> x]
MCPolicies == {MCPolicy(3, <<1>>), MCPolicy(6, <<1>>), MCPolicy(3, <<1, 1>>)}
MCTxs ==
    ("t1" :> [signer |-> "w", out |-> 12, received |-> 20, failed |-> FALSE]) @@
    ("t2" :> [signer |-> "x", out |-> 12, received |-> 20, failed |-> FALSE]) @@
    ("t3" :> [signer |-> "w", out |-> 2, received |-> 0, failed |-> TRUE])
Evidence(spent, received, signatures, own) ==
    [buyer |-> "w", spent |-> spent, received |-> received, signatures |-> signatures, honest |-> own]
MCPurchases ==
    {Evidence(10, 20, {"t1"}, TRUE), Evidence(10, 40, {"t1", "t2"}, FALSE), Evidence(20, 20, {"t1"}, FALSE),
     Evidence(10, 20, {}, FALSE), Evidence(10, 20, {"t1", "t3"}, FALSE)}

Fee(a, b, f) == [type |-> "transferFee", full |-> TRUE, older |-> a, newer |-> b, from |-> f]
MCEntries ==
    {[type |-> "uninitialized"], [type |-> "cut"], [type |-> "metadataPointer"], [type |-> "pausable", full |-> TRUE]}
    \cup {[type |-> "transferHook", full |-> f, authority |-> a, program |-> p] : f, a, p \in BOOLEAN}
    \cup {[type |-> "closeAuthority", full |-> f, set |-> s] : f, s \in BOOLEAN}
    \cup {[type |-> "defaultState", full |-> TRUE, frozen |-> s] : s \in BOOLEAN}
    \cup {Fee(a, b, f) : a, b \in {1, 2, 3}, f \in {0, 1}}
Account(o, s, i, f, e) == [owner |-> o, size |-> s, initialized |-> i, freeze |-> f, ext |-> e]
MCPaired == {e \in MCEntries : e.type \in {"uninitialized", "cut", "metadataPointer", "transferHook", "transferFee"}}
MCMints ==
    {Account(o, s, i, f, <<>>) : o \in {"spl", "token2022", "system"}, s \in {"short", "base", "mint", "other"},
                                 i, f \in BOOLEAN}
    \cup {Account("token2022", "mint", TRUE, f, <<a>>) : f \in BOOLEAN, a \in MCEntries}
    \cup {Account("token2022", "mint", TRUE, FALSE, <<a, b>>) : a, b \in MCPaired}
MCSound == Account("spl", "base", TRUE, FALSE, <<>>)
Row(m, s, l) == [mint |-> m, status |-> s, liquidity |-> l]
MCListings ==
    {<<Row("coin", "graduated", <<>>)>>,
     <<Row("other", "graduated", <<>>), Row("coin", "graduated", <<>>)>>,
     <<Row("coin", "new", <<>>)>>,
     <<Row("own", "graduated", <<>>), Row("coin", "graduated", <<1>>), Row("coin", "graduated", <<3>>)>>,
     <<Row("malformed", "graduated", <<>>), Row("SOL", "graduated", <<>>), Row("other", "graduated", <<>>),
       Row("other", "graduated", <<>>), Row("coin", "graduated", <<>>)>>}

MCMarkets ==
    [price : {150, 1500}, depth : {500, 2000, 6500, 9000}, fee : {0, 1, 5}, transferFee : {0, 100, 300}, token2022 : {TRUE}]
    \cup [price : {1500}, depth : {500, 9000}, fee : {0, 1}, transferFee : {0}, token2022 : {FALSE}]
MCOthers ==
    [inMint : {"SOL"}, outMint : {"coin", "other"}, in : {1, 100}, mode : {"ExactIn"}, slippage : {100},
     out : {0, 1000, 100000}, min : {900, 990, 99000}]
MCOtherSwaps ==
    [payer : BOOLEAN, signers : {1, 2}, programs : BOOLEAN, spends : {50, 105, 200},
     delivers : {0, 960, 96030, 100000}, fails : {FALSE}]

Vetting == INSTANCE MintVet WITH Sound <- OtherMint, Fees <- CoinFees
Paging == INSTANCE HolderPages WITH Accounts <- TokenAccounts
Swapping == INSTANCE SwapGuard WITH stage <- trade, MaxTransferFeeBps <- SwapMaxTransferFeeBps, Fees <- SwapFees
Split == INSTANCE Allocation WITH stage <- split, pool <- heirs, Snapshots <- HolderSnapshots
Trigger == INSTANCE RoundTrigger WITH
                Owners <- Shareholders, Excluded <- {3}, OffCurve <- {4}, Amounts <- 0 .. 2, Threshold <- 2,
                RentPerByte <- 174, Signature <- 125, Priority <- 250, ImpactDen <- 100, CostDen <- 20,
                BasketSize <- ExpectedBasketSize, SamplesPerRound <- 2
Verifying == INSTANCE RoundVerify WITH bundle <- directory

vetVars == <<mint, epoch, bought, reserved, changed, opened, wrong>>
pageVars == <<history, rows, cursor, slot, page, result>>
swapVars == <<trade, market, lamports, honest, netQuoted, quote, impact, swap, refusal>>
splitVars == <<snapshot, asset, split, twab, eligible, heirs, amounts, pass>>
verifyVars == <<stage, distributor, intent, header, taken, secret, now, policy, directory>>
triggerVars == <<basketLamports, operationsLamports, status, candidates, latestEligibleCount, basketBudgetLamports,
                 age, overflows>>

----------------------------------------------------------------------------
(* At rest. *)

VetRests ==
    /\ mint = "rests" /\ epoch = 0 /\ opened = <<>> /\ wrong = {}
    /\ bought = FALSE /\ reserved = FALSE /\ changed = FALSE
PagesRest == history = <<>> /\ rows = <<>> /\ cursor = 0 /\ slot = 0 /\ page = 0 /\ result = <<>>
SwapRests ==
    /\ trade = "rests" /\ market = "rests" /\ lamports = 0 /\ honest = FALSE /\ netQuoted = FALSE
    /\ quote = <<>> /\ impact = 0 /\ swap = <<>> /\ refusal = "none"
SplitRests ==
    /\ snapshot = <<>> /\ asset = <<>> /\ split = "rests" /\ twab = <<>> /\ eligible = {}
    /\ heirs = {} /\ amounts = <<>> /\ pass = 0

TreesRest ==
    /\ leaf_count = 1 /\ level = 0 /\ first_leaf = 0 /\ leaves = <<>> /\ proof = <<>>
    /\ node = Leaf(0, FALSE) /\ index = 0 /\ level_size = 0 /\ verdict = "called"

VerifyRests ==
    /\ stage = "rests" /\ distributor = <<>> /\ intent = <<>> /\ header = <<>> /\ taken = <<>>
    /\ secret = "none" /\ now = 0 /\ policy = "none" /\ directory = <<>>

TriggerRests ==
    /\ basketLamports = 0 /\ operationsLamports = 0 /\ status = "rests" /\ candidates = 0
    /\ latestEligibleCount = 0 /\ basketBudgetLamports = 0 /\ age = 0 /\ overflows = 0

RoundDataInit ==
    \/ part = "pages" /\ Paging!Init /\ VetRests /\ SwapRests /\ SplitRests /\ TreesRest /\ VerifyRests /\ TriggerRests
    \/ part = "vet" /\ PagesRest /\ Vetting!Init /\ SwapRests /\ SplitRests /\ TreesRest /\ VerifyRests /\ TriggerRests
    \/ part = "swap" /\ PagesRest /\ VetRests /\ Swapping!Init /\ SplitRests /\ TreesRest /\ VerifyRests /\ TriggerRests
    \/ part = "split" /\ PagesRest /\ VetRests /\ SwapRests /\ Split!Init /\ TreesRest /\ VerifyRests /\ TriggerRests
    \/ part = "trees" /\ PagesRest /\ VetRests /\ SwapRests /\ SplitRests /\ Init /\ VerifyRests /\ TriggerRests
    \/ part = "verify" /\ PagesRest /\ VetRests /\ SwapRests /\ SplitRests /\ TreesRest /\ Verifying!Init /\ TriggerRests
    \/ part = "trigger" /\ PagesRest /\ VetRests /\ SwapRests /\ SplitRests /\ TreesRest /\ VerifyRests
          /\ Trigger!Init

RoundDataNext ==
    /\ UNCHANGED part
    /\ \/ part = "pages" /\ Paging!Next
          /\ UNCHANGED <<vetVars, swapVars, splitVars, vars, verifyVars, triggerVars>>
       \/ part = "vet" /\ Vetting!Next
          /\ UNCHANGED <<pageVars, swapVars, splitVars, vars, verifyVars, triggerVars>>
       \/ part = "swap" /\ Swapping!Next
          /\ UNCHANGED <<pageVars, vetVars, splitVars, vars, verifyVars, triggerVars>>
       \/ part = "split" /\ Split!Next
          /\ UNCHANGED <<pageVars, vetVars, swapVars, vars, verifyVars, triggerVars>>
       \/ part = "trees" /\ Next
          /\ UNCHANGED <<pageVars, vetVars, swapVars, splitVars, verifyVars, triggerVars>>
       \/ part = "verify" /\ Verifying!Next
          /\ UNCHANGED <<pageVars, vetVars, swapVars, splitVars, vars, triggerVars>>
       \/ part = "trigger" /\ Trigger!Next
          /\ UNCHANGED <<pageVars, vetVars, swapVars, splitVars, vars, verifyVars>>

RoundDataSpec ==
    RoundDataInit /\ [][RoundDataNext]_<<part, pageVars, vetVars, swapVars, splitVars, vars, verifyVars, triggerVars>>

----------------------------------------------------------------------------
(* Properties, each of its own part's behaviours. *)

(* A round that was started can buy (RoundTrigger). *)
TriggerLeavesBuys == part = "trigger" => Trigger!TriggerLeavesBuys

(* The keeper's vetting mirrors the program's (MintVet). *)
VettingAgrees == part = "vet" => Vetting!VettingAgrees

(* What the program accepted once can still be paid out (MintVet). *)
OpenedStaysPayable == part = "vet" => Vetting!OpenedStaysPayable

(* A snapshot's rows are no older than its slot, and complete (HolderPages). *)
SnapshotFaithful == part = "pages" => Paging!SnapshotFaithful

(* A swap is judged by the pool's depth alone (SwapGuard). *)
GuardJudgesDepth == part = "swap" => Swapping!GuardJudgesDepth

(* allocate() keeps its promise to the holders of a round (Allocation). *)
SplitIsFair == part = "split" => Split!SplitIsFair

(* What the verifier accepts follows from the recorded round (RoundVerify). *)
AcceptedFollows == part = "verify" => Verifying!AcceptedFollows

(* The verifier accepts what the keeper recorded (RoundVerify). *)
OwnIsAccepted == part = "verify" => Verifying!OwnIsAccepted
=============================================================================
