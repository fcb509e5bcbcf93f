---------------------------- MODULE RoundTrigger ----------------------------
(***************************************************************************)
(* When a round starts and what it may spend.  trigger.ts decides while    *)
(* the window is open, on an estimate of a round's costs (engine.ts        *)
(* estimateCost); the basket is bought much later, from what another       *)
(* estimate (estimateOperatingCost) leaves of the pot.  The first counts   *)
(* the swaps' impact and no rent of the round's own accounts, the second   *)
(* the reverse, and the coins are only known at the second.                *)
(*                                                                         *)
(* Amounts are in units of 40 lamports, the largest in which every rent    *)
(* and fee is whole.                                                       *)
(***************************************************************************)
EXTENDS Integers, FiniteSets

CONSTANTS
    Owners, Excluded, OffCurve, Amounts, Threshold, Cap,    \* countLikelyEligible
    RentPerByte, Signature, Priority,
    ImpactDen,              \* swapImpactBps, as one part in so many
    CostDen,                \* roundCostMaxBps, likewise
    BasketSize,             \* expectedBasketSize, and the most that select() returns
    SwapOverhead, SamplesPerRound, MinWindow, MaxWindow,
    Revenues, MaxPot,       \* what a claim brings, and a bound on the pot
    Overflow, MaxOverflows  \* what a failed or overdrawn spend takes out of the pot

VARIABLES
    basketLamports, operationsLamports,         \* ledger
    status, candidates, latestEligibleCount,    \* of the active round; candidates are counted
    basketBudgetLamports,
    age,                                        \* now - windowStartTs, up to MaxWindow
    overflows

vars == <<basketLamports, operationsLamports, status, candidates, latestEligibleCount, basketBudgetLamports,
          age, overflows>>

Least(a, b) == IF a < b THEN a ELSE b

----------------------------------------------------------------------------
(* Estimates. *)

(* Owners, not accounts, above the threshold, as allocate() will ask. *)
CountLikelyEligible(balance) ==
    Least(Cap, Cardinality({o \in Owners \ (Excluded \cup OffCurve) : balance[o] # 0 /\ balance[o] >= Threshold}))

(* With the price unreadable every owner counts. *)
EveryOwner(balance) == Least(Cap, Cardinality({o \in Owners : balance[o] # 0}))

Rent(bytes) == (128 + bytes) * RentPerByte

EstimateTransactions(payouts, assets) == payouts + 1 + assets + 2

EstimateRoundCost(payouts, assets, impact) ==
    payouts * Rent(165) + EstimateTransactions(payouts, assets) * (Signature + Priority) + impact

(* Faulty variant: the recipients' token accounts are thought to exist. *)
EstimateCostNoRent(pot, eligible) ==
    EstimateTransactions(eligible * BasketSize, BasketSize) * (Signature + Priority) + pot \div ImpactDen

EstimateCost(pot, eligible) == EstimateRoundCost(eligible * BasketSize, BasketSize, pot \div ImpactDen)

RoundAccounts(eligible, assets) ==
    Rent(158) + Rent(226) + assets * (Rent(243 + (eligible + 7) \div 8) + Rent(200))

EstimateOperatingCost(eligible, assets) ==
    EstimateRoundCost(eligible * assets, assets, 0) + RoundAccounts(eligible, assets)

ShouldTriggerRound ==
    /\ age >= MinWindow
    /\ basketLamports > 0
    /\ EstimateCost(basketLamports, latestEligibleCount) * CostDen <= basketLamports

----------------------------------------------------------------------------
Init ==
    /\ basketLamports = 0 /\ operationsLamports = 0 /\ basketBudgetLamports = 0
    /\ status = "COLLECTING" /\ candidates = 0 /\ latestEligibleCount = 0
    /\ age = 0 /\ overflows = 0

(* Enough snapshots, and none is due. *)
Sampled == status = "COLLECTING" /\ candidates = SamplesPerRound

(* Snapshots fall at jittered times, so one may be due whenever the window is open. *)
TakeSnapshot(balance) ==
    /\ status = "COLLECTING"
    /\ candidates' = Least(candidates + 1, SamplesPerRound)
    /\ latestEligibleCount' \in {CountLikelyEligible(balance), EveryOwner(balance)}
    /\ UNCHANGED <<basketLamports, operationsLamports, status, basketBudgetLamports, age, overflows>>

(* The close lands; recording the seed changes nothing here. *)
CloseWindow ==
    /\ Sampled /\ latestEligibleCount # 0 /\ ShouldTriggerRound
    /\ status' = "SEEDED"
    /\ UNCHANGED <<basketLamports, operationsLamports, candidates, latestEligibleCount, basketBudgetLamports, age, overflows>>

(* Nobody qualifies, or the pot stays small. *)
RestartWindow ==
    /\ Sampled /\ age >= MaxWindow
    /\ latestEligibleCount = 0 \/ ~ ShouldTriggerRound
    /\ candidates' = 0 /\ latestEligibleCount' = 0 /\ age' = 0
    /\ UNCHANGED <<basketLamports, operationsLamports, status, basketBudgetLamports, overflows>>

BuyBasket(coins) ==
    LET reserve == IF coins = 0 THEN 0 ELSE EstimateOperatingCost(latestEligibleCount, coins)
        perCoin == IF coins = 0 \/ basketLamports <= reserve THEN 0 ELSE (basketLamports - reserve) \div coins
    IN  /\ status = "SEEDED"
        /\ IF perCoin <= SwapOverhead
             THEN /\ status' = IF coins = 0 THEN "NO_COINS" ELSE "NO_BUYS"
                  /\ UNCHANGED <<basketLamports, operationsLamports, basketBudgetLamports>>
             ELSE /\ status' = "BUYING"
                  /\ basketLamports' = basketLamports - reserve
                  /\ operationsLamports' = operationsLamports + reserve
                  /\ basketBudgetLamports' = perCoin
        /\ UNCHANGED <<candidates, latestEligibleCount, age, overflows>>

(* The rest of the keeper's tick, between two steps of the round. *)
CreditRevenue(lamports) ==
    /\ basketLamports + lamports <= MaxPot
    /\ basketLamports' = basketLamports + lamports
    /\ UNCHANGED <<operationsLamports, status, candidates, latestEligibleCount, basketBudgetLamports, age, overflows>>

ChargeLedger ==
    /\ overflows < MaxOverflows
    /\ overflows' = overflows + 1
    /\ basketLamports' = basketLamports - Least(Overflow, basketLamports)
    /\ UNCHANGED <<operationsLamports, status, candidates, latestEligibleCount, basketBudgetLamports, age>>

TimePasses ==
    /\ status = "COLLECTING" /\ age < MaxWindow
    /\ age' = age + 1
    /\ UNCHANGED <<basketLamports, operationsLamports, status, candidates, latestEligibleCount, basketBudgetLamports, overflows>>

Next ==
    \/ \E balance \in [Owners -> Amounts] : TakeSnapshot(balance)
    \/ CloseWindow \/ RestartWindow
    \/ \E coins \in 0 .. BasketSize : BuyBasket(coins)
    \/ \E lamports \in Revenues : CreditRevenue(lamports)
    \/ ChargeLedger \/ TimePasses

Spec == Init /\ [][Next]_vars

----------------------------------------------------------------------------
(* The ledger and the round have their types (state.ts). *)
TypeOK ==
    /\ {basketLamports, operationsLamports, basketBudgetLamports} \subseteq 0 .. MaxPot
    /\ status \in {"COLLECTING", "SEEDED", "BUYING", "NO_COINS", "NO_BUYS"}
    /\ candidates \in 0 .. SamplesPerRound /\ latestEligibleCount \in 0 .. Cap
    /\ age \in 0 .. MaxWindow /\ overflows \in 0 .. MaxOverflows

(***************************************************************************)
(* A round that was started because its pot covers its costs can buy:      *)
(* whatever came and went in between and however many coins there are by   *)
(* then, the reserve leaves each coin more than a swap's overhead          *)
(* (trigger.ts:50 against engine.ts:499-506; a seeded round cannot be      *)
(* taken back).                                                            *)
(***************************************************************************)
TriggerLeavesBuys == TypeOK /\ status # "NO_BUYS"
=============================================================================
