----------------------------- MODULE Allocation -----------------------------
(***************************************************************************)
(* How one asset of a round is split among the holders                     *)
(* (keeper/round/allocate.ts): balances over the selected snapshots become *)
(* a time-weighted average, holders worth less than the minimum drop out,  *)
(* the rest share pro rata with largest-remainder rounding, and leaves     *)
(* below the asset's minimum are dropped and redistributed pass by pass.   *)
(*                                                                         *)
(* Owners are numbered in the order of their keys' bytes.                  *)
(***************************************************************************)
EXTENDS Integers, FiniteSets, Functions

CONSTANTS
    Owners,          \* numbers
    Accounts,        \* token accounts of the coin
    OwnerOf,         \* whose they are
    Excluded,        \* owners on the exclusion list or off the curve
    Samples,         \* selected snapshots
    Snapshots,       \* what one may say: [balance, price |-> [num, den]]
    SolUsd, MinUsd, LamportsPerSol,
    Allocatables, MinLeafs,
    MaxLeaves,       \* maxLeavesPerAsset
    MaxPasses        \* maxMinLeafPasses

VARIABLES
    snapshot,    \* each selected snapshot: its accounts' balances and pool price
    asset,       \* the asset's allocatable amount and minimum leaf
    stage,       \* "holders", "passes", "done"
    twab,        \* each owner's time-weighted average balance
    eligible,    \* the owners who may be paid
    pool,        \* those of them still in
    amounts,     \* what each of them gets
    pass

vars == <<snapshot, asset, stage, twab, eligible, pool, amounts, pass>>

(***************************************************************************)
(* computeHolders.                                                         *)
(***************************************************************************)
SampleBalance(owner, sample) == SumFunctionOnSet(snapshot[sample].balance, {a \in Accounts : OwnerOf[a] = owner})

Twab == [owner \in Owners |->
            SumFunctionOnSet([s \in Samples |-> SampleBalance(owner, s)], Samples) \div Cardinality(Samples)]

Cheaper(a, b) == a.num * b.den < b.num * a.den

(* medianRational: the lower median of the samples' prices. *)
MedianPrice ==
    LET price(s) == snapshot[s].price IN
    price(CHOOSE s \in Samples :
        /\ 2 * Cardinality({t \in Samples : Cheaper(price(t), price(s))}) <= Cardinality(Samples) - 1
        /\ 2 * Cardinality({t \in Samples : Cheaper(price(s), price(t))}) <= Cardinality(Samples))

Eligible ==
    {owner \in Owners \ Excluded :
        twab'[owner] > 0 /\ twab'[owner] * MedianPrice.num * SolUsd >= MinUsd * MedianPrice.den * LamportsPerSol}

(* Faulty variant: the largest remainder takes everything left over. *)
LargestRemainderGreedy(total, weight, in) ==
    LET all == SumFunctionOnSet(weight, in)
        floor == [i \in in |-> (total * weight[i]) \div all]
        rest(i) == (total * weight[i]) % all
        first == CHOOSE i \in in : \A j \in in \ {i} : rest(j) < rest(i) \/ (rest(j) = rest(i) /\ i < j)
    IN [i \in in |-> floor[i] + (IF i = first THEN total - SumFunctionOnSet(floor, in) ELSE 0)]

(***************************************************************************)
(* largestRemainder: rounded down, then one more unit for the largest      *)
(* remainders, ties to the lower key, until everything is handed out.      *)
(***************************************************************************)
LargestRemainder(total, weight, in) ==
    LET all == SumFunctionOnSet(weight, in)
        floor == [i \in in |-> (total * weight[i]) \div all]
        rest(i) == (total * weight[i]) % all
        left == total - SumFunctionOnSet(floor, in)
        ahead(i) == {j \in in : rest(j) > rest(i) \/ (rest(j) = rest(i) /\ j < i)}
    IN [i \in in |-> floor[i] + (IF Cardinality(ahead(i)) < left THEN 1 ELSE 0)]

(* The largest holders, ties to the lower key. *)
Ranked(weight, in) ==
    {i \in in : Cardinality({j \in in : weight[j] > weight[i] \/ (weight[j] = weight[i] /\ j < i)}) < MaxLeaves}

Init ==
    /\ snapshot \in [Samples -> Snapshots]
    /\ asset \in [allocatable : Allocatables, minLeaf : MinLeafs]
    /\ stage = "holders" /\ twab = <<>> /\ eligible = {} /\ pool = {} /\ amounts = <<>> /\ pass = 0

Holders ==
    /\ stage = "holders"
    /\ twab' = Twab
    /\ eligible' = Eligible
    /\ IF asset.allocatable = 0 THEN stage' = "done" /\ UNCHANGED <<pool, amounts>>
       ELSE /\ stage' = "passes"
            /\ pool' = Ranked(twab', eligible')
            /\ amounts' = LargestRemainder(asset.allocatable, twab', pool')
    /\ UNCHANGED <<snapshot, asset, pass>>

AboveMin == {i \in pool : amounts[i] >= asset.minLeaf}
More == pass < MaxPasses /\ AboveMin # pool

Pass ==
    /\ stage = "passes" /\ More
    /\ pass' = pass + 1
    /\ pool' = AboveMin
    /\ amounts' = LargestRemainder(asset.allocatable, twab, AboveMin)
    /\ UNCHANGED <<snapshot, asset, stage, twab, eligible>>

Finish ==
    /\ stage = "passes" /\ ~More
    /\ stage' = "done"
    /\ UNCHANGED <<snapshot, asset, twab, eligible, pool, amounts, pass>>

Next == Holders \/ Pass \/ Finish
Spec == Init /\ [][Next]_vars

----------------------------------------------------------------------------
(* Properties. *)

(* The holders, their averages and what the pool gets have their types. *)
TypeOK ==
    /\ stage \in {"holders", "passes", "done"} /\ pass \in 0 .. MaxPasses
    /\ stage # "holders" => twab \in [Owners -> Nat]
    /\ pool \subseteq eligible /\ eligible \subseteq Owners \ Excluded
    /\ pool # {} => amounts \in [pool -> 0 .. asset.allocatable]

Leaves == {i \in pool : amounts[i] > 0}
Paid(i) == IF stage = "done" /\ i \in Leaves THEN amounts[i] ELSE 0

(***************************************************************************)
(* Whatever is dropped on the way, an asset with anyone left to pay is     *)
(* handed out to the last unit (allocate.ts:11-12, "so the whole           *)
(* allocatable amount is assigned"), to eligible owners and at most        *)
(* MaxLeaves of them, none below the minimum unless the passes ran out.    *)
(***************************************************************************)
AllHandedOut ==
    stage = "done" /\ Leaves # {} =>
        /\ SumFunctionOnSet(amounts, Leaves) = asset.allocatable
        /\ Leaves \subseteq eligible /\ Cardinality(Leaves) <= MaxLeaves
        /\ pass < MaxPasses => \A i \in Leaves : amounts[i] >= asset.minLeaf

(***************************************************************************)
(* In every pass each holder's amount is within one unit of its exact      *)
(* share of the pool that pass divides (largestRemainder,                  *)
(* allocate.ts:161).                                                       *)
(***************************************************************************)
WithinOneUnit ==
    stage # "holders" =>
        \A i \in pool :
            LET all == SumFunctionOnSet(twab, pool) exact == asset.allocatable * twab[i]
            IN amounts[i] * all < exact + all /\ exact < (amounts[i] + 1) * all

(***************************************************************************)
(* Through truncation, rounding and every redistribution a holder is never *)
(* paid less than an eligible one with a smaller average balance, nor than *)
(* one with the same and a higher key (allocate.ts:3-5, "every tie broken  *)
(* by public key bytes").                                                  *)
(***************************************************************************)
LargerHoldersGetMore ==
    stage = "done" =>
        \A i, j \in eligible :
            twab[i] > twab[j] \/ (twab[i] = twab[j] /\ i < j) => Paid(i) >= Paid(j)

(* The whole split: what allocate() promises every holder of the round.     *)
SplitIsFair == TypeOK /\ AllHandedOut /\ WithinOneUnit /\ LargerHoldersGetMore
=============================================================================
