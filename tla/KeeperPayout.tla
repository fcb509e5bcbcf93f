---------------------------- MODULE KeeperPayout ----------------------------
(***************************************************************************)
(* How the keeper pays a committed round and takes back what is left of it *)
(* (keeper/round/engine.ts, the paying half): it activates each asset from *)
(* the tokens reserved for the round, pushes the payouts in blocks, and    *)
(* closes the assets once the round has expired.                           *)
(*                                                                         *)
(* A step loads the state file, acts and saves it.  A step that throws or  *)
(* dies saves nothing, while the transactions it sent may have landed.     *)
(* Amounts are tokens of one mint per asset; a Token-2022 mint withholds   *)
(* part of every transfer.  A next attempt's time is only whether it has   *)
(* come.                                                                   *)
(***************************************************************************)
EXTENDS Integers, Sequences, FiniteSets, Functions

CONSTANTS
    AssetCount,
    LeafAmounts,            \* of each asset, in leaf order
    Fund,                   \* FundedAsset.fundAmount of each asset
    FeePercent,             \* transfer fee of each asset's mint
    GrossTries,             \* iterations of grossForNet
    MaxActivationAttempts,
    MaxPushAttempts,
    MaxPushesPerStep,
    BlockSize,              \* PUSH_BLOCK_SIZE, a power of two
    Unfundable,             \* assets whose mint may refuse the transfer
    HasAccount,             \* leaves whose holder has a token account already
    Purchased,              \* [lamports, tokens] the round paid for each asset, 0 if carried over
    AccountRent,            \* of a token account of each asset's mint
    MinRentMultiple,        \* policy.autoPushMinRentMultiple
    Room,                   \* what a transaction of each asset holds, beside its proof
    Frozen,                 \* leaves whose destination the program refuses,
    Fatal,                  \* and those refused by a PERMANENT_PAYOUT_ERROR
    SlowNearExpiry,         \* whether the round may expire before an activation is seen
    MaxFaults               \* bound: crashes, thrown steps and RPC errors

Assets == 1 .. AssetCount
Leaves == UNION {{i} \X (0 .. Len(LeafAmounts[i]) - 1) : i \in Assets}

ASSUME PayoutAssumption ==
    /\ AssetCount \in Nat
    /\ \A i \in Assets : LeafAmounts[i] \in Seq(Nat \ {0}) /\ Fund[i] \in Nat
                         /\ FeePercent[i] \in 0 .. 99
    /\ GrossTries \in Nat
    /\ MaxActivationAttempts \in Nat \ {0, 1}
    /\ {MaxPushAttempts, MaxPushesPerStep, BlockSize} \subseteq Nat \ {0}
    /\ Unfundable \subseteq Assets
    /\ \A i \in Assets : {Purchased[i].lamports, Purchased[i].tokens, AccountRent[i], Room[i]} \subseteq Nat
    /\ MinRentMultiple \in Nat
    /\ HasAccount \subseteq Leaves /\ Frozen \subseteq Leaves /\ Fatal \subseteq Frozen
    /\ SlowNearExpiry \in BOOLEAN
    /\ MaxFaults \in Nat

VARIABLES
    keeperExpired, chainExpired,    \* either clock has passed expiry_ts
    refusing,   \* the mints that do refuse
    onchain,    \* RoundAsset status of each asset: "none", "active", "closed"
    funded,     \* RoundAsset.funded
    vault, wallet,                  \* tokens of each mint
    claimed,    \* leaves paid, the bitmaps
    flying,     \* activations in flight that nobody waits for
    mem,        \* KeeperState as this step holds it
    disk,       \* KeeperState as last saved
    pc,         \* "idle" between steps, "pushing", "saving"
    queue,      \* blocks and parts of blocks still to push in this step, in leaf order
    missed,     \* history: assets whose close the keeper never saw answered
    faults

clock == <<keeperExpired, chainExpired, refusing>>
chain == <<onchain, funded, vault, wallet, claimed, flying>>
vars == <<clock, chain, mem, disk, pc, queue, missed, faults>>

Amount(x) == LeafAmounts[x[1]][x[2] + 1]
TokensOf(xs) == SumFunction([x \in xs |-> Amount(x)])
LeavesOf(i) == {x \in Leaves : x[1] = i}
Allocated(i) == TokensOf(LeavesOf(i))

Activating(i) == <<i, -1>>      \* whose nextAttemptAt a resting entry stands for
Closing(i) == <<i, -2>>

Init ==
    /\ keeperExpired = FALSE /\ chainExpired = FALSE
    /\ refusing \in SUBSET Unfundable
    /\ onchain = [i \in Assets |-> "none"]
    /\ funded = [i \in Assets |-> 0]
    /\ vault = [i \in Assets |-> 0]
    /\ wallet = [i \in Assets |-> Fund[i]]
    /\ claimed = {}
    /\ flying = {}
    /\ mem = [status    |-> "COMMITTED",
              asset     |-> [i \in Assets |-> "pending"],
              attempts  |-> [i \in Assets |-> 0],
              inventory |-> [i \in Assets |-> 0],
              failed    |-> [x \in Leaves |-> 0],   \* PayoutFailure.attempts
              permanent |-> {},
              resting   |-> {},                     \* nextAttemptAt still to come
              expiring  |-> Assets]
    /\ disk = mem
    /\ pc = "idle"
    /\ queue = {}
    /\ missed = {}
    /\ faults = 0

Fault == faults < MaxFaults /\ faults' = faults + 1

----------------------------------------------------------------------------
(* Transfer fees. *)

NetAfterTransferFee(i, gross) == gross - ((gross * FeePercent[i] + 99) \div 100)

(* A tree is built for what the reserved tokens come to in the vault (engine.ts 712, allocate.ts 216). *)
ASSUME TreeAssumption == \A i \in Assets : Allocated(i) <= NetAfterTransferFee(i, Fund[i])

(* What is sent so that net arrives, after at most GrossTries corrections. *)
Gross ==
    [i \in Assets |-> [net \in 0 .. Fund[i] |->
        LET gross[k \in 0 .. GrossTries] ==
                IF k = 0 THEN net
                ELSE LET sent == gross[k - 1]
                         arrives == NetAfterTransferFee(i, sent)
                     IN IF arrives >= net THEN sent ELSE sent + net - arrives
        IN gross[GrossTries]]]

GrossForNet(i, net) == Gross[i][net]

----------------------------------------------------------------------------
(* Activating. *)

(* openFundActivate sends the vault only what it still lacks. *)
Lacking(i) == IF vault[i] < Allocated(i) THEN GrossForNet(i, Allocated(i) - vault[i]) ELSE 0

CanActivate(i) ==
    /\ onchain[i] = "none" /\ ~chainExpired
    /\ i \notin refusing
    /\ Lacking(i) <= wallet[i]
    /\ vault[i] + NetAfterTransferFee(i, Lacking(i)) >= Allocated(i)

(* open_asset, the transfer and activate_asset are one transaction. *)
ActivationLands(i) ==
    LET arrived == vault[i] + NetAfterTransferFee(i, Lacking(i))
    IN /\ onchain' = [onchain EXCEPT ![i] = "active"]
       /\ funded' = [funded EXCEPT ![i] = arrived]
       /\ vault' = [vault EXCEPT ![i] = arrived]
       /\ wallet' = [wallet EXCEPT ![i] = @ - Lacking(i)]
       /\ flying' = flying \ {i}
       /\ UNCHANGED claimed

(* creditInventory over several mints. *)
Credit(m, amounts) ==
    [m EXCEPT !.inventory = [i \in Assets |-> @[i] + (IF i \in DOMAIN amounts THEN amounts[i] ELSE 0)]]

(* Faulty variant: a reservation given back is not credited. *)
ReleaseForgotten(m, is, status) ==
    [m EXCEPT !.asset = [i \in Assets |-> IF i \in is THEN status ELSE @[i]]]

(* releaseReservation of several assets. *)
ReleaseReservation(m, is, status) ==
    Credit([m EXCEPT !.asset = [i \in Assets |-> IF i \in is THEN status ELSE @[i]]],
           [i \in {j \in is : m.asset[j] = "pending"} |-> Fund[i]])

(* The asset is active; what the transfer did not need goes back. *)
BookActive(m, is, used) ==
    Credit([m EXCEPT !.asset = [i \in Assets |-> IF i \in is THEN "active" ELSE @[i]]],
           [i \in is |-> IF Fund[i] > used[i] THEN Fund[i] - used[i] ELSE 0])

(* The loops take the first there is. *)
First(i, is) == i \in is /\ \A j \in is : i <= j

(* The round, unless it has expired, is the keeper's to pay in this step. *)
DueCloses == {i \in mem.expiring : keeperExpired /\ Closing(i) \notin mem.resting}
PayingTurn == pc = "idle" /\ DueCloses = {} /\ ~keeperExpired

Unbooked == {i \in Assets : mem.asset[i] = "pending" /\ onchain[i] = "active"}
Unsent == {i \in Assets : mem.asset[i] = "pending" /\ onchain[i] # "active"}
Ready == {i \in Unsent : Activating(i) \notin mem.resting}

(* Faulty variant: forgets that the mint withheld part of what was sent. *)
BookedBeforeNet(i) ==
    LET found == {j \in Unbooked : j < i}
    IN BookActive(mem, found, [j \in found |-> funded[j]])

(* The loop books what it finds active on its way to the next asset to try. *)
BookedBefore(i) ==
    LET found == {j \in Unbooked : j < i}
    IN BookActive(mem, found, [j \in found |-> GrossForNet(j, funded[j])])

RestActivation(m, i) == [m EXCEPT !.resting = @ \cup {Activating(i)}]

(* Faulty variant: there is no attempt limit. *)
CountActivationNever(m, i) == RestActivation(m, i)

(* Any other failure counts, and the last one gives the reservation up. *)
CountActivation(m, i) ==
    LET counted == [m EXCEPT !.attempts[i] = @ + 1]
    IN IF counted.attempts[i] >= MaxActivationAttempts
       THEN ReleaseReservation(counted, {i}, "abandoned")
       ELSE RestActivation(counted, i)

(* activate, the asset tried. *)
ActivateTry(i) ==
    /\ PayingTurn /\ mem.status = "COMMITTED"
    /\ First(i, Ready)
    /\ pc' = "saving"
    /\ LET m == BookedBefore(i)
           tooMuch == Lacking(i) > Fund[i]
       IN \/ /\ CanActivate(i) /\ ~tooMuch
             /\ ActivationLands(i)
             /\ \/ mem' = BookActive(m, {i}, [j \in {i} |-> Lacking(i)]) /\ UNCHANGED faults
                \/ mem' = RestActivation(m, i) /\ Fault
                \/ mem' = CountActivation(m, i) /\ Fault
          \/ /\ ~tooMuch
             /\ mem' = RestActivation(m, i) /\ Fault
             /\ flying' \in {flying, flying \cup {i}}
             /\ UNCHANGED <<onchain, funded, vault, wallet, claimed>>
          \/ /\ ~CanActivate(i) \/ tooMuch
             /\ mem' = CountActivation(m, i)
             /\ UNCHANGED <<chain, faults>>
    /\ UNCHANGED <<clock, disk, queue, missed>>

(* activate, nothing left to try: wait for the assets backing off, or go on. *)
ActivateNone ==
    /\ PayingTurn /\ mem.status = "COMMITTED"
    /\ Ready = {}
    /\ Unbooked # {} \/ Unsent = {}
    /\ LET m == BookedBefore(AssetCount + 1)
       IN mem' = IF Unsent = {} THEN [m EXCEPT !.status = "ACTIVE"] ELSE m
    /\ pc' = "saving"
    /\ UNCHANGED <<clock, chain, disk, queue, missed, faults>>

----------------------------------------------------------------------------
(* Pushing. *)

Part(i, first, size, plan) == [asset |-> i, first |-> first, size |-> size, plan |-> plan]

InPart(i, first, size) == {x \in LeavesOf(i) : x[2] >= first /\ x[2] < first + size}

(* The order the loops visit assets and leaves in. *)
Before(x, y) == x[1] < y[1] \/ (x[1] = y[1] /\ x[2] < y[2])

(* The blocks of the round, by their first leaves. *)
Blocks == {x \in Leaves : x[2] % BlockSize = 0}

Unpaid == {x \in Leaves : mem.asset[x[1]] = "active" /\ x \notin claimed /\ x \notin mem.permanent}
Candidates(b) == (InPart(b[1], b[2], BlockSize) \cap Unpaid) \ mem.resting

(* Blocks are taken until the step's quota is reached. *)
Chosen ==
    {b \in Blocks :
        /\ Candidates(b) # {}
        /\ Cardinality(UNION {Candidates(a) : a \in {c \in Blocks : Before(c, b)}}) < MaxPushesPerStep}

(* finishPaying: reservations that never reached a vault are given back. *)
Finished(m, outcome) ==
    [ReleaseReservation(m, {i \in Assets : m.asset[i] = "pending"}, "released")
        EXCEPT !.status = outcome]

(* push, up to the plan; with nothing to push and nothing to wait for, the round is complete. *)
PushStart ==
    /\ PayingTurn /\ mem.status = "ACTIVE"
    /\ \/ /\ Chosen # {}
          /\ queue' = {Part(b[1], b[2], BlockSize, Candidates(b)) : b \in Chosen}
          /\ pc' = "pushing"
          /\ UNCHANGED mem
       \/ /\ Chosen = {} /\ Unpaid = {}
          /\ mem' = Finished(mem, "complete")
          /\ pc' = "saving"
          /\ UNCHANGED queue
    /\ UNCHANGED <<clock, chain, disk, missed, faults>>

(* What a push must pay for the holder's token account. *)
RentOf(x) == IF x \in HasAccount THEN 0 ELSE AccountRent[x[1]]

(* A new token account must be worth its rent, at the price the round paid. *)
ShouldAutoPush(x) ==
    LET i == x[1]
    IN \/ x \in HasAccount
       \/ /\ Purchased[i].tokens > 0
          /\ Amount(x) * Purchased[i].lamports >= RentOf(x) * MinRentMultiple * Purchased[i].tokens

(* A PayoutFailure of each leaf: attempts counted, given up, or to be tried later. *)
RecordFailure(m, xs, counted, permanent, later) ==
    [m EXCEPT !.failed = [x \in Leaves |-> @[x] + (IF x \in xs THEN counted ELSE 0)],
              !.permanent = @ \cup (IF permanent THEN xs ELSE {}),
              !.resting = @ \cup (IF later THEN xs ELSE {})]

(* The part whose turn it is. *)
Turn(p) == p \in queue /\ \A q \in queue \ {p} : Before(<<p.asset, p.first>>, <<q.asset, q.first>>)

(* What is left of the queue once these parts take the place of one, and whether the step ends. *)
ThenPush(p, parts) ==
    /\ queue' = (queue \ {p}) \cup {q \in parts : q.plan # {}}
    /\ pc' = IF queue' = {} THEN "saving" ELSE "pushing"

(* The leaves of a part worth pushing; the others are their holders' to claim. *)
Planned(p) == {x \in p.plan : ShouldAutoPush(x)}
Weeded(p) == RecordFailure(mem, p.plan \ Planned(p), 0, TRUE, FALSE)

(***************************************************************************)
(* pushPayoutBlockInstructions: every leaf of the part is named, a pushed  *)
(* one with its destination and a skipped one with its recipient; a        *)
(* destination to be created names two accounts more.                      *)
(***************************************************************************)
PushedLeaves(p) == InPart(p.asset, p.first, p.size)
Creates(p) == {x \in Planned(p) : RentOf(x) > 0}

FitsInOneTransaction(p) == Cardinality(PushedLeaves(p)) + Cardinality(Creates(p)) <= Room[p.asset]

Sendable(p) == p.size = 1 \/ FitsInOneTransaction(p)

(* pushBlock: a part that does not fit a transaction is halved. *)
Halve(p) ==
    /\ pc = "pushing" /\ Turn(p) /\ ~Sendable(p)
    /\ Planned(p) # {}
    /\ LET half == p.size \div 2
           part(first) == Part(p.asset, first, half, InPart(p.asset, first, half) \cap Planned(p))
       IN ThenPush(p, {part(p.first), part(p.first + half)})
    /\ mem' = Weeded(p)
    /\ UNCHANGED <<clock, chain, disk, missed, faults>>

PushAccepted(p) == ~chainExpired /\ onchain[p.asset] = "active" /\ Planned(p) \cap Frozen = {}

(* push_payouts passes over the leaves already paid. *)
Pay(xs) ==
    /\ claimed' = claimed \cup xs
    /\ vault' = [i \in Assets |-> vault[i] - TokensOf({x \in xs \ claimed : x[1] = i})]
    /\ UNCHANGED <<onchain, funded, wallet, flying>>

(* Faulty variant: a refused part is held against every leaf in it. *)
PushRefusedTogether(p) ==
    /\ pc = "pushing" /\ Turn(p) /\ Sendable(p) /\ Planned(p) # {} /\ ~PushAccepted(p)
    /\ mem' = RecordFailure(Weeded(p), Planned(p), 1, TRUE, TRUE)
    /\ ThenPush(p, {})
    /\ UNCHANGED <<clock, chain, disk, missed, faults>>

(***************************************************************************)
(* The program refuses the part: its leaves are tried one at a time, and a *)
(* leaf refused alone is retried later or, after an error no retry can fix *)
(* or its last attempt, left to its holder.                                *)
(***************************************************************************)
PushRefused(p) ==
    /\ pc = "pushing" /\ Turn(p) /\ Sendable(p) /\ Planned(p) # {} /\ ~PushAccepted(p)
    /\ \/ /\ \A x \in Planned(p) : Planned(p) # {x}
          /\ mem' = Weeded(p)
          /\ ThenPush(p, {Part(x[1], x[2], 1, {x}) : x \in Planned(p)})
       \/ \E x \in Planned(p) :
             /\ Planned(p) = {x}
             /\ mem' = RecordFailure(Weeded(p), {x}, 1,
                            x \in Fatal \/ mem.failed[x] + 1 >= MaxPushAttempts, TRUE)
             /\ ThenPush(p, {})
    /\ UNCHANGED <<clock, chain, disk, missed, faults>>

(* Nothing of the part is worth pushing. *)
PushNothing(p) ==
    /\ pc = "pushing" /\ Turn(p) /\ Planned(p) = {}
    /\ mem' = Weeded(p)
    /\ ThenPush(p, {})
    /\ UNCHANGED <<clock, chain, disk, missed, faults>>

(* pushBlock's other ends: the payouts land, or an RPC error ends the step blaming nobody. *)
PushSent(p) ==
    /\ pc = "pushing" /\ Turn(p) /\ Planned(p) # {} /\ Sendable(p)
    /\ \/ /\ PushAccepted(p)
          /\ Pay(Planned(p))
          /\ mem' = [Weeded(p) EXCEPT !.failed = [x \in Leaves |-> IF x \in Planned(p) THEN 0 ELSE @[x]]]
          /\ ThenPush(p, {})
          /\ UNCHANGED faults
       \/ /\ Fault
          /\ \/ PushAccepted(p) /\ Pay(Planned(p))
             \/ UNCHANGED chain
          /\ mem' = RecordFailure(Weeded(p), Planned(p), 0, FALSE, TRUE)
          /\ queue' = {} /\ pc' = "saving"
    /\ UNCHANGED <<clock, disk, missed>>

----------------------------------------------------------------------------
(* Expiry. *)

(* advancePaying: an expired round is over, whatever is still unpaid. *)
PayExpired ==
    /\ pc = "idle" /\ DueCloses = {} /\ keeperExpired
    /\ mem.status \in {"COMMITTED", "ACTIVE"}
    /\ mem' = Finished(mem, "expired")
    /\ pc' = "saving"
    /\ UNCHANGED <<clock, chain, disk, queue, missed, faults>>

CloseLands(i) ==
    /\ onchain[i] = "active" /\ chainExpired
    /\ onchain' = [onchain EXCEPT ![i] = "closed"]
    /\ vault' = [vault EXCEPT ![i] = 0]
    /\ wallet' = [wallet EXCEPT ![i] = @ + NetAfterTransferFee(i, vault[i])]
    /\ UNCHANGED <<funded, claimed, flying>>

CreditLeftovers(m, i, remaining) == Credit(m, [j \in {i} |-> NetAfterTransferFee(i, remaining)])

(***************************************************************************)
(* closeExpired: leftovers are booked only by the step whose own close is  *)
(* answered; an account already gone is dropped from the list.             *)
(***************************************************************************)
CloseExpired(i) ==
    /\ pc = "idle" /\ First(i, DueCloses)
    /\ LET dropped == [mem EXCEPT !.expiring = @ \ {i}]
           deferred == [mem EXCEPT !.resting = @ \cup {Closing(i)}]
       IN \/ /\ CloseLands(i)
             /\ \/ mem' = CreditLeftovers(dropped, i, vault[i]) /\ UNCHANGED <<missed, faults>>
                \/ mem' = deferred /\ missed' = missed \cup {i} /\ Fault
          \/ /\ onchain[i] = "active"
             /\ (~chainExpired /\ UNCHANGED faults) \/ Fault
             /\ mem' = deferred
             /\ UNCHANGED <<chain, missed>>
          \/ /\ onchain[i] # "active"
             /\ mem' = dropped
             /\ UNCHANGED <<chain, missed, faults>>
    /\ pc' = "saving"
    /\ UNCHANGED <<clock, disk, queue>>

----------------------------------------------------------------------------
(* Saving, failing and the world. *)

Save ==
    /\ pc = "saving"
    /\ disk' = mem
    /\ pc' = "idle"
    /\ UNCHANGED <<clock, chain, mem, queue, missed, faults>>

(* The process dies, or the step throws: what was not saved is gone. *)
Crash ==
    /\ pc # "idle" /\ Fault
    /\ missed' = missed \cup {i \in disk.expiring : onchain[i] = "closed"}
    /\ mem' = disk
    /\ pc' = "idle"
    /\ queue' = {}
    /\ UNCHANGED <<clock, chain, disk>>

(* A holder claims, or anyone pushes their payout. *)
SelfClaim(x) ==
    /\ onchain[x[1]] = "active" /\ ~chainExpired /\ x \notin claimed
    /\ Pay({x})
    /\ UNCHANGED <<clock, mem, disk, pc, queue, missed, faults>>

LandLate(i) ==
    /\ i \in flying /\ CanActivate(i)
    /\ ActivationLands(i)
    /\ UNCHANGED <<clock, mem, disk, pc, queue, missed, faults>>

(* close_asset is permissionless. *)
ForeignClose(i) ==
    /\ CloseLands(i)
    /\ missed' = missed \cup (disk.expiring \cap {i})
    /\ UNCHANGED <<clock, mem, disk, pc, queue, faults>>

(* Activations that landed or may still land, unknown to the state file. *)
Unseen == {i \in flying : CanActivate(i)} \cup {i \in Assets : disk.asset[i] = "pending" /\ onchain[i] = "active"}

(* The two clocks pass expiry_ts in either order. *)
ExpireChain ==
    /\ ~chainExpired /\ chainExpired' = TRUE
    /\ SlowNearExpiry \/ Unseen = {}
    /\ UNCHANGED <<keeperExpired, refusing, chain, mem, disk, pc, queue, missed, faults>>

ExpireKeeper ==
    /\ ~keeperExpired /\ keeperExpired' = TRUE
    /\ pc = "idle"
    /\ SlowNearExpiry \/ Unseen = {}
    /\ UNCHANGED <<chainExpired, refusing, chain, mem, disk, pc, queue, missed, faults>>

(* A next attempt's time comes. *)
RestEnds(x) ==
    /\ pc = "idle" /\ x \in mem.resting
    /\ mem' = [mem EXCEPT !.resting = @ \ {x}]
    /\ disk' = mem'
    /\ UNCHANGED <<clock, chain, pc, queue, missed, faults>>

Step ==
    \/ \E i \in Assets : ActivateTry(i)
    \/ ActivateNone
    \/ PushStart
    \/ \E p \in queue : Halve(p) \/ PushRefused(p) \/ PushNothing(p) \/ PushSent(p)
    \/ PayExpired
    \/ \E i \in Assets : CloseExpired(i)
    \/ Save

Next ==
    \/ Step
    \/ Crash
    \/ \E x \in Leaves : SelfClaim(x)
    \/ \E i \in Assets : LandLate(i)
    \/ \E i \in Assets : ForeignClose(i)
    \/ ExpireChain
    \/ ExpireKeeper
    \/ \E x \in mem.resting : RestEnds(x)

Spec == Init /\ [][Next]_vars

(* A step of the tick loop, or the time until the next one can do something. *)
Progress == Step \/ \E x \in mem.resting : RestEnds(x)

(***************************************************************************)
(* The tick loop keeps stepping the round, and the chain's clock is never  *)
(* far behind the keeper's.  The expiry need not come, and nobody else     *)
(* need claim or close.                                                    *)
(***************************************************************************)
FairSpec ==
    /\ Spec
    /\ WF_vars(Progress)
    /\ WF_vars(keeperExpired /\ ExpireChain)

----------------------------------------------------------------------------
(* Properties. *)

Rests == {Activating(i) : i \in Assets} \cup {Closing(i) : i \in Assets} \cup Leaves

KeeperState ==
    [status    : {"COMMITTED", "ACTIVE", "complete", "expired"},
     asset     : [Assets -> {"pending", "active", "abandoned", "released"}],
     attempts  : [Assets -> 0 .. MaxActivationAttempts],
     inventory : [Assets -> Nat],
     failed    : [Leaves -> 0 .. MaxPushAttempts],
     permanent : SUBSET Leaves,
     resting   : SUBSET Rests,
     expiring  : SUBSET Assets]

(* The state has its types (state.ts 57-85, 122-137). *)
TypeOK ==
    /\ clock \in BOOLEAN \X BOOLEAN \X SUBSET Unfundable
    /\ onchain \in [Assets -> {"none", "active", "closed"}]
    /\ funded \in [Assets -> Nat] /\ vault \in [Assets -> Nat] /\ wallet \in [Assets -> Nat]
    /\ claimed \subseteq Leaves /\ flying \subseteq Assets /\ missed \subseteq Assets
    /\ mem \in KeeperState /\ disk \in KeeperState
    /\ pc \in {"idle", "pushing", "saving"}
    /\ \A p \in queue : p.plan \subseteq LeavesOf(p.asset)
    /\ faults \in 0 .. MaxFaults

(***************************************************************************)
(* The inventory the next round is funded from is never more than the      *)
(* wallet holds ("Basket tokens the keeper wallet holds for this coin",    *)
(* state.ts 141): no reservation is given back for tokens that went into   *)
(* a vault, and nothing is credited twice across crashes and retries.      *)
(***************************************************************************)
InventoryBacked ==
    /\ TypeOK
    /\ \A i \in Assets : mem.inventory[i] <= wallet[i] /\ disk.inventory[i] <= wallet[i]

Over == pc = "idle" /\ disk.status \in {"complete", "expired"} /\ disk.expiring = {}

(***************************************************************************)
(* Once the round has been paid and its assets closed, every token of it   *)
(* that the wallet holds is back in the inventory, unless the close itself *)
(* escaped the keeper.                                                     *)
(***************************************************************************)
AllBooked(is) == Over => \A i \in is : disk.inventory[i] = wallet[i]
LeftoversBooked == AllBooked(Assets \ missed)

(* "leftovers are always recovered after expiry" (engine.ts 830): also then. *)
LeftoversRecovered == AllBooked(Assets)

(***************************************************************************)
(* A round is only called complete when everyone it could reach was paid:  *)
(* what is unpaid is not worth pushing, undeliverable, or of an asset the  *)
(* program would not fund, and a neighbour in the same block, an RPC error *)
(* or a crash never costs a holder the push (engine.ts 1001-1005).         *)
(***************************************************************************)
CompleteMeansServed ==
    disk.status = "complete" /\ ~chainExpired =>
        \A i \in Assets \ refusing :
            LeavesOf(i) \subseteq claimed \cup Frozen \cup {x \in Leaves : ~ShouldAutoPush(x)}

(***************************************************************************)
(* Paying ends although destinations and mints refuse and RPC errors come  *)
(* ("Nothing waits forever", engine.ts 22), without the help of the        *)
(* expiry; and once both clocks have passed it every asset gets closed.    *)
(***************************************************************************)
PayoutEnds ==
    <>[](/\ disk.status \in {"complete", "expired"}
         /\ keeperExpired /\ chainExpired => disk.expiring = {})
=============================================================================
