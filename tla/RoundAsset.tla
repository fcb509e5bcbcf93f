----------------------------- MODULE RoundAsset -----------------------------
(***************************************************************************)
(* The assets of one committed round: vaults, payouts, sweeping and        *)
(* closing (programs/stonkfolio-distributor/src/instructions).             *)
(*                                                                         *)
(* Every instruction here is permissionless, so any of them may come at    *)
(* any time, any number of times, from anyone.  The program cannot see how *)
(* the keeper built the committed trees: they may promise more than they   *)
(* allocate, name the asset account as a recipient, or commit two asset    *)
(* leaves under one index.  A Merkle proof is modelled by membership: it   *)
(* verifies exactly for the leaves under the committed root.               *)
(***************************************************************************)
EXTENDS Integers, FiniteSets, Sequences, Functions

CONSTANTS
    AssetLeaves,    \* asset leaves anyone may present to open_asset:
                    \* [idx, allocated, leaves], leaves a sequence of [recipient, amount]
    AssetsRoot,     \* those under the round's assets_root
    AssetCount,     \* round.asset_count
    Recipients,     \* wallets
    AssetPda,       \* the recipient "the round_asset account itself"
    Expiry,         \* round.expiry_ts
    MaxBlockLevel,  \* MAX_BLOCK_LEVEL
    \* Bounds of the model.
    Arrivals,       \* amounts one inbound transfer may bring
    MaxDeposited,   \* tokens sent to one vault in all
    MaxNow          \* time

Assets == 0 .. (AssetCount - 1)

ASSUME AssetAssumption ==
    /\ AssetCount \in Nat
    /\ Expiry \in Nat
    /\ MaxNow \in Nat
    /\ MaxBlockLevel \in Nat
    /\ AssetPda \notin Recipients
    /\ Arrivals \subseteq Nat
    /\ MaxDeposited \in Nat
    /\ AssetLeaves \subseteq
          [idx : Nat, allocated : Nat,
           leaves : Seq([recipient : Recipients \cup {AssetPda}, amount : Nat])]
    /\ AssetsRoot \subseteq AssetLeaves

VARIABLES
    now,            \* unix_timestamp
    opened_mask,    \* RoundHeader.opened_mask, as a set of indices
    closed_mask,    \* RoundHeader.closed_mask
    asset,          \* RoundAsset accounts, by index
    vault,          \* token amount of each asset's vault
    withheld,       \* the vault holds withheld Token-2022 transfer fees
    ataUsable,      \* wallets whose canonical token account exists and is still their own
    deposited,      \* history: tokens that ever arrived in the vault
    rolled,         \* history: tokens sent to the root authority
    payouts         \* history: how often each leaf index was paid, and the tokens paid

history == <<deposited, rolled, payouts>>
vars == <<now, opened_mask, closed_mask, asset, vault, withheld, ataUsable, history>>

LeafIndices == UNION {0 .. (Len(a.leaves) - 1) : a \in AssetLeaves}

NoAsset == [status |-> "None", allocated |-> 0, leaves |-> << >>,
            funded |-> 0, claimed |-> 0, bitmap |-> {}]

Init ==
    /\ now = 0
    /\ opened_mask = {}
    /\ closed_mask = {}
    /\ asset = [i \in Assets |-> NoAsset]
    /\ vault = [i \in Assets |-> 0]
    /\ withheld = [i \in Assets |-> FALSE]
    /\ ataUsable \in SUBSET Recipients
    /\ deposited = [i \in Assets |-> 0]
    /\ rolled = [i \in Assets |-> 0]
    /\ payouts = [i \in Assets |-> [times |-> [l \in LeafIndices |-> 0], tokens |-> 0]]

----------------------------------------------------------------------------
(***************************************************************************)
(* Anyone sends tokens to a vault: the keeper's funding, or a donation,    *)
(* also before open_asset (the vault address is known and token accounts   *)
(* are created permissionlessly).  What arrives is net of the mint's       *)
(* transfer fee, which stays withheld in the vault.                        *)
(***************************************************************************)
Deposit(i, arriving, fee) ==
    /\ i \notin closed_mask
    /\ deposited[i] + arriving <= MaxDeposited
    /\ vault' = [vault EXCEPT ![i] = @ + arriving]
    /\ withheld' = [withheld EXCEPT ![i] = @ \/ fee]
    /\ deposited' = [deposited EXCEPT ![i] = @ + arriving]
    /\ UNCHANGED <<now, opened_mask, closed_mask, asset, ataUsable, rolled, payouts>>

(***************************************************************************)
(* open_asset.  vet_mint's refusals depend only on the mint; a refused     *)
(* mint is an asset leaf that nobody presents.                             *)
(***************************************************************************)
OpenAsset(leaf) ==
    /\ now < Expiry
    /\ leaf.idx < AssetCount
    /\ leaf.idx \notin opened_mask
    /\ asset[leaf.idx].status = "None"
    /\ Len(leaf.leaves) >= 1
    /\ leaf.allocated > 0
    /\ leaf \in AssetsRoot
    /\ opened_mask' = opened_mask \cup {leaf.idx}
    /\ asset' = [asset EXCEPT ![leaf.idx] =
                    [status |-> "Pending", allocated |-> leaf.allocated, leaves |-> leaf.leaves,
                     funded |-> 0, claimed |-> 0, bitmap |-> {}]]
    /\ UNCHANGED <<now, closed_mask, vault, withheld, ataUsable, history>>

(* Faulty variant: trusts the declared allocation. *)
ActivateAssetUnmeasured(i) ==
    /\ now < Expiry
    /\ asset[i].status = "Pending"
    /\ asset' = [asset EXCEPT ![i] = [@ EXCEPT !.status = "Active", !.funded = vault[i]]]
    /\ UNCHANGED <<now, opened_mask, closed_mask, vault, withheld, ataUsable, history>>

(***************************************************************************)
(* activate_asset: what arrived is measured, not declared.                 *)
(***************************************************************************)
ActivateAsset(i) ==
    /\ now < Expiry
    /\ asset[i].status = "Pending"
    /\ vault[i] >= asset[i].allocated
    /\ asset' = [asset EXCEPT ![i] = [@ EXCEPT !.status = "Active", !.funded = vault[i]]]
    /\ UNCHANGED <<now, opened_mask, closed_mask, vault, withheld, ataUsable, history>>

----------------------------------------------------------------------------
(* Payouts. *)

LeafCount(i) == Len(asset[i].leaves)
Recipient(i, l) == asset[i].leaves[l + 1].recipient
Amount(i, l) == asset[i].leaves[l + 1].amount

(***************************************************************************)
(* Where a push may go: the recipient's canonical token account, if it     *)
(* exists and still belongs to them, and never the vault.                  *)
(***************************************************************************)
PushableTo(i, l) == Recipient(i, l) # AssetPda /\ Recipient(i, l) \in ataUsable

(* Faulty variant: forgets to mark the leaves as claimed. *)
PayOutUnmarked(i, paid, newClaimed) ==
    /\ vault[i] >= newClaimed - asset[i].claimed
    /\ asset' = [asset EXCEPT ![i] = [@ EXCEPT !.claimed = newClaimed]]
    /\ vault' = [vault EXCEPT ![i] = @ - (newClaimed - asset[i].claimed)]
    /\ UNCHANGED <<now, opened_mask, closed_mask, withheld, ataUsable, history>>

(***************************************************************************)
(* The leaves in paid leave the vault, claimed moving to newClaimed.       *)
(***************************************************************************)
PayOut(i, paid, newClaimed) ==
    /\ vault[i] >= newClaimed - asset[i].claimed
    /\ asset' = [asset EXCEPT ![i] = [@ EXCEPT !.bitmap = asset[i].bitmap \cup paid,
                                               !.claimed = newClaimed]]
    /\ vault' = [vault EXCEPT ![i] = @ - (newClaimed - asset[i].claimed)]
    /\ payouts' = [payouts EXCEPT ![i] =
                    [times  |-> [l \in LeafIndices |-> @.times[l] + (IF l \in paid THEN 1 ELSE 0)],
                     tokens |-> @.tokens + (newClaimed - asset[i].claimed)]]
    /\ UNCHANGED <<now, opened_mask, closed_mask, withheld, ataUsable, deposited, rolled>>

Payable(i) == asset[i].status = "Active" /\ now < Expiry

(***************************************************************************)
(* process, the common part of push_payout and self_claim.                 *)
(***************************************************************************)
Process(i, l) ==
    /\ Payable(i)
    /\ l < LeafCount(i)
    /\ l \notin asset[i].bitmap
    /\ Amount(i, l) > 0
    /\ Recipient(i, l) # AssetPda
    /\ asset[i].claimed + Amount(i, l) <= asset[i].allocated
    /\ PayOut(i, {l}, asset[i].claimed + Amount(i, l))

PushPayout(i, l) ==
    /\ Process(i, l)
    /\ PushableTo(i, l)

(* The recipient signs and names any account of theirs. *)
SelfClaim(i, l) == Process(i, l)

(***************************************************************************)
(* The tokens of a set of leaves.                                          *)
(***************************************************************************)
TokensOf(i, leafs) == SumFunction([l \in leafs |-> Amount(i, l)])

Block(i, first, level) ==
    {l \in LeafIndices : l >= first /\ l < first + 2^level /\ l < LeafCount(i)}

(* Faulty variant: pays the listed leaves again on a retry. *)
PushPayoutsAgain(i, first, level, pushes) ==
    /\ Payable(i)
    /\ pushes \subseteq Block(i, first, level)
    /\ \A l \in pushes : PushableTo(i, l) /\ Amount(i, l) > 0
    /\ LET newClaimed == asset[i].claimed + TokensOf(i, pushes)
       IN /\ newClaimed \in asset[i].claimed .. asset[i].allocated
          /\ PayOut(i, pushes, newClaimed)

(***************************************************************************)
(* push_payouts: pays the leaves in pushes of one aligned block; the other *)
(* leaves of the block are only hashed.  Leaves already paid are passed    *)
(* over, and a leaf that cannot be paid fails the whole instruction.       *)
(***************************************************************************)
PushPayouts(i, first, level, pushes) ==
    /\ Payable(i)
    /\ level <= MaxBlockLevel
    /\ first < LeafCount(i)
    /\ first % (2^level) = 0
    /\ pushes \subseteq Block(i, first, level)
    /\ \A l \in pushes : PushableTo(i, l) /\ Amount(i, l) > 0
    /\ LET due == pushes \ asset[i].bitmap
           newClaimed == asset[i].claimed + TokensOf(i, due)
       IN /\ newClaimed \in asset[i].claimed .. asset[i].allocated
          /\ PayOut(i, due, newClaimed)

----------------------------------------------------------------------------
(* Leaving the vault otherwise. *)

Reserved(i) == asset[i].allocated - asset[i].claimed

(***************************************************************************)
(* sweep_excess: everything allocated but not yet paid stays.  It has no   *)
(* expiry check.                                                           *)
(***************************************************************************)
SweepExcess(i) ==
    /\ asset[i].status = "Active"
    /\ vault[i] > Reserved(i)
    /\ rolled' = [rolled EXCEPT ![i] = @ + (vault[i] - Reserved(i))]
    /\ vault' = [vault EXCEPT ![i] = Reserved(i)]
    /\ UNCHANGED <<now, opened_mask, closed_mask, asset, withheld, ataUsable, deposited, payouts>>

(* Faulty variant: the withheld fees stay in the vault. *)
HarvestNothing(i) == UNCHANGED withheld

(* harvest_withheld_to_mint empties the withheld fees of a live fee mint. *)
HarvestWithheld(i) == withheld' = [withheld EXCEPT ![i] = FALSE]

(* Faulty variant: the expiry is not looked at. *)
CloseAssetEarly(i) ==
    /\ asset[i].status # "None"
    /\ HarvestWithheld(i)
    /\ rolled' = [rolled EXCEPT ![i] = @ + vault[i]]
    /\ vault' = [vault EXCEPT ![i] = 0]
    /\ closed_mask' = closed_mask \cup {i}
    /\ asset' = [asset EXCEPT ![i] = NoAsset]
    /\ UNCHANGED <<now, opened_mask, ataUsable, deposited, payouts>>

(***************************************************************************)
(* close_asset: whatever is left goes to the root authority and both       *)
(* accounts are closed.  The token program refuses to close an account     *)
(* that still holds withheld fees.                                         *)
(***************************************************************************)
CloseAsset(i) ==
    /\ now >= Expiry
    /\ asset[i].status # "None"
    /\ HarvestWithheld(i)
    /\ ~withheld'[i]
    /\ rolled' = [rolled EXCEPT ![i] = @ + vault[i]]
    /\ vault' = [vault EXCEPT ![i] = 0]
    /\ closed_mask' = closed_mask \cup {i}
    /\ asset' = [asset EXCEPT ![i] = NoAsset]
    /\ UNCHANGED <<now, opened_mask, ataUsable, deposited, payouts>>

----------------------------------------------------------------------------
(* The world. *)

(* A wallet creates, closes or gives away its canonical token account. *)
ChangeAta(w) ==
    /\ ataUsable' = IF w \in ataUsable THEN ataUsable \ {w} ELSE ataUsable \cup {w}
    /\ UNCHANGED <<now, opened_mask, closed_mask, asset, vault, withheld, history>>

Tick ==
    /\ now < MaxNow
    /\ now' = now + 1
    /\ UNCHANGED <<opened_mask, closed_mask, asset, vault, withheld, ataUsable, history>>

Next ==
    \/ \E i \in Assets, arriving \in Arrivals, fee \in BOOLEAN : Deposit(i, arriving, fee)
    \/ \E leaf \in AssetLeaves : OpenAsset(leaf)
    \/ \E i \in Assets : ActivateAsset(i)
    \/ \E i \in Assets, l \in LeafIndices : PushPayout(i, l)
    \/ \E i \in Assets, l \in LeafIndices : SelfClaim(i, l)
    \/ \E i \in Assets, first \in LeafIndices, level \in 0 .. (MaxBlockLevel + 1),
          pushes \in SUBSET LeafIndices : PushPayouts(i, first, level, pushes)
    \/ \E i \in Assets : SweepExcess(i)
    \/ \E i \in Assets : CloseAsset(i)
    \/ \E w \in Recipients : ChangeAta(w)
    \/ Tick

Spec == Init /\ [][Next]_vars

(***************************************************************************)
(* Time passes, and someone (the keeper's closeExpired, or anyone) keeps   *)
(* trying to close.                                                        *)
(***************************************************************************)
FairSpec ==
    /\ Spec
    /\ WF_vars(Tick)
    /\ \A i \in Assets : WF_vars(CloseAsset(i))

----------------------------------------------------------------------------
(* Invariants. *)

Asset ==
    [status : {"None", "Pending", "Active"}, allocated : Nat,
     leaves : Seq([recipient : Recipients \cup {AssetPda}, amount : Nat]),
     funded : Nat, claimed : Nat, bitmap : SUBSET LeafIndices]

(* The state has its types (state.rs 130-205). *)
TypeOK ==
    /\ now \in Nat
    /\ opened_mask \in SUBSET Assets
    /\ closed_mask \in SUBSET Assets
    /\ asset \in [Assets -> Asset]
    /\ vault \in [Assets -> Nat]
    /\ withheld \in [Assets -> BOOLEAN]
    /\ ataUsable \in SUBSET Recipients
    /\ deposited \in [Assets -> Nat]
    /\ rolled \in [Assets -> Nat]
    /\ payouts \in [Assets -> [times : [LeafIndices -> Nat], tokens : Nat]]

(***************************************************************************)
(* An active vault always covers everything allocated and not yet paid,    *)
(* whatever is donated, swept or pushed meanwhile (sweep_excess.rs 29:     *)
(* "Everything allocated but not yet paid stays reserved for recipients"). *)
(***************************************************************************)
Solvent ==
    \A i \in Assets :
        asset[i].status = "Active" =>
            /\ asset[i].claimed <= asset[i].allocated
            /\ vault[i] >= Reserved(i)

(***************************************************************************)
(* claimed is the sum of the leaves in the bitmap (payout.rs 67-68, 228).  *)
(***************************************************************************)
ClaimedMatchesBitmap ==
    \A i \in Assets :
        asset[i].status # "None" => asset[i].claimed = TokensOf(i, asset[i].bitmap)

(***************************************************************************)
(* Each leaf index of an asset is paid at most once over the whole life of *)
(* the round, and never more in all than one committed leaf allocates,     *)
(* even where the root commits two asset leaves for the index              *)
(* (open_asset.rs 27-29: "Once opened, never again").                      *)
(***************************************************************************)
PaidOnce ==
    \A i \in Assets :
        /\ \A l \in LeafIndices : payouts[i].times[l] <= 1
        /\ \E a \in {0} \cup {leaf.allocated : leaf \in {b \in AssetsRoot : b.idx = i}} :
                payouts[i].tokens <= a

(***************************************************************************)
(* An asset account exists exactly while its index is opened and not       *)
(* closed: the masks the keeper reads tell the truth.                      *)
(***************************************************************************)
MasksMatchAccounts ==
    /\ closed_mask \subseteq opened_mask
    /\ \A i \in Assets : (asset[i].status # "None") <=> i \in opened_mask \ closed_mask

(***************************************************************************)
(* Tokens are conserved, and none is left behind in a closed vault.        *)
(***************************************************************************)
Conservation ==
    \A i \in Assets :
        /\ deposited[i] = vault[i] + payouts[i].tokens + rolled[i]
        /\ i \in closed_mask => vault[i] = 0

(***************************************************************************)
(* In a tree that does not promise more than it allocates, every leaf not  *)
(* paid yet can still be paid in full while the asset is active: no order  *)
(* of pushes, claims and sweeps starves a recipient.                       *)
(***************************************************************************)
HonestTree(i) == TokensOf(i, 0 .. (LeafCount(i) - 1)) <= asset[i].allocated

UnpaidLeafPayable ==
    \A i \in Assets :
        asset[i].status = "Active" /\ HonestTree(i) =>
            LET unpaid == TokensOf(i, (0 .. (LeafCount(i) - 1)) \ asset[i].bitmap)
            IN /\ unpaid <= vault[i]
               /\ asset[i].claimed + unpaid <= asset[i].allocated

(***************************************************************************)
(* The accounts of a round agree with each other and with what really      *)
(* moved, whatever order the permissionless instructions come in.          *)
(***************************************************************************)
AccountsAgree ==
    /\ TypeOK
    /\ MasksMatchAccounts
    /\ ClaimedMatchesBitmap
    /\ Conservation
    /\ UnpaidLeafPayable

(***************************************************************************)
(* Before expiry nothing but the excess ever goes to the root authority:   *)
(* what was owed before the step is still in the vault after it (lib.rs    *)
(* 17-18: unclaimed funds only leave after expiry).                        *)
(***************************************************************************)
UnclaimedStayUntilExpiry ==
    [][\A i \in Assets :
          (now < Expiry /\ rolled'[i] > rolled[i]) => vault'[i] >= Reserved(i)]_vars

(***************************************************************************)
(* Every opened asset is eventually closed after expiry and its leftovers  *)
(* reach the root authority, whether it was ever funded or not.            *)
(***************************************************************************)
LeftoversReturned ==
    \A i \in Assets :
        i \in opened_mask ~> (i \in closed_mask /\ deposited[i] = payouts[i].tokens + rolled[i])

=============================================================================
