------------------------- MODULE RoundAsset_proofs -------------------------
(***************************************************************************)
(* Proofs about the assets of a round, and about the services around a     *)
(* round that MCServices puts side by side: the process lock, publishing   *)
(* and the prices of a launch.                                             *)
(*                                                                         *)
(* The assets, for any trees, amounts, number of assets and bounds: the    *)
(* vault of an active asset covers what is owed, tokens are conserved, no  *)
(* leaf is paid twice, claimed is what the leaves in the bitmap add up to, *)
(* and no unpaid leaf of an honest tree starves.                           *)
(*                                                                         *)
(* The lock, for any number of keepers on any machines, as long as no two  *)
(* of them are starting at once (two that do can both get the lock: see    *)
(* LiveLockKept).  A keeper past the creation of its file is the owner of  *)
(* the file that is there, so two of them are one.  What could break this  *)
(* is a removal, and a keeper about to remove has seen either no file, a   *)
(* dead holder or a file so old that its writer is dead; since it is the   *)
(* only one starting, nobody has become a keeper in the meantime.          *)
(*                                                                         *)
(* Publishing, for any number of crashes, foreign pushes and lost answers. *)
(* A running step of publishing knows how far it has come, and each place  *)
(* it can be at says which copies of the bundle are whole: the directory   *)
(* once it is written, the clone's tree once it is copied, the index once  *)
(* it is added, HEAD once it is recorded.  A crash forgets the place and   *)
(* so claims nothing.  Only a step that has come to its end saves          *)
(* PREPARED, and from then on nothing writes to the clone or pushes.       *)
(*                                                                         *)
(* A price, for any pools and prices.  A pool never leaves graduation, so  *)
(* the second read of a price finds the pool where the first one sent it.  *)
(***************************************************************************)
EXTENDS RoundAsset, MCServices, SequenceTheorems, Sums

(***************************************************************************)
(* The inductive invariant.  Beside the types and solvency it says how the *)
(* history relates to the accounts: while an asset's account exists,       *)
(* claimed and the bitmap are exactly what was paid, its allocation is the *)
(* one some leaf under the round's root commits for its index, and nothing *)
(* is claimed before activation; before the index was opened nothing was   *)
(* paid, and the masks say which accounts exist.  BitmapCounts is          *)
(* ClaimedMatchesBitmap over one sum for all sets of leaves of a tree,     *)
(* and that no leaf beyond the tree is marked.                             *)
(***************************************************************************)
CommittedFor(i, n) == \E leaf \in AssetsRoot : leaf.idx = i /\ leaf.allocated = n

AccountRecordsPayments(i) ==
    asset[i].status # "None" =>
        /\ payouts[i].tokens = asset[i].claimed
        /\ \A l \in LeafIndices : payouts[i].times[l] = IF l \in asset[i].bitmap THEN 1 ELSE 0
        /\ asset[i].claimed <= asset[i].allocated
        /\ CommittedFor(i, asset[i].allocated)
        /\ asset[i].status = "Pending" => asset[i].claimed = 0

UnopenedUnpaid(i) ==
    i \notin opened_mask => /\ payouts[i].tokens = 0
                            /\ \A l \in LeafIndices : payouts[i].times[l] = 0

Recorded ==
    \A i \in Assets : AccountRecordsPayments(i) /\ UnopenedUnpaid(i)

(* What a set of leaves of a tree amounts to. *)
AmountsIn(leaves) == [l \in Nat |-> leaves[l + 1].amount]
LeafTokens(leaves, leafs) == SumFunctionOnSet(AmountsIn(leaves), leafs)

BitmapCounts ==
    \A i \in Assets :
        asset[i].status # "None" =>
            /\ asset[i].bitmap \subseteq 0 .. (LeafCount(i) - 1)
            /\ asset[i].claimed = LeafTokens(asset[i].leaves, asset[i].bitmap)

IInv ==
    /\ TypeOK
    /\ Solvent
    /\ MasksMatchAccounts
    /\ Recorded
    /\ PaidOnce
    /\ Conservation
    /\ BitmapCounts

(***************************************************************************)
(* The three payout instructions do the same to one asset: some leaves not *)
(* paid yet are marked and what they amount to leaves the vault.           *)
(***************************************************************************)
PaysOut(i) ==
    \E paid \in SUBSET LeafIndices, newClaimed \in Nat :
        /\ Payable(i)
        /\ paid \subseteq 0 .. (LeafCount(i) - 1)
        /\ paid \cap asset[i].bitmap = {}
        /\ newClaimed = asset[i].claimed + LeafTokens(asset[i].leaves, paid)
        /\ newClaimed >= asset[i].claimed
        /\ newClaimed <= asset[i].allocated
        /\ PayOut(i, paid, newClaimed)

LEMMA LeafIndicesAreNat == LeafIndices \subseteq Nat
BY DEF LeafIndices

LEMMA SeqElement ==
    ASSUME NEW S, NEW s \in Seq(S), NEW k \in 1 .. Len(s)
    PROVE  s[k] \in S
OBVIOUS

(* The model sums over exactly the leaves at hand; it is the same sum. *)
LEMMA TokensOfIs ==
    ASSUME NEW leaves, NEW S, S \subseteq Nat, IsFiniteSet(S)
    PROVE  SumFunction([l \in S |-> leaves[l + 1].amount]) = LeafTokens(leaves, S)
<1>. DEFINE f == [l \in S |-> leaves[l + 1].amount]
<1>1. SumFunction(f) = SumFunctionOnSet(f, S)
  BY DEF SumFunction
<1>2. \A l \in S : f[l] = AmountsIn(leaves)[l]
  BY DEF AmountsIn
<1>. HIDE DEF f
<1>3. SumFunctionOnSet(f, S) = SumFunctionOnSet(AmountsIn(leaves), S)
  BY <1>2, SumSame
<1>. QED
  BY <1>1, <1>3 DEF LeafTokens, f

(* The leaves of an account have natural amounts. *)
LEMMA AmountsAreNat ==
    ASSUME TypeOK, NEW i \in Assets, NEW l \in 0 .. (LeafCount(i) - 1)
    PROVE  AmountsIn(asset[i].leaves)[l] \in Nat
<1>1. asset[i].leaves \in Seq([recipient : Recipients \cup {AssetPda}, amount : Nat])
  BY DEF TypeOK, Asset
<1>2. l \in Nat /\ l + 1 \in 1 .. Len(asset[i].leaves)
  BY <1>1 DEF LeafCount
<1>3. asset[i].leaves[l + 1] \in [recipient : Recipients \cup {AssetPda}, amount : Nat]
  BY <1>1, <1>2, SeqElement
<1>. QED
  BY <1>2, <1>3 DEF AmountsIn

(* So a set of them adds up to a natural. *)
LEMMA LeafTokensType ==
    ASSUME TypeOK, NEW i \in Assets, NEW S, S \subseteq 0 .. (LeafCount(i) - 1)
    PROVE  IsFiniteSet(S) /\ S \subseteq Nat /\ LeafTokens(asset[i].leaves, S) \in Nat
<1>1. LeafCount(i) \in Nat
  BY DEF TypeOK, Asset, LeafCount
<1>2. IsFiniteSet(0 .. (LeafCount(i) - 1))
  BY <1>1, FS_Interval
<1>3. IsFiniteSet(S) /\ S \subseteq Nat
  <2>1. IsFiniteSet(S)
    BY <1>2, FS_Subset
  <2>. QED
    BY <1>1, <2>1
<1>4. \A l \in S : AmountsIn(asset[i].leaves)[l] \in Nat
  BY AmountsAreNat
<1>. QED
  BY <1>3, <1>4, SumNat DEF LeafTokens

LEMMA ProcessPaysOut ==
    ASSUME TypeOK, NEW i \in Assets, NEW l \in LeafIndices, Process(i, l)
    PROVE  PaysOut(i)
<1>1. asset[i] \in Asset
  BY DEF TypeOK
<1>2. asset[i].claimed \in Nat /\ asset[i].allocated \in Nat
      /\ asset[i].leaves \in Seq([recipient : Recipients \cup {AssetPda}, amount : Nat])
  BY <1>1 DEF Asset
<1>3. l + 1 \in 1 .. Len(asset[i].leaves)
  BY <1>2, LeafIndicesAreNat DEF Process, LeafCount
<1>4. asset[i].leaves[l + 1] \in [recipient : Recipients \cup {AssetPda}, amount : Nat]
  BY <1>2, <1>3, SeqElement
<1>5. Amount(i, l) \in Nat
  BY <1>4 DEF Amount
<1>7. {l} \subseteq 0 .. (LeafCount(i) - 1)
  BY <1>2, LeafIndicesAreNat DEF Process, LeafCount
<1>8. LeafTokens(asset[i].leaves, {l}) = Amount(i, l)
  <2>. DEFINE f == AmountsIn(asset[i].leaves)
  <2>1. f[l] = Amount(i, l)
    BY LeafIndicesAreNat DEF AmountsIn, Amount
  <2>. HIDE DEF f
  <2>2. SumFunctionOnSet(f, {} \cup {l}) = f[l] + SumFunctionOnSet(f, {})
    BY <1>5, <2>1, SumAdd, FS_EmptySet
  <2>3. {} \cup {l} = {l}
    OBVIOUS
  <2>. QED
    BY <1>5, <2>1, <2>2, <2>3, SumEmpty DEF LeafTokens, f
<1>6. /\ {l} \in SUBSET LeafIndices
      /\ {l} \subseteq 0 .. (LeafCount(i) - 1)
      /\ {l} \cap asset[i].bitmap = {}
      /\ asset[i].claimed + Amount(i, l) = asset[i].claimed + LeafTokens(asset[i].leaves, {l})
      /\ asset[i].claimed + Amount(i, l) \in Nat
      /\ asset[i].claimed + Amount(i, l) >= asset[i].claimed
      /\ asset[i].claimed + Amount(i, l) <= asset[i].allocated
      /\ Payable(i)
      /\ PayOut(i, {l}, asset[i].claimed + Amount(i, l))
  BY <1>2, <1>5, <1>7, <1>8 DEF Process
<1>. QED
  BY <1>6 DEF PaysOut

LEMMA PushPayoutsPaysOut ==
    ASSUME TypeOK, NEW i \in Assets, NEW first \in LeafIndices,
           NEW level \in 0 .. (MaxBlockLevel + 1), NEW pushes \in SUBSET LeafIndices,
           PushPayouts(i, first, level, pushes)
    PROVE  PaysOut(i)
<1>. DEFINE due == pushes \ asset[i].bitmap
            newClaimed == asset[i].claimed + TokensOf(i, due)
<1>1. asset[i].claimed \in Nat /\ asset[i].allocated \in Nat
  BY DEF TypeOK, Asset
<1>2. /\ Payable(i)
      /\ newClaimed \in asset[i].claimed .. asset[i].allocated
      /\ PayOut(i, due, newClaimed)
  BY DEF PushPayouts
<1>3. due \in SUBSET LeafIndices /\ due \cap asset[i].bitmap = {}
  OBVIOUS
<1>5. due \subseteq 0 .. (LeafCount(i) - 1)
  <2>1. LeafCount(i) \in Nat
    BY DEF TypeOK, Asset, LeafCount
  <2>2. Block(i, first, level) \subseteq 0 .. (LeafCount(i) - 1)
    <3>. SUFFICES ASSUME NEW l \in Block(i, first, level)
                  PROVE  l \in 0 .. (LeafCount(i) - 1)
      OBVIOUS
    <3>1. l \in LeafIndices /\ l < LeafCount(i)
      BY Zenon DEF Block
    <3>2. l \in Nat
      BY <3>1, LeafIndicesAreNat
    <3>. QED
      BY <2>1, <3>1, <3>2
  <2>3. pushes \subseteq Block(i, first, level)
    BY DEF PushPayouts
  <2>. QED
    BY <2>2, <2>3
<1>6. newClaimed = asset[i].claimed + LeafTokens(asset[i].leaves, due)
  <2>1. due \subseteq Nat /\ IsFiniteSet(due)
    BY <1>5, LeafTokensType
  <2>. HIDE DEF due
  <2>2. TokensOf(i, due) = LeafTokens(asset[i].leaves, due)
    BY <2>1, TokensOfIs DEF TokensOf, Amount
  <2>. QED
    BY <2>2
<1>. HIDE DEF due, newClaimed
<1>4. newClaimed \in Nat /\ newClaimed >= asset[i].claimed /\ newClaimed <= asset[i].allocated
  BY <1>1, <1>2
<1>. QED
  BY <1>2, <1>3, <1>4, <1>5, <1>6 DEF PaysOut

(***************************************************************************)
(* The cases every proof below goes through.                               *)
(***************************************************************************)
LEMMA NextCases ==
    ASSUME TypeOK, [Next]_vars
    PROVE  \/ \E i \in Assets, arriving \in Arrivals, fee \in BOOLEAN : Deposit(i, arriving, fee)
           \/ \E leaf \in AssetLeaves : OpenAsset(leaf)
           \/ \E i \in Assets : ActivateAsset(i)
           \/ \E i \in Assets : PaysOut(i)
           \/ \E i \in Assets : SweepExcess(i)
           \/ \E i \in Assets : CloseAsset(i)
           \/ \E w \in Recipients : ChangeAta(w)
           \/ Tick
           \/ UNCHANGED vars
<1>1. ASSUME NEW i \in Assets, NEW l \in LeafIndices, PushPayout(i, l) \/ SelfClaim(i, l)
      PROVE  PaysOut(i)
  BY <1>1, ProcessPaysOut DEF PushPayout, SelfClaim
<1>2. ASSUME NEW i \in Assets, NEW first \in LeafIndices,
             NEW level \in 0 .. (MaxBlockLevel + 1), NEW pushes \in SUBSET LeafIndices,
             PushPayouts(i, first, level, pushes)
      PROVE  PaysOut(i)
  BY <1>2, PushPayoutsPaysOut
<1>. QED
  BY <1>1, <1>2 DEF Next

----------------------------------------------------------------------------
(* Types. *)

LEMMA PaysOutType ==
    ASSUME TypeOK, NEW i \in Assets, PaysOut(i)
    PROVE  TypeOK'
<1>1. PICK paid \in SUBSET LeafIndices, newClaimed \in Nat :
              newClaimed >= asset[i].claimed /\ PayOut(i, paid, newClaimed)
  BY DEF PaysOut
<1>. DEFINE paidAsset == [asset[i] EXCEPT !.bitmap = asset[i].bitmap \cup paid, !.claimed = newClaimed]
            left == vault[i] - (newClaimed - asset[i].claimed)
            counted == [times  |-> [l \in LeafIndices |-> payouts[i].times[l] + (IF l \in paid THEN 1 ELSE 0)],
                        tokens |-> payouts[i].tokens + (newClaimed - asset[i].claimed)]
<1>2. asset[i] \in Asset /\ vault[i] \in Nat
      /\ payouts[i] \in [times : [LeafIndices -> Nat], tokens : Nat]
  BY DEF TypeOK
<1>3. paidAsset \in Asset
  BY <1>2 DEF Asset
<1>4. left \in Nat
  BY <1>1, <1>2 DEF PayOut, Asset
<1>5. counted \in [times : [LeafIndices -> Nat], tokens : Nat]
  <2>1. payouts[i].tokens + (newClaimed - asset[i].claimed) \in Nat
    BY <1>1, <1>2 DEF Asset
  <2>2. \A l \in LeafIndices : payouts[i].times[l] \in Nat
    BY <1>2
  <2>. QED
    BY <2>1, <2>2
<1>6. asset' = [asset EXCEPT ![i] = paidAsset] /\ vault' = [vault EXCEPT ![i] = left]
      /\ payouts' = [payouts EXCEPT ![i] = counted]
  BY <1>1 DEF PayOut
<1>. HIDE DEF paidAsset, left, counted
<1>. QED
  BY <1>1, <1>3, <1>4, <1>5, <1>6 DEF TypeOK, PayOut

LEMMA NoAssetType == NoAsset \in Asset
<1>1. << >> \in Seq([recipient : Recipients \cup {AssetPda}, amount : Nat])
  OBVIOUS
<1>. QED
  BY <1>1 DEF NoAsset, Asset

LEMMA InitType == Init => TypeOK
<1>. SUFFICES ASSUME Init PROVE TypeOK
  OBVIOUS
<1>1. payouts \in [Assets -> [times : [LeafIndices -> Nat], tokens : Nat]]
  BY DEF Init
<1>. QED
  BY <1>1, NoAssetType, AssetAssumption DEF Init, TypeOK

LEMMA NextType == TypeOK /\ Solvent /\ [Next]_vars => TypeOK'
<1>. SUFFICES ASSUME TypeOK, Solvent, [Next]_vars PROVE TypeOK'
  OBVIOUS
<1>1. CASE \E i \in Assets, arriving \in Arrivals, fee \in BOOLEAN : Deposit(i, arriving, fee)
  <2>1. PICK i \in Assets, arriving \in Arrivals, fee \in BOOLEAN : Deposit(i, arriving, fee)
    BY <1>1
  <2>2. arriving \in Nat
    BY AssetAssumption
  <2>3. vault' \in [Assets -> Nat] /\ deposited' \in [Assets -> Nat]
    BY <2>1, <2>2 DEF TypeOK, Deposit
  <2>4. withheld' \in [Assets -> BOOLEAN]
    BY <2>1 DEF TypeOK, Deposit
  <2>. QED
    BY <2>1, <2>3, <2>4 DEF TypeOK, Deposit
<1>2. CASE \E leaf \in AssetLeaves : OpenAsset(leaf)
  <2>1. PICK leaf \in AssetLeaves : OpenAsset(leaf)
    BY <1>2
  <2>. DEFINE new == [status |-> "Pending", allocated |-> leaf.allocated, leaves |-> leaf.leaves,
                      funded |-> 0, claimed |-> 0, bitmap |-> {}]
  <2>2. leaf.idx \in Assets
    BY <2>1, AssetAssumption DEF OpenAsset, Assets
  <2>3. new \in Asset
    BY AssetAssumption DEF Asset
  <2>4. asset' = [asset EXCEPT ![leaf.idx] = new]
    BY <2>1 DEF OpenAsset
  <2>. HIDE DEF new
  <2>. QED
    BY <2>1, <2>2, <2>3, <2>4 DEF TypeOK, OpenAsset, history
<1>3. CASE \E i \in Assets : ActivateAsset(i)
  <2>1. PICK i \in Assets : ActivateAsset(i)
    BY <1>3
  <2>. DEFINE new == [asset[i] EXCEPT !.status = "Active", !.funded = vault[i]]
  <2>2. new \in Asset
    <3>1. asset[i] \in Asset /\ vault[i] \in Nat
      BY DEF TypeOK
    <3>. QED
      BY <3>1 DEF Asset
  <2>3. asset' = [asset EXCEPT ![i] = new]
    BY <2>1 DEF ActivateAsset
  <2>. HIDE DEF new
  <2>. QED
    BY <2>1, <2>2, <2>3 DEF TypeOK, ActivateAsset, history
<1>4. CASE \E i \in Assets : PaysOut(i)
  BY <1>4, PaysOutType
<1>5. CASE \E i \in Assets : SweepExcess(i)
  <2>1. PICK i \in Assets : SweepExcess(i)
    BY <1>5
  <2>2. asset[i].allocated \in Nat /\ asset[i].claimed \in Nat /\ vault[i] \in Nat /\ rolled[i] \in Nat
    BY DEF TypeOK, Asset
  <2>3. Reserved(i) \in Int /\ vault[i] - Reserved(i) \in Nat
    BY <2>1, <2>2 DEF SweepExcess, Reserved
  <2>4. Reserved(i) >= 0
    BY <2>1, <2>2 DEF SweepExcess, Solvent, Reserved
  <2>. QED
    BY <2>1, <2>2, <2>3, <2>4 DEF TypeOK, SweepExcess
<1>6. CASE \E i \in Assets : CloseAsset(i)
  <2>1. PICK i \in Assets : CloseAsset(i)
    BY <1>6
  <2>2. vault' \in [Assets -> Nat] /\ rolled' \in [Assets -> Nat]
    BY <2>1 DEF TypeOK, CloseAsset
  <2>3. asset' \in [Assets -> Asset]
    BY <2>1, NoAssetType DEF TypeOK, CloseAsset
  <2>4. withheld' \in [Assets -> BOOLEAN]
    BY <2>1 DEF TypeOK, CloseAsset, HarvestWithheld
  <2>. QED
    BY <2>1, <2>2, <2>3, <2>4 DEF TypeOK, CloseAsset
<1>7. CASE \E w \in Recipients : ChangeAta(w)
  BY <1>7 DEF TypeOK, ChangeAta, history
<1>8. CASE Tick
  BY <1>8 DEF TypeOK, Tick, history
<1>9. CASE UNCHANGED vars
  BY <1>9 DEF TypeOK, vars, history
<1>. QED
  BY <1>1, <1>2, <1>3, <1>4, <1>5, <1>6, <1>7, <1>8, <1>9, NextCases

----------------------------------------------------------------------------
(***************************************************************************)
(* What a payout does to the asset it pays from.                           *)
(***************************************************************************)
Payment(i, paid, n) ==
    /\ paid \cap asset[i].bitmap = {}
    /\ paid \subseteq 0 .. (LeafCount(i) - 1)
    /\ n = asset[i].claimed + LeafTokens(asset[i].leaves, paid)
    /\ asset[i].status = "Active"
    /\ n >= asset[i].claimed /\ n <= asset[i].allocated
    /\ asset'[i].status = "Active"
    /\ asset'[i].allocated = asset[i].allocated
    /\ asset'[i].leaves = asset[i].leaves
    /\ asset'[i].claimed = n
    /\ asset'[i].bitmap = asset[i].bitmap \cup paid
    /\ vault'[i] = vault[i] - (n - asset[i].claimed)
    /\ payouts'[i].tokens = payouts[i].tokens + (n - asset[i].claimed)
    /\ \A l \in LeafIndices :
          payouts'[i].times[l] = payouts[i].times[l] + (IF l \in paid THEN 1 ELSE 0)
    /\ \A j \in Assets \ {i} : /\ asset'[j] = asset[j]
                               /\ vault'[j] = vault[j]
                               /\ payouts'[j] = payouts[j]
    /\ UNCHANGED <<now, opened_mask, closed_mask, deposited, rolled>>

LEMMA PaysOutEffect ==
    ASSUME TypeOK, NEW i \in Assets, PaysOut(i)
    PROVE  \E paid \in SUBSET LeafIndices, n \in Nat : Payment(i, paid, n)
<1>1. PICK paid \in SUBSET LeafIndices, n \in Nat :
        /\ Payable(i)
        /\ paid \subseteq 0 .. (LeafCount(i) - 1)
        /\ paid \cap asset[i].bitmap = {}
        /\ n = asset[i].claimed + LeafTokens(asset[i].leaves, paid)
        /\ n >= asset[i].claimed
        /\ n <= asset[i].allocated
        /\ PayOut(i, paid, n)
  BY DEF PaysOut
<1>2. /\ asset'[i] = [asset[i] EXCEPT !.bitmap = asset[i].bitmap \cup paid, !.claimed = n]
      /\ \A j \in Assets \ {i} : asset'[j] = asset[j]
  BY <1>1 DEF TypeOK, PayOut
<1>3. /\ asset'[i].status = "Active"
      /\ asset'[i].allocated = asset[i].allocated
      /\ asset'[i].leaves = asset[i].leaves
      /\ asset'[i].claimed = n
      /\ asset'[i].bitmap = asset[i].bitmap \cup paid
  BY <1>1, <1>2 DEF TypeOK, Asset, Payable
<1>4. /\ vault'[i] = vault[i] - (n - asset[i].claimed)
      /\ \A j \in Assets \ {i} : vault'[j] = vault[j]
  BY <1>1 DEF TypeOK, PayOut
<1>. DEFINE counted == [times  |-> [l \in LeafIndices |-> payouts[i].times[l] + (IF l \in paid THEN 1 ELSE 0)],
                        tokens |-> payouts[i].tokens + (n - asset[i].claimed)]
<1>5. payouts' = [payouts EXCEPT ![i] = counted]
  BY <1>1 DEF PayOut
<1>6. payouts'[i] = counted /\ \A j \in Assets \ {i} : payouts'[j] = payouts[j]
  BY <1>5 DEF TypeOK
<1>7. payouts'[i].tokens = payouts[i].tokens + (n - asset[i].claimed)
  BY <1>6
<1>8. \A l \in LeafIndices :
         payouts'[i].times[l] = payouts[i].times[l] + (IF l \in paid THEN 1 ELSE 0)
  BY <1>6
<1>. QED
  BY <1>1, <1>3, <1>2, <1>4, <1>6, <1>7, <1>8 DEF Payable, PayOut, Payment

----------------------------------------------------------------------------
(* Solvency. *)

(***************************************************************************)
(* A deposit or a donation only adds; activation measures the vault; a     *)
(* payout takes from the vault what it adds to claimed; a sweep stops at   *)
(* what is reserved.                                                       *)
(***************************************************************************)
LEMMA NextSolvent == TypeOK /\ Solvent /\ Recorded /\ [Next]_vars => Solvent'
<1>. SUFFICES ASSUME TypeOK, Solvent, Recorded, [Next]_vars PROVE Solvent'
  OBVIOUS
<1>. USE DEF Solvent, Reserved
<1>0. \A i \in Assets : asset[i].allocated \in Nat /\ asset[i].claimed \in Nat /\ vault[i] \in Nat
  BY DEF TypeOK, Asset
<1>1. CASE \E i \in Assets, arriving \in Arrivals, fee \in BOOLEAN : Deposit(i, arriving, fee)
  <2>1. PICK i \in Assets, arriving \in Arrivals, fee \in BOOLEAN : Deposit(i, arriving, fee)
    BY <1>1
  <2>2. arriving \in Nat
    BY AssetAssumption
  <2>. QED
    BY <1>0, <2>1, <2>2 DEF TypeOK, Deposit
<1>2. CASE \E leaf \in AssetLeaves : OpenAsset(leaf)
  BY <1>2 DEF TypeOK, OpenAsset
<1>3. CASE \E i \in Assets : ActivateAsset(i)
  <2>1. PICK i \in Assets : ActivateAsset(i)
    BY <1>3
  <2>2. asset[i].claimed = 0
    BY <2>1 DEF Recorded, AccountRecordsPayments, ActivateAsset
  <2>3. /\ asset[i] \in Asset
        /\ asset[i].allocated \in Nat
        /\ vault[i] \in Nat /\ vault[i] >= asset[i].allocated
    BY <2>1 DEF TypeOK, ActivateAsset, Asset
  <2>4. /\ asset'[i].claimed = 0 /\ asset'[i].allocated = asset[i].allocated
        /\ \A j \in Assets : j # i => asset'[j] = asset[j]
        /\ vault' = vault
    BY <2>1, <2>2, <2>3 DEF TypeOK, ActivateAsset, Asset
  <2>. QED
    BY <1>0, <2>3, <2>4
<1>4. CASE \E i \in Assets : PaysOut(i)
  <2>1. PICK i \in Assets, paid \in SUBSET LeafIndices, n \in Nat : Payment(i, paid, n)
    BY <1>4, PaysOutEffect
  <2>. QED
    BY <1>0, <2>1 DEF Payment
<1>5. CASE \E i \in Assets : SweepExcess(i)
  BY <1>0, <1>5 DEF TypeOK, SweepExcess
<1>6. CASE \E i \in Assets : CloseAsset(i)
  BY <1>0, <1>6 DEF TypeOK, CloseAsset, NoAsset
<1>7. CASE \E w \in Recipients : ChangeAta(w)
  BY <1>7 DEF ChangeAta
<1>8. CASE Tick
  BY <1>8 DEF Tick
<1>9. CASE UNCHANGED vars
  BY <1>9 DEF vars
<1>. QED
  BY <1>1, <1>2, <1>3, <1>4, <1>5, <1>6, <1>7, <1>8, <1>9, NextCases

----------------------------------------------------------------------------
(* The masks. *)

LEMMA NextMasks == TypeOK /\ MasksMatchAccounts /\ [Next]_vars => MasksMatchAccounts'
<1>. SUFFICES ASSUME TypeOK, MasksMatchAccounts, [Next]_vars PROVE MasksMatchAccounts'
  OBVIOUS
<1>. USE DEF MasksMatchAccounts
<1>1. CASE \E i \in Assets, arriving \in Arrivals, fee \in BOOLEAN : Deposit(i, arriving, fee)
  BY <1>1 DEF Deposit
<1>2. CASE \E leaf \in AssetLeaves : OpenAsset(leaf)
  BY <1>2 DEF TypeOK, OpenAsset
<1>3. CASE \E i \in Assets : ActivateAsset(i)
  BY <1>3 DEF TypeOK, ActivateAsset, Asset
<1>4. CASE \E i \in Assets : PaysOut(i)
  BY <1>4, PaysOutEffect DEF Payment
<1>5. CASE \E i \in Assets : SweepExcess(i)
  BY <1>5 DEF SweepExcess
<1>6. CASE \E i \in Assets : CloseAsset(i)
  BY <1>6 DEF TypeOK, CloseAsset, NoAsset
<1>7. CASE \E w \in Recipients : ChangeAta(w)
  BY <1>7 DEF ChangeAta
<1>8. CASE Tick
  BY <1>8 DEF Tick
<1>9. CASE UNCHANGED vars
  BY <1>9 DEF vars
<1>. QED
  BY <1>1, <1>2, <1>3, <1>4, <1>5, <1>6, <1>7, <1>8, <1>9, NextCases

----------------------------------------------------------------------------
(* What the accounts say was paid, and what was paid. *)

(***************************************************************************)
(* The part of the state that Recorded and PaidOnce speak of.              *)
(***************************************************************************)
LEMMA PaymentsUntouched ==
    ASSUME Recorded, PaidOnce, UNCHANGED <<asset, payouts, opened_mask>>
    PROVE  Recorded' /\ PaidOnce'
BY DEF Recorded, PaidOnce, AccountRecordsPayments, UnopenedUnpaid, CommittedFor

LEMMA NextRecorded == IInv /\ [Next]_vars => Recorded' /\ PaidOnce'
<1>. SUFFICES ASSUME IInv, [Next]_vars PROVE Recorded' /\ PaidOnce'
  OBVIOUS
<1>0. TypeOK /\ MasksMatchAccounts /\ Recorded /\ PaidOnce
  BY DEF IInv
<1>1. CASE \E i \in Assets, arriving \in Arrivals, fee \in BOOLEAN : Deposit(i, arriving, fee)
  BY <1>0, <1>1, PaymentsUntouched DEF Deposit
<1>2. CASE \E leaf \in AssetLeaves : OpenAsset(leaf)
  <2>1. PICK leaf \in AssetLeaves : OpenAsset(leaf)
    BY <1>2
  <2>. DEFINE i == leaf.idx
  <2>2. i \in Assets /\ leaf.allocated \in Nat /\ leaf \in AssetsRoot
    BY <2>1, AssetAssumption DEF OpenAsset, Assets
  <2>3. /\ asset'[i].status = "Pending" /\ asset'[i].allocated = leaf.allocated
        /\ asset'[i].claimed = 0 /\ asset'[i].bitmap = {}
        /\ \A j \in Assets \ {i} : asset'[j] = asset[j]
        /\ payouts' = payouts
        /\ opened_mask' = opened_mask \cup {i} /\ i \notin opened_mask
    BY <2>1, <2>2, <1>0 DEF TypeOK, OpenAsset, history
  <2>4. UnopenedUnpaid(i)
    BY <1>0, <2>2 DEF Recorded
  <2>5. AccountRecordsPayments(i)' /\ UnopenedUnpaid(i)'
    BY <2>2, <2>3, <2>4 DEF UnopenedUnpaid, AccountRecordsPayments, CommittedFor
  <2>6. \A j \in Assets \ {i} : AccountRecordsPayments(j)' /\ UnopenedUnpaid(j)'
    BY <1>0, <2>3 DEF Recorded, UnopenedUnpaid, AccountRecordsPayments, CommittedFor
  <2>7. PaidOnce'
    BY <1>0, <2>3 DEF PaidOnce
  <2>. QED
    BY <2>5, <2>6, <2>7 DEF Recorded
<1>3. CASE \E i \in Assets : ActivateAsset(i)
  <2>1. PICK i \in Assets : ActivateAsset(i)
    BY <1>3
  <2>2. /\ asset[i].status = "Pending" /\ asset'[i].status = "Active"
        /\ asset'[i].allocated = asset[i].allocated
        /\ asset'[i].claimed = asset[i].claimed /\ asset'[i].bitmap = asset[i].bitmap
        /\ \A j \in Assets \ {i} : asset'[j] = asset[j]
        /\ payouts' = payouts /\ opened_mask' = opened_mask
    BY <2>1, <1>0 DEF TypeOK, Asset, ActivateAsset, history
  <2>3. \A j \in Assets : AccountRecordsPayments(j)' /\ UnopenedUnpaid(j)'
    BY <1>0, <2>2 DEF Recorded, UnopenedUnpaid, AccountRecordsPayments, CommittedFor
  <2>. QED
    BY <1>0, <2>2, <2>3 DEF Recorded, PaidOnce
<1>4. CASE \E i \in Assets : PaysOut(i)
  <2>1. PICK i \in Assets : PaysOut(i)
    BY <1>4
  <2>0. PICK paid \in SUBSET LeafIndices, n \in Nat : Payment(i, paid, n)
    BY <1>0, <2>1, PaysOutEffect
  <2>2. /\ paid \cap asset[i].bitmap = {}
        /\ asset[i].status = "Active"
        /\ n >= asset[i].claimed /\ n <= asset[i].allocated
        /\ asset'[i].status = "Active"
        /\ asset'[i].allocated = asset[i].allocated
        /\ asset'[i].claimed = n
        /\ asset'[i].bitmap = asset[i].bitmap \cup paid
        /\ payouts'[i].tokens = payouts[i].tokens + (n - asset[i].claimed)
        /\ \A l \in LeafIndices :
              payouts'[i].times[l] = payouts[i].times[l] + (IF l \in paid THEN 1 ELSE 0)
        /\ \A j \in Assets \ {i} : asset'[j] = asset[j] /\ payouts'[j] = payouts[j]
        /\ opened_mask' = opened_mask
    BY <2>0 DEF Payment
  <2>3. AccountRecordsPayments(i)
    BY <1>0 DEF Recorded
  <2>4. i \in opened_mask
    BY <1>0, <2>2 DEF MasksMatchAccounts
  <2>5. /\ payouts[i].tokens = asset[i].claimed
        /\ \A l \in LeafIndices : payouts[i].times[l] = IF l \in asset[i].bitmap THEN 1 ELSE 0
        /\ CommittedFor(i, asset[i].allocated)
    BY <2>2, <2>3 DEF AccountRecordsPayments
  <2>6. asset[i].claimed \in Nat /\ asset[i].allocated \in Nat
    BY <1>0 DEF TypeOK, Asset
  <2>7. payouts'[i].tokens = n
    BY <2>2, <2>5, <2>6
  <2>8. \A l \in LeafIndices : payouts'[i].times[l] = IF l \in asset'[i].bitmap THEN 1 ELSE 0
    BY <2>2, <2>5
  <2>9. AccountRecordsPayments(i)' /\ UnopenedUnpaid(i)'
    BY <2>2, <2>4, <2>5, <2>7, <2>8 DEF AccountRecordsPayments, UnopenedUnpaid, CommittedFor
  <2>10. \A j \in Assets \ {i} : AccountRecordsPayments(j)' /\ UnopenedUnpaid(j)'
    BY <1>0, <2>2 DEF Recorded, UnopenedUnpaid, AccountRecordsPayments, CommittedFor
  <2>11. PICK leaf \in AssetsRoot : leaf.idx = i /\ leaf.allocated = asset[i].allocated
    BY <2>5 DEF CommittedFor
  <2>12. \A l \in LeafIndices : payouts'[i].times[l] <= 1
    BY <2>8
  <2>13. \E a \in {0} \cup {b.allocated : b \in {c \in AssetsRoot : c.idx = i}} :
            payouts'[i].tokens <= a
    BY <2>2, <2>7, <2>11
  <2>14. PaidOnce'
    BY <1>0, <2>2, <2>12, <2>13 DEF PaidOnce
  <2>. QED
    BY <2>9, <2>10, <2>14 DEF Recorded
<1>5. CASE \E i \in Assets : SweepExcess(i)
  BY <1>0, <1>5, PaymentsUntouched DEF SweepExcess
<1>6. CASE \E i \in Assets : CloseAsset(i)
  <2>1. PICK i \in Assets : CloseAsset(i)
    BY <1>6
  <2>2. /\ asset[i].status # "None" /\ asset'[i].status = "None"
        /\ \A j \in Assets \ {i} : asset'[j] = asset[j]
        /\ payouts' = payouts /\ opened_mask' = opened_mask
    BY <2>1, <1>0 DEF TypeOK, CloseAsset, NoAsset
  <2>3. \A j \in Assets : AccountRecordsPayments(j)' /\ UnopenedUnpaid(j)'
    BY <1>0, <2>2 DEF Recorded, UnopenedUnpaid, AccountRecordsPayments, CommittedFor
  <2>. QED
    BY <1>0, <2>2, <2>3 DEF Recorded, PaidOnce
<1>7. CASE \E w \in Recipients : ChangeAta(w)
  BY <1>0, <1>7, PaymentsUntouched DEF ChangeAta, history
<1>8. CASE Tick
  BY <1>0, <1>8, PaymentsUntouched DEF Tick, history
<1>9. CASE UNCHANGED vars
  BY <1>0, <1>9, PaymentsUntouched DEF vars, history
<1>. QED
  BY <1>0, <1>1, <1>2, <1>3, <1>4, <1>5, <1>6, <1>7, <1>8, <1>9, NextCases

----------------------------------------------------------------------------
(* Tokens. *)

LEMMA NextConservation == IInv /\ [Next]_vars => Conservation'
<1>. SUFFICES ASSUME IInv, [Next]_vars PROVE Conservation'
  OBVIOUS
<1>. USE DEF Conservation
<1>0. TypeOK /\ Solvent /\ MasksMatchAccounts /\ Conservation
  BY DEF IInv
<1>01. \A i \in Assets : /\ vault[i] \in Nat /\ deposited[i] \in Nat /\ rolled[i] \in Nat
                         /\ payouts[i].tokens \in Nat
                         /\ asset[i].allocated \in Nat /\ asset[i].claimed \in Nat
  BY <1>0 DEF TypeOK, Asset
<1>1. CASE \E i \in Assets, arriving \in Arrivals, fee \in BOOLEAN : Deposit(i, arriving, fee)
  <2>1. PICK i \in Assets, arriving \in Arrivals, fee \in BOOLEAN : Deposit(i, arriving, fee)
    BY <1>1
  <2>2. arriving \in Nat
    BY AssetAssumption
  <2>. QED
    BY <1>0, <1>01, <2>1, <2>2 DEF TypeOK, Deposit
<1>2. CASE \E leaf \in AssetLeaves : OpenAsset(leaf)
  BY <1>0, <1>2 DEF OpenAsset, history
<1>3. CASE \E i \in Assets : ActivateAsset(i)
  BY <1>0, <1>3 DEF ActivateAsset, history
<1>4. CASE \E i \in Assets : PaysOut(i)
  <2>1. PICK i \in Assets, paid \in SUBSET LeafIndices, n \in Nat : Payment(i, paid, n)
    BY <1>0, <1>4, PaysOutEffect
  <2>2. i \notin closed_mask
    BY <1>0, <2>1 DEF MasksMatchAccounts, Payment
  <2>. QED
    BY <1>0, <1>01, <2>1, <2>2 DEF Payment
<1>5. CASE \E i \in Assets : SweepExcess(i)
  <2>1. PICK i \in Assets : SweepExcess(i)
    BY <1>5
  <2>2. i \notin closed_mask
    BY <1>0, <2>1 DEF MasksMatchAccounts, SweepExcess
  <2>. QED
    BY <1>0, <1>01, <2>1, <2>2 DEF TypeOK, SweepExcess, Reserved
<1>6. CASE \E i \in Assets : CloseAsset(i)
  <2>1. PICK i \in Assets : CloseAsset(i)
    BY <1>6
  <2>. QED
    BY <1>0, <1>01, <2>1 DEF TypeOK, CloseAsset
<1>7. CASE \E w \in Recipients : ChangeAta(w)
  BY <1>0, <1>7 DEF ChangeAta, history
<1>8. CASE Tick
  BY <1>0, <1>8 DEF Tick, history
<1>9. CASE UNCHANGED vars
  BY <1>0, <1>9 DEF vars, history
<1>. QED
  BY <1>0, <1>1, <1>2, <1>3, <1>4, <1>5, <1>6, <1>7, <1>8, <1>9, NextCases

----------------------------------------------------------------------------
(***************************************************************************)
(* The bitmap.  A payout marks leaves that were not marked and adds to     *)
(* claimed what exactly those leaves amount to.                            *)
(***************************************************************************)
LEMMA BitmapUntouched ==
    ASSUME BitmapCounts, UNCHANGED asset
    PROVE  BitmapCounts'
BY DEF BitmapCounts, LeafCount, LeafTokens, AmountsIn

LEMMA NextBitmap == TypeOK /\ BitmapCounts /\ [Next]_vars => BitmapCounts'
<1>. SUFFICES ASSUME TypeOK, BitmapCounts, [Next]_vars PROVE BitmapCounts'
  OBVIOUS
<1>. DEFINE Counts(i) == asset[i].status # "None" =>
                            /\ asset[i].bitmap \subseteq 0 .. (LeafCount(i) - 1)
                            /\ asset[i].claimed = LeafTokens(asset[i].leaves, asset[i].bitmap)
<1>0. \A i \in Assets : Counts(i)
  BY DEF BitmapCounts
<1>a. ASSUME \A i \in Assets : Counts(i)' PROVE BitmapCounts'
  BY <1>a DEF BitmapCounts
<1>b. ASSUME NEW j \in Assets, asset'[j] = asset[j] PROVE Counts(j)'
  BY <1>0, <1>b DEF LeafCount, LeafTokens, AmountsIn
<1>1. CASE \E i \in Assets, arriving \in Arrivals, fee \in BOOLEAN : Deposit(i, arriving, fee)
  BY <1>1, BitmapUntouched DEF Deposit
<1>2. CASE \E leaf \in AssetLeaves : OpenAsset(leaf)
  <2>1. PICK leaf \in AssetLeaves : OpenAsset(leaf)
    BY <1>2
  <2>2. leaf.idx \in Assets
    BY <2>1, AssetAssumption DEF OpenAsset, Assets
  <2>3. /\ asset'[leaf.idx].claimed = 0 /\ asset'[leaf.idx].bitmap = {}
        /\ \A j \in Assets \ {leaf.idx} : asset'[j] = asset[j]
    BY <2>1, <2>2 DEF TypeOK, OpenAsset
  <2>4. LeafTokens(asset'[leaf.idx].leaves, {}) = 0
    BY SumEmpty DEF LeafTokens
  <2>5. Counts(leaf.idx)'
    BY <2>3, <2>4
  <2>. QED
    BY <1>a, <1>b, <2>3, <2>5
<1>3. CASE \E i \in Assets : ActivateAsset(i)
  <2>1. PICK i \in Assets : ActivateAsset(i)
    BY <1>3
  <2>2. /\ asset[i].status # "None" /\ asset'[i].leaves = asset[i].leaves
        /\ asset'[i].claimed = asset[i].claimed /\ asset'[i].bitmap = asset[i].bitmap
        /\ \A j \in Assets \ {i} : asset'[j] = asset[j]
    BY <2>1 DEF TypeOK, Asset, ActivateAsset
  <2>3. Counts(i)'
    BY <1>0, <2>2 DEF LeafCount
  <2>. QED
    BY <1>a, <1>b, <2>2, <2>3
<1>4. CASE \E i \in Assets : PaysOut(i)
  <2>1. PICK i \in Assets, paid \in SUBSET LeafIndices, n \in Nat : Payment(i, paid, n)
    BY <1>4, PaysOutEffect
  <2>. DEFINE old == asset[i].bitmap
              f == AmountsIn(asset[i].leaves)
  <2>2. /\ old \subseteq 0 .. (LeafCount(i) - 1)
        /\ asset[i].claimed = SumFunctionOnSet(f, old)
    BY <1>0, <2>1 DEF Payment, LeafTokens
  <2>3. /\ paid \subseteq 0 .. (LeafCount(i) - 1) /\ paid \cap old = {}
        /\ n = asset[i].claimed + SumFunctionOnSet(f, paid)
    BY <2>1 DEF Payment, LeafTokens
  <2>4. IsFiniteSet(old) /\ IsFiniteSet(paid) /\ \A l \in old \cup paid : f[l] \in Int
    <3>1. IsFiniteSet(old) /\ IsFiniteSet(paid)
      BY <2>2, <2>3, LeafTokensType
    <3>2. \A l \in 0 .. (LeafCount(i) - 1) : f[l] \in Nat
      BY AmountsAreNat
    <3>. HIDE DEF f
    <3>3. \A l \in old \cup paid : f[l] \in Nat
      BY <2>2, <2>3, <3>2
    <3>. QED
      BY <3>1, <3>3
  <2>. HIDE DEF f, old
  <2>5. SumFunctionOnSet(f, old \cup paid) = SumFunctionOnSet(f, old) + SumFunctionOnSet(f, paid)
    BY <2>3, <2>4, SumUnion
  <2>6. /\ asset'[i].leaves = asset[i].leaves
        /\ asset'[i].claimed = SumFunctionOnSet(f, old \cup paid)
        /\ asset'[i].bitmap = old \cup paid
        /\ \A j \in Assets \ {i} : asset'[j] = asset[j]
    BY <2>1, <2>2, <2>3, <2>5 DEF Payment, old
  <2>7. asset'[i].claimed = LeafTokens(asset'[i].leaves, asset'[i].bitmap)
    BY <2>6 DEF LeafTokens, f
  <2>8. asset'[i].bitmap \subseteq 0 .. (Len(asset'[i].leaves) - 1)
    BY <2>2, <2>3, <2>6 DEF LeafCount
  <2>9. Counts(i)'
    BY <2>7, <2>8 DEF LeafCount
  <2>. QED
    BY <1>a, <1>b, <2>6, <2>9
<1>5. CASE \E i \in Assets : SweepExcess(i)
  BY <1>5, BitmapUntouched DEF SweepExcess
<1>6. CASE \E i \in Assets : CloseAsset(i)
  <2>1. PICK i \in Assets : CloseAsset(i)
    BY <1>6
  <2>2. /\ asset'[i].status = "None"
        /\ \A j \in Assets \ {i} : asset'[j] = asset[j]
    BY <2>1 DEF TypeOK, CloseAsset, NoAsset
  <2>. QED
    BY <1>a, <1>b, <2>2
<1>7. CASE \E w \in Recipients : ChangeAta(w)
  BY <1>7, BitmapUntouched DEF ChangeAta
<1>8. CASE Tick
  BY <1>8, BitmapUntouched DEF Tick
<1>9. CASE UNCHANGED vars
  BY <1>9, BitmapUntouched DEF vars
<1>. QED
  BY <1>1, <1>2, <1>3, <1>4, <1>5, <1>6, <1>7, <1>8, <1>9, NextCases

(***************************************************************************)
(* claimed is the sum the listed invariant speaks of.                      *)
(***************************************************************************)
LEMMA BitmapMatches == TypeOK /\ BitmapCounts => ClaimedMatchesBitmap
<1>. SUFFICES ASSUME TypeOK, BitmapCounts, NEW i \in Assets, asset[i].status # "None"
              PROVE  asset[i].claimed = TokensOf(i, asset[i].bitmap)
  BY DEF ClaimedMatchesBitmap
<1>1. /\ asset[i].bitmap \subseteq 0 .. (LeafCount(i) - 1)
      /\ asset[i].claimed = LeafTokens(asset[i].leaves, asset[i].bitmap)
  BY DEF BitmapCounts
<1>2. IsFiniteSet(asset[i].bitmap) /\ asset[i].bitmap \subseteq Nat
  BY <1>1, LeafTokensType
<1>. QED
  BY <1>1, <1>2, TokensOfIs DEF TokensOf, Amount

(***************************************************************************)
(* What an honest tree still owes is at most allocated minus claimed,      *)
(* which a solvent vault holds.                                            *)
(***************************************************************************)
LEMMA NobodyStarves == TypeOK /\ Solvent /\ BitmapCounts => UnpaidLeafPayable
<1>. SUFFICES ASSUME TypeOK, Solvent, BitmapCounts,
                     NEW i \in Assets, asset[i].status = "Active", HonestTree(i)
              PROVE  LET unpaid == TokensOf(i, (0 .. (LeafCount(i) - 1)) \ asset[i].bitmap)
                     IN /\ unpaid <= vault[i]
                        /\ asset[i].claimed + unpaid <= asset[i].allocated
  BY DEF UnpaidLeafPayable
<1>. DEFINE all == 0 .. (LeafCount(i) - 1)
            paid == asset[i].bitmap
            f == AmountsIn(asset[i].leaves)
<1>1. paid \subseteq all /\ asset[i].claimed = SumFunctionOnSet(f, paid)
  BY DEF BitmapCounts, LeafTokens
<1>2. IsFiniteSet(all) /\ all \subseteq Nat /\ \A l \in all : f[l] \in Int
  <2>1. all \subseteq 0 .. (LeafCount(i) - 1)
    OBVIOUS
  <2>2. IsFiniteSet(all) /\ all \subseteq Nat
    <3>. HIDE DEF all
    <3>. QED
      BY <2>1, LeafTokensType
  <2>3. \A l \in all : f[l] \in Nat
    BY AmountsAreNat
  <2>. QED
    BY <2>2, <2>3
<1>3. /\ IsFiniteSet(all \ paid)
      /\ SumFunctionOnSet(f, all \ paid) \in Nat
  <2>1. all \ paid \subseteq 0 .. (LeafCount(i) - 1)
    OBVIOUS
  <2>. QED
    BY <2>1, LeafTokensType DEF LeafTokens
<1>4. TokensOf(i, all) = SumFunctionOnSet(f, all)
  BY <1>2, TokensOfIs DEF TokensOf, Amount, LeafTokens
<1>5. TokensOf(i, all \ paid) = SumFunctionOnSet(f, all \ paid)
  <2>. DEFINE rest == all \ paid
  <2>1. rest \subseteq Nat /\ IsFiniteSet(rest)
    BY <1>2, <1>3
  <2>. HIDE DEF rest
  <2>2. TokensOf(i, rest) = SumFunctionOnSet(f, rest)
    BY <2>1, TokensOfIs DEF TokensOf, Amount, LeafTokens
  <2>. QED
    BY <2>2 DEF rest
<1>6. TokensOf(i, all) <= asset[i].allocated
  BY DEF HonestTree
<1>. HIDE DEF all, paid, f
<1>11. paid \subseteq all
  BY <1>1
<1>7. SumFunctionOnSet(f, all) = SumFunctionOnSet(f, paid) + SumFunctionOnSet(f, all \ paid)
  <2>1. IsFiniteSet(all)
    BY <1>2
  <2>2. \A l \in all : f[l] \in Int
    BY <1>2
  <2>. QED
    BY <1>11, <2>1, <2>2, SumSplit
<1>8. /\ asset[i].claimed \in Nat /\ asset[i].allocated \in Nat /\ vault[i] \in Nat
      /\ vault[i] >= asset[i].allocated - asset[i].claimed
  BY DEF TypeOK, Asset, Solvent, Reserved
<1>9. asset[i].claimed + TokensOf(i, all \ paid) <= asset[i].allocated
  BY <1>1, <1>4, <1>5, <1>6, <1>7
<1>10. TokensOf(i, all \ paid) <= vault[i]
  BY <1>3, <1>5, <1>8, <1>9
<1>. QED
  BY <1>9, <1>10 DEF all, paid

----------------------------------------------------------------------------
(* The theorems. *)

LEMMA InitIInv == Init => IInv
<1>. SUFFICES ASSUME Init PROVE IInv
  OBVIOUS
<1>1. TypeOK
  BY InitType
<1>2. \A i \in Assets : asset[i].status = "None" /\ payouts[i].tokens = 0
                        /\ \A l \in LeafIndices : payouts[i].times[l] = 0
  BY DEF Init, NoAsset
<1>3. Solvent /\ MasksMatchAccounts
  BY <1>2 DEF Solvent, MasksMatchAccounts, Init
<1>4. Recorded
  BY <1>2 DEF Recorded, AccountRecordsPayments, UnopenedUnpaid
<1>5. \A i \in Assets : payouts[i].tokens <= 0
  BY <1>2
<1>6. PaidOnce
  BY <1>2, <1>5 DEF PaidOnce
<1>7. Conservation
  BY <1>2 DEF Conservation, Init
<1>. QED
  BY <1>1, <1>2, <1>3, <1>4, <1>6, <1>7 DEF IInv, BitmapCounts

LEMMA NextIInv == IInv /\ [Next]_vars => IInv'
BY NextType, NextSolvent, NextMasks, NextRecorded, NextConservation, NextBitmap DEF IInv

(* The inductive invariant holds of every reachable state. *)
THEOREM Inductive == Spec => []IInv
BY InitIInv, NextIInv, PTL DEF Spec

(* Every reachable state is well-typed, for any committed trees and any bounds. *)
THEOREM TypeCorrect == Spec => []TypeOK
<1>1. IInv => TypeOK
  BY DEF IInv
<1>. QED
  BY <1>1, Inductive, PTL

(* No interleaving of donations, pushes, claims and sweeps leaves an       *)
(* active vault short of what it owes (sweep_excess.rs 29).                *)
THEOREM AlwaysSolvent == Spec => []Solvent
<1>1. IInv => Solvent
  BY DEF IInv
<1>. QED
  BY <1>1, Inductive, PTL

(* No leaf is ever paid twice, and an index never pays out more than one   *)
(* committed allocation (payout.rs 33, 223; open_asset.rs 27-29).          *)
THEOREM NeverPaidTwice == Spec => []PaidOnce
<1>1. IInv => PaidOnce
  BY DEF IInv
<1>. QED
  BY <1>1, Inductive, PTL

(* The masks in the round header say which asset accounts exist.           *)
THEOREM MasksTellTheTruth == Spec => []MasksMatchAccounts
<1>1. IInv => MasksMatchAccounts
  BY DEF IInv
<1>. QED
  BY <1>1, Inductive, PTL

(* Every token that arrived is in the vault, was paid or was returned.     *)
THEOREM TokensConserved == Spec => []Conservation
<1>1. IInv => Conservation
  BY DEF IInv
<1>. QED
  BY <1>1, Inductive, PTL

(***************************************************************************)
(* The accounts of a round agree with each other and with what moved, in   *)
(* every reachable state: claimed is what the marked leaves amount to      *)
(* (payout.rs 67-68, 228), and as long as a tree promises no more than it  *)
(* allocates, every leaf not paid yet is covered by its vault.             *)
(***************************************************************************)
THEOREM AccountsAlwaysAgree == Spec => []AccountsAgree
<1>1. IInv => AccountsAgree
  BY BitmapMatches, NobodyStarves DEF IInv, AccountsAgree
<1>. QED
  BY <1>1, Inductive, PTL

(***************************************************************************)
(* Before expiry nothing but the excess reaches the root authority         *)
(* (lib.rs 17-18).                                                         *)
(***************************************************************************)
THEOREM OwedStaysUntilExpiry == Spec => UnclaimedStayUntilExpiry
<1>. DEFINE Stays == \A i \in Assets :
                        (now < Expiry /\ rolled'[i] > rolled[i]) => vault'[i] >= Reserved(i)
<1>1. ASSUME IInv, [Next]_vars
      PROVE  Stays
  <2>0. TypeOK /\ Expiry \in Nat
    BY <1>1, AssetAssumption DEF IInv
  <2>1. ASSUME rolled' = rolled PROVE Stays
    BY <2>0, <2>1 DEF TypeOK
  <2>2. CASE \E i \in Assets : SweepExcess(i)
    <3>1. PICK i \in Assets : SweepExcess(i)
      BY <2>2
    <3>2. Reserved(i) \in Int
      BY <2>0 DEF TypeOK, Asset, Reserved
    <3>3. vault'[i] = Reserved(i) /\ \A j \in Assets \ {i} : rolled'[j] = rolled[j]
      BY <2>0, <3>1 DEF TypeOK, SweepExcess
    <3>. QED
      BY <2>0, <3>2, <3>3 DEF TypeOK
  <2>3. CASE \E i \in Assets : CloseAsset(i)
    <3>1. now >= Expiry
      BY <2>3 DEF CloseAsset
    <3>. QED
      BY <2>0, <3>1 DEF TypeOK
  <2>. QED
    BY <1>1, <2>0, <2>1, <2>2, <2>3, NextCases
       DEF Deposit, OpenAsset, ActivateAsset, PaysOut, PayOut, ChangeAta, Tick, vars, history
<1>. QED
  BY <1>1, Inductive, PTL DEF Spec, UnclaimedStayUntilExpiry

----------------------------------------------------------------------------
(* The lock (ProcessLock). *)

Holding == {"filling"} \cup Lock!Working

(* Whoever holds the lock owns the file, and has written it unless it is   *)
(* about to.                                                               *)
HoldersOwn ==
    \A p \in Procs : pc[p] \in Holding =>
        lock # Lock!NoFile /\ lock.owner = p /\ (pc[p] \in Lock!Working => lock.written)

(* A lock past the grace period was left by a process that is no more.     *)
OldIsDead == lock # Lock!NoFile /\ lock.old => ~Lock!Alive(lock.owner)

(* No file belongs to a process that has not started.                      *)
OwnerStarted == lock # Lock!NoFile => pc[lock.owner] # "idle"

(* Only one keeper is starting, and when it removes a lock nobody holds it. *)
StartAlone == \A p, q \in Procs : pc[p] \in Lock!Acquiring /\ pc[q] \in Lock!Acquiring => p = q

RemoveUnheld == \A p, q \in Procs : pc[p] = "removing" => pc[q] \notin Holding

PassesLeft == \A p \in Procs : pc[p] \in Lock!Acquiring \cup {"idle"} => attempt[p] < Attempts

LockIInv ==
    /\ Lock!TypeOK
    /\ HoldersOwn
    /\ OldIsDead
    /\ OwnerStarted
    /\ StartAlone
    /\ RemoveUnheld
    /\ PassesLeft

----------------------------------------------------------------------------
(* The lock file is either absent or a record of three fields. *)

LEMMA LockCases ==
    ASSUME Lock!TypeOK
    PROVE  lock = Lock!NoFile \/ (/\ lock # Lock!NoFile
                             /\ lock \in [owner : Procs, written : BOOLEAN, old : BOOLEAN])
BY DEF Lock!TypeOK

(* What creating the file leaves is a file.                                 *)
LEMMA NewLockIsAFile ==
    ASSUME NEW o, NEW w, NEW d
    PROVE  [owner |-> o, written |-> w, old |-> d] # Lock!NoFile
<1>1. "written" \in DOMAIN [owner |-> o, written |-> w, old |-> d]
  OBVIOUS
<1>2. "written" \notin DOMAIN Lock!NoFile
  BY DEF Lock!NoFile
<1>. QED
  BY <1>1, <1>2

(* Before any start there is no file and nobody to have left one.           *)
LEMMA LockInitIInv == Attempts \in Nat \ {0} /\ Lock!Init => LockIInv
<1>. SUFFICES ASSUME Attempts \in Nat \ {0}, Lock!Init PROVE LockIInv
  OBVIOUS
<1>. QED
  BY DEF Lock!Init, LockIInv, Lock!TypeOK, HoldersOwn, OldIsDead, OwnerStarted, StartAlone, RemoveUnheld,
         PassesLeft, Holding, Lock!Working, Lock!Acquiring

----------------------------------------------------------------------------
(***************************************************************************)
(* Steps that leave the file alone and move one process.                   *)
(***************************************************************************)
Goes(p, where) == pc' = [pc EXCEPT ![p] = where] /\ UNCHANGED <<lock, attempt>>

(* A process stops, fails or crashes. *)
LEMMA Ends ==
    ASSUME LockIInv, NEW p \in Procs, pc[p] # "idle",
           NEW where \in {"stopped", "failed", "crashed"}, Goes(p, where)
    PROVE  LockIInv'
<1>. USE DEF LockIInv, Lock!TypeOK, Holding, Lock!Working, Lock!Acquiring
<1>1. Lock!TypeOK'
  BY DEF Goes
<1>2. HoldersOwn'
  BY DEF Goes, HoldersOwn
<1>3. OldIsDead'
  BY LockCases DEF Goes, OldIsDead, Lock!Alive
<1>4. OwnerStarted'
  BY LockCases DEF Goes, OwnerStarted
<1>5. StartAlone'
  BY DEF Goes, StartAlone
<1>6. RemoveUnheld'
  BY DEF Goes, RemoveUnheld
<1>7. PassesLeft'
  BY DEF Goes, PassesLeft
<1>. QED
  BY <1>1, <1>2, <1>3, <1>4, <1>5, <1>6, <1>7

(* A starting process goes on starting, knowing nobody holds the lock if it *)
(* goes on to remove it.                                                    *)
LEMMA GoesOn ==
    ASSUME LockIInv, NEW p \in Procs, pc[p] \in Lock!Acquiring,
           NEW where \in {"inspecting", "dating", "removing"}, Goes(p, where),
           pc[p] # "filling",
           where = "removing" => \A q \in Procs : pc[q] \notin Holding
    PROVE  LockIInv'
<1>. USE DEF LockIInv, Lock!TypeOK, Holding, Lock!Working, Lock!Acquiring
<1>1. Lock!TypeOK'
  BY DEF Goes
<1>2. HoldersOwn'
  BY DEF Goes, HoldersOwn
<1>3. OldIsDead'
  BY LockCases DEF Goes, OldIsDead, Lock!Alive
<1>4. OwnerStarted'
  BY LockCases DEF Goes, OwnerStarted
<1>5. StartAlone'
  BY DEF Goes, StartAlone
<1>6. RemoveUnheld'
  BY DEF Goes, RemoveUnheld
<1>7. PassesLeft'
  BY DEF Goes, PassesLeft
<1>. QED
  BY <1>1, <1>2, <1>3, <1>4, <1>5, <1>6, <1>7

(* A keeper at work goes on to release, and then to unlink, its own file. *)
LEMMA Releases ==
    ASSUME LockIInv, NEW p \in Procs, pc[p] \in Lock!Working,
           NEW where \in {"releasing", "deleting"}, Goes(p, where)
    PROVE  LockIInv'
<1>. USE DEF LockIInv, Lock!TypeOK, Holding, Lock!Working, Lock!Acquiring
<1>1. Lock!TypeOK'
  BY DEF Goes
<1>2. HoldersOwn'
  BY DEF Goes, HoldersOwn
<1>3. OldIsDead'
  BY LockCases DEF Goes, OldIsDead, Lock!Alive
<1>4. OwnerStarted'
  BY LockCases DEF Goes, OwnerStarted
<1>5. StartAlone'
  BY DEF Goes, StartAlone
<1>6. RemoveUnheld'
  BY DEF Goes, RemoveUnheld
<1>7. PassesLeft'
  BY DEF Goes, PassesLeft
<1>. QED
  BY <1>1, <1>2, <1>3, <1>4, <1>5, <1>6, <1>7

----------------------------------------------------------------------------
(* The steps of acquire. *)

(* A start finds nobody starting.                                          *)
LEMMA StartIInv ==
    ASSUME LockIInv, Concurrent = FALSE, NEW p \in Procs, Lock!Start(p)
    PROVE  LockIInv'
<1>. USE DEF LockIInv, Lock!TypeOK, Holding, Lock!Working, Lock!Acquiring
<1>0. pc[p] = "idle" /\ pc' = [pc EXCEPT ![p] = "creating"] /\ UNCHANGED <<lock, attempt>>
  BY DEF Lock!Start, Lock!Go
<1>1. Lock!TypeOK'
  BY <1>0
<1>2. HoldersOwn'
  BY <1>0 DEF HoldersOwn
<1>3. OldIsDead'
  <2>1. CASE lock = Lock!NoFile
    BY <1>0, <2>1 DEF OldIsDead
  <2>2. CASE lock # Lock!NoFile
    <3>1. lock.owner \in Procs /\ lock.owner # p
      BY <1>0, <2>2, LockCases DEF OwnerStarted
    <3>. QED
      BY <1>0, <2>2, <3>1 DEF OldIsDead, Lock!Alive
  <2>. QED
    BY <2>1, <2>2
<1>4. OwnerStarted'
  BY <1>0, LockCases DEF OwnerStarted
<1>5. StartAlone'
  <2>1. \A q \in Procs : pc[q] \notin Lock!Acquiring
    BY DEF Lock!Start
  <2>. QED
    BY <1>0, <2>1 DEF StartAlone
<1>6. RemoveUnheld'
  BY <1>0 DEF RemoveUnheld
<1>7. PassesLeft'
  BY <1>0 DEF PassesLeft
<1>. QED
  BY <1>1, <1>2, <1>3, <1>4, <1>5, <1>6, <1>7

(* Creating succeeds only when there is no file, so when nobody holds.      *)
LEMMA CreateIInv ==
    ASSUME LockIInv, NEW p \in Procs, Lock!Create(p)
    PROVE  LockIInv'
<1>1. CASE lock # Lock!NoFile
  <2>1. Goes(p, "inspecting") /\ pc[p] = "creating"
    BY <1>1 DEF Lock!Create, Lock!Go, Goes
  <2>. QED
    BY <2>1, GoesOn DEF Lock!Acquiring
<1>2. CASE lock = Lock!NoFile
  <2>. USE DEF LockIInv, Lock!TypeOK, Holding, Lock!Working, Lock!Acquiring
  <2>0. /\ pc[p] = "creating"
        /\ lock' = [owner |-> p, written |-> FALSE, old |-> FALSE]
        /\ pc' = [pc EXCEPT ![p] = "filling"]
        /\ attempt' = attempt
    BY <1>2 DEF Lock!Create, Lock!Go
  <2>1. lock' # Lock!NoFile /\ lock'.owner = p /\ lock'.written = FALSE /\ lock'.old = FALSE
    BY <2>0, NewLockIsAFile
  <2>2. \A q \in Procs : pc[q] \notin Holding
    BY <1>2 DEF HoldersOwn
  <2>3. Lock!TypeOK'
    <3>1. lock' \in [owner : Procs, written : BOOLEAN, old : BOOLEAN]
      BY <2>0
    <3>. QED
      BY <2>0, <2>1, <3>1
  <2>4. HoldersOwn'
    BY <2>0, <2>1, <2>2 DEF HoldersOwn
  <2>5. OldIsDead'
    BY <2>1 DEF OldIsDead
  <2>6. OwnerStarted'
    BY <2>0, <2>1 DEF OwnerStarted
  <2>7. StartAlone'
    BY <2>0 DEF StartAlone
  <2>8. RemoveUnheld'
    BY <2>0 DEF RemoveUnheld, StartAlone
  <2>9. PassesLeft'
    BY <2>0 DEF PassesLeft
  <2>. QED
    BY <2>3, <2>4, <2>5, <2>6, <2>7, <2>8, <2>9
<1>. QED
  BY <1>1, <1>2

(* A file is filled by its creator.                                        *)
LEMMA FillIInv ==
    ASSUME LockIInv, NEW p \in Procs, Lock!Fill(p)
    PROVE  LockIInv'
<1>. USE DEF LockIInv, Lock!TypeOK, Holding, Lock!Working, Lock!Acquiring
<1>0. /\ pc[p] = "filling" /\ pc' = [pc EXCEPT ![p] = "running"] /\ attempt' = attempt
      /\ lock # Lock!NoFile /\ lock.owner = p
      /\ lock' = [lock EXCEPT !.written = TRUE]
  BY DEF Lock!Fill, Lock!Go, HoldersOwn
<1>1. lock \in [owner : Procs, written : BOOLEAN, old : BOOLEAN]
  BY <1>0, LockCases
<1>2. ~lock.old
  BY <1>0 DEF OldIsDead, Lock!Alive
<1>3. lock' = [owner |-> p, written |-> TRUE, old |-> FALSE]
  BY <1>0, <1>1, <1>2
<1>4. lock' # Lock!NoFile /\ lock'.owner = p /\ lock'.written = TRUE /\ lock'.old = FALSE
  BY <1>3, NewLockIsAFile
<1>5. Lock!TypeOK'
  <2>1. lock' \in [owner : Procs, written : BOOLEAN, old : BOOLEAN]
    BY <1>3
  <2>. QED
    BY <1>0, <1>4, <2>1
<1>6. HoldersOwn'
  BY <1>0, <1>4 DEF HoldersOwn
<1>7. OldIsDead' /\ OwnerStarted'
  BY <1>0, <1>4 DEF OldIsDead, OwnerStarted
<1>8. StartAlone'
  BY <1>0 DEF StartAlone
<1>9. RemoveUnheld'
  BY <1>0 DEF RemoveUnheld
<1>10. PassesLeft'
  BY <1>0 DEF PassesLeft
<1>. QED
  BY <1>5, <1>6, <1>7, <1>8, <1>9, <1>10

(* What a keeper sees before it removes a lock: none, a dead holder's, or   *)
(* one past its grace period.  Nobody can hold any of these.                *)
LEMMA AbandonedIsUnheld ==
    ASSUME LockIInv, \/ lock = Lock!NoFile
                     \/ lock # Lock!NoFile /\ ~Lock!Alive(lock.owner)
                     \/ lock # Lock!NoFile /\ lock.old
    PROVE  \A q \in Procs : pc[q] \notin Holding
BY LockCases DEF LockIInv, HoldersOwn, OldIsDead, Lock!Alive, Holding, Lock!Acquiring, Lock!Working

(* Removing is decided only on a file whose holder is dead.                 *)
LEMMA InspectIInv ==
    ASSUME LockIInv, NEW p \in Procs, Lock!Inspect(p)
    PROVE  LockIInv'
<1>0. pc[p] = "inspecting" /\ pc[p] \in Lock!Acquiring /\ pc[p] # "filling" /\ pc[p] # "idle"
  BY DEF Lock!Inspect, Lock!Acquiring
<1>1. CASE lock = Lock!NoFile
  <2>1. Goes(p, "removing")
    BY <1>1 DEF Lock!Inspect, Lock!Go, Goes
  <2>. QED
    BY <1>0, <1>1, <2>1, GoesOn, AbandonedIsUnheld
<1>2. CASE lock # Lock!NoFile /\ ~lock.written
  <2>1. Goes(p, "dating")
    BY <1>2 DEF Lock!Inspect, Lock!Go, Goes
  <2>. QED
    BY <1>0, <2>1, GoesOn
<1>3. CASE lock # Lock!NoFile /\ lock.written /\ Lock!IsAlive(p, lock.owner)
  <2>1. Goes(p, "failed")
    BY <1>3 DEF Lock!Inspect, Lock!Go, Goes
  <2>. QED
    BY <1>0, <2>1, Ends
<1>4. CASE lock # Lock!NoFile /\ lock.written /\ ~Lock!IsAlive(p, lock.owner)
  <2>1. Goes(p, "removing")
    BY <1>4 DEF Lock!Inspect, Lock!Go, Goes
  <2>2. ~Lock!Alive(lock.owner)
    BY <1>4 DEF Lock!IsAlive
  <2>. QED
    BY <1>0, <1>4, <2>1, <2>2, GoesOn, AbandonedIsUnheld
<1>. QED
  BY <1>1, <1>2, <1>3, <1>4

(* Of an old file the writer is dead, so nobody holds the lock.            *)
LEMMA DateIInv ==
    ASSUME LockIInv, NEW p \in Procs, Lock!Date(p)
    PROVE  LockIInv'
<1>0. pc[p] = "dating" /\ pc[p] \in Lock!Acquiring /\ pc[p] # "filling" /\ pc[p] # "idle"
  BY DEF Lock!Date, Lock!Acquiring
<1>1. CASE lock = Lock!NoFile \/ ~lock.old
  <2>1. Goes(p, "failed")
    BY <1>1 DEF Lock!Date, Lock!Go, Goes
  <2>. QED
    BY <1>0, <2>1, Ends
<1>2. CASE lock # Lock!NoFile /\ lock.old
  <2>1. Goes(p, "removing")
    BY <1>2 DEF Lock!Date, Lock!Go, Goes
  <2>. QED
    BY <1>0, <1>2, <2>1, GoesOn, AbandonedIsUnheld
<1>. QED
  BY <1>1, <1>2

(* What a starter removes nobody holds.                                     *)
LEMMA RemoveIInv ==
    ASSUME Attempts \in Nat, LockIInv, NEW p \in Procs, Lock!Remove(p)
    PROVE  LockIInv'
<1>. USE DEF LockIInv, Lock!TypeOK, Holding, Lock!Working, Lock!Acquiring
<1>0. /\ pc[p] = "removing" /\ lock' = Lock!NoFile
      /\ attempt' = [attempt EXCEPT ![p] = attempt[p] + 1]
      /\ attempt[p] \in 0 .. Attempts /\ attempt[p] < Attempts
  BY DEF Lock!Remove, Lock!NextPass, PassesLeft
<1>1. /\ pc' = [pc EXCEPT ![p] = pc'[p]]
      /\ pc'[p] \in {"creating", "failed"}
      /\ pc'[p] = "creating" => attempt[p] + 1 < Attempts
  BY <1>0 DEF Lock!Remove, Lock!NextPass, Lock!Go
<1>2. \A q \in Procs : pc[q] \notin Holding
  BY <1>0 DEF RemoveUnheld
<1>3. Lock!TypeOK'
  BY <1>0, <1>1
<1>4. HoldersOwn'
  BY <1>1, <1>2 DEF HoldersOwn
<1>5. OldIsDead' /\ OwnerStarted'
  BY <1>0 DEF OldIsDead, OwnerStarted
<1>6. StartAlone'
  BY <1>0, <1>1 DEF StartAlone
<1>7. RemoveUnheld'
  BY <1>1, <1>2 DEF RemoveUnheld
<1>8. PassesLeft'
  BY <1>0, <1>1 DEF PassesLeft
<1>. QED
  BY <1>3, <1>4, <1>5, <1>6, <1>7, <1>8

----------------------------------------------------------------------------
(* The end of a run, and time. *)

(* A keeper that releases removes its own file.                             *)
LEMMA ReleaseUnlinkIInv ==
    ASSUME LockIInv, NEW p \in Procs, Lock!ReleaseUnlink(p)
    PROVE  LockIInv'
<1>. USE DEF LockIInv, Lock!TypeOK, Holding, Lock!Working, Lock!Acquiring
<1>0. pc[p] = "deleting" /\ lock' = Lock!NoFile /\ pc' = [pc EXCEPT ![p] = "stopped"] /\ attempt' = attempt
  BY DEF Lock!ReleaseUnlink, Lock!Go
<1>1. Lock!TypeOK'
  BY <1>0
<1>2. \A q \in Procs : pc'[q] \notin Holding
  BY <1>0 DEF HoldersOwn
<1>3. HoldersOwn' /\ OldIsDead' /\ OwnerStarted'
  BY <1>0, <1>2 DEF HoldersOwn, OldIsDead, OwnerStarted
<1>4. StartAlone'
  BY <1>0 DEF StartAlone
<1>5. RemoveUnheld'
  BY <1>2 DEF RemoveUnheld
<1>6. PassesLeft'
  BY <1>0 DEF PassesLeft
<1>. QED
  BY <1>1, <1>3, <1>4, <1>5, <1>6

(* A file grows old only if it was left without content by a dead writer.  *)
LEMMA AgeIInv ==
    ASSUME LockIInv, Lock!Age
    PROVE  LockIInv'
<1>. USE DEF LockIInv, Lock!TypeOK, Holding, Lock!Working, Lock!Acquiring
<1>0. /\ lock # Lock!NoFile /\ ~lock.written /\ ~Lock!Alive(lock.owner)
      /\ lock' = [lock EXCEPT !.old = TRUE] /\ UNCHANGED <<pc, attempt>>
  BY DEF Lock!Age
<1>1. lock \in [owner : Procs, written : BOOLEAN, old : BOOLEAN]
  BY <1>0, LockCases
<1>2. lock' = [owner |-> lock.owner, written |-> FALSE, old |-> TRUE]
  BY <1>0, <1>1
<1>3. lock' # Lock!NoFile /\ lock'.owner = lock.owner /\ lock'.written = FALSE
  BY <1>2, NewLockIsAFile
<1>4. Lock!TypeOK'
  <2>1. lock' \in [owner : Procs, written : BOOLEAN, old : BOOLEAN]
    BY <1>1, <1>2
  <2>. QED
    BY <1>0, <1>3, <2>1
<1>5. HoldersOwn'
  BY <1>0, <1>3 DEF HoldersOwn
<1>6. OldIsDead' /\ OwnerStarted'
  BY <1>0, <1>3 DEF OldIsDead, OwnerStarted, Lock!Alive
<1>7. StartAlone' /\ RemoveUnheld' /\ PassesLeft'
  BY <1>0 DEF StartAlone, RemoveUnheld, PassesLeft
<1>. QED
  BY <1>4, <1>5, <1>6, <1>7

----------------------------------------------------------------------------
(* The invariant is inductive. *)

(* Every step of the lock.                                                  *)
LEMMA LockNextIInv == Attempts \in Nat \ {0} /\ Concurrent = FALSE /\ LockIInv /\ [Lock!Next]_(Lock!vars) => LockIInv'
<1>. SUFFICES ASSUME Attempts \in Nat, Concurrent = FALSE, LockIInv, [Lock!Next]_(Lock!vars) PROVE LockIInv'
  OBVIOUS
<1>1. CASE UNCHANGED Lock!vars
  BY <1>1 DEF Lock!vars, LockIInv, Lock!TypeOK, HoldersOwn, OldIsDead, OwnerStarted, StartAlone, RemoveUnheld,
              PassesLeft, Lock!Alive
<1>2. CASE Lock!Age
  BY <1>2, AgeIInv
<1>3. CASE \E p \in Procs : Lock!Start(p) \/ Lock!Step(p) \/ Lock!Stop(p) \/ Lock!Crash(p)
  <2>. PICK p \in Procs : Lock!Start(p) \/ Lock!Step(p) \/ Lock!Stop(p) \/ Lock!Crash(p)
    BY <1>3
  <2>1. CASE Lock!Start(p)
    BY <2>1, StartIInv
  <2>2. CASE Lock!Step(p)
    <3>1. CASE Lock!ReleaseLook(p)
      <4>1. pc[p] \in Lock!Working /\ pc[p] # "idle" /\ (Goes(p, "deleting") \/ Goes(p, "stopped"))
        BY <3>1 DEF Lock!ReleaseLook, Lock!Go, Goes, Lock!Working
      <4>. QED
        BY <4>1, Releases, Ends
    <3>. QED
      BY <2>2, <3>1, CreateIInv, FillIInv, InspectIInv, DateIInv, RemoveIInv, ReleaseUnlinkIInv
         DEF Lock!Step
  <2>3. CASE Lock!Stop(p)
    <3>1. pc[p] \in Lock!Working /\ Goes(p, "releasing")
      BY <2>3 DEF Lock!Stop, Lock!Go, Goes, Lock!Working
    <3>. QED
      BY <3>1, Releases
  <2>4. CASE Lock!Crash(p)
    <3>1. pc[p] # "idle" /\ Goes(p, "crashed")
      BY <2>4 DEF Lock!Crash, Lock!Alive, Lock!Acquiring, Lock!Working, Lock!Go, Goes
    <3>. QED
      BY <3>1, Ends
  <2>. QED
    BY <2>1, <2>2, <2>3, <2>4
<1>. QED
  BY <1>1, <1>2, <1>3 DEF Lock!Next

----------------------------------------------------------------------------
(* The results. *)

THEOREM LockInductive ==
    ASSUME Attempts \in Nat \ {0}, Concurrent = FALSE
    PROVE  Lock!Spec => []LockIInv
<1>1. Lock!Init => LockIInv
  BY LockInitIInv
<1>2. LockIInv /\ [Lock!Next]_(Lock!vars) => LockIInv'
  BY LockNextIInv
<1>. QED
  BY <1>1, <1>2, PTL DEF Lock!Spec

(* Whichever part a behaviour of MCServices is, its lock is one of ProcessLock. *)
LEMMA ServicesLock == ServicesSpec => Lock!Spec
<1>1. ServicesInit => Lock!Init
  BY DEF ServicesInit
<1>2. [ServicesNext]_servicesVars => [Lock!Next]_(Lock!vars)
  BY DEF ServicesNext, InLock, InPublish, InLaunch, InPin, InWatch, servicesVars, lockVars, Lock!vars
<1>. QED
  BY <1>1, <1>2, PTL DEF ServicesSpec, Lock!Spec

(***************************************************************************)
(* One keeper per state directory (lock.ts 41-43): with any number of      *)
(* keepers, machines and crashes, as long as they start one at a time.     *)
(***************************************************************************)
THEOREM OnlyOneKeeper ==
    ASSUME Attempts \in Nat \ {0}, Concurrent = FALSE
    PROVE  ServicesSpec => []OneKeeper
<1>1. LockIInv => OneKeeper
  BY DEF LockIInv, HoldersOwn, OneKeeper, Lock!OneKeeper, Holding
<1>. QED
  BY <1>1, ServicesLock, LockInductive, PTL

----------------------------------------------------------------------------
(***************************************************************************)
(* That only a dead holder's lock is ever removed needs more: the owner of *)
(* a file is past its creation, and a file that is about to be removed for *)
(* its holder's sake was written on the same machine.                      *)
(***************************************************************************)
OwnerPast == lock # Lock!NoFile => pc[lock.owner] \notin Lock!Acquiring \ {"filling"}

RemovesOwnHost ==
    \A q \in Procs :
        pc[q] = "removing" /\ lock # Lock!NoFile /\ lock.written => HostOf[lock.owner] = HostOf[q]

(* A file belongs to nobody who is still inspecting or removing.           *)
LEMMA NextOwnerPast == LockIInv /\ OwnerPast /\ [Lock!Next]_(Lock!vars) => OwnerPast'
<1>. SUFFICES ASSUME LockIInv, OwnerPast, [Lock!Next]_(Lock!vars) PROVE OwnerPast'
  OBVIOUS
<1>0. Lock!TypeOK /\ OwnerStarted
  BY DEF LockIInv
<1>1. ASSUME lock' = lock,
             \/ pc' = pc
             \/ \E p \in Procs : /\ \A q \in Procs \ {p} : pc'[q] = pc[q]
                                 /\ \/ pc[p] = "idle"
                                    \/ pc[p] \in Lock!Acquiring \ {"filling"}
                                    \/ pc'[p] \notin Lock!Acquiring \ {"filling"}
      PROVE  OwnerPast'
  BY <1>0, <1>1, LockCases DEF OwnerPast, OwnerStarted
<1>2. ASSUME NEW p \in Procs, Lock!Create(p) PROVE OwnerPast'
  <2>1. CASE lock = Lock!NoFile
    <3>1. /\ lock' = [owner |-> p, written |-> FALSE, old |-> FALSE]
          /\ pc' = [pc EXCEPT ![p] = "filling"]
      BY <1>2, <2>1 DEF Lock!Create, Lock!Go
    <3>2. lock'.owner = p /\ pc'[p] = "filling"
      BY <1>0, <3>1 DEF Lock!TypeOK
    <3>. QED
      BY <3>2 DEF OwnerPast
  <2>2. CASE lock # Lock!NoFile
    BY <1>0, <1>1, <1>2, <2>2 DEF Lock!Create, Lock!Go, Lock!Acquiring, Lock!TypeOK
  <2>. QED
    BY <2>1, <2>2
<1>3. ASSUME NEW p \in Procs, Lock!Fill(p) PROVE OwnerPast'
  <2>1. /\ lock # Lock!NoFile /\ lock.owner = p /\ lock' = [lock EXCEPT !.written = TRUE]
        /\ pc' = [pc EXCEPT ![p] = "running"]
    BY <1>3 DEF Lock!Fill, Lock!Go, LockIInv, HoldersOwn, Holding
  <2>2. lock'.owner = p /\ pc'[p] = "running"
    BY <1>0, <2>1, LockCases DEF Lock!TypeOK
  <2>. QED
    BY <2>2 DEF OwnerPast, Lock!Acquiring
<1>4. ASSUME NEW p \in Procs, Lock!Remove(p) \/ Lock!ReleaseUnlink(p) PROVE OwnerPast'
  BY <1>4 DEF Lock!Remove, Lock!ReleaseUnlink, OwnerPast
<1>5. ASSUME NEW p \in Procs,
             Lock!Start(p) \/ Lock!Inspect(p) \/ Lock!Date(p) \/ Lock!ReleaseLook(p) \/ Lock!Stop(p) \/ Lock!Crash(p)
      PROVE  OwnerPast'
  BY <1>0, <1>1, <1>5
     DEF Lock!Start, Lock!Inspect, Lock!Date, Lock!ReleaseLook,
         Lock!Stop, Lock!Crash, Lock!Go, Lock!TypeOK, Lock!Acquiring, Lock!Working
<1>6. ASSUME Lock!Age PROVE OwnerPast'
  <2>1. lock # Lock!NoFile /\ lock' = [lock EXCEPT !.old = TRUE] /\ pc' = pc
    BY <1>6 DEF Lock!Age
  <2>2. lock'.owner = lock.owner
    BY <1>0, <2>1, LockCases
  <2>. QED
    BY <2>1, <2>2 DEF OwnerPast
<1>. QED
  BY <1>1, <1>2, <1>3, <1>4, <1>5, <1>6 DEF Lock!Next, Lock!Step, Lock!vars

(* A written file that is being removed is of a process on this machine.   *)
LEMMA NextRemovesOwnHost ==
    Concurrent = FALSE /\ LockIInv /\ RemovesOwnHost /\ [Lock!Next]_(Lock!vars) => RemovesOwnHost'
<1>. SUFFICES ASSUME Concurrent = FALSE, LockIInv, RemovesOwnHost, [Lock!Next]_(Lock!vars) PROVE RemovesOwnHost'
  OBVIOUS
<1>0. Lock!TypeOK /\ StartAlone /\ OldIsDead
  BY DEF LockIInv
<1>1. ASSUME lock' = lock, \A q \in Procs : pc'[q] = "removing" => pc[q] = "removing"
      PROVE  RemovesOwnHost'
  BY <1>1 DEF RemovesOwnHost
<1>2. ASSUME lock' = Lock!NoFile PROVE RemovesOwnHost'
  BY <1>2 DEF RemovesOwnHost
<1>3. ASSUME NEW p \in Procs, Lock!Create(p) \/ Lock!Fill(p) PROVE RemovesOwnHost'
  <2>1. \A q \in Procs : pc'[q] # "removing"
    BY <1>0, <1>3 DEF Lock!Create, Lock!Fill, Lock!Go, Lock!TypeOK, StartAlone, Lock!Acquiring
  <2>. QED
    BY <2>1 DEF RemovesOwnHost
<1>4. ASSUME NEW p \in Procs, Lock!Inspect(p) PROVE RemovesOwnHost'
  <2>1. lock' = lock /\ \A q \in Procs \ {p} : pc'[q] = pc[q]
    BY <1>0, <1>4 DEF Lock!Inspect, Lock!Go, Lock!TypeOK
  <2>2. pc'[p] = "removing" /\ lock # Lock!NoFile => ~Lock!IsAlive(p, lock.owner)
    BY <1>0, <1>4 DEF Lock!Inspect, Lock!Go, Lock!TypeOK
  <2>. QED
    BY <2>1, <2>2 DEF RemovesOwnHost, Lock!IsAlive
<1>5. ASSUME NEW p \in Procs, Lock!Date(p) PROVE RemovesOwnHost'
  <2>1. lock' = lock /\ \A q \in Procs \ {p} : pc'[q] = pc[q]
    BY <1>0, <1>5 DEF Lock!Date, Lock!Go, Lock!TypeOK
  <2>2. pc'[p] = "removing" /\ lock # Lock!NoFile => lock.old
    BY <1>0, <1>5 DEF Lock!Date, Lock!Go, Lock!TypeOK
  <2>3. lock # Lock!NoFile /\ lock.old => ~lock.written
    BY <1>0 DEF Lock!TypeOK
  <2>. QED
    BY <2>1, <2>2, <2>3 DEF RemovesOwnHost
<1>6. ASSUME NEW p \in Procs, Lock!Start(p) \/ Lock!ReleaseLook(p) \/ Lock!Stop(p) \/ Lock!Crash(p)
      PROVE  RemovesOwnHost'
  BY <1>0, <1>1, <1>6 DEF Lock!Start, Lock!ReleaseLook, Lock!Stop, Lock!Crash, Lock!Go, Lock!TypeOK
<1>7. ASSUME NEW p \in Procs, Lock!Remove(p) \/ Lock!ReleaseUnlink(p) PROVE RemovesOwnHost'
  BY <1>2, <1>7 DEF Lock!Remove, Lock!ReleaseUnlink
<1>8. ASSUME Lock!Age PROVE RemovesOwnHost'
  <2>1. lock # Lock!NoFile /\ ~lock.written /\ lock' = [lock EXCEPT !.old = TRUE]
    BY <1>8 DEF Lock!Age
  <2>2. ~lock'.written
    BY <1>0, <2>1, LockCases
  <2>. QED
    BY <2>2 DEF RemovesOwnHost
<1>. QED
  BY <1>1, <1>2, <1>3, <1>4, <1>5, <1>6, <1>7, <1>8 DEF Lock!Next, Lock!Step, Lock!vars

(***************************************************************************)
(* "A live holder's lock is never removed" (lock.ts 44): true as long as   *)
(* keepers start one at a time, on any number of machines; the run         *)
(* ProcessLockRace.cfg shows two that start together breaking it.          *)
(***************************************************************************)
THEOREM LiveHoldersKeepTheirLock ==
    ASSUME Attempts \in Nat \ {0}, Concurrent = FALSE
    PROVE  Lock!Spec => Lock!LiveLockKept
<1>. DEFINE Kept ==
        \A p \in Procs :
          (lock # Lock!NoFile /\ lock.owner = p /\ lock.written /\ lock' = Lock!NoFile) =>
              \/ pc[p] = "deleting"
              \/ /\ ~Lock!Alive(p)
                 /\ \E q \in Procs : pc[q] = "removing" /\ HostOf[q] = HostOf[p]
<1>1. Lock!Init => OwnerPast /\ RemovesOwnHost
  BY DEF Lock!Init, OwnerPast, RemovesOwnHost
<1>2. LockIInv /\ OwnerPast /\ RemovesOwnHost /\ [Lock!Next]_(Lock!vars) => (OwnerPast /\ RemovesOwnHost)'
  BY NextOwnerPast, NextRemovesOwnHost
<1>3. ASSUME LockIInv, OwnerPast, RemovesOwnHost, [Lock!Next]_(Lock!vars) PROVE Kept
  <2>. SUFFICES ASSUME NEW p \in Procs,
                       lock # Lock!NoFile, lock.owner = p, lock.written, lock' = Lock!NoFile
                PROVE  \/ pc[p] = "deleting"
                       \/ /\ ~Lock!Alive(p)
                          /\ \E q \in Procs : pc[q] = "removing" /\ HostOf[q] = HostOf[p]
    OBVIOUS
  <2>0. Lock!TypeOK
    BY <1>3 DEF LockIInv
  <2>1. \E q \in Procs : Lock!Remove(q) \/ Lock!ReleaseUnlink(q)
    <3>1. ~Lock!Age /\ lock' # lock
      BY <2>0 DEF Lock!Age
    <3>2. \A q \in Procs : ~Lock!Create(q)
      BY <2>0 DEF Lock!Create
    <3>3. \A q \in Procs : ~Lock!Fill(q)
      <4>. SUFFICES ASSUME NEW q \in Procs, Lock!Fill(q) PROVE FALSE
        OBVIOUS
      <4>1. lock' = [lock EXCEPT !.written = TRUE]
        BY <3>1 DEF Lock!Fill
      <4>2. lock' = [owner |-> lock.owner, written |-> TRUE, old |-> lock.old]
        BY <2>0, <4>1, LockCases
      <4>. QED
        BY <4>2, NewLockIsAFile
    <3>. QED
      BY <1>3, <3>1, <3>2, <3>3
         DEF Lock!Next, Lock!Step, Lock!vars, Lock!Start, Lock!Inspect, Lock!Date, Lock!ReleaseLook,
             Lock!Stop, Lock!Crash
  <2>2. PICK q \in Procs : Lock!Remove(q) \/ Lock!ReleaseUnlink(q)
    BY <2>1
  <2>3. CASE Lock!ReleaseUnlink(q)
    BY <1>3, <2>3 DEF Lock!ReleaseUnlink, LockIInv, HoldersOwn, Holding, Lock!Working
  <2>4. CASE Lock!Remove(q)
    <3>1. pc[q] = "removing" /\ pc[p] \notin Holding
      BY <1>3, <2>4 DEF Lock!Remove, LockIInv, RemoveUnheld
    <3>2. ~Lock!Alive(p)
      BY <1>3, <3>1 DEF OwnerPast, Lock!Alive, Holding
    <3>3. HostOf[q] = HostOf[p]
      BY <1>3, <3>1 DEF RemovesOwnHost
    <3>. QED
      BY <3>1, <3>2, <3>3
  <2>. QED
    BY <2>2, <2>3, <2>4
<1>4. Lock!Spec => []LockIInv
  BY LockInductive
<1>. QED
  BY <1>1, <1>2, <1>3, <1>4, PTL DEF Lock!Spec, Lock!LiveLockKept

----------------------------------------------------------------------------
(* Publishing (KeeperPublish). *)

PublishBounds == MaxForeign \in Nat /\ MaxCrashes \in Nat /\ MaxFaults \in Nat

Publishing == Publish!Steps \ {"idle", "saveCommit"}
CommitRecorded == {"push", "resync", "replayAgain", "pushAgain", "save"}

(* Only a funded round, of which nothing was sent, is being published. *)
OnlyFunded == at \in Publishing => disk.status = "FUNDED" /\ chain = "none"

(* What was sent had been saved as prepared. *)
SentWasPrepared ==
    /\ chain # "none" \/ at = "saveCommit" => disk.status \in {"PREPARED", "COMMITTED"}

(* The copies the running step has made are whole. *)
CopiesWhole ==
    /\ at \in Publishing \ {"write"} => bundle = "whole"
    /\ at = "add" => clone.tree = "whole"
    /\ at = "record" => clone.index = "whole"
    /\ at \in CommitRecorded => clone.head = "whole"
    /\ at = "save" => Publish!Public = "whole"
    /\ at \in CommitRecorded \ {"save"} => hasRemote

NothingTorn == clone.head # "torn" /\ remote.ours # "torn"

PreparedIsPublic == disk.status \in {"PREPARED", "COMMITTED"} => Publish!Public = "whole"

PublishIInv ==
    /\ Publish!TypeOK
    /\ OnlyFunded
    /\ SentWasPrepared
    /\ CopiesWhole
    /\ NothingTorn
    /\ PreparedIsPublic

----------------------------------------------------------------------------

(* Nothing is copied, recorded or pushed at the start.                      *)
LEMMA PublishInitIInv ==
    ASSUME PublishBounds, Publish!Init
    PROVE  PublishIInv
<1>1. Publish!TypeOK
  <2>1. disk \in [status : {"BUYING", "FUNDED", "PREPARED", "COMMITTED"}, evidence : BOOLEAN]
    BY DEF Publish!Init
  <2>2. clone \in [on : {"branch", "detached"}, locks : SUBSET {"index", "ref"}, tree : Publish!Content,
                 index : Publish!Content, head : Publish!Content, foreign : 0 .. MaxForeign]
    BY DEF Publish!Init, Publish!Content, PublishBounds
  <2>3. remote \in [foreign : 0 .. MaxForeign, ours : Publish!Content]
    BY DEF Publish!Init, Publish!Content, PublishBounds
  <2>4. bundle \in Publish!Content /\ at \in Publish!Steps /\ chain \in {"none", "sent", "committed"}
    BY DEF Publish!Init, Publish!Content, Publish!Steps
  <2>5. snapshots \in BOOLEAN /\ cached \in BOOLEAN /\ indexed \in BOOLEAN /\ hasRemote \in BOOLEAN
    BY DEF Publish!Init
  <2>6. crashes \in 0 .. MaxCrashes /\ faults \in 0 .. MaxFaults
    BY DEF Publish!Init, PublishBounds
  <2>7. QED
    BY <2>1, <2>2, <2>3, <2>4, <2>5, <2>6 DEF Publish!TypeOK
<1>2. disk.status = "BUYING" /\ at = "idle" /\ chain = "none" /\ clone.head = "none" /\ remote.ours = "none"
  BY DEF Publish!Init
<1>3. QED
  BY <1>1, <1>2 DEF PublishIInv, OnlyFunded, SentWasPrepared, CopiesWhole, NothingTorn, PreparedIsPublic,
                    Publishing, CommitRecorded

(* The steps that touch neither the clone nor the remote. *)
LEMMA QuietSteps ==
    ASSUME PublishBounds, PublishIInv,
           \/ Publish!SettlePurchase \/ Publish!HistoryCatchesUp \/ Publish!StartPrepare \/ Publish!WriteBundle
           \/ Publish!SavePrepared \/ Publish!Commit \/ Publish!LandLate \/ Publish!SaveCommitted
    PROVE  PublishIInv'
<1> USE DEF PublishBounds, PublishIInv, Publish!TypeOK, OnlyFunded, SentWasPrepared, CopiesWhole, NothingTorn,
            PreparedIsPublic, Publish!Public, Publish!Content, Publish!Steps, Publishing, CommitRecorded
<1>1. CASE Publish!SettlePurchase
  BY <1>1 DEF Publish!SettlePurchase
<1>2. CASE Publish!HistoryCatchesUp
  BY <1>2 DEF Publish!HistoryCatchesUp
<1>3. CASE Publish!StartPrepare
  BY <1>3 DEF Publish!StartPrepare
<1>4. CASE Publish!WriteBundle
  BY <1>4 DEF Publish!WriteBundle
<1>5. CASE Publish!SavePrepared
  BY <1>5 DEF Publish!SavePrepared
<1>6. CASE Publish!Commit
  <2>1. Publish!TypeOK'
    <3>1. crashes' \in 0 .. MaxCrashes /\ faults' \in 0 .. MaxFaults
      BY <1>6 DEF Publish!Commit, Publish!Fault, Publish!Throw
    <3>2. snapshots' \in BOOLEAN /\ cached' \in BOOLEAN /\ indexed' \in BOOLEAN /\ hasRemote' \in BOOLEAN
      BY Zenon, <1>6 DEF Publish!Commit, Publish!Fault, Publish!Throw
    <3>3. disk' = disk /\ bundle' = bundle /\ clone' = clone /\ remote' = remote
      BY <1>6 DEF Publish!Commit, Publish!Fault, Publish!Throw
    <3>4. at' \in Publish!Steps /\ chain' \in {"none", "sent", "committed"}
      BY <1>6 DEF Publish!Commit, Publish!Fault, Publish!Throw
    <3>5. QED
      BY <3>1, <3>2, <3>3, <3>4
  <2>2. OnlyFunded' /\ SentWasPrepared' /\ NothingTorn'
    BY <1>6 DEF Publish!Commit, Publish!Fault, Publish!Throw
  <2>3. CopiesWhole' /\ PreparedIsPublic'
    BY <1>6 DEF Publish!Commit, Publish!Fault, Publish!Throw
  <2>4. QED
    BY <2>1, <2>2, <2>3
<1>7. CASE Publish!LandLate
  BY <1>7 DEF Publish!LandLate
<1>8. CASE Publish!SaveCommitted
  BY <1>8 DEF Publish!SaveCommitted
<1>9. QED
  BY <1>1, <1>2, <1>3, <1>4, <1>5, <1>6, <1>7, <1>8

(* A stop inside git leaves lock files, and HEAD where it was or at what was being recorded. *)
LEMMA CrashKeeps ==
    ASSUME PublishBounds, PublishIInv, Publish!Crash
    PROVE  PublishIInv'
<1> USE DEF PublishBounds, PublishIInv, Publish!TypeOK, OnlyFunded, SentWasPrepared, CopiesWhole, NothingTorn,
            PreparedIsPublic, Publish!Public, Publish!Content, Publish!Steps, Publishing, CommitRecorded
<1>1. /\ UNCHANGED <<disk, snapshots, bundle, remote, chain, indexed, hasRemote, faults>>
      /\ at' = "idle" /\ cached' = FALSE /\ crashes' \in 0 .. MaxCrashes
  BY DEF Publish!Crash
<1> DEFINE Clones == [on : {"branch", "detached"}, locks : SUBSET {"index", "ref"}, tree : Publish!Content,
                      index : Publish!Content, head : Publish!Content, foreign : 0 .. MaxForeign]
           Locks == SUBSET {"index", "ref"}
<1>2. clone \in Clones /\ \A l \in {"index", "ref"} : clone.locks \cup {l} \in Locks
  OBVIOUS
<1>3. clone.head \in Publish!Content /\ clone.index \in Publish!Content
  OBVIOUS
<1>4. clone' \in Clones /\ (clone'.head = clone.head \/ (at = "record" /\ clone'.head = clone.index))
  <2>1. CASE UNCHANGED clone
    BY <1>2, <2>1
  <2>2. ASSUME NEW l \in {"index", "ref"}, clone' = [clone EXCEPT !.locks = @ \cup {l}]
        PROVE  clone' \in Clones /\ clone'.head = clone.head
    <3>1. PICK k \in Locks : k = clone.locks \cup {l}
      BY ONLY <1>2
    <3>2. clone' = [clone EXCEPT !.locks = k]
      BY ONLY <2>2, <3>1
    <3>3. QED
      BY ONLY <1>2, <3>2
  <2>3. ASSUME NEW l \in {"index", "ref"}, NEW h \in {clone.head, clone.index},
               clone' = [clone EXCEPT !.locks = @ \cup {l}, !.head = h]
        PROVE  clone' \in Clones /\ clone'.head \in {clone.head, clone.index}
    <3>1. PICK k \in Locks : k = clone.locks \cup {l}
      BY ONLY <1>2
    <3>2. clone' = [clone EXCEPT !.locks = k, !.head = h]
      BY ONLY <2>3, <3>1
    <3>3. h \in Publish!Content
      BY ONLY <1>3
    <3>4. QED
      BY ONLY <1>2, <3>2, <3>3
  <2>4. \/ UNCHANGED clone
        \/ \E l \in {"index", "ref"} : clone' = [clone EXCEPT !.locks = @ \cup {l}]
        \/ /\ at = "record"
           /\ \E l \in {"index", "ref"}, h \in {clone.head, clone.index} :
                  clone' = [clone EXCEPT !.locks = @ \cup {l}, !.head = h]
    BY ONLY Publish!Crash, Zenon DEF Publish!Crash, Publish!CutShort
  <2>5. QED
    BY <2>1, <2>2, <2>3, <2>4
<1>5. Publish!TypeOK'
  <2>1. snapshots' \in BOOLEAN /\ cached' \in BOOLEAN /\ indexed' \in BOOLEAN /\ hasRemote' \in BOOLEAN
    BY Zenon, <1>1
  <2>2. at' \in Publish!Steps
    BY <1>1
  <2>3. QED
    BY <1>1, <1>4, <2>1, <2>2
<1>6. OnlyFunded' /\ SentWasPrepared'
  BY <1>1
<1>7. NothingTorn' /\ PreparedIsPublic'
  <2>1. at = "record" => clone.index = "whole"
    OBVIOUS
  <2>2. QED
    BY <1>1, <1>4, <2>1
<1>8. CopiesWhole'
  BY <1>1
<1>9. QED
  BY <1>5, <1>6, <1>7, <1>8

(* The steps in the clone: each leaves HEAD alone but the one that records. *)
LEMMA CloneSteps ==
    ASSUME PublishBounds, PublishIInv,
           \/ Publish!Sync \/ Publish!Replay \/ Publish!RemoveTarget
           \/ Publish!CopyBundle \/ Publish!Add \/ Publish!CommitClone
    PROVE  PublishIInv'
<1> USE DEF PublishBounds, PublishIInv, Publish!TypeOK, OnlyFunded, SentWasPrepared, CopiesWhole, NothingTorn,
            PreparedIsPublic, Publish!Public, Publish!Content, Publish!Steps, Publishing, CommitRecorded
<1>1. CASE Publish!Sync
  <2>1. /\ clone' \in {clone, [clone EXCEPT !.on = "detached"], [clone EXCEPT !.foreign = remote.foreign]}
        /\ \/ at' = "idle"
           \/ at = "head" /\ at' \in {"remove", "replay"}
           \/ at = "resync" /\ at' \in {"pushAgain", "replayAgain"}
    BY <1>1 DEF Publish!Sync, Publish!Throw, Publish!Pull
  <2>2. clone'.head = clone.head
    BY <2>1
  <2>3. clone' \in [on : {"branch", "detached"}, locks : SUBSET {"index", "ref"}, tree : Publish!Content,
                 index : Publish!Content, head : Publish!Content, foreign : 0 .. MaxForeign]
    BY <2>1
  <2>4. faults' \in 0 .. MaxFaults
    BY <1>1 DEF Publish!Sync, Publish!NoBranchSeen, Publish!PullFails, Publish!Pull, Publish!Fault
  <2>5. UNCHANGED <<disk, snapshots, bundle, cached, remote, chain, indexed, hasRemote, crashes>>
    BY <1>1 DEF Publish!Sync
  <2>6. Publish!TypeOK'
    BY <2>1, <2>3, <2>4, <2>5
  <2>7. OnlyFunded' /\ SentWasPrepared' /\ NothingTorn'
    BY <2>1, <2>2, <2>5
  <2>8. CopiesWhole' /\ PreparedIsPublic'
    BY <2>1, <2>2, <2>5
  <2>9. QED
    BY <2>6, <2>7, <2>8
<1>2. CASE Publish!Replay
  <2>1. clone' = [clone EXCEPT !.on = "branch", !.foreign = remote.foreign]
    BY <1>2 DEF Publish!Replay
  <2>2. clone'.head = clone.head
    BY <2>1
  <2>3. clone' \in [on : {"branch", "detached"}, locks : SUBSET {"index", "ref"}, tree : Publish!Content,
                 index : Publish!Content, head : Publish!Content, foreign : 0 .. MaxForeign]
    BY <2>1
  <2>4. Publish!TypeOK'
    BY <1>2, <2>2, <2>3 DEF Publish!Replay
  <2>5. OnlyFunded' /\ SentWasPrepared' /\ NothingTorn'
    BY <1>2, <2>2, <2>3 DEF Publish!Replay
  <2>6. CopiesWhole' /\ PreparedIsPublic'
    BY <1>2, <2>2, <2>3 DEF Publish!Replay
  <2>7. QED
    BY <2>4, <2>5, <2>6
<1>3. CASE Publish!RemoveTarget
  BY <1>3 DEF Publish!RemoveTarget
<1>4. CASE Publish!CopyBundle
  BY <1>4 DEF Publish!CopyBundle
<1>5. CASE Publish!Add
  BY <1>5 DEF Publish!Add, Publish!Throw
<1>6. CASE Publish!CommitClone
  BY <1>6 DEF Publish!CommitClone, Publish!Throw
<1>7. QED
  BY <1>1, <1>2, <1>3, <1>4, <1>5, <1>6

(* The steps that reach the remote. *)
LEMMA RemoteSteps ==
    ASSUME PublishBounds, PublishIInv, Publish!Push \/ Publish!ForeignPush
    PROVE  PublishIInv'
<1> USE DEF PublishBounds, PublishIInv, Publish!TypeOK, OnlyFunded, SentWasPrepared, CopiesWhole, NothingTorn,
            PreparedIsPublic, Publish!Public, Publish!Content, Publish!Steps, Publishing, CommitRecorded
<1>1. CASE Publish!Push
  BY <1>1 DEF Publish!Push, Publish!Accepted, Publish!Pushed, Publish!Refused, Publish!Fault
<1>2. CASE Publish!ForeignPush
  BY <1>2 DEF Publish!ForeignPush
<1>3. QED
  BY <1>1, <1>2

(***************************************************************************)
(* The places of a publishing step and the copies they vouch for are an    *)
(* inductive invariant of every step, whatever dies or is lost             *)
(* (engine.ts 728-838, publisher.ts).                                      *)
(***************************************************************************)
THEOREM PublishInductive ==
    ASSUME PublishBounds
    PROVE  ServicesSpec => [](service = "publish" => PublishIInv)
<1> DEFINE Inv == service = "publish" => PublishIInv
<1>1. ServicesInit => Inv
  BY PublishInitIInv DEF ServicesInit
<1>2. Inv /\ [ServicesNext]_servicesVars => Inv'
  <2> SUFFICES ASSUME Inv, [ServicesNext]_servicesVars, service' = "publish"
               PROVE  PublishIInv'
    OBVIOUS
  <2>1. CASE UNCHANGED servicesVars
    <3>1. service = "publish" /\ UNCHANGED publishVars
      BY <2>1 DEF servicesVars
    <3>2. QED
      BY <3>1 DEF publishVars, PublishIInv, Publish!TypeOK, OnlyFunded, SentWasPrepared, CopiesWhole,
                  NothingTorn, PreparedIsPublic, Publish!Public
  <2>2. CASE ServicesNext
    <3>1. service = "publish" /\ Publish!Next
      BY <2>2 DEF ServicesNext, InLock, InPublish, InLaunch, InPin, InWatch
    <3>2. QED
      BY <3>1, QuietSteps, CrashKeeps, CloneSteps, RemoteSteps DEF Publish!Next, Publish!Keeper
  <2>3. QED
    BY <2>1, <2>2
<1>3. QED
  BY <1>1, <1>2, PTL DEF ServicesSpec

(***************************************************************************)
(* A round whose commit has been sent, or that is saved as ready for it,   *)
(* has its whole bundle public, and nothing torn is ever committed or      *)
(* pushed (publisher.ts 1, "before the round is committed").               *)
(***************************************************************************)
THEOREM AlwaysPublicFirst ==
    ASSUME PublishBounds
    PROVE  ServicesSpec => []PublicFirst
<1>1. (service = "publish" => PublishIInv) => PublicFirst
  BY DEF PublicFirst, PublishIInv, Publish!PublicFirst, SentWasPrepared, NothingTorn, PreparedIsPublic
<1>2. QED
  BY <1>1, PublishInductive, PTL

----------------------------------------------------------------------------
(* The price a round is weighed with (LaunchPools). *)

LaunchConstants ==
    /\ Threshold \in PriceRange /\ 1 <= Threshold /\ PriceRange \subseteq Nat
    /\ MaxRestarts \in Nat

(***************************************************************************)
(* A pool that a price is being read of has graduated, and its price is    *)
(* among those it was tradable at; nothing is being read until a price     *)
(* that was returned is used.                                              *)
(***************************************************************************)
ReadingIsWatched ==
    \A r \in reading : /\ isMigrated[r.pool] /\ dammPrice[r.pool] \in tradable
                       /\ price = <<>>

LaunchIInv == Launch!PriceIsLive /\ ReadingIsWatched

(* Nothing has been read of any pool at the start.                          *)
LEMMA LaunchInitIInv ==
    ASSUME LaunchConstants, Launch!Init
    PROVE  LaunchIInv
<1>1. /\ quoteReserve = [p \in Pools |-> 1] /\ isMigrated = [p \in Pools |-> FALSE]
      /\ dammPrice = [p \in Pools |-> Threshold]
      /\ pending = Pools /\ todo = {} /\ sending = {} /\ restarts = 0
      /\ reading = {} /\ tradable = {} /\ price = <<>>
  BY DEF Launch!Init
<1>2. Launch!TypeOK
  BY <1>1 DEF Launch!TypeOK, LaunchConstants
<1>3. QED
  BY <1>1, <1>2 DEF LaunchIInv, Launch!PriceIsLive, ReadingIsWatched

(* What the pools do while a price is read is watched. *)
LEMMA WatchedKeeps ==
    ASSUME LaunchConstants, LaunchIInv, Launch!Watched,
           quoteReserve' \in [Pools -> 1 .. Threshold], isMigrated' \in [Pools -> BOOLEAN],
           dammPrice' \in [Pools -> PriceRange],
           \A p \in Pools : isMigrated[p] => isMigrated'[p],
           pending' \subseteq Pools, todo' \subseteq Pools, sending' \subseteq Pools, restarts' = restarts
    PROVE  LaunchIInv'
<1>1. Launch!TypeOK /\ reading' = reading /\ price' = price
  BY DEF LaunchIInv, Launch!PriceIsLive, Launch!Watched
<1>2. \A r \in reading : r.pool \in Pools /\ isMigrated'[r.pool]
  BY <1>1, SMTT(30) DEF LaunchIInv, ReadingIsWatched, Launch!TypeOK
<1>3. tradable' = IF reading = {} THEN tradable ELSE tradable \cup {dammPrice'[r.pool] : r \in reading}
  <2>1. \A r \in reading : Launch!PricesNow(r.pool)' = {dammPrice'[r.pool]}
    <3>1. ASSUME NEW r \in reading PROVE Launch!Phase(r.pool)' = "GRADUATED"
      BY <1>2, <3>1 DEF Launch!Phase, Launch!PhaseOf
    <3>2. QED
      BY <3>1 DEF Launch!PricesNow
  <2>2. UNION {Launch!PricesNow(r.pool)' : r \in reading} = {dammPrice'[r.pool] : r \in reading}
    <3>1. \A x : x \in UNION {Launch!PricesNow(r.pool)' : r \in reading}
                 <=> \E r \in reading : x \in Launch!PricesNow(r.pool)'
      BY ONLY Zenon
    <3>2. \A x : x \in {dammPrice'[r.pool] : r \in reading} <=> \E r \in reading : x = dammPrice'[r.pool]
      BY ONLY Zenon
    <3>3. \A r \in reading : \A x : x \in Launch!PricesNow(r.pool)' <=> x = dammPrice'[r.pool]
      BY ONLY <2>1, Zenon
    <3>4. PICK asked, answered : /\ asked = UNION {Launch!PricesNow(r.pool)' : r \in reading}
                                 /\ answered = {dammPrice'[r.pool] : r \in reading}
      BY ONLY Zenon
    <3>5. \A x : x \in asked <=> x \in answered
      <4>1. \A x : x \in asked <=> \E r \in reading : x \in Launch!PricesNow(r.pool)'
        BY ONLY <3>1, <3>4, Zenon
      <4>2. \A x : x \in answered <=> \E r \in reading : x = dammPrice'[r.pool]
        BY ONLY <3>2, <3>4, Zenon
      <4>3. QED
        BY ONLY <3>3, <4>1, <4>2, Zenon
    <3>6. asked = answered
      BY ONLY <3>5
    <3>7. QED
      BY ONLY <3>4, <3>6, Zenon
  <2>3. QED
    BY <2>2 DEF Launch!Watched
<1>4. tradable' \subseteq Nat /\ (reading = {} => tradable' = tradable)
  <2>1. \A r \in reading : dammPrice'[r.pool] \in Nat
    BY <1>2 DEF LaunchConstants
  <2>2. {dammPrice'[r.pool] : r \in reading} \subseteq Nat
    BY ONLY <2>1, Zenon
  <2>3. tradable \subseteq Nat
    BY <1>1 DEF Launch!TypeOK
  <2>4. QED
    BY ONLY <1>3, <2>2, <2>3
<1>5. Launch!TypeOK'
  BY <1>1, <1>4 DEF Launch!TypeOK
<1>6. price' # <<>> => /\ price' = price /\ tradable' = tradable
                       /\ \/ \E current \in tradable : price[2] = current * price[3]
                          \/ tradable = {} /\ price[2] = Threshold * price[3]
  BY <1>1, <1>4 DEF LaunchIInv, Launch!PriceIsLive, ReadingIsWatched
<1>7. ReadingIsWatched'
  BY <1>1, <1>2, <1>3 DEF LaunchIInv, ReadingIsWatched
<1>8. QED
  BY <1>5, <1>6, <1>7 DEF LaunchIInv, Launch!PriceIsLive

(* The migrator's own steps move no price. *)
LEMMA MigratorKeeps ==
    ASSUME LaunchConstants, LaunchIInv,
           UNCHANGED <<quoteReserve, isMigrated, dammPrice>>, UNCHANGED <<reading, tradable, price>>,
           pending' \subseteq Pools, todo' \subseteq Pools, sending' \subseteq Pools, restarts' \in 0 .. MaxRestarts
    PROVE  LaunchIInv'
<1>1. Launch!TypeOK'
  BY DEF LaunchIInv, Launch!PriceIsLive, Launch!TypeOK
<1>2. QED
  BY <1>1 DEF LaunchIInv, Launch!PriceIsLive, ReadingIsWatched

(* A price is lamports per coin, whichever side of the pool SOL is on. *)
LEMMA OrientedIs ==
    ASSUME NEW p \in Pools
    PROVE  Launch!Oriented(p) = <<dammPrice[p], 1>>
BY DEF Launch!Oriented, Launch!StoredPrice

(* A price is read, and used. *)
LEMMA ReaderKeeps ==
    ASSUME LaunchConstants, LaunchIInv,
           (\E p \in Pools : Launch!BeginPrice(p)) \/ Launch!EndPrice \/ Launch!UsePrice
    PROVE  LaunchIInv'
<1>1. /\ UNCHANGED <<quoteReserve, isMigrated, dammPrice>>
      /\ UNCHANGED <<pending, todo, sending, restarts>>
  BY DEF Launch!BeginPrice, Launch!EndPrice, Launch!UsePrice, Launch!chain, Launch!migrator
<1>2. Launch!TypeOK
  BY DEF LaunchIInv, Launch!PriceIsLive
<1>3. ASSUME NEW p \in Pools, Launch!BeginPrice(p)
      PROVE  LaunchIInv'
  <2>1. reading = {} /\ price = <<>> /\ tradable' = Launch!PricesNow(p)
    BY <1>3 DEF Launch!BeginPrice
  <2>2. CASE isMigrated[p]
    <3>1. PICK d \in Nat : d = dammPrice[p]
      BY <1>2 DEF Launch!TypeOK, LaunchConstants
    <3>2. reading' = {[pool |-> p]} /\ price' = <<>> /\ tradable' = {d}
      BY <1>3, <2>1, <2>2, <3>1 DEF Launch!BeginPrice, Launch!PricesNow, Launch!Phase, Launch!PhaseOf
    <3>3. Launch!TypeOK'
      <4>1. [pool |-> p] \in [pool : Pools]
        OBVIOUS
      <4>2. QED
        BY <1>1, <1>2, <3>2, <4>1 DEF Launch!TypeOK
    <3>4. QED
      BY <1>1, <2>2, <3>1, <3>2, <3>3 DEF LaunchIInv, Launch!PriceIsLive, ReadingIsWatched
  <2>3. CASE ~isMigrated[p]
    <3>1. PICK q \in Nat : q = quoteReserve[p] /\ q <= Threshold
      BY <1>2 DEF Launch!TypeOK
    <3>2. reading' = {} /\ price' = <<p, q, 1>>
      BY <1>3, <2>1, <2>3, <3>1 DEF Launch!BeginPrice
    <3>3. tradable' = IF q >= Threshold THEN {} ELSE {q}
      BY <2>1, <2>3, <3>1 DEF Launch!PricesNow, Launch!Phase, Launch!PhaseOf
    <3>4. Launch!TypeOK'
      BY <1>1, <1>2, <3>2, <3>3 DEF Launch!TypeOK
    <3>5. price'[2] = q * price'[3] /\ price'[3] = 1 /\ price'[2] = q
      BY <3>2
    <3>6. \/ \E current \in tradable' : price'[2] = current * price'[3]
          \/ tradable' = {} /\ price'[2] = Threshold * price'[3]
      BY <3>1, <3>3, <3>5 DEF LaunchConstants
    <3>7. QED
      BY <3>2, <3>4, <3>6 DEF LaunchIInv, Launch!PriceIsLive, ReadingIsWatched
  <2>4. QED
    BY <2>2, <2>3
<1>4. CASE Launch!EndPrice
  <2>1. PICK r \in reading : price' = <<r.pool>> \o Launch!Oriented(r.pool)
    BY <1>4 DEF Launch!EndPrice
  <2>2. PICK p \in Pools, d \in Nat : p = r.pool /\ d = dammPrice[p] /\ d \in tradable
    <3>1. r.pool \in Pools /\ dammPrice[r.pool] \in tradable
      BY <1>2, <2>1 DEF LaunchIInv, ReadingIsWatched, Launch!TypeOK
    <3>2. dammPrice[r.pool] \in Nat
      BY <1>2, <3>1 DEF Launch!TypeOK, LaunchConstants
    <3>3. QED
      BY <3>1, <3>2
  <2>3. price'[2] = d /\ price'[3] = 1
    <3>1. PICK one, pair, all : one = <<p>> /\ pair = <<d, 1>> /\ all = {p, d, 1}
      OBVIOUS
    <3>2. price' = one \o pair
      BY <2>1, <2>2, <3>1, OrientedIs
    <3>3. one \in Seq(all) /\ Len(one) = 1
      BY <3>1
    <3>4. pair \in Seq(all) /\ Len(pair) = 2 /\ pair[1] = d /\ pair[2] = 1
      BY <3>1
    <3>5. PICK cat : cat = one \o pair
      OBVIOUS
    <3>6. \A i \in 1 .. Len(one) + Len(pair) :
             cat[i] = IF i <= Len(one) THEN one[i] ELSE pair[i - Len(one)]
      BY ONLY <3>3, <3>4, <3>5, ConcatProperties
    <3>7. \A i \in 1 .. 3 : cat[i] = IF i <= 1 THEN one[i] ELSE pair[i - 1]
      <4>1. Len(one) = 1 /\ Len(pair) = 2 /\ Len(one) + Len(pair) = 3
        BY ONLY <3>3, <3>4
      <4>2. QED
        BY ONLY <3>6, <4>1, Zenon
    <3>8. cat[2] = pair[2 - 1] /\ cat[3] = pair[3 - 1]
      BY ONLY <3>7
    <3>9. QED
      BY <3>2, <3>4, <3>5, <3>8
  <2>4. reading' = {} /\ tradable' = tradable
    BY <1>4 DEF Launch!EndPrice
  <2>5. Launch!TypeOK'
    BY <1>1, <1>2, <2>4 DEF Launch!TypeOK
  <2>6. d \in tradable' /\ price'[2] = d * price'[3]
    BY <2>2, <2>3, <2>4
  <2>7. QED
    BY <2>4, <2>5, <2>6 DEF LaunchIInv, Launch!PriceIsLive, ReadingIsWatched
<1>5. CASE Launch!UsePrice
  <2>1. price # <<>> /\ price' = <<>> /\ tradable' = {} /\ reading' = reading
    BY <1>5 DEF Launch!UsePrice
  <2>2. reading = {}
    BY <2>1 DEF LaunchIInv, ReadingIsWatched
  <2>3. Launch!TypeOK'
    BY <1>1, <1>2, <2>1 DEF Launch!TypeOK
  <2>4. QED
    BY <2>1, <2>2, <2>3 DEF LaunchIInv, Launch!PriceIsLive, ReadingIsWatched
<1>6. QED
  BY <1>3, <1>4, <1>5

(* Every step of a launch. *)
LEMMA LaunchNextIInv ==
    ASSUME LaunchConstants, LaunchIInv, Launch!Next
    PROVE  LaunchIInv'
<1>1. Launch!TypeOK
  BY DEF LaunchIInv, Launch!PriceIsLive
<1>2. ASSUME NEW p \in Pools, Launch!Migrated(p)
      PROVE  /\ quoteReserve' \in [Pools -> 1 .. Threshold] /\ isMigrated' \in [Pools -> BOOLEAN]
             /\ dammPrice' \in [Pools -> PriceRange]
             /\ \A q \in Pools : isMigrated[q] => isMigrated'[q]
  BY <1>1, <1>2 DEF Launch!Migrated, Launch!TypeOK
<1>3. ASSUME NEW p \in Pools, Launch!Trade(p)
      PROVE  LaunchIInv'
  <2>1. /\ quoteReserve' \in [Pools -> 1 .. Threshold] /\ dammPrice' \in [Pools -> PriceRange]
        /\ isMigrated' = isMigrated
    BY <1>1, <1>3 DEF Launch!Trade, Launch!TypeOK
  <2>2. Launch!Watched /\ UNCHANGED <<pending, todo, sending, restarts>>
    BY <1>3 DEF Launch!Trade, Launch!migrator
  <2>3. QED
    BY <1>1, <2>1, <2>2, WatchedKeeps DEF Launch!TypeOK
<1>4. ASSUME NEW p \in Pools, Launch!OthersMigrate(p) \/ Launch!SendLands(p)
      PROVE  LaunchIInv'
  <2>1. /\ Launch!Migrated(p) /\ Launch!Watched /\ restarts' = restarts
        /\ pending' \subseteq Pools /\ todo' \subseteq Pools /\ sending' \subseteq Pools
    BY <1>1, <1>4 DEF Launch!OthersMigrate, Launch!SendLands, Launch!migrator, Launch!TypeOK
  <2>2. QED
    BY <1>2, <2>1, WatchedKeeps
<1>5. ASSUME \/ Launch!Poll \/ Launch!Restart
             \/ \E p \in Pools : Launch!ReadPool(p) \/ Launch!ReadFails(p) \/ Launch!SendFails(p)
      PROVE  LaunchIInv'
  <2>1. UNCHANGED <<quoteReserve, isMigrated, dammPrice>> /\ UNCHANGED <<reading, tradable, price>>
    BY <1>5 DEF Launch!Poll, Launch!Restart, Launch!ReadPool, Launch!ReadFails, Launch!SendFails,
                Launch!chain, Launch!reader
  <2>2. /\ pending' \subseteq Pools /\ todo' \subseteq Pools /\ sending' \subseteq Pools
        /\ restarts' \in 0 .. MaxRestarts
    <3>1. CASE Launch!Poll
      BY <1>1, <3>1 DEF Launch!Poll, Launch!TypeOK
    <3>2. CASE Launch!Restart
      BY <1>1, <3>2 DEF Launch!Restart, Launch!TypeOK, LaunchConstants
    <3>3. ASSUME NEW p \in Pools, Launch!ReadPool(p)
          PROVE  /\ pending' \subseteq Pools /\ todo' \subseteq Pools /\ sending' \subseteq Pools
                 /\ restarts' = restarts
      <4>1. Launch!Phase(p) \in {"CURVE", "GRADUATED", "AWAITING_MIGRATION"}
        BY DEF Launch!Phase, Launch!PhaseOf
      <4>2. QED
        BY <1>1, <3>3, <4>1 DEF Launch!ReadPool, Launch!TypeOK
    <3>4. ASSUME NEW p \in Pools, Launch!ReadFails(p) \/ Launch!SendFails(p)
          PROVE  /\ pending' \subseteq Pools /\ todo' \subseteq Pools /\ sending' \subseteq Pools
                 /\ restarts' = restarts
      BY <1>1, <3>4 DEF Launch!ReadFails, Launch!SendFails, Launch!TypeOK
    <3>5. QED
      BY <1>1, <1>5, <3>1, <3>2, <3>3, <3>4 DEF Launch!TypeOK
  <2>3. QED
    BY <2>1, <2>2, MigratorKeeps
<1>6. QED
  BY <1>3, <1>4, <1>5, ReaderKeeps DEF Launch!Next, Launch!MigratorStep

(***************************************************************************)
(* The price a round is weighed with is lamports per coin, and one the     *)
(* coin could be traded at while it was read, for any pools and prices:    *)
(* never that of a curve the pool has left; only of a full curve, where    *)
(* nobody trades, it is the closing price (price.ts 25-38).                *)
(***************************************************************************)
THEOREM PriceStaysLive ==
    ASSUME LaunchConstants
    PROVE  ServicesSpec => []PriceIsLive
<1> DEFINE Inv == service = "launch" => LaunchIInv
<1>1. ServicesInit => Inv
  BY LaunchInitIInv DEF ServicesInit
<1>2. Inv /\ [ServicesNext]_servicesVars => Inv'
  <2> SUFFICES ASSUME Inv, [ServicesNext]_servicesVars, service' = "launch"
               PROVE  LaunchIInv'
    OBVIOUS
  <2>1. CASE UNCHANGED servicesVars
    <3>1. service = "launch" /\ UNCHANGED launchVars
      BY <2>1 DEF servicesVars
    <3>2. QED
      BY <3>1 DEF launchVars, LaunchIInv, ReadingIsWatched, Launch!PriceIsLive, Launch!TypeOK
  <2>2. CASE ServicesNext
    <3>1. service = "launch" /\ Launch!Next
      BY <2>2 DEF ServicesNext, InLock, InPublish, InLaunch, InPin, InWatch
    <3>2. QED
      BY <3>1, LaunchNextIInv
  <2>3. QED
    BY <2>1, <2>2
<1>3. Inv => PriceIsLive
  BY DEF PriceIsLive, LaunchIInv
<1>4. QED
  BY <1>1, <1>2, <1>3, PTL DEF ServicesSpec
=============================================================================
