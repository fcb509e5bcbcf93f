---------------------------- MODULE Parts_proofs ----------------------------
(***************************************************************************)
(* Proofs about the parts of a round's data that MCRoundData puts side by  *)
(* side: the vetting of mints, the pages of holders, the split of an       *)
(* asset, the trigger, the verifier, the trees and the checks on a buy.    *)
(*                                                                         *)
(* The vetting of mints, for any mints and listings.  The keeper's and the *)
(* program's filters are compared entry by entry.  After open, what the    *)
(* program saw of each entry is either beyond its authorities' reach, or a *)
(* fee that takes two epochs to come into force.                           *)
(*                                                                         *)
(* The pages of holders, for any accounts, transfers and page sizes.  The  *)
(* rows so far are true to the lowest slot any page was served as of: each *)
(* shows a balance the account had since, and every account up to the      *)
(* cursor that held throughout is among them.                              *)
(*                                                                         *)
(* The split of an asset, for any holders, balances and limits.  Those     *)
(* still in are always the largest of the eligible, whatever a pass drops, *)
(* because a larger holder never gets the smaller share; what they get are *)
(* the shares of Sums, which add up.                                       *)
(*                                                                         *)
(* The trigger, for any holders, revenues and basket sizes.  A round is    *)
(* closed only when its pot is twenty times what paying every eligible     *)
(* holder every coin costs, and that covers the reserve and the overhead   *)
(* of each swap however few coins are left to buy.                         *)
(*                                                                         *)
(* The verifier, for any rounds and whatever directory it is given.  What  *)
(* the chain recorded is an invariant of the round alone; two chains of    *)
(* one length with one head are the same chain, so an accepted list has    *)
(* the hashes of what was taken, and a snapshot that has one of them is    *)
(* the one that was taken.                                                 *)
(*                                                                         *)
(* The trees, of any number of leaves.  A node where two meet is known by  *)
(* its leaves, a leaf by the index it carries, and so the hash of a climb  *)
(* can be a node of the tree in one place only, whatever siblings it was   *)
(* given; it is that node exactly if the block and every sibling are the   *)
(* tree's own.  Above the root nothing meets, so a longer proof is none.   *)
(*                                                                         *)
(* The checks on a buy, for any pools and fees.  Quotes of two sizes have  *)
(* one factor in common, for the price and both fees, and lie within three *)
(* units of that factor's multiples; so the ratio that is measured is the  *)
(* ratio of the depths at the two sizes, up to the roundings (Sums).       *)
(***************************************************************************)
EXTENDS MCRoundData, SequenceTheorems, Sums

----------------------------------------------------------------------------
(* Ranks in finite sets of numbers. *)

RankIn(S, a) == Cardinality({b \in S : b <= a})

(* The ranks of the members of a finite set of numbers are 1, 2, ... its   *)
(* size, each had by one of them.                                          *)
LEMMA RanksCount ==
    ASSUME NEW S, S \subseteq Int, IsFiniteSet(S)
    PROVE  /\ Cardinality(S) \in Nat
           /\ \A a \in S : RankIn(S, a) \in 1 .. Cardinality(S)
           /\ \A a, b \in S : RankIn(S, a) = RankIn(S, b) => a = b
           /\ \A k \in 1 .. Cardinality(S) : \E a \in S : RankIn(S, a) = k
<1> DEFINE Upto(a) == {b \in S : b <= a}
           n == Cardinality(S)
<1>1. n \in Nat
  BY FS_CardinalityType
<1>2. ASSUME NEW a \in S
      PROVE  IsFiniteSet(Upto(a)) /\ Cardinality(Upto(a)) \in 1 .. n
  <2>1. Upto(a) \subseteq S /\ a \in Upto(a)
    BY <1>2
  <2>2. IsFiniteSet(Upto(a)) /\ Cardinality(Upto(a)) \in Nat /\ Cardinality(Upto(a)) <= n
    BY <2>1, FS_Subset, FS_CardinalityType
  <2>3. Cardinality(Upto(a)) # 0
    BY <2>1, <2>2, FS_EmptySet
  <2>4. QED
    BY <1>1, <2>2, <2>3
<1>3. ASSUME NEW a \in S, NEW b \in S, a < b
      PROVE  Cardinality(Upto(a)) < Cardinality(Upto(b))
  <2>1. Upto(a) \subseteq Upto(b) /\ b \in Upto(b) /\ b \notin Upto(a)
    <3>1. a \in Int /\ b \in Int /\ \A c \in S : c \in Int
      OBVIOUS
    <3>2. \A c \in Int : c <= a => c <= b
      BY <1>3, <3>1
    <3>3. b <= b /\ ~(b <= a)
      BY <1>3, <3>1
    <3>4. QED
      BY <3>1, <3>2, <3>3
  <2>2. Upto(a) # Upto(b)
    BY <2>1
  <2>3. IsFiniteSet(Upto(a)) /\ Cardinality(Upto(a)) \in Nat /\ IsFiniteSet(Upto(b)) /\ Cardinality(Upto(b)) \in Nat
    BY <1>2
  <2> HIDE DEF Upto
  <2>4. QED
    BY <2>1, <2>2, <2>3, FS_Subset
<1>4. \A a, b \in S : RankIn(S, a) = RankIn(S, b) => a = b
  <2> SUFFICES ASSUME NEW a \in S, NEW b \in S, Cardinality(Upto(a)) = Cardinality(Upto(b)), a # b
               PROVE  FALSE
    BY DEF RankIn
  <2> HIDE DEF Upto
  <2>1. a < b \/ b < a
    OBVIOUS
  <2>2. Cardinality(Upto(a)) \in Nat /\ Cardinality(Upto(b)) \in Nat
    BY <1>2
  <2>3. QED
    BY <1>3, <2>1, <2>2
<1> DEFINE r == [a \in S |-> RankIn(S, a)]
           Image == {RankIn(S, a) : a \in S}
<1>5. \A a \in S : RankIn(S, a) \in 1 .. n
  BY <1>2 DEF RankIn
<1>6. r \in Bijection(S, Image)
  BY <1>4 DEF Bijection, Injection, Surjection, IsInjective
<1>7. Cardinality(Image) = n /\ Image \subseteq 1 .. n
  <2>1. Image \subseteq 1 .. n
    BY <1>5
  <2> HIDE DEF Image, r
  <2>2. ExistsBijection(S, Image)
    BY <1>6 DEF ExistsBijection
  <2>3. QED
    BY <2>1, <2>2, FS_Bijection
<1>8. Image = 1 .. n
  <2> HIDE DEF Image
  <2>1. IsFiniteSet(1 .. n) /\ Cardinality(1 .. n) = n
    BY <1>1, FS_Interval
  <2>2. QED
    BY <1>7, <2>1, FS_Subset
<1>9. QED
  BY <1>1, <1>4, <1>5, <1>8

FirstOf(S, B) == {i \in S : Cardinality({j \in S : j < i}) < B}

(* The first B members of a set of at least B of them are B. *)
LEMMA FirstOnesCount ==
    ASSUME NEW S, S \subseteq Int, IsFiniteSet(S), NEW B \in Nat, NEW i0 \in S, i0 \notin FirstOf(S, B)
    PROVE  IsFiniteSet(FirstOf(S, B)) /\ Cardinality(FirstOf(S, B)) = B
<1> DEFINE First == FirstOf(S, B)
           n == Cardinality(S)
<1>1. n \in Nat /\ \A a \in S : RankIn(S, a) \in 1 .. n
  BY RanksCount
<1>2. ASSUME NEW i \in S
      PROVE  Cardinality({j \in S : j < i}) = RankIn(S, i) - 1
  <2> DEFINE Below == {j \in S : j < i}
  <2>0. i \in Int /\ \A j \in S : j \in Int
    OBVIOUS
  <2>1. {j \in S : j <= i} = Below \cup {i} /\ i \notin Below /\ Below \subseteq S
    <3>1. \A j \in Int : j <= i <=> j < i \/ j = i
      BY <2>0
    <3>2. ~(i < i)
      BY <2>0
    <3>3. QED
      BY <2>0, <3>1, <3>2
  <2> HIDE DEF Below
  <2>2. IsFiniteSet(Below) /\ Cardinality(Below) \in Nat
    BY <2>1, FS_Subset, FS_CardinalityType
  <2>3. Cardinality(Below \cup {i}) = Cardinality(Below) + 1
    BY <2>1, <2>2, FS_AddElement
  <2>4. Cardinality(Below) = RankIn(S, i) - 1
    BY <2>1, <2>2, <2>3 DEF RankIn
  <2>5. QED
    BY <2>4 DEF Below
<1>3. B <= n
  <2>1. ~(Cardinality({j \in S : j < i0}) < B)
    BY DEF FirstOf
  <2>2. QED
    BY <1>1, <1>2, <2>1
<1>4. First = {i \in S : RankIn(S, i) <= B}
  <2>1. \A i \in S : Cardinality({j \in S : j < i}) < B <=> RankIn(S, i) <= B
    <3> SUFFICES ASSUME NEW i \in S
                 PROVE  Cardinality({j \in S : j < i}) < B <=> RankIn(S, i) <= B
      OBVIOUS
    <3>1. PICK c : c = RankIn(S, i)
      OBVIOUS
    <3>2. c \in 1 .. n
      BY <1>1, <3>1
    <3> HIDE DEF n
    <3>3. QED
      BY <1>1, <1>2, <3>1, <3>2
  <2>2. QED
    BY <2>1 DEF FirstOf
<1> DEFINE r == [i \in First |-> RankIn(S, i)]
<1> HIDE DEF First
<1>5. r \in Bijection(First, 1 .. B)
  <2>1. \A i \in First : RankIn(S, i) \in 1 .. B
    BY <1>1, <1>4
  <2>2. \A i, j \in First : RankIn(S, i) = RankIn(S, j) => i = j
    BY <1>4, RanksCount
  <2>3. \A k \in 1 .. B : \E i \in First : RankIn(S, i) = k
    <3> SUFFICES ASSUME NEW k \in 1 .. B
                 PROVE  \E i \in First : RankIn(S, i) = k
      OBVIOUS
    <3>1. k \in 1 .. n
      BY <1>1, <1>3
    <3>2. PICK i \in S : RankIn(S, i) = k
      BY <3>1, RanksCount
    <3>3. QED
      BY <1>4, <3>2
  <2>4. QED
    BY <2>1, <2>2, <2>3 DEF Bijection, Injection, Surjection, IsInjective
<1>6. First \subseteq S
  BY <1>4
<1>7. IsFiniteSet(First)
  BY <1>6, FS_Subset
<1>8. Cardinality(First) = Cardinality(1 .. B)
  <2>2. ExistsBijection(First, 1 .. B)
    BY <1>5 DEF ExistsBijection
  <2>3. QED
    BY <1>7, <2>2, FS_Bijection
<1>9. Cardinality(1 .. B) = B
  BY FS_Interval
<1>10. QED
  BY <1>7, <1>8, <1>9 DEF First

----------------------------------------------------------------------------
(* The vetting of mints (MintVet). *)

(* The extension entries a mint may hold, by what the vettings read of them. *)
Hooks == [type : {"transferHook"}, full : BOOLEAN, authority : BOOLEAN, program : BOOLEAN]
Closers == [type : {"closeAuthority"}, full : BOOLEAN, set : BOOLEAN]
Defaults == [type : {"defaultState"}, full : BOOLEAN, frozen : BOOLEAN]
FeesOf == [type : {"transferFee"}, full : BOOLEAN, older : Nat, newer : Nat, from : Nat]
OtherTypes == STRING \ {"transferHook", "closeAuthority", "defaultState", "transferFee"}
Entries == Hooks \cup Closers \cup Defaults \cup FeesOf
    \cup [type : OtherTypes] \cup [type : OtherTypes, full : BOOLEAN]

(* A mint account; one of the base size has no room for extensions. *)
MintAccounts ==
    {m \in [owner : STRING, size : STRING, initialized : BOOLEAN, freeze : BOOLEAN, ext : Seq(Entries)] :
        m.size = "base" => m.ext = <<>>}

(***************************************************************************)
(* What the proofs about vetting ask of the constants: the keeper's fee    *)
(* cap is within the program's (both 300 basis points: config.ts 99,       *)
(* state.rs 24) and the coin under study is none of the platform's own.    *)
(***************************************************************************)
VetConstants ==
    /\ Mints \subseteq MintAccounts
    /\ \A listing \in Listings : \E S : listing \in Seq(S)
    /\ "coin" \notin Exclude
    /\ BasketSize \in Nat /\ MaxEpoch \in Nat
    /\ KeeperMaxFee \in Nat /\ MaxTransferFeeBps \in Nat /\ KeeperMaxFee <= MaxTransferFeeBps
    /\ CoinFees \subseteq Nat

(* What the program saw of an entry at open, as far as nobody can undo it. *)
StaysPayable(e) ==
    /\ e.type = "transferHook" => e.full /\ ~e.program /\ ~e.authority
    /\ e.type = "defaultState" => ~e.frozen
    /\ e.type = "transferFee" /\ epoch < opened[1] + 2 =>
          e.older <= MaxTransferFeeBps /\ (e.newer <= MaxTransferFeeBps \/ e.from >= opened[1] + 2)

VetTypes ==
    /\ mint \in MintAccounts /\ epoch \in 0 .. MaxEpoch
    /\ bought \in BOOLEAN /\ reserved \in BOOLEAN /\ changed \in BOOLEAN
    /\ opened = <<>> \/ (opened # <<>> /\ opened[1] \in 0 .. epoch)

VetIInv ==
    /\ VetTypes
    /\ wrong = {}
    /\ reserved => bought
    /\ reserved /\ ~changed => Vetting!VetMintData(mint, KeeperMaxFee)
    /\ opened # <<>> => ~mint.freeze /\ \A i \in Vetting!Walked(mint) : StaysPayable(mint.ext[i])

(* The sizes of sets that MintVet speaks of. *)
LEMMA VettingCounts == ASSUME NEW S PROVE Vetting!Cardinality(S) = Cardinality(S)
BY DEF Vetting!Cardinality, Cardinality

(* An entry has the fields its type says. *)
LEMMA EntryFields ==
    ASSUME NEW e \in Entries
    PROVE  /\ e.type = "transferHook" => e \in Hooks
           /\ e.type = "closeAuthority" => e \in Closers
           /\ e.type = "defaultState" => e \in Defaults
           /\ e.type = "transferFee" => e \in FeesOf
BY DEF Entries, Hooks, Closers, Defaults, FeesOf, OtherTypes

(* The entries the walk reaches are entries. *)
LEMMA WalkedAre ==
    ASSUME NEW m \in MintAccounts, NEW i \in Vetting!Walked(m)
    PROVE  i \in DOMAIN m.ext /\ m.ext[i] \in Entries
<1>1. m.ext \in Seq(Entries)
  BY DEF MintAccounts
<1>2. i \in DOMAIN m.ext
  BY DEF Vetting!Walked
<1>3. QED
  BY <1>1, <1>2, ElementOfSeq, LenProperties

(* What the keeper accepts at its own cap, the program accepts at its own. *)
LEMMA KeeperThenProgram ==
    ASSUME VetConstants, NEW m \in MintAccounts, Vetting!VetMintData(m, KeeperMaxFee)
    PROVE  Vetting!VetMint(m)
<1>1. ASSUME NEW i \in Vetting!Walked(m), Vetting!EntryOk(m.ext[i], KeeperMaxFee)
      PROVE  Vetting!ProgramEntryOk(m.ext[i])
  <2>1. PICK e \in Entries : e = m.ext[i]
    BY WalkedAre
  <2>2. CASE e.type = "transferFee"
    <3>1. e.older \in Nat /\ e.newer \in Nat
      BY <2>2, EntryFields DEF FeesOf
    <3>2. e.full /\ Vetting!Larger(e.older, e.newer) <= KeeperMaxFee
      BY <1>1, <2>1, <2>2 DEF Vetting!EntryOk, Vetting!Allowed
    <3>3. e.older <= MaxTransferFeeBps /\ e.newer <= MaxTransferFeeBps
      BY <3>1, <3>2 DEF Vetting!Larger, VetConstants
    <3>4. QED
      BY <2>1, <2>2, <3>2, <3>3 DEF Vetting!ProgramEntryOk
  <2>3. CASE e.type # "transferFee"
    BY <1>1, <2>1, <2>3 DEF Vetting!EntryOk, Vetting!ProgramEntryOk
  <2>4. QED
    BY <2>2, <2>3
<1>2. QED
  BY <1>1 DEF Vetting!VetMintData, Vetting!VetMint

(* What the program accepts, within the keeper's cap, the keeper accepts. *)
LEMMA ProgramThenKeeper ==
    ASSUME VetConstants, NEW m \in MintAccounts, Vetting!VetMint(m),
           \A i \in Vetting!Walked(m) : m.ext[i].type = "transferFee"
              => m.ext[i].older <= KeeperMaxFee /\ m.ext[i].newer <= KeeperMaxFee
    PROVE  Vetting!VetMintData(m, KeeperMaxFee)
<1>1. ASSUME NEW i \in Vetting!Walked(m), Vetting!ProgramEntryOk(m.ext[i])
      PROVE  Vetting!EntryOk(m.ext[i], KeeperMaxFee)
  <2>1. PICK e \in Entries : e = m.ext[i]
    BY WalkedAre
  <2>2. CASE e.type = "transferFee"
    <3>1. e.full
      BY <1>1, <2>1, <2>2 DEF Vetting!ProgramEntryOk, Vetting!Allowed
    <3>2. Vetting!Larger(e.older, e.newer) <= KeeperMaxFee
      BY <2>1, <2>2 DEF Vetting!Larger
    <3>3. QED
      BY <2>1, <2>2, <3>1, <3>2 DEF Vetting!EntryOk
  <2>3. CASE e.type # "transferFee"
    BY <1>1, <2>1, <2>3 DEF Vetting!EntryOk, Vetting!ProgramEntryOk
  <2>4. QED
    BY <2>2, <2>3
<1>2. QED
  BY <1>1 DEF Vetting!VetMintData, Vetting!VetMint

----------------------------------------------------------------------------
(***************************************************************************)
(* A coin that passes the listing's filters and the keeper's vetting is    *)
(* chosen, unless as many coins as the basket holds are chosen before it.  *)
(***************************************************************************)
LEMMA VettedIsChosen ==
    ASSUME VetConstants, NEW listing \in Listings, NEW n \in Vetting!Asked(listing),
           Vetting!Passes(listing[n]), listing[n].mint = "coin", Vetting!VetMintData(mint, KeeperMaxFee),
           "coin" \notin Vetting!Select(listing)
    PROVE  Cardinality(Vetting!Select(listing)) = BasketSize
<1> DEFINE Good == {i \in Vetting!Asked(listing) : Vetting!Passes(listing[i]) /\ listing[i].mint = "coin"}
           V == Vetting!Vetted(listing)
           Best == Vetting!Best(listing)
           coinAt(i) == listing[i].mint
<1>1. DOMAIN listing \subseteq Nat /\ IsFiniteSet(DOMAIN listing)
  <2>1. PICK S : listing \in Seq(S)
    BY DEF VetConstants
  <2>2. PICK len \in Nat : DOMAIN listing = 1 .. len
    BY <2>1, LenProperties
  <2>3. IsFiniteSet(1 .. len)
    BY FS_Interval
  <2>4. QED
    BY <2>2, <2>3
<1>2. V \subseteq DOMAIN listing
  BY DEF Vetting!Vetted, Vetting!Listed, Vetting!Asked
<1>3. V \subseteq Int /\ IsFiniteSet(V)
  BY <1>1, <1>2, FS_Subset
<1>4. PICK i0 \in Good : \A j \in Good : i0 <= j
  <2>1. Good # {} /\ Good \subseteq Nat
    BY <1>1 DEF Vetting!Asked
  <2> HIDE DEF Good
  <2>2. QED
    BY <2>1, Least
<1>5. i0 \in V
  <2>1. \A j \in Vetting!Asked(listing) : j < i0 /\ Vetting!Passes(listing[j]) => listing[j].mint # listing[i0].mint
    <3>1. \A j \in Vetting!Asked(listing) : j \in Nat
      BY <1>1 DEF Vetting!Asked
    <3>2. i0 \in Nat /\ listing[i0].mint = "coin"
      BY <1>4, <3>1
    <3>3. \A j \in Nat : j < i0 => ~(i0 <= j)
      BY <3>2
    <3>4. QED
      BY <1>4, <3>1, <3>2, <3>3
  <2>2. Vetting!AccountOf(listing[i0].mint) = mint
    BY DEF Vetting!AccountOf, Vetting!Coin
  <2>3. QED
    BY <1>4, <2>1, <2>2 DEF Vetting!Vetted, Vetting!Listed
<1>6. Best = FirstOf(V, BasketSize) /\ Best \subseteq V
  <2>1. Best = FirstOf(V, BasketSize)
    BY VettingCounts DEF Vetting!Best, FirstOf
  <2>2. Best \subseteq V
    BY <2>1 DEF FirstOf
  <2>3. QED
    BY <2>1, <2>2
<1>7. Vetting!Select(listing) = {coinAt(i) : i \in Best} /\ i0 \notin Best
  BY <1>4 DEF Vetting!Select
<1> HIDE DEF V
<1>8. IsFiniteSet(Best) /\ Cardinality(Best) = BasketSize
  <2>1. BasketSize \in Nat
    BY DEF VetConstants
  <2> HIDE DEF Best
  <2>2. QED
    BY <1>3, <1>5, <1>6, <1>7, <2>1, FirstOnesCount
<1>9. \A i, j \in Best : coinAt(i) = coinAt(j) => i = j
  <2> SUFFICES ASSUME NEW i \in Best, NEW j \in Best, coinAt(i) = coinAt(j), i # j
               PROVE  FALSE
    OBVIOUS
  <2>1. i \in Vetting!Listed(listing) /\ j \in Vetting!Listed(listing)
    BY <1>6 DEF V, Vetting!Vetted
  <2>2. i \in Int /\ j \in Int
    BY <1>3, <1>6
  <2>3. i < j \/ j < i
    BY <2>2
  <2>4. QED
    BY <2>1, <2>3 DEF Vetting!Listed
<1> HIDE DEF Best
<1> DEFINE f == [i \in Best |-> coinAt(i)]
           Image == {coinAt(i) : i \in Best}
<1>10. f \in Bijection(Best, Image)
  <2> HIDE DEF coinAt
  <2>1. QED
    BY <1>9 DEF Bijection, Injection, Surjection, IsInjective
<1>11. Cardinality(Image) = BasketSize
  <2>1. ExistsBijection(Best, Image)
    BY <1>10 DEF ExistsBijection
  <2> HIDE DEF Image
  <2>2. QED
    BY <1>8, <2>1, FS_Bijection
<1>12. QED
  BY <1>7, <1>11
----------------------------------------------------------------------------
(* At first nothing is bought, reserved or opened.                         *)
LEMMA VetInitIInv == VetConstants /\ Vetting!Init => VetIInv
<1> SUFFICES ASSUME VetConstants, Vetting!Init
             PROVE  VetIInv
  OBVIOUS
<1>1. epoch \in 0 .. MaxEpoch /\ mint \in MintAccounts
  BY DEF VetConstants, Vetting!Init
<1>2. /\ bought \in BOOLEAN /\ reserved \in BOOLEAN /\ changed \in BOOLEAN
      /\ ~reserved /\ opened = <<>> /\ wrong = {}
  BY DEF Vetting!Init
<1>3. QED
  BY <1>1, <1>2 DEF VetIInv, VetTypes

(* Buying: what is left out was refused, or had no room. *)
LEMMA BuyIInv ==
    ASSUME VetConstants, VetIInv, Vetting!Buy
    PROVE  VetIInv'
<1>1. UNCHANGED <<mint, epoch, reserved, opened>> /\ ~reserved /\ bought' \in BOOLEAN /\ changed' = FALSE
  <2>1. ~bought /\ UNCHANGED <<mint, epoch, reserved, opened>>
    BY DEF Vetting!Buy
  <2>2. PICK listing \in Listings : bought' = (Vetting!Coin \in Vetting!Select(listing)) /\ changed' = FALSE
    BY DEF Vetting!Buy
  <2>3. QED
    BY <2>1, <2>2 DEF VetIInv
<1>2. wrong' = {}
  <2>1. PICK listing \in Listings :
           wrong' = wrong \cup
             IF /\ \E i \in DOMAIN listing : /\ listing[i].mint = "coin" /\ listing[i].status = "graduated"
                                             /\ listing[i].liquidity = <<>>
                /\ "coin" \notin Vetting!Select(listing)
                /\ Vetting!Cardinality(Vetting!Select(listing)) < BasketSize /\ Len(listing) <= 2 * BasketSize
                /\ Vetting!VetMint(mint)
                /\ \A i \in Vetting!Walked(mint) : mint.ext[i].type = "transferFee"
                      => mint.ext[i].older <= KeeperMaxFee /\ mint.ext[i].newer <= KeeperMaxFee
             THEN {"left out"} ELSE {}
    BY DEF Vetting!Buy, Vetting!Coin
  <2> SUFFICES ASSUME NEW i \in DOMAIN listing, listing[i].mint = "coin", listing[i].status = "graduated",
                      listing[i].liquidity = <<>>, "coin" \notin Vetting!Select(listing),
                      Vetting!Cardinality(Vetting!Select(listing)) < BasketSize, Len(listing) <= 2 * BasketSize,
                      Vetting!VetMint(mint),
                      \A k \in Vetting!Walked(mint) : mint.ext[k].type = "transferFee"
                         => mint.ext[k].older <= KeeperMaxFee /\ mint.ext[k].newer <= KeeperMaxFee
               PROVE  FALSE
    BY <2>1 DEF VetIInv
  <2>2. i \in Vetting!Asked(listing)
    <3>1. PICK S : listing \in Seq(S)
      BY DEF VetConstants
    <3>2. i \in 1 .. Len(listing) /\ Len(listing) \in Nat /\ BasketSize \in Nat
      BY <3>1, LenProperties DEF VetConstants
    <3>3. i <= 2 * BasketSize
      BY <3>2
    <3>4. QED
      BY <3>3 DEF Vetting!Asked
  <2>3. Vetting!Passes(listing[i])
    BY DEF Vetting!Passes, VetConstants
  <2>4. Vetting!VetMintData(mint, KeeperMaxFee)
    BY ProgramThenKeeper DEF VetIInv, VetTypes
  <2>5. Cardinality(Vetting!Select(listing)) = BasketSize
    BY <2>2, <2>3, <2>4, VettedIsChosen
  <2>6. QED
    BY <2>5, VettingCounts DEF VetConstants
<1>3. Vetting!Walked(mint)' = Vetting!Walked(mint)
  BY <1>1 DEF Vetting!Walked
<1>4. QED
  BY <1>1, <1>2, <1>3 DEF VetIInv, VetTypes, StaysPayable

(* The keeper reserves what passes its vetting now.                        *)
LEMMA ReserveIInv ==
    ASSUME VetIInv, Vetting!Reserve
    PROVE  VetIInv'
<1>1. UNCHANGED <<mint, epoch, bought, opened, wrong>> /\ bought
  BY DEF Vetting!Reserve, VetIInv, VetTypes
<1>2. reserved' = Vetting!VetMintData(mint, KeeperMaxFee) /\ reserved' \in BOOLEAN /\ changed' = FALSE
  BY DEF Vetting!Reserve, Vetting!VetMintData
<1>3. Vetting!Walked(mint)' = Vetting!Walked(mint)
  BY <1>1 DEF Vetting!Walked
<1>4. Vetting!VetMintData(mint, KeeperMaxFee)' = Vetting!VetMintData(mint, KeeperMaxFee)
  BY <1>1, <1>3 DEF Vetting!VetMintData
<1>5. QED
  BY <1>1, <1>2, <1>3, <1>4 DEF VetIInv, VetTypes, StaysPayable

(* Opening: the program refuses only what changed since it was reserved. *)
LEMMA OpenIInv ==
    ASSUME VetConstants, VetIInv, Vetting!Open
    PROVE  VetIInv'
<1>1. UNCHANGED <<mint, epoch, bought, reserved, changed>> /\ reserved
  BY DEF Vetting!Open, VetIInv, VetTypes
<1>2. Vetting!Walked(mint)' = Vetting!Walked(mint)
  BY <1>1 DEF Vetting!Walked
<1>3. Vetting!VetMintData(mint, KeeperMaxFee)' = Vetting!VetMintData(mint, KeeperMaxFee)
  BY <1>1, <1>2 DEF Vetting!VetMintData
<1>4. CASE Vetting!VetMint(mint)
  <2>1. opened' = <<epoch>> /\ wrong' = {} /\ epoch \in Nat
    BY <1>4 DEF Vetting!Open, VetIInv, VetTypes
  <2>2. ~mint.freeze
    BY <1>4 DEF Vetting!VetMint
  <2>3. ASSUME NEW i \in Vetting!Walked(mint)
        PROVE  StaysPayable(mint.ext[i])'
    <3>1. PICK e \in Entries : e = mint.ext[i]
      BY WalkedAre DEF VetIInv, VetTypes
    <3>2. Vetting!ProgramEntryOk(e)
      <4>1. mint.ext # <<>>
        BY <2>3 DEF Vetting!Walked
      <4>2. mint.size # "base"
        BY <4>1 DEF VetIInv, VetTypes, MintAccounts
      <4>3. QED
        BY <1>4, <3>1, <4>2 DEF Vetting!VetMint
    <3>3. /\ e.type = "transferHook" => e.full /\ ~e.program /\ ~e.authority
          /\ e.type = "defaultState" => ~e.frozen
          /\ e.type = "transferFee" => e.older <= MaxTransferFeeBps /\ e.newer <= MaxTransferFeeBps
      BY <3>2 DEF Vetting!ProgramEntryOk, Vetting!Allowed
    <3>4. mint'.ext[i] = e
      BY <1>1, <3>1
    <3>5. QED
      BY <3>3, <3>4 DEF StaysPayable
  <2>4. VetTypes'
    <3>1. opened' # <<>> /\ opened'[1] = epoch
      BY <2>1
    <3>2. epoch \in 0 .. epoch'
      BY <1>1, <2>1
    <3>3. QED
      BY <1>1, <3>1, <3>2 DEF VetIInv, VetTypes
  <2>5. QED
    BY <1>1, <1>2, <1>3, <2>1, <2>2, <2>3, <2>4 DEF VetIInv
<1>5. CASE ~Vetting!VetMint(mint)
  <2>1. changed
    BY <1>1, <1>5, KeeperThenProgram DEF VetIInv, VetTypes
  <2>2. UNCHANGED <<wrong, opened>>
    BY <1>5, <2>1 DEF Vetting!Open
  <2>3. QED
    BY <1>1, <1>2, <2>1, <2>2 DEF VetIInv, VetTypes, StaysPayable
<1>6. QED
  BY <1>4, <1>5

----------------------------------------------------------------------------
(* What an authority may do to an entry the program accepted at open. *)
TouchedLike(e, f) ==
    /\ f \in Entries /\ f.type = e.type
    /\ opened # <<>> /\ StaysPayable(e) => StaysPayable(f)

(* An authority's step keeps the invariant when each entry it rewrites     *)
(* keeps its type and what the program saw of it.                          *)
LEMMA ChangesIInv ==
    ASSUME VetIInv, Vetting!Changes, NEW ext, NEW freeze \in BOOLEAN, freeze => mint.freeze,
           mint' = [mint EXCEPT !.ext = ext, !.freeze = freeze],
           DOMAIN ext = DOMAIN mint.ext, ext = [i \in DOMAIN mint.ext |-> ext[i]],
           \A i \in DOMAIN mint.ext : TouchedLike(mint.ext[i], ext[i])
    PROVE  VetIInv'
<1>1. UNCHANGED <<epoch, bought, reserved, opened, wrong>> /\ changed' = TRUE
  BY DEF Vetting!Changes
<1>2. mint \in [owner : STRING, size : STRING, initialized : BOOLEAN, freeze : BOOLEAN, ext : Seq(Entries)]
      /\ (mint.size = "base" => mint.ext = <<>>)
  BY DEF VetIInv, VetTypes, MintAccounts
<1>3. mint'.ext = ext /\ mint'.freeze = freeze /\ mint'.size = mint.size
  BY <1>2
<1>4. ext \in Seq(Entries)
  <2>1. PICK n \in Nat : DOMAIN mint.ext = 1 .. n
    BY <1>2, LenProperties
  <2>2. ext \in [1 .. n -> Entries]
    BY <2>1 DEF TouchedLike
  <2>3. QED
    BY <2>2, IsASeq
<1>5. mint.size = "base" => ext = <<>>
  <2> SUFFICES ASSUME mint.ext = <<>>
               PROVE  ext = <<>>
    BY <1>2
  <2>1. DOMAIN ext = {}
    OBVIOUS
  <2>2. Len(ext) = 0
    BY <1>4, <2>1, LenProperties
  <2>3. QED
    BY <1>4, <2>2, EmptySeq
<1>6. mint' \in MintAccounts
  BY <1>2, <1>3, <1>4, <1>5 DEF MintAccounts
<1>7. Vetting!Walked(mint)' = Vetting!Walked(mint)
  <2>1. \A i \in DOMAIN mint.ext : \A j \in 1 .. i : j \in DOMAIN mint.ext
    <3>1. PICK n \in Nat : DOMAIN mint.ext = 1 .. n
      BY <1>2, LenProperties
    <3>2. QED
      BY <3>1
  <2>2. \A i \in DOMAIN mint.ext : ext[i].type = mint.ext[i].type
    BY DEF TouchedLike
  <2>3. \A i \in DOMAIN mint.ext :
           (\A j \in 1 .. i : ext[j].type # "uninitialized")
               <=> (\A j \in 1 .. i : mint.ext[j].type # "uninitialized")
    BY <2>1, <2>2
  <2>4. QED
    BY <1>3, <2>3 DEF Vetting!Walked
<1>8. opened # <<>> => ~mint'.freeze /\ \A i \in Vetting!Walked(mint) : StaysPayable(ext[i])
  BY <1>3 DEF VetIInv, TouchedLike, Vetting!Walked
<1>9. VetTypes'
  BY <1>1, <1>6 DEF VetIInv, VetTypes
<1>10. QED
  BY <1>1, <1>3, <1>7, <1>8, <1>9 DEF VetIInv, StaysPayable

(* The entries of one type that the token program finds, rewritten.        *)
LEMMA RewriteIInv ==
    ASSUME VetIInv, Vetting!Changes, NEW found \in SUBSET DOMAIN mint.ext, NEW new,
           mint' = [mint EXCEPT !.ext = [i \in DOMAIN mint.ext |-> IF i \in found THEN new[i] ELSE mint.ext[i]]],
           \A i \in found : TouchedLike(mint.ext[i], new[i])
    PROVE  VetIInv'
<1> DEFINE ext == [i \in DOMAIN mint.ext |-> IF i \in found THEN new[i] ELSE mint.ext[i]]
<1>1. mint \in [owner : STRING, size : STRING, initialized : BOOLEAN, freeze : BOOLEAN, ext : Seq(Entries)]
  BY DEF VetIInv, VetTypes, MintAccounts
<1>2. \A i \in DOMAIN mint.ext : mint.ext[i] \in Entries
  BY <1>1, ElementOfSeq, LenProperties
<1>3. \A i \in DOMAIN mint.ext : TouchedLike(mint.ext[i], ext[i])
  BY <1>2 DEF TouchedLike
<1>4. DOMAIN ext = DOMAIN mint.ext /\ ext = [i \in DOMAIN mint.ext |-> ext[i]]
  OBVIOUS
<1> HIDE DEF ext
<1>5. mint' = [mint EXCEPT !.ext = ext]
  BY DEF ext
<1>6. mint' = [mint EXCEPT !.ext = ext, !.freeze = mint.freeze] /\ mint.freeze \in BOOLEAN
  BY <1>1, <1>5
<1>7. QED
  BY <1>3, <1>4, <1>6, ChangesIInv

(* Entries that are found are entries of their type that the walk reaches. *)
LEMMA FoundAre ==
    ASSUME VetIInv, NEW type, NEW i \in Vetting!Found(type)
    PROVE  /\ i \in DOMAIN mint.ext /\ i \in Vetting!Walked(mint)
           /\ mint.ext[i] \in Entries /\ mint.ext[i].type = type
BY WalkedAre DEF Vetting!Found, VetIInv, VetTypes

(* Open refused every mint that could still be given a hook.               *)
LEMMA SetHookIInv ==
    ASSUME VetIInv, Vetting!SetHook
    PROVE  VetIInv'
<1> DEFINE found == Vetting!Found("transferHook")
           new == [i \in found |-> [mint.ext[i] EXCEPT !.program = TRUE]]
<1>1. found \subseteq DOMAIN mint.ext /\ Vetting!Changes
  BY FoundAre DEF Vetting!SetHook
<1>2. mint' = [mint EXCEPT !.ext = [i \in DOMAIN mint.ext |-> IF i \in found THEN new[i] ELSE mint.ext[i]]]
  BY DEF Vetting!SetHook, Vetting!Rewrite
<1>3. opened = <<>>
  <2>1. PICK i \in found : mint.ext[i].authority
    BY DEF Vetting!SetHook
  <2>2. i \in Vetting!Walked(mint) /\ mint.ext[i].type = "transferHook"
    BY FoundAre
  <2>3. QED
    BY <2>1, <2>2 DEF VetIInv, StaysPayable
<1>4. ASSUME NEW i \in found
      PROVE  TouchedLike(mint.ext[i], new[i])
  <2>1. mint.ext[i] \in Hooks
    BY FoundAre, EntryFields
  <2>2. new[i] \in Hooks
    BY <2>1 DEF Hooks
  <2>3. QED
    BY <1>3, <2>1, <2>2 DEF TouchedLike, Entries, Hooks
<1> HIDE DEF found, new
<1>5. QED
  BY <1>1, <1>2, <1>4, RewriteIInv

(* The default state changes only while there is a freeze authority.       *)
LEMMA SetDefaultStateIInv ==
    ASSUME VetIInv, Vetting!SetDefaultState
    PROVE  VetIInv'
<1> DEFINE found == Vetting!Found("defaultState")
           new == [i \in found |-> [mint.ext[i] EXCEPT !.frozen = ~@]]
<1>1. found \subseteq DOMAIN mint.ext /\ Vetting!Changes /\ opened = <<>>
  BY FoundAre DEF Vetting!SetDefaultState, VetIInv
<1>2. mint' = [mint EXCEPT !.ext = [i \in DOMAIN mint.ext |-> IF i \in found THEN new[i] ELSE mint.ext[i]]]
  BY DEF Vetting!SetDefaultState, Vetting!Rewrite
<1>4. ASSUME NEW i \in found
      PROVE  TouchedLike(mint.ext[i], new[i])
  <2>1. mint.ext[i] \in Defaults
    BY FoundAre, EntryFields
  <2>2. new[i] \in Defaults
    BY <2>1 DEF Defaults
  <2>3. QED
    BY <1>1, <2>1, <2>2 DEF TouchedLike, Entries, Defaults
<1> HIDE DEF found, new
<1>5. QED
  BY <1>1, <1>2, <1>4, RewriteIInv

(* A fee set after the open takes force two epochs after it at the soonest. *)
LEMMA SetFeeIInv ==
    ASSUME VetConstants, VetIInv, Vetting!SetFee
    PROVE  VetIInv'
<1> DEFINE found == Vetting!Found("transferFee")
           Scheduled(e, fee) == [e EXCEPT !.older = IF epoch >= e.from THEN e.newer ELSE e.older,
                                          !.newer = fee, !.from = epoch + 2]
<1>1. found \subseteq DOMAIN mint.ext /\ Vetting!Changes
  BY FoundAre DEF Vetting!SetFee
<1>2. PICK fee \in CoinFees :
         mint' = [mint EXCEPT !.ext = [i \in DOMAIN mint.ext |->
                    IF i \in found THEN Scheduled(mint.ext[i], fee) ELSE mint.ext[i]]]
  BY DEF Vetting!SetFee, Vetting!Rewrite
<1> DEFINE new == [i \in found |-> Scheduled(mint.ext[i], fee)]
<1>3. mint' = [mint EXCEPT !.ext = [i \in DOMAIN mint.ext |-> IF i \in found THEN new[i] ELSE mint.ext[i]]]
  BY <1>2
<1>4. ASSUME NEW i \in found
      PROVE  TouchedLike(mint.ext[i], new[i])
  <2>1. PICK e \in FeesOf : e = mint.ext[i]
    BY FoundAre, EntryFields
  <2>2. PICK f : f = Scheduled(e, fee)
    OBVIOUS
  <2>3. epoch \in Nat /\ (opened # <<>> => opened[1] \in 0 .. epoch) /\ fee \in Nat
    BY DEF VetIInv, VetTypes, VetConstants
  <2>4. /\ f \in FeesOf /\ f.newer = fee /\ f.from = epoch + 2
        /\ f.older = IF epoch >= e.from THEN e.newer ELSE e.older
    <3>1. PICK a : a = IF epoch >= e.from THEN e.newer ELSE e.older
      OBVIOUS
    <3>2. PICK b : b = epoch + 2
      OBVIOUS
    <3>3. a \in Nat /\ b \in Nat
      BY <2>1, <2>3, <3>1, <3>2 DEF FeesOf
    <3>4. f = [e EXCEPT !.older = a, !.newer = fee, !.from = b]
      BY <2>2, <3>1, <3>2
    <3>5. f \in FeesOf /\ f.newer = fee /\ f.from = b /\ f.older = a
      BY <2>1, <2>3, <3>3, <3>4 DEF FeesOf
    <3>6. QED
      BY <3>1, <3>2, <3>5
  <2>5. e.type = "transferFee" /\ e.older \in Nat /\ e.newer \in Nat /\ e.from \in Nat
    BY <2>1 DEF FeesOf
  <2>6. ASSUME opened # <<>>, StaysPayable(e)
        PROVE  StaysPayable(f)
    BY <2>3, <2>4, <2>5, <2>6 DEF StaysPayable, FeesOf
  <2>7. new[i] = f
    BY <2>1, <2>2
  <2>8. QED
    BY <2>1, <2>4, <2>5, <2>6, <2>7 DEF TouchedLike, Entries, FeesOf
<1> HIDE DEF found, new
<1>5. QED
  BY <1>1, <1>3, <1>4, RewriteIInv

(* Giving an authority up makes no entry worse.                            *)
LEMMA GiveUpIInv ==
    ASSUME VetIInv, Vetting!GiveUpAuthority
    PROVE  VetIInv'
<1>1. Vetting!Changes
  BY DEF Vetting!GiveUpAuthority
<1>2. CASE mint.freeze /\ mint' = [mint EXCEPT !.freeze = FALSE]
  <2>1. mint \in [owner : STRING, size : STRING, initialized : BOOLEAN, freeze : BOOLEAN, ext : Seq(Entries)]
    BY DEF VetIInv, VetTypes, MintAccounts
  <2>2. mint' = [mint EXCEPT !.ext = mint.ext, !.freeze = FALSE]
    BY <1>2, <2>1
  <2>3. \A i \in DOMAIN mint.ext : mint.ext[i] \in Entries
    BY <2>1, ElementOfSeq, LenProperties
  <2>4. mint.ext = [i \in DOMAIN mint.ext |-> mint.ext[i]]
    BY <2>1
  <2>5. QED
    BY <1>1, <2>2, <2>3, <2>4, ChangesIInv DEF TouchedLike
<1>3. ASSUME Vetting!Rewrite("closeAuthority", LAMBDA e : [e EXCEPT !.set = FALSE])
      PROVE  VetIInv'
  <2> DEFINE found == Vetting!Found("closeAuthority")
             new == [i \in found |-> [mint.ext[i] EXCEPT !.set = FALSE]]
  <2>1. found \subseteq DOMAIN mint.ext
    BY FoundAre
  <2>2. mint' = [mint EXCEPT !.ext = [i \in DOMAIN mint.ext |-> IF i \in found THEN new[i] ELSE mint.ext[i]]]
    BY <1>3 DEF Vetting!Rewrite
  <2>3. ASSUME NEW i \in found
        PROVE  TouchedLike(mint.ext[i], new[i])
    <3>1. mint.ext[i] \in Closers
      BY FoundAre, EntryFields
    <3>2. new[i] \in Closers
      BY <3>1 DEF Closers
    <3>3. QED
      BY <3>1, <3>2 DEF TouchedLike, Entries, Closers, StaysPayable
  <2> HIDE DEF found, new
  <2>4. QED
    BY <1>1, <2>1, <2>2, <2>3, RewriteIInv
<1>4. ASSUME Vetting!Rewrite("transferHook", LAMBDA e : [e EXCEPT !.authority = FALSE])
      PROVE  VetIInv'
  <2> DEFINE found == Vetting!Found("transferHook")
             new == [i \in found |-> [mint.ext[i] EXCEPT !.authority = FALSE]]
  <2>1. found \subseteq DOMAIN mint.ext
    BY FoundAre
  <2>2. mint' = [mint EXCEPT !.ext = [i \in DOMAIN mint.ext |-> IF i \in found THEN new[i] ELSE mint.ext[i]]]
    BY <1>4 DEF Vetting!Rewrite
  <2>3. ASSUME NEW i \in found
        PROVE  TouchedLike(mint.ext[i], new[i])
    <3>1. PICK e \in Hooks : e = mint.ext[i]
      BY FoundAre, EntryFields
    <3>2. PICK f : f = [e EXCEPT !.authority = FALSE]
      OBVIOUS
    <3>3. f \in Hooks /\ f.full = e.full /\ f.program = e.program /\ f.authority = FALSE
      BY <3>1, <3>2 DEF Hooks
    <3>4. new[i] = f
      BY <3>1, <3>2
    <3>5. QED
      BY <3>1, <3>3, <3>4 DEF TouchedLike, Entries, Hooks, StaysPayable
  <2> HIDE DEF found, new
  <2>4. QED
    BY <1>1, <2>1, <2>2, <2>3, RewriteIInv
<1>5. QED
  BY <1>2, <1>3, <1>4 DEF Vetting!GiveUpAuthority

(* What takes force within two epochs of open, open has seen.              *)
LEMMA NextEpochIInv ==
    ASSUME VetConstants, VetIInv, Vetting!NextEpoch
    PROVE  VetIInv'
<1>1. UNCHANGED <<mint, bought, reserved, changed, opened, wrong>> /\ epoch < MaxEpoch /\ epoch' = epoch + 1
  BY DEF Vetting!NextEpoch
<1>2. epoch \in Nat /\ MaxEpoch \in Nat /\ (opened # <<>> => opened[1] \in 0 .. epoch)
  BY DEF VetIInv, VetTypes, VetConstants
<1>3. epoch' \in 0 .. MaxEpoch /\ (opened # <<>> => opened[1] \in 0 .. epoch')
  BY <1>1, <1>2
<1>4. Vetting!Walked(mint)' = Vetting!Walked(mint)
  BY <1>1 DEF Vetting!Walked
<1>5. Vetting!VetMintData(mint, KeeperMaxFee)' = Vetting!VetMintData(mint, KeeperMaxFee)
  BY <1>1, <1>4 DEF Vetting!VetMintData
<1>6. ASSUME NEW i \in Vetting!Walked(mint), opened # <<>>, StaysPayable(mint.ext[i])
      PROVE  StaysPayable(mint.ext[i])'
  <2>1. epoch' < opened[1] + 2 => epoch < opened[1] + 2
    BY <1>1, <1>2, <1>6
  <2>2. QED
    BY <1>1, <1>6, <2>1 DEF StaysPayable
<1>7. QED
  BY <1>1, <1>3, <1>4, <1>5, <1>6 DEF VetIInv, VetTypes

(* Every step of the vetting.                                               *)
LEMMA VetNextIInv == VetConstants /\ VetIInv /\ [Vetting!Next]_vetVars => VetIInv'
<1> SUFFICES ASSUME VetConstants, VetIInv, [Vetting!Next]_vetVars
             PROVE  VetIInv'
  OBVIOUS
<1>1. CASE UNCHANGED vetVars
  <2>1. UNCHANGED <<mint, epoch, bought, reserved, changed, opened, wrong>>
    BY <1>1 DEF vetVars
  <2>2. Vetting!Walked(mint)' = Vetting!Walked(mint)
    BY <2>1 DEF Vetting!Walked
  <2>3. Vetting!VetMintData(mint, KeeperMaxFee)' = Vetting!VetMintData(mint, KeeperMaxFee)
    BY <2>1, <2>2 DEF Vetting!VetMintData
  <2>4. QED
    BY <2>1, <2>2, <2>3 DEF VetIInv, VetTypes, StaysPayable
<1>2. CASE Vetting!Next
  BY <1>2, BuyIInv, ReserveIInv, OpenIInv, SetHookIInv, SetDefaultStateIInv, SetFeeIInv, GiveUpIInv, NextEpochIInv
     DEF Vetting!Next
<1>3. QED
  BY <1>1, <1>2

(* What the invariant says of vetting and of paying. *)
LEMMA VetIInvImplies ==
    ASSUME VetConstants, VetIInv
    PROVE  Vetting!VettingAgrees /\ Vetting!OpenedStaysPayable
<1>1. Vetting!VettingAgrees
  <2>1. DOMAIN mint = {"owner", "size", "initialized", "freeze", "ext"}
    BY DEF VetIInv, VetTypes, MintAccounts
  <2>2. QED
    BY <2>1 DEF VetIInv, VetTypes, Vetting!VettingAgrees, Vetting!TypeOK
<1>2. ASSUME opened # <<>>, NEW i \in Vetting!Walked(mint)
      PROVE  /\ mint.ext[i].type = "transferHook" => ~mint.ext[i].program
             /\ mint.ext[i].type = "defaultState" => ~mint.ext[i].frozen
             /\ mint.ext[i].type = "transferFee" /\ epoch < opened[1] + 2
                   => Vetting!FeeInForce(mint.ext[i]) <= MaxTransferFeeBps
  <2>1. PICK e \in Entries : e = mint.ext[i]
    BY WalkedAre DEF VetIInv, VetTypes
  <2>2. StaysPayable(e)
    BY <1>2, <2>1 DEF VetIInv
  <2>3. epoch \in Nat /\ opened[1] \in Nat
    BY <1>2 DEF VetIInv, VetTypes
  <2>4. e.type = "transferFee" => e.older \in Nat /\ e.newer \in Nat /\ e.from \in Nat
    BY EntryFields DEF FeesOf
  <2>5. e.type = "transferFee" /\ epoch < opened[1] + 2 => Vetting!FeeInForce(e) <= MaxTransferFeeBps
    BY <2>2, <2>3, <2>4 DEF StaysPayable, Vetting!FeeInForce
  <2>6. QED
    BY <2>1, <2>2, <2>5 DEF StaysPayable
<1>3. QED
  BY <1>1, <1>2 DEF VetIInv, Vetting!OpenedStaysPayable

(* The invariant of the vetting.                                            *)
LEMMA VetInductive ==
    ASSUME VetConstants
    PROVE  RoundDataSpec => [](part = "vet" => VetIInv)
<1> DEFINE Inv == part = "vet" => VetIInv
           all == <<part, pageVars, vetVars, swapVars, splitVars, vars, verifyVars, triggerVars>>
<1>1. RoundDataInit => Inv
  BY VetInitIInv DEF RoundDataInit
<1>2. Inv /\ [RoundDataNext]_all => Inv'
  <2> SUFFICES ASSUME Inv, [RoundDataNext]_all, part' = "vet"
               PROVE  VetIInv'
    OBVIOUS
  <2>1. part = "vet" /\ [Vetting!Next]_vetVars
    BY DEF RoundDataNext
  <2>2. QED
    BY <2>1, VetNextIInv
<1>3. QED
  BY <1>1, <1>2, PTL DEF RoundDataSpec

(***************************************************************************)
(* For any mints, listings and fee authorities: the keeper reserves no     *)
(* mint the program refuses unless the mint changed since its last look,   *)
(* and leaves out of the basket none that the program would take at the    *)
(* keeper's fee cap (basket.ts 31-59, tokens.ts 62-68).                    *)
(***************************************************************************)
THEOREM VettingsAgree ==
    ASSUME VetConstants
    PROVE  RoundDataSpec => []VettingAgrees
<1>1. (part = "vet" => VetIInv) => VettingAgrees
  BY VetIInvImplies DEF VettingAgrees
<1>2. QED
  BY <1>1, VetInductive, PTL

(***************************************************************************)
(* For any mints and whatever their authorities do: an asset that was      *)
(* opened is never frozen nor hooked, and its transfer fee stays within    *)
(* the program's cap for two epochs (token_utils.rs 122-143).              *)
(***************************************************************************)
THEOREM OpenedIsPayable ==
    ASSUME VetConstants
    PROVE  RoundDataSpec => []OpenedStaysPayable
<1>1. (part = "vet" => VetIInv) => OpenedStaysPayable
  BY VetIInvImplies DEF OpenedStaysPayable
<1>2. QED
  BY <1>1, VetInductive, PTL

----------------------------------------------------------------------------
(* The pages of holders (HolderPages). *)

(* What the proofs about pages ask of the constants. *)
PageConstants ==
    /\ TokenAccounts \subseteq Nat \ {0} /\ IsFiniteSet(TokenAccounts)
    /\ Supply \in Nat /\ MaxSlot \in Nat \ {0} /\ Lag \in Nat
    /\ PageSize \in Nat \ {0} /\ MaxPages \in Nat

HolderRow == [address : TokenAccounts, amount : 1 .. Supply]

SeenSince(s, row) == \E t \in s .. Len(history) : row.amount = history[t][row.address]
HeldSince(s, a) == \A t \in s .. Len(history) : history[t][a] > 0

(* A snapshot that is true to the slot it names. *)
ListingTrue(s, listed) ==
    /\ listed \in Seq(HolderRow)
    /\ \A i \in DOMAIN listed : SeenSince(s, listed[i])
    /\ Cardinality({listed[i].address : i \in DOMAIN listed}) = Len(listed)
    /\ \A a \in TokenAccounts : HeldSince(s, a) => \E i \in DOMAIN listed : listed[i].address = a

PageTypes ==
    /\ history \in Seq(Paging!Balances) /\ Len(history) \in 1 .. MaxSlot
    /\ rows \in Seq(HolderRow) /\ cursor \in TokenAccounts \cup {0}
    /\ slot \in 0 .. Len(history) /\ page \in 0 .. MaxPages

(* A fetch is true to its slot as far as its cursor has come. *)
FetchTrue ==
    /\ page = 0 => rows = <<>> /\ cursor = 0 /\ slot = 0
    /\ slot > 0 => /\ \A i \in DOMAIN rows : SeenSince(slot, rows[i])
                   /\ \A a \in TokenAccounts :
                         a <= cursor /\ HeldSince(slot, a) => \E i \in DOMAIN rows : rows[i].address = a

ResultTrue ==
    \/ result \in {<<>>, <<"error">>}
    \/ \E s \in 1 .. Len(history), listed \in Seq(HolderRow) : result = <<s, listed>> /\ ListingTrue(s, listed)

PagesIInv == PageTypes /\ FetchTrue /\ ResultTrue

----------------------------------------------------------------------------
(* The operators of HolderPages. *)

(* The operators the module of pages takes from the libraries are the same. *)
LEMMA PagingCounts == ASSUME NEW S PROVE Paging!Cardinality(S) = Cardinality(S)
BY DEF Paging!Cardinality, Cardinality

(* So is a rank.                                                            *)
LEMMA PagingRank == ASSUME NEW S, NEW a PROVE Paging!Cardinality({b \in S : b <= a}) = RankIn(S, a)
BY PagingCounts DEF RankIn

(* So is a sum.                                                             *)
LEMMA PagingSums == ASSUME NEW f, NEW S PROVE Paging!SumFunctionOnSet(f, S) = SumFunctionOnSet(f, S)
BY DEF Paging!SumFunctionOnSet, SumFunctionOnSet, Paging!FoldFunctionOnSet, FoldFunctionOnSet,
       Paging!MapThenFoldSet, MapThenFoldSet

(* The i-th of a finite set of addresses has i of them up to itself. *)
LEMMA RankedIs ==
    ASSUME NEW S, S \subseteq Int, IsFiniteSet(S)
    PROVE  /\ \A i \in 1 .. Cardinality(S) : Paging!Ranked(S, i) \in S /\ RankIn(S, Paging!Ranked(S, i)) = i
           /\ \A a \in S : RankIn(S, a) \in 1 .. Cardinality(S) /\ Paging!Ranked(S, RankIn(S, a)) = a
<1>1. ASSUME NEW i \in 1 .. Cardinality(S)
      PROVE  Paging!Ranked(S, i) \in S /\ RankIn(S, Paging!Ranked(S, i)) = i
  <2>1. \E a \in S : Paging!Cardinality({b \in S : b <= a}) = i
    <3>1. PICK a \in S : RankIn(S, a) = i
      BY RanksCount
    <3>2. Paging!Cardinality({b \in S : b <= a}) = RankIn(S, a)
      BY PagingRank
    <3>3. QED
      BY <3>1, <3>2
  <2>2. Paging!Ranked(S, i) \in S /\ Paging!Cardinality({b \in S : b <= Paging!Ranked(S, i)}) = i
    BY <2>1 DEF Paging!Ranked
  <2>3. QED
    BY <2>2, PagingRank
<1>2. ASSUME NEW a \in S
      PROVE  RankIn(S, a) \in 1 .. Cardinality(S) /\ Paging!Ranked(S, RankIn(S, a)) = a
  <2>1. RankIn(S, a) \in 1 .. Cardinality(S)
    BY RanksCount
  <2>2. Paging!Ranked(S, RankIn(S, a)) \in S /\ RankIn(S, Paging!Ranked(S, RankIn(S, a))) = RankIn(S, a)
    BY <1>1, <2>1
  <2>3. QED
    BY <2>1, <2>2, RanksCount
<1>3. QED
  BY <1>1, <1>2

(* A finite set of numbers has a greatest. *)
LEMMA GreatestIn ==
    ASSUME NEW S, S \subseteq Int, IsFiniteSet(S), S # {}
    PROVE  \E g \in S : \A b \in S : b <= g
<1>1. Cardinality(S) \in 1 .. Cardinality(S)
  BY FS_CardinalityType, FS_EmptySet
<1>2. PICK g \in S : RankIn(S, g) = Cardinality(S)
  BY <1>1, RanksCount
<1> DEFINE Upto == {b \in S : b <= g}
<1>3. Cardinality(Upto) = Cardinality(S) /\ Upto \subseteq S
  BY <1>2 DEF RankIn
<1>4. Upto = S
  <2> HIDE DEF Upto
  <2>1. QED
    BY <1>3, FS_Subset
<1>5. QED
  BY <1>4

(* The row kept for an address is one of its rows that are not empty. *)
LEMMA LastRowIs ==
    ASSUME NEW fetched, DOMAIN fetched \subseteq Int, IsFiniteSet(DOMAIN fetched),
           NEW a \in Paging!Held(fetched)
    PROVE  \E k \in DOMAIN fetched : /\ Paging!LastRow(fetched, a) = fetched[k] /\ fetched[k].address = a
                                    /\ fetched[k].amount > 0
<1> DEFINE N == Paging!NonEmpty(fetched)
           S == {i \in N : fetched[i].address = a}
<1>1. /\ N \subseteq DOMAIN fetched /\ \A i \in N : fetched[i].amount > 0
      /\ S \subseteq Int /\ IsFiniteSet(S) /\ S # {}
  <2>1. N \subseteq DOMAIN fetched /\ \A i \in N : fetched[i].amount > 0
    BY DEF Paging!NonEmpty
  <2>2. \E i \in N : fetched[i].address = a
    BY DEF Paging!Held
  <2> HIDE DEF N
  <2>3. S \subseteq Int /\ S \subseteq DOMAIN fetched /\ S # {}
    BY <2>1, <2>2
  <2>4. QED
    BY <2>1, <2>3, FS_Subset
<1> HIDE DEF N
<1>2. \E g \in S : \A b \in S : b <= g
  <2> HIDE DEF S
  <2>1. QED
    BY <1>1, GreatestIn
<1>3. \E i \in N : fetched[i].address = a /\ \A b \in N : fetched[b].address = a => b <= i
  BY <1>2
<1>4. PICK k \in N : Paging!LastRow(fetched, a) = fetched[k] /\ fetched[k].address = a
  BY <1>3 DEF Paging!LastRow, N
<1>5. QED
  BY <1>1, <1>4

(***************************************************************************)
(* finalizeRows: rows that were fetched, each address once, and every      *)
(* address whose rows all hold something.                                  *)
(***************************************************************************)
FinalizedTo(fetched, l) ==
    /\ l \in Seq(HolderRow)
    /\ \A i \in DOMAIN l : \E k \in DOMAIN fetched : l[i] = fetched[k]
    /\ Cardinality({l[i].address : i \in DOMAIN l}) = Len(l)
    /\ \A a \in TokenAccounts :
          /\ \E k \in DOMAIN fetched : fetched[k].address = a
          /\ \A k \in DOMAIN fetched : fetched[k].address = a => fetched[k].amount > 0
          => \E i \in DOMAIN l : l[i].address = a

(* What finalizeRows returns is as FinalizedTo says.                        *)
LEMMA FinalizedIs ==
    ASSUME PageConstants, NEW fetched, DOMAIN fetched \subseteq Int, IsFiniteSet(DOMAIN fetched),
           \A k \in DOMAIN fetched : fetched[k] \in [address : TokenAccounts, amount : 0 .. Supply],
           NEW l, l = Paging!FinalizeRows(fetched)
    PROVE  FinalizedTo(fetched, l)
<1> DEFINE H == Paging!Held(fetched)
           n == Cardinality(H)
<1>1. H \subseteq TokenAccounts /\ H \subseteq Int /\ IsFiniteSet(H) /\ n \in Nat
  <2>1. H \subseteq TokenAccounts
    BY DEF Paging!Held, Paging!NonEmpty
  <2> HIDE DEF H
  <2>2. IsFiniteSet(TokenAccounts) /\ TokenAccounts \subseteq Nat
    BY DEF PageConstants
  <2>3. IsFiniteSet(H)
    BY <2>1, <2>2, FS_Subset
  <2>4. QED
    BY <2>1, <2>2, <2>3, FS_CardinalityType
<1>2. ASSUME NEW a \in H
      PROVE  \E k \in DOMAIN fetched : /\ Paging!LastRow(fetched, a) = fetched[k] /\ fetched[k].address = a
                          /\ fetched[k].amount > 0
  BY LastRowIs
<1>3. /\ DOMAIN l = 1 .. n
      /\ \A i \in 1 .. n : l[i] = Paging!LastRow(fetched, Paging!Ranked(H, i))
      /\ l = [i \in 1 .. n |-> l[i]]
  BY PagingCounts DEF Paging!FinalizeRows
<1> HIDE DEF H, n
<1>4. ASSUME NEW i \in 1 .. n
      PROVE  \E k \in DOMAIN fetched : /\ l[i] = fetched[k] /\ fetched[k].address = Paging!Ranked(H, i)
                          /\ fetched[k].amount > 0
  <2>1. Paging!Ranked(H, i) \in H
    BY <1>1, RankedIs DEF n
  <2>2. QED
    BY <1>2, <1>3, <2>1
<1>5. \A i \in 1 .. n : l[i] \in HolderRow
  <2> SUFFICES ASSUME NEW i \in 1 .. n
               PROVE  l[i] \in HolderRow
    OBVIOUS
  <2>1. PICK k \in DOMAIN fetched : l[i] = fetched[k] /\ fetched[k].amount > 0
    BY <1>4
  <2>2. PICK row \in [address : TokenAccounts, amount : 0 .. Supply] : row = fetched[k]
    OBVIOUS
  <2>3. row.amount \in 1 .. Supply
    BY <2>1, <2>2 DEF PageConstants
  <2>4. QED
    BY <2>1, <2>2, <2>3 DEF HolderRow
<1>6. l \in Seq(HolderRow) /\ Len(l) = n
  <2>1. l \in [1 .. n -> HolderRow]
    BY <1>3, <1>5
  <2>2. l \in Seq(HolderRow)
    BY <1>1, <2>1, IsASeq
  <2>3. QED
    BY <1>1, <1>3, <2>2, LenProperties
<1>7. \A i \in 1 .. n : l[i].address = Paging!Ranked(H, i)
  BY <1>4
<1>8. /\ \A i \in 1 .. n : Paging!Ranked(H, i) \in H
      /\ \A a \in H : RankIn(H, a) \in 1 .. n /\ Paging!Ranked(H, RankIn(H, a)) = a
  BY <1>1, RankedIs DEF n
<1>9. {l[i].address : i \in DOMAIN l} = H
  BY <1>3, <1>7, <1>8
<1>10. ASSUME NEW a \in TokenAccounts, \E k \in DOMAIN fetched : fetched[k].address = a,
              \A k \in DOMAIN fetched : fetched[k].address = a => fetched[k].amount > 0
       PROVE  a \in H
  <2>1. PICK j \in DOMAIN fetched : fetched[j].address = a /\ fetched[j].amount > 0
    BY <1>10
  <2>2. QED
    BY <2>1 DEF H, Paging!Held, Paging!NonEmpty
<1>11. \A a \in H : \E i \in DOMAIN l : l[i].address = a
  BY <1>3, <1>7, <1>8
<1>12. \A i \in DOMAIN l : \E k \in DOMAIN fetched : l[i] = fetched[k]
  BY <1>3, <1>4
<1>13. Cardinality({l[i].address : i \in DOMAIN l}) = Len(l)
  BY <1>6, <1>9 DEF n
<1>14. QED
  BY <1>6, <1>10, <1>11, <1>12, <1>13 DEF FinalizedTo

(* The first members of a set have every member below them among them. *)
LEMMA FirstOnesReachDown ==
    ASSUME NEW S, S \subseteq Int, IsFiniteSet(S), NEW B \in Nat, NEW a \in S, NEW b \in FirstOf(S, B), a <= b
    PROVE  a \in FirstOf(S, B)
<1> DEFINE BelowA == {j \in S : j < a}
           BelowB == {j \in S : j < b}
<1>1. BelowA \subseteq BelowB
  <2>1. b \in S
    BY DEF FirstOf
  <2>2. \A j \in S : j \in Int /\ a \in Int /\ b \in Int
    BY <2>1
  <2>3. \A j \in Int : j < a => j < b
    BY <2>1
  <2>4. QED
    BY <2>2, <2>3
<1>2. BelowB \subseteq S /\ Cardinality(BelowB) < B
  BY DEF FirstOf
<1>3. Cardinality(BelowA) < B
  <2> HIDE DEF BelowA, BelowB
  <2>1. IsFiniteSet(BelowB)
    BY <1>2, FS_Subset
  <2>2. IsFiniteSet(BelowA) /\ Cardinality(BelowA) <= Cardinality(BelowB)
    BY <1>1, <2>1, FS_Subset
  <2>3. Cardinality(BelowA) \in Nat /\ Cardinality(BelowB) \in Nat
    BY <2>1, <2>2, FS_CardinalityType
  <2>4. QED
    BY <1>2, <2>2, <2>3
<1>4. QED
  BY <1>3 DEF FirstOf

(* An index that has fewer accounts than a page to serve serves them all. *)
LEMMA ServedIs ==
    ASSUME PageConstants, PageTypes, NEW s \in 1 .. Len(history), NEW after \in TokenAccounts \cup {0},
           NEW S, S = Paging!Served(s, after)
    PROVE  /\ S \subseteq TokenAccounts /\ IsFiniteSet(S)
           /\ \A a \in S : history[s][a] > 0
           /\ \A a \in TokenAccounts, b \in S : after < a /\ a <= b /\ history[s][a] > 0 => a \in S
           /\ Cardinality(S) < PageSize => \A a \in TokenAccounts : after < a /\ history[s][a] > 0 => a \in S
<1> DEFINE L == Paging!Left(s, after)
<1>1. /\ L \subseteq TokenAccounts /\ \A a \in L : history[s][a] > 0
      /\ \A a \in TokenAccounts : after < a /\ history[s][a] > 0 => a \in L
  BY DEF Paging!Left
<1>2. S = FirstOf(L, PageSize)
  BY PagingCounts DEF Paging!Served, FirstOf
<1> HIDE DEF L
<1>3. L \subseteq Int /\ IsFiniteSet(L)
  <2>1. TokenAccounts \subseteq Nat /\ IsFiniteSet(TokenAccounts)
    BY DEF PageConstants
  <2>2. L \in SUBSET TokenAccounts
    BY <1>1
  <2>3. IsFiniteSet(L)
    BY ONLY <2>1, <2>2, FS_Subset
  <2>4. QED
    BY <2>1, <2>2, <2>3
<1>4. S \subseteq L /\ IsFiniteSet(S)
  <2>1. S \subseteq L
    BY <1>2 DEF FirstOf
  <2>2. QED
    BY <1>3, <2>1, FS_Subset
<1>5. ASSUME NEW a \in TokenAccounts, NEW b \in S, after < a, a <= b, history[s][a] > 0
      PROVE  a \in S
  <2>1. a \in L /\ PageSize \in Nat
    BY <1>1, <1>5 DEF PageConstants
  <2>2. QED
    BY <1>2, <1>3, <1>5, <2>1, FirstOnesReachDown
<1>6. ASSUME Cardinality(S) < PageSize, NEW a \in L, a \notin S
      PROVE  FALSE
  <2>1. PageSize \in Nat
    BY DEF PageConstants
  <2>2. Cardinality(S) = PageSize
    BY <1>2, <1>3, <1>6, <2>1, FirstOnesCount
  <2>3. QED
    BY <1>6, <2>1, <2>2
<1>7. QED
  BY <1>1, <1>4, <1>5, <1>6

(* The rows of one page: the balances of one slot, and every account with  *)
(* a balance up to the last of them, or at all when the page is not full.  *)
IndexedTrue(s, after, accounts) ==
    /\ accounts \in Seq(HolderRow)
    /\ \A i \in DOMAIN accounts : accounts[i].amount = history[s][accounts[i].address]
    /\ Len(accounts) < PageSize => \A a \in TokenAccounts :
          after < a /\ history[s][a] > 0 => \E i \in DOMAIN accounts : accounts[i].address = a
    /\ \A i \in DOMAIN accounts, a \in TokenAccounts :
          after < a /\ a <= accounts[i].address /\ history[s][a] > 0
             => \E j \in DOMAIN accounts : accounts[j].address = a

(* What the index returns is as IndexedTrue says.                           *)
LEMMA IndexedIs ==
    ASSUME PageConstants, PageTypes, NEW s \in 1 .. Len(history), NEW after \in TokenAccounts \cup {0},
           NEW accounts, accounts = Paging!Indexed(s, after)
    PROVE  IndexedTrue(s, after, accounts)
<1> DEFINE S == Paging!Served(s, after)
           n == Cardinality(S)
<1>1. /\ S \subseteq TokenAccounts /\ IsFiniteSet(S)
      /\ \A a \in S : history[s][a] > 0
      /\ \A a \in TokenAccounts, b \in S : after < a /\ a <= b /\ history[s][a] > 0 => a \in S
      /\ Cardinality(S) < PageSize => \A a \in TokenAccounts : after < a /\ history[s][a] > 0 => a \in S
  BY ServedIs
<1>2. /\ DOMAIN accounts = 1 .. n
      /\ \A i \in 1 .. n : accounts[i] = Paging!RowAt(s, Paging!Ranked(S, i))
      /\ accounts = [i \in 1 .. n |-> accounts[i]]
  BY PagingCounts DEF Paging!Indexed
<1> HIDE DEF S, n
<1>3. S \subseteq Int /\ n \in Nat
  <2>1. S \subseteq Int
    BY <1>1 DEF PageConstants
  <2>2. QED
    BY <1>1, <2>1, FS_CardinalityType DEF n
<1>4. /\ \A i \in 1 .. n : Paging!Ranked(S, i) \in S
      /\ \A a \in S : RankIn(S, a) \in 1 .. n /\ Paging!Ranked(S, RankIn(S, a)) = a
  BY <1>1, <1>3, RankedIs DEF n
<1>5. ASSUME NEW i \in 1 .. n
      PROVE  /\ accounts[i] \in HolderRow /\ accounts[i].address = Paging!Ranked(S, i)
             /\ accounts[i].amount = history[s][accounts[i].address]
  <2>1. PICK a \in S : a = Paging!Ranked(S, i)
    BY <1>4
  <2>2. accounts[i] = [address |-> a, amount |-> history[s][a]]
    BY <1>2, <2>1 DEF Paging!RowAt
  <2>3. history[s] \in [TokenAccounts -> 0 .. Supply]
    <3>1. history[s] \in Paging!Balances
      BY ElementOfSeq DEF PageTypes
    <3>2. QED
      BY <3>1 DEF Paging!Balances
  <2>4. a \in TokenAccounts /\ history[s][a] \in 0 .. Supply /\ history[s][a] > 0
    BY <1>1, <2>3
  <2>5. history[s][a] \in 1 .. Supply
    BY <2>4 DEF PageConstants
  <2>6. QED
    BY <2>1, <2>2, <2>4, <2>5 DEF HolderRow
<1>6. accounts \in Seq(HolderRow) /\ Len(accounts) = n
  <2>1. accounts \in [1 .. n -> HolderRow]
    BY <1>2, <1>5
  <2>2. accounts \in Seq(HolderRow)
    BY <1>3, <2>1, IsASeq
  <2>3. QED
    BY <1>2, <1>3, <2>2, LenProperties
<1>7. \A a \in S : \E i \in DOMAIN accounts : accounts[i].address = a
  BY <1>2, <1>4, <1>5
<1>8. \A i \in DOMAIN accounts : accounts[i].address \in S
  BY <1>2, <1>4, <1>5
<1>9. QED
  BY <1>1, <1>2, <1>5, <1>6, <1>7, <1>8 DEF n, IndexedTrue

----------------------------------------------------------------------------
(* Before the first page nothing is claimed.                                *)
LEMMA PagesInitIInv == PageConstants /\ Paging!Init => PagesIInv
<1> SUFFICES ASSUME PageConstants, Paging!Init
             PROVE  PagesIInv
  OBVIOUS
<1>1. PICK b \in Paging!Balances : history = <<b>>
  BY DEF Paging!Init
<1>2. history \in Seq(Paging!Balances) /\ Len(history) = 1
  BY <1>1
<1>3. rows \in Seq(HolderRow) /\ rows = <<>>
  BY DEF Paging!Init
<1>4. cursor = 0 /\ slot = 0 /\ page = 0 /\ result = <<>>
  BY DEF Paging!Init
<1>5. PageTypes
  BY <1>2, <1>3, <1>4 DEF PageTypes, PageConstants
<1>6. QED
  BY <1>3, <1>4, <1>5 DEF PagesIInv, FetchTrue, ResultTrue

(* A listing stays true to its slot when slots are added. *)
LEMMA LaterSlots ==
    ASSUME PageTypes, Len(history)' \in Nat, Len(history) <= Len(history)',
           \A t \in 1 .. Len(history) : history'[t] = history[t], NEW s \in 1 .. Len(history)
    PROVE  /\ \A row : SeenSince(s, row) => SeenSince(s, row)'
           /\ \A a : HeldSince(s, a)' => HeldSince(s, a)
<1>1. \A t \in s .. Len(history) : t \in s .. Len(history)' /\ history'[t] = history[t]
  BY DEF PageTypes
<1>2. \A row : SeenSince(s, row) => SeenSince(s, row)'
  BY <1>1 DEF SeenSince
<1>3. \A a : HeldSince(s, a)' => HeldSince(s, a)
  BY <1>1 DEF HeldSince
<1>4. QED
  BY <1>2, <1>3
(* A transfer adds a slot and moves an amount between two balances.        *)
LEMMA TransferIInv ==
    ASSUME PageConstants, PagesIInv, Paging!Transfer
    PROVE  PagesIInv'
<1> DEFINE N == Len(history)
           b == history[N]
<1>1. PICK from \in TokenAccounts, to \in TokenAccounts, amount \in 1 .. Supply :
         /\ from # to /\ b[from] >= amount
         /\ history' = Append(history, [b EXCEPT ![from] = @ - amount, ![to] = @ + amount])
  BY DEF Paging!Transfer, Paging!Newest
<1>2. N < MaxSlot /\ UNCHANGED <<rows, cursor, slot, page, result>>
  BY DEF Paging!Transfer, Paging!Newest
<1>3. /\ history \in Seq(Paging!Balances) /\ N \in 1 .. MaxSlot /\ b \in Paging!Balances
      /\ MaxSlot \in Nat /\ Supply \in Nat /\ IsFiniteSet(TokenAccounts)
  BY ElementOfSeq DEF PagesIInv, PageTypes, PageConstants
<1>4. b \in [TokenAccounts -> 0 .. Supply] /\ SumFunctionOnSet(b, TokenAccounts) = Supply
  BY <1>3, PagingSums DEF Paging!Balances
<1> DEFINE c == [b EXCEPT ![from] = b[from] - amount]
           d == [c EXCEPT ![to] = c[to] + amount]
<1> HIDE DEF b
<1>5. c \in [TokenAccounts -> 0 .. Supply] /\ c[from] = b[from] - amount
      /\ \A x \in TokenAccounts \ {from} : c[x] = b[x]
  BY <1>1, <1>3, <1>4
<1>6. SumFunctionOnSet(c, TokenAccounts) = Supply - amount
  <2>1. \A x \in TokenAccounts : b[x] \in Int /\ c[x] \in Int
    BY <1>4, <1>5, SMTT(30)
  <2> HIDE DEF c
  <2>2. SumFunctionOnSet(c, TokenAccounts) = SumFunctionOnSet(b, TokenAccounts) + (c[from] - b[from])
    <3>1. IsFiniteSet(TokenAccounts) /\ \A x \in TokenAccounts \ {from} : c[x] = b[x]
      BY <1>3, <1>5
    <3>2. QED
      BY <2>1, <3>1, SumChange
  <2>3. QED
    BY <1>3, <1>4, <1>5, <2>1, <2>2
<1>7. c[to] <= Supply - amount
  <2>1. \A x \in TokenAccounts : c[x] \in Int /\ c[x] \in Nat
    BY <1>3, <1>5
  <2> HIDE DEF c
  <2>2. SumFunctionOnSet(c, TokenAccounts) = c[to] + SumFunctionOnSet(c, TokenAccounts \ {to})
    BY <1>3, <2>1, SumTake
  <2>3. IsFiniteSet(TokenAccounts \ {to})
    BY <1>3, FS_Subset
  <2>4. SumFunctionOnSet(c, TokenAccounts \ {to}) \in Nat
    BY <2>1, <2>3, SumNat
  <2>5. QED
    BY <1>3, <1>6, <2>1, <2>2, <2>4
<1> HIDE DEF c
<1>8. d \in [TokenAccounts -> 0 .. Supply] /\ d[to] = c[to] + amount
      /\ \A x \in TokenAccounts \ {to} : d[x] = c[x]
  BY <1>3, <1>5, <1>7
<1>9. SumFunctionOnSet(d, TokenAccounts) = Supply
  <2>1. \A x \in TokenAccounts : d[x] \in Int /\ c[x] \in Int
    BY <1>5, <1>8
  <2> HIDE DEF d
  <2>2. SumFunctionOnSet(d, TokenAccounts) = SumFunctionOnSet(c, TokenAccounts) + (d[to] - c[to])
    BY <1>3, <1>8, <2>1, SumChange
  <2>3. QED
    BY <1>3, <1>6, <1>8, <2>1, <2>2
<1>10. history' = Append(history, d)
  BY <1>1, <1>4 DEF c
<1> HIDE DEF d
<1>11. d \in Paging!Balances
  BY <1>8, <1>9, PagingSums DEF Paging!Balances
<1>12. /\ history' \in Seq(Paging!Balances) /\ Len(history') = N + 1
       /\ \A t \in 1 .. N : history'[t] = history[t]
  BY <1>3, <1>10, <1>11, AppendProperties
<1>13. PageTypes'
  BY <1>2, <1>3, <1>12 DEF PagesIInv, PageTypes
<1>14. \A s \in 1 .. N : /\ \A row : SeenSince(s, row) => SeenSince(s, row)'
                        /\ \A a : HeldSince(s, a)' => HeldSince(s, a)
  BY <1>3, <1>12, LaterSlots DEF PagesIInv
<1>15. FetchTrue'
  <2>1. slot > 0 => slot \in 1 .. N
    BY DEF PagesIInv, PageTypes
  <2>2. QED
    BY <1>2, <1>14, <2>1 DEF PagesIInv, FetchTrue
<1>16. ResultTrue'
  <2>1. \A s \in 1 .. N : s \in 1 .. Len(history')
    BY <1>3, <1>12
  <2>2. CASE result \in {<<>>, <<"error">>}
    BY <1>2, <2>2 DEF ResultTrue
  <2>3. ASSUME NEW s \in 1 .. N, NEW listed \in Seq(HolderRow), result = <<s, listed>>, ListingTrue(s, listed)
        PROVE  ResultTrue'
    <3>1. ListingTrue(s, listed)'
      <4>1. /\ \A row : SeenSince(s, row) => SeenSince(s, row)'
            /\ \A a : HeldSince(s, a)' => HeldSince(s, a)
        BY <1>14
      <4>2. QED
        BY <2>3, <4>1 DEF ListingTrue
    <3>2. result' = <<s, listed>> /\ s \in 1 .. Len(history')
      BY <1>2, <2>1, <2>3
    <3>3. QED
      BY <3>1, <3>2 DEF ResultTrue
  <2>4. QED
    BY <2>2, <2>3 DEF PagesIInv, ResultTrue
<1>17. QED
  BY <1>13, <1>15, <1>16 DEF PagesIInv

(* One page: what the rows and the cursor come to.                         *)
PageTrue(accounts, all, lowest) ==
    /\ all \in Seq(HolderRow) /\ accounts \in Seq(HolderRow) /\ lowest \in 0 .. Len(history)
    /\ lowest > 0 =>
          /\ \A i \in DOMAIN all : SeenSince(lowest, all[i])
          /\ \A a \in TokenAccounts : HeldSince(lowest, a) =>
                /\ a <= cursor => \E i \in DOMAIN all : all[i].address = a
                /\ Len(accounts) < PageSize => \E i \in DOMAIN all : all[i].address = a
                /\ \A k \in DOMAIN accounts :
                      a <= accounts[k].address => \E i \in DOMAIN all : all[i].address = a

(* A page keeps the rows and the cursor true to the lowest slot so far.    *)
LEMMA PageIsTrue ==
    ASSUME PageConstants, PagesIInv, NEW s \in 1 .. Len(history),
           NEW accounts, accounts = Paging!Indexed(s, cursor), NEW lowest,
           (lowest = slot /\ slot = 0) \/ (lowest = Paging!SnapshotSlot(slot, s) /\ (slot > 0 \/ page = 0)),
           NEW all, all = rows \o accounts
    PROVE  PageTrue(accounts, all, lowest)
<1>1. /\ rows \in Seq(HolderRow) /\ slot \in 0 .. Len(history) /\ cursor \in TokenAccounts \cup {0}
      /\ PageTypes /\ FetchTrue
  BY DEF PagesIInv, PageTypes
<1>2. /\ accounts \in Seq(HolderRow)
      /\ \A i \in DOMAIN accounts : accounts[i].amount = history[s][accounts[i].address]
      /\ Len(accounts) < PageSize => \A a \in TokenAccounts :
            cursor < a /\ history[s][a] > 0 => \E i \in DOMAIN accounts : accounts[i].address = a
      /\ \A i \in DOMAIN accounts, a \in TokenAccounts :
            cursor < a /\ a <= accounts[i].address /\ history[s][a] > 0
               => \E j \in DOMAIN accounts : accounts[j].address = a
  <2>1. IndexedTrue(s, cursor, accounts)
    BY <1>1, IndexedIs
  <2>2. QED
    BY <2>1 DEF IndexedTrue
<1>3. all \in Seq(HolderRow)
  BY <1>1, <1>2, ConcatProperties
<1>4. lowest \in 0 .. Len(history) /\ (lowest > 0 => lowest <= s /\ (slot > 0 => lowest <= slot))
  BY <1>1 DEF Paging!SnapshotSlot
<1>5. /\ \A i \in DOMAIN rows : \E k \in DOMAIN all : all[k] = rows[i]
      /\ \A i \in DOMAIN accounts : \E k \in DOMAIN all : all[k] = accounts[i]
      /\ \A k \in DOMAIN all :
           (\E i \in DOMAIN rows : all[k] = rows[i]) \/ (\E i \in DOMAIN accounts : all[k] = accounts[i])
  <2>1. PICK m \in Nat, n \in Nat : /\ m = Len(rows) /\ n = Len(accounts)
                                   /\ DOMAIN rows = 1 .. m /\ DOMAIN accounts = 1 .. n
    BY <1>1, <1>2, LenProperties
  <2>2. /\ DOMAIN all = 1 .. m + n
        /\ \A i \in 1 .. m + n : all[i] = IF i <= m THEN rows[i] ELSE accounts[i - m]
    <3>1. Len(all) = m + n /\ \A i \in 1 .. m + n : all[i] = IF i <= m THEN rows[i] ELSE accounts[i - m]
      BY <1>1, <1>2, <2>1, ConcatProperties
    <3>2. DOMAIN all = 1 .. Len(all)
      BY <1>3, LenProperties
    <3>3. QED
      BY <3>1, <3>2
  <2>3. ASSUME NEW i \in 1 .. m
        PROVE  i \in DOMAIN all /\ all[i] = rows[i]
    <3>1. i \in 1 .. m + n /\ i <= m
      OBVIOUS
    <3>2. QED
      BY <2>2, <3>1
  <2>4. ASSUME NEW i \in 1 .. n
        PROVE  i + m \in DOMAIN all /\ all[i + m] = accounts[i]
    <3>1. i + m \in 1 .. m + n /\ ~(i + m <= m) /\ (i + m) - m = i
      OBVIOUS
    <3>2. QED
      BY <2>2, <3>1
  <2>5. ASSUME NEW k \in DOMAIN all
        PROVE  (\E i \in DOMAIN rows : all[k] = rows[i]) \/ (\E i \in DOMAIN accounts : all[k] = accounts[i])
    <3>1. CASE k <= m
      <4>1. k \in 1 .. m /\ all[k] = rows[k]
        BY <2>2, <3>1
      <4>2. QED
        BY <2>1, <4>1
    <3>2. CASE ~(k <= m)
      <4>1. k - m \in 1 .. n /\ all[k] = accounts[k - m]
        BY <2>2, <3>2
      <4>2. QED
        BY <2>1, <4>1
    <3>3. QED
      BY <3>1, <3>2
  <2>6. QED
    BY <2>1, <2>3, <2>4, <2>5
<1>6. ASSUME lowest > 0
      PROVE  slot = 0 => page = 0 /\ rows = <<>> /\ cursor = 0
  BY <1>1, <1>6 DEF FetchTrue
<1>7. ASSUME lowest > 0, NEW k \in DOMAIN all
      PROVE  SeenSince(lowest, all[k])
  <2>1. CASE \E i \in DOMAIN rows : all[k] = rows[i]
    <3>1. PICK i \in DOMAIN rows : all[k] = rows[i]
      BY <2>1
    <3>2. slot > 0
      <4>1. slot # 0
        BY <1>6, <1>7, <3>1
      <4>2. QED
        BY <1>1, <4>1
    <3>3. PICK t \in slot .. Len(history) : rows[i].amount = history[t][rows[i].address]
      BY <1>1, <3>2 DEF FetchTrue, SeenSince
    <3>4. t \in lowest .. Len(history)
      BY <1>1, <1>4, <1>7, <3>2
    <3>5. QED
      BY <3>1, <3>3, <3>4 DEF SeenSince
  <2>2. CASE \E i \in DOMAIN accounts : all[k] = accounts[i]
    <3>1. PICK i \in DOMAIN accounts : all[k] = accounts[i]
      BY <2>2
    <3>2. s \in lowest .. Len(history)
      BY <1>1, <1>4, <1>7
    <3>3. QED
      BY <1>2, <3>1, <3>2 DEF SeenSince
  <2>3. QED
    BY <1>5, <2>1, <2>2
<1>8. ASSUME lowest > 0, NEW a \in TokenAccounts, HeldSince(lowest, a)
      PROVE  /\ a <= cursor => \E i \in DOMAIN all : all[i].address = a
             /\ cursor < a \/ a <= cursor
             /\ history[s][a] > 0
  <2>1. s \in lowest .. Len(history)
    BY <1>1, <1>4, <1>8
  <2>2. history[s][a] > 0
    BY <1>8, <2>1 DEF HeldSince
  <2>3. a \in Nat /\ a > 0 /\ cursor \in Nat
    BY <1>1 DEF PageConstants
  <2>4. ASSUME a <= cursor
        PROVE  \E i \in DOMAIN all : all[i].address = a
    <3>1. slot > 0
      <4>1. slot # 0
        BY <1>6, <1>8, <2>3, <2>4
      <4>2. QED
        BY <1>1, <4>1
    <3>2. HeldSince(slot, a)
      <4>1. \A t \in slot .. Len(history) : t \in lowest .. Len(history)
        BY <1>1, <1>4, <1>8, <3>1
      <4>2. QED
        BY <1>8, <4>1 DEF HeldSince
    <3>3. PICK i \in DOMAIN rows : rows[i].address = a
      BY <1>1, <2>4, <3>1, <3>2 DEF FetchTrue
    <3>4. QED
      BY <1>5, <3>3
  <2>5. QED
    BY <2>2, <2>3, <2>4
<1>9. ASSUME NEW i \in DOMAIN accounts
      PROVE  \E k \in DOMAIN all : all[k].address = accounts[i].address
  BY <1>5
<1>10. ASSUME lowest > 0, NEW a \in TokenAccounts, HeldSince(lowest, a)
       PROVE  /\ a <= cursor => \E i \in DOMAIN all : all[i].address = a
              /\ Len(accounts) < PageSize => \E i \in DOMAIN all : all[i].address = a
              /\ \A k \in DOMAIN accounts :
                    a <= accounts[k].address => \E i \in DOMAIN all : all[i].address = a
  <2>1. /\ a <= cursor => \E i \in DOMAIN all : all[i].address = a
        /\ cursor < a \/ a <= cursor
        /\ history[s][a] > 0
    BY <1>8, <1>10
  <2>2. (\E j \in DOMAIN accounts : accounts[j].address = a) => \E i \in DOMAIN all : all[i].address = a
    BY <1>9, SMTT(60)
  <2>3. QED
    BY <1>2, <2>1, <2>2, SMTT(30)
<1>11. QED
  BY <1>2, <1>3, <1>4, <1>7, <1>10 DEF PageTrue
(* One getTokenAccounts call, whichever slot its node answers as of.       *)
LEMMA FetchPageIInv ==
    ASSUME PageConstants, PagesIInv, Paging!FetchPage
    PROVE  PagesIInv'
<1>1. PICK s \in {n \in 1 .. Paging!Newest : n >= Paging!Newest - Lag}, named \in BOOLEAN :
         LET accounts == Paging!Indexed(s, cursor)
             all == rows \o accounts
             lowest == IF named THEN Paging!SnapshotSlot(slot, s) ELSE slot
             last == Len(accounts) < PageSize
         IN /\ page = 0 \/ (named <=> slot > 0)
            /\ rows' = all /\ slot' = lowest /\ page' = page + 1
            /\ cursor' = IF last THEN cursor ELSE accounts[Len(accounts)].address
            /\ result' = IF ~last THEN result
                         ELSE IF lowest = 0 THEN <<"error">>
                         ELSE <<lowest, Paging!FinalizeRows(all)>>
  BY DEF Paging!FetchPage
<1>2. PICK accounts, all, lowest :
         /\ accounts = Paging!Indexed(s, cursor) /\ all = rows \o accounts
         /\ lowest = IF named THEN Paging!SnapshotSlot(slot, s) ELSE slot
         /\ page = 0 \/ (named <=> slot > 0)
         /\ rows' = all /\ slot' = lowest /\ page' = page + 1 /\ history' = history
         /\ cursor' = IF Len(accounts) < PageSize THEN cursor ELSE accounts[Len(accounts)].address
         /\ result' = IF ~(Len(accounts) < PageSize) THEN result
                      ELSE IF lowest = 0 THEN <<"error">>
                      ELSE <<lowest, Paging!FinalizeRows(all)>>
  BY <1>1 DEF Paging!FetchPage
<1>3. page < MaxPages /\ page \in 0 .. MaxPages /\ MaxPages \in Nat /\ result = <<>>
  BY DEF Paging!FetchPage, PagesIInv, PageTypes, PageConstants
<1>4. s \in 1 .. Len(history)
  BY DEF Paging!Newest
<1>5. (lowest = slot /\ slot = 0) \/ (lowest = Paging!SnapshotSlot(slot, s) /\ (slot > 0 \/ page = 0))
  <2>1. CASE named
    BY <1>2, <2>1
  <2>2. CASE ~named
    <3>1. page = 0 \/ ~(slot > 0)
      BY <1>2, <2>2
    <3>2. slot = 0
      BY <3>1 DEF PagesIInv, PageTypes, FetchTrue
    <3>3. QED
      BY <1>2, <2>2, <3>2
  <2>3. QED
    BY <2>1, <2>2
<1>6. PageTrue(accounts, all, lowest)
  <2>1. PageConstants /\ PagesIInv /\ accounts = Paging!Indexed(s, cursor) /\ all = rows \o accounts
    BY <1>2
  <2>2. QED
    BY ONLY <1>4, <1>5, <2>1, PageIsTrue
<1>7. ASSUME ~(Len(accounts) < PageSize)
      PROVE  Len(accounts) \in DOMAIN accounts /\ accounts[Len(accounts)].address \in TokenAccounts
  <2>1. Len(accounts) \in Nat \ {0} /\ DOMAIN accounts = 1 .. Len(accounts)
    BY <1>6, <1>7, LenProperties DEF PageConstants, PageTrue
  <2>2. Len(accounts) \in DOMAIN accounts
    BY <2>1
  <2>3. accounts[Len(accounts)] \in HolderRow
    BY <1>6, <2>1, <2>2, ElementOfSeq DEF PageTrue
  <2>4. QED
    BY <2>2, <2>3 DEF HolderRow
<1>8. PageTypes'
  <2>1. cursor' \in TokenAccounts \cup {0}
    BY <1>2, <1>7 DEF PagesIInv, PageTypes
  <2>2. page' \in 0 .. MaxPages
    BY <1>2, <1>3
  <2>3. QED
    BY <1>2, <1>6, <2>1, <2>2 DEF PagesIInv, PageTypes, PageTrue
<1>9. /\ \A row : SeenSince(lowest, row)' <=> SeenSince(lowest, row)
      /\ \A a : HeldSince(lowest, a)' <=> HeldSince(lowest, a)
  BY <1>2 DEF SeenSince, HeldSince
<1>10. FetchTrue'
  <2>1. page' # 0
    BY <1>2, <1>3
  <2>2. ASSUME lowest > 0, NEW a \in TokenAccounts, a <= cursor', HeldSince(lowest, a)
        PROVE  \E i \in DOMAIN all : all[i].address = a
    BY <1>2, <1>6, <1>7, <2>2 DEF PageTrue
  <2>3. lowest > 0 => \A i \in DOMAIN all : SeenSince(lowest, all[i])
    BY <1>6, SMTT(30) DEF PageTrue
  <2>4. lowest > 0 =>
           /\ \A i \in DOMAIN all : SeenSince(lowest, all[i])'
           /\ \A a \in TokenAccounts :
                 a <= cursor' /\ HeldSince(lowest, a)' => \E i \in DOMAIN all : all[i].address = a
    BY <1>2, <2>2, <2>3, ZenonT(60) DEF SeenSince, HeldSince
  <2>5. QED
    <3>1. slot' > 0 => \A i \in DOMAIN rows' : SeenSince(slot, rows[i])'
      BY <1>2, <2>4 DEF SeenSince
    <3>2. slot' > 0 => \A a \in TokenAccounts :
             a <= cursor' /\ HeldSince(slot, a)' => \E i \in DOMAIN rows' : rows'[i].address = a
      BY <1>2, <2>4 DEF HeldSince
    <3>3. QED
      BY <2>1, <3>1, <3>2 DEF FetchTrue
<1>11. ResultTrue'
  <2>1. CASE ~(Len(accounts) < PageSize) \/ lowest = 0
    BY <1>2, <1>3, <2>1 DEF ResultTrue
  <2>2. CASE Len(accounts) < PageSize /\ lowest # 0
    <3>0. PICK listed : listed = Paging!FinalizeRows(all)
      OBVIOUS
    <3>1. lowest \in 1 .. Len(history) /\ lowest > 0
      BY <1>6, <2>2 DEF PagesIInv, PageTypes, PageTrue
    <3>2. DOMAIN all \subseteq Int /\ IsFiniteSet(DOMAIN all)
      <4>1. PICK m \in Nat : DOMAIN all = 1 .. m
        BY <1>6, LenProperties DEF PageTrue
      <4>2. IsFiniteSet(1 .. m)
        BY FS_Interval
      <4>3. QED
        BY <4>1, <4>2
    <3>3. \A k \in DOMAIN all : all[k] \in HolderRow
      BY <1>6, ElementOfSeq, LenProperties DEF PageTrue
    <3>4. \A k \in DOMAIN all : all[k] \in [address : TokenAccounts, amount : 0 .. Supply] /\ all[k].amount > 0
      <4> SUFFICES ASSUME NEW k \in DOMAIN all
                   PROVE  all[k] \in [address : TokenAccounts, amount : 0 .. Supply] /\ all[k].amount > 0
        OBVIOUS
      <4>1. PICK row \in HolderRow : row = all[k]
        BY <3>3
      <4>2. row \in [address : TokenAccounts, amount : 0 .. Supply] /\ row.amount > 0
        BY DEF HolderRow, PageConstants
      <4>3. QED
        BY <4>1, <4>2
    <3>5. FinalizedTo(all, listed)
      <4>1. listed = Paging!FinalizeRows(all)
        BY <3>0
      <4>2. \A k \in DOMAIN all : all[k] \in [address : TokenAccounts, amount : 0 .. Supply]
        BY <3>4
      <4>3. PageConstants
        OBVIOUS
      <4>4. QED
        BY ONLY <3>2, <4>1, <4>2, <4>3, FinalizedIs
    <3>6. \A i \in DOMAIN listed : SeenSince(lowest, listed[i])
      BY <1>6, <3>1, <3>5 DEF PageTrue, FinalizedTo
    <3>7. \A a \in TokenAccounts : HeldSince(lowest, a) => \E i \in DOMAIN listed : listed[i].address = a
      BY <1>6, <2>2, <3>1, <3>4, <3>5 DEF PageTrue, FinalizedTo
    <3>8. ListingTrue(lowest, listed)
      BY <3>5, <3>6, <3>7 DEF ListingTrue, FinalizedTo
    <3>9. ListingTrue(lowest, listed)'
      BY <1>9, <3>8 DEF ListingTrue
    <3>10. result' = <<lowest, listed>> /\ lowest \in 1 .. Len(history')
      BY <1>2, <2>2, <3>0, <3>1
    <3>11. QED
      BY <3>5, <3>9, <3>10 DEF ResultTrue, FinalizedTo
  <2>3. QED
    BY <2>1, <2>2
<1>12. QED
  BY <1>8, <1>10, <1>11 DEF PagesIInv
(* One getProgramAccounts call: every account as of one slot.              *)
LEMMA FetchAllIInv ==
    ASSUME PageConstants, PagesIInv, Paging!FetchAll
    PROVE  PagesIInv'
<1>1. PICK s \in {n \in 1 .. Paging!Newest : n >= Paging!Newest - Lag} :
         result' = <<s, Paging!FinalizeRows([a \in TokenAccounts |-> Paging!RowAt(s, a)])>>
  BY DEF Paging!FetchAll
<1>2. UNCHANGED <<history, rows, cursor, slot, page>>
  BY DEF Paging!FetchAll
<1>3. PICK all : all = [a \in TokenAccounts |-> Paging!RowAt(s, a)]
  OBVIOUS
<1>4. PICK listed : listed = Paging!FinalizeRows(all)
  OBVIOUS
<1>5. s \in 1 .. Len(history) /\ history[s] \in [TokenAccounts -> 0 .. Supply]
  <2>1. s \in 1 .. Len(history)
    BY DEF Paging!Newest
  <2>2. history[s] \in Paging!Balances
    BY <2>1, ElementOfSeq DEF PagesIInv, PageTypes
  <2>3. QED
    BY <2>1, <2>2 DEF Paging!Balances
<1>6. \A a \in TokenAccounts : /\ all[a] = [address |-> a, amount |-> history[s][a]]
                               /\ all[a].address = a /\ all[a].amount = history[s][a]
  BY <1>3 DEF Paging!RowAt
<1>7. DOMAIN all = TokenAccounts /\ TokenAccounts \subseteq Int /\ IsFiniteSet(TokenAccounts)
  BY <1>3 DEF PageConstants
<1>8. FinalizedTo(all, listed)
  <2>1. \A k \in DOMAIN all : all[k] \in [address : TokenAccounts, amount : 0 .. Supply]
    BY <1>5, <1>6, <1>7
  <2>2. PageConstants /\ DOMAIN all \subseteq Int /\ IsFiniteSet(DOMAIN all)
    BY <1>7
  <2>3. QED
    BY ONLY <1>4, <2>1, <2>2, FinalizedIs
<1>9. s \in s .. Len(history)
  BY <1>5
<1>10. \A i \in DOMAIN listed : SeenSince(s, listed[i])
  <2> SUFFICES ASSUME NEW i \in DOMAIN listed
               PROVE  SeenSince(s, listed[i])
    OBVIOUS
  <2>1. PICK a \in TokenAccounts : listed[i] = all[a]
    BY <1>7, <1>8 DEF FinalizedTo
  <2>2. PICK row : row = listed[i]
    OBVIOUS
  <2>3. row.amount = history[s][row.address]
    <3>1. row = all[a]
      BY <2>1, <2>2
    <3>2. all[a].address = a /\ all[a].amount = history[s][a]
      BY <1>6
    <3>3. QED
      BY ONLY <3>1, <3>2
  <2>4. SeenSince(s, row)
    BY <1>9, <2>3 DEF SeenSince
  <2>5. QED
    BY <2>2, <2>4
<1>11. \A a \in TokenAccounts : HeldSince(s, a) => \E i \in DOMAIN listed : listed[i].address = a
  <2> SUFFICES ASSUME NEW a \in TokenAccounts, HeldSince(s, a)
               PROVE  \E i \in DOMAIN listed : listed[i].address = a
    OBVIOUS
  <2>1. history[s][a] > 0
    BY <1>9 DEF HeldSince
  <2>2. all[a].address = a
    BY <1>6
  <2>3. \A k \in TokenAccounts : all[k].address = a => all[k].amount > 0
    BY <1>6, <2>1
  <2>4. QED
    BY <1>7, <1>8, <2>2, <2>3 DEF FinalizedTo
<1>12. ListingTrue(s, listed)
  BY <1>8, <1>10, <1>11 DEF ListingTrue, FinalizedTo
<1>13. ListingTrue(s, listed)'
  <2>1. /\ \A row : SeenSince(s, row)' <=> SeenSince(s, row)
        /\ \A a : HeldSince(s, a)' <=> HeldSince(s, a)
    BY <1>2 DEF SeenSince, HeldSince
  <2>2. QED
    BY <1>12, <2>1 DEF ListingTrue
<1>14. ResultTrue'
  <2>1. result' = <<s, listed>> /\ s \in 1 .. Len(history')
    BY <1>1, <1>2, <1>3, <1>4, <1>5
  <2>2. QED
    BY <1>8, <1>13, <2>1 DEF ResultTrue, FinalizedTo
<1>15. PageTypes' /\ FetchTrue'
  BY <1>2 DEF PagesIInv, PageTypes, FetchTrue, SeenSince, HeldSince
<1>16. QED
  BY <1>14, <1>15 DEF PagesIInv

(* Every step of the pages.                                                 *)
LEMMA PagesNextIInv ==
    ASSUME PageConstants, PagesIInv, [Paging!Next]_pageVars
    PROVE  PagesIInv'
<1>1. CASE UNCHANGED pageVars
  <2>1. UNCHANGED <<history, rows, cursor, slot, page, result>>
    BY <1>1 DEF pageVars
  <2>2. PageTypes' /\ FetchTrue'
    BY <2>1 DEF PagesIInv, PageTypes, FetchTrue, SeenSince, HeldSince
  <2>3. ASSUME NEW s, NEW listed, ListingTrue(s, listed)
        PROVE  ListingTrue(s, listed)'
    BY <2>1, <2>3 DEF ListingTrue, SeenSince, HeldSince
  <2>4. ResultTrue'
    BY <2>1, <2>3 DEF PagesIInv, ResultTrue
  <2>5. QED
    BY <2>2, <2>4 DEF PagesIInv
<1>2. CASE Paging!TooManyPages \/ Paging!CallFails
  <2>1. result' = <<"error">> /\ UNCHANGED <<history, rows, cursor, slot, page>>
    BY <1>2 DEF Paging!TooManyPages, Paging!CallFails
  <2>2. QED
    BY <2>1 DEF PagesIInv, PageTypes, FetchTrue, ResultTrue, SeenSince, HeldSince
<1>3. CASE Paging!Again
  <2>1. rows' = <<>> /\ cursor' = 0 /\ slot' = 0 /\ page' = 0 /\ result' = <<>> /\ UNCHANGED history
    BY <1>3 DEF Paging!Again
  <2>2. rows' \in Seq(HolderRow)
    BY <2>1
  <2>3. PageTypes'
    BY <2>1, <2>2 DEF PagesIInv, PageTypes, PageConstants
  <2>4. QED
    BY <2>1, <2>3 DEF PagesIInv, FetchTrue, ResultTrue
<1>4. QED
  BY <1>1, <1>2, <1>3, TransferIInv, FetchPageIInv, FetchAllIInv DEF Paging!Next

(* What the invariant says of a snapshot. *)
LEMMA PagesIInvImplies ==
    ASSUME PageConstants, PagesIInv
    PROVE  Paging!SnapshotFaithful
<1>1. Paging!TypeOK
  <2>1. \A s \in 1 .. Len(history) : history[s] \in Paging!Balances
    BY ElementOfSeq DEF PagesIInv, PageTypes
  <2>2. \A i \in DOMAIN rows : rows[i] \in [address : TokenAccounts, amount : 1 .. Supply]
    BY ElementOfSeq, LenProperties DEF PagesIInv, PageTypes, HolderRow
  <2>3. result \in {<<>>, <<"error">>} \/ result[1] \in 1 .. Len(history)
    BY DEF PagesIInv, ResultTrue
  <2>4. QED
    BY <2>1, <2>2, <2>3 DEF PagesIInv, PageTypes, Paging!TypeOK, Paging!Newest
<1>2. ASSUME Len(result) = 2
      PROVE  LET since == result[1] .. Paging!Newest
                 listed == result[2]
                 addresses == {listed[i].address : i \in DOMAIN listed}
             IN /\ \A i \in DOMAIN listed : \E s \in since : listed[i].amount = history[s][listed[i].address]
                /\ Paging!Cardinality(addresses) = Len(listed)
                /\ \A a \in TokenAccounts : (\A s \in since : history[s][a] > 0) => a \in addresses
  <2>1. result \notin {<<>>, <<"error">>}
    BY <1>2
  <2>2. PICK s \in 1 .. Len(history), listed \in Seq(HolderRow) : result = <<s, listed>> /\ ListingTrue(s, listed)
    BY <2>1 DEF PagesIInv, ResultTrue
  <2>3. result[1] = s /\ result[2] = listed
    BY <2>2
  <2>4. Paging!Cardinality({listed[i].address : i \in DOMAIN listed}) = Len(listed)
    BY <2>2, PagingCounts DEF ListingTrue
  <2>5. QED
    BY <2>2, <2>3, <2>4 DEF ListingTrue, SeenSince, HeldSince, Paging!Newest
<1>3. QED
  BY <1>1, <1>2 DEF Paging!SnapshotFaithful

(***************************************************************************)
(* For any number of accounts, pages and slots, however the transfers and  *)
(* the nodes behind them interleave with the fetch: a snapshot holds no    *)
(* row older than the slot it names and no address twice, and every        *)
(* account that held a balance ever since is in it (source.ts 54-100).     *)
(***************************************************************************)
THEOREM SnapshotsAreFaithful ==
    ASSUME PageConstants
    PROVE  RoundDataSpec => []SnapshotFaithful
<1> DEFINE Inv == part = "pages" => PagesIInv
           all == <<part, pageVars, vetVars, swapVars, splitVars, vars, verifyVars, triggerVars>>
<1>1. RoundDataInit => Inv
  BY PagesInitIInv DEF RoundDataInit
<1>2. Inv /\ [RoundDataNext]_all => Inv'
  <2> SUFFICES ASSUME Inv, [RoundDataNext]_all, part' = "pages"
               PROVE  PagesIInv'
    OBVIOUS
  <2>1. part = "pages" /\ [Paging!Next]_pageVars
    BY DEF RoundDataNext
  <2>2. QED
    BY <2>1, PagesNextIInv
<1>3. Inv => SnapshotFaithful
  BY PagesIInvImplies DEF SnapshotFaithful
<1>4. QED
  BY <1>1, <1>2, <1>3, PTL DEF RoundDataSpec

----------------------------------------------------------------------------
(* The split of an asset (Allocation). *)

(* What the proofs about the split ask of the constants. *)
SplitConstants ==
    /\ Owners \subseteq Int /\ IsFiniteSet(Owners) /\ IsFiniteSet(Accounts)
    /\ IsFiniteSet(Samples) /\ Samples # {}
    /\ \A s \in HolderSnapshots : s.balance \in [Accounts -> Nat]
    /\ Allocatables \subseteq Nat /\ MinLeafs \subseteq Nat
    /\ MaxLeaves \in Nat /\ MaxPasses \in Nat

SplitTypes ==
    /\ snapshot \in [Samples -> HolderSnapshots]
    /\ asset \in [allocatable : Allocatables, minLeaf : MinLeafs]
    /\ split \in {"holders", "passes", "done"} /\ pass \in 0 .. MaxPasses

(* Those still in are the largest of the eligible holders, and what they   *)
(* get are the shares of the asset by their averages.                      *)
HeirsShare ==
    /\ twab \in [Owners -> Nat]
    /\ eligible \subseteq Owners \ Excluded /\ \A i \in eligible : twab[i] > 0
    /\ heirs \subseteq eligible /\ Cardinality(heirs) <= MaxLeaves
    /\ \A j \in heirs, i \in eligible : Outranks(twab, i, j) => i \in heirs
    /\ heirs # {} => amounts = Apportioned(asset.allocatable, twab, heirs)

SplitIInv ==
    /\ SplitTypes
    /\ split = "holders" => twab = <<>> /\ eligible = {} /\ heirs = {} /\ amounts = <<>>
    /\ split # "holders" => HeirsShare
    /\ split = "done" /\ pass < MaxPasses => \A i \in heirs : amounts[i] >= asset.minLeaf

(* The sizes and sums that Allocation speaks of. *)
LEMMA SplitCounts == ASSUME NEW S PROVE Split!Cardinality(S) = Cardinality(S)
BY DEF Split!Cardinality, Cardinality

LEMMA SplitSums == ASSUME NEW f, NEW S PROVE Split!SumFunctionOnSet(f, S) = SumFunctionOnSet(f, S)
BY DEF Split!SumFunctionOnSet, SumFunctionOnSet, Split!FoldFunctionOnSet, FoldFunctionOnSet,
       Split!MapThenFoldSet, MapThenFoldSet

(* The largest holders are the first by their averages. *)
LEMMA RankedAre ==
    ASSUME NEW w, NEW S
    PROVE  Split!Ranked(w, S) = FirstBy(w, S, MaxLeaves)
<1>1. ASSUME NEW i \in S
      PROVE  {j \in S : w[j] > w[i] \/ (w[j] = w[i] /\ j < i)} = Ahead(w, S, i)
  BY DEF Ahead, Outranks
<1>2. QED
  BY <1>1, SplitCounts DEF Split!Ranked, FirstBy

(* largestRemainder gives the shares. *)
LEMMA DividedIs ==
    ASSUME NEW total, NEW w, NEW S
    PROVE  Split!LargestRemainder(total, w, S) = Apportioned(total, w, S)
<1> DEFINE all == SumFunctionOnSet(w, S)
           floor == Floors(total, w, S)
           rest == Remainders(total, w, S)
           left == LeftOver(total, w, S)
           ahead(i) == {j \in S : \/ (total * w[j]) % all > (total * w[i]) % all
                                  \/ (total * w[j]) % all = (total * w[i]) % all /\ j < i}
<1>1. ASSUME NEW i \in S
      PROVE  ahead(i) = Ahead(rest, S, i)
  BY DEF Ahead, Outranks, Remainders
<1>2. floor = [i \in S |-> (total * w[i]) \div all] /\ left = total - SumFunctionOnSet(floor, S)
  BY DEF Floors, LeftOver
<1>3. ASSUME NEW i \in S
      PROVE  i \in FirstBy(rest, S, left) <=> Cardinality(ahead(i)) < left
  BY <1>1 DEF FirstBy
<1>4. Split!LargestRemainder(total, w, S) = [i \in S |-> floor[i] + (IF Cardinality(ahead(i)) < left THEN 1 ELSE 0)]
  BY <1>2, SplitCounts, SplitSums DEF Split!LargestRemainder
<1>5. Apportioned(total, w, S) = [i \in S |-> floor[i] + (IF i \in FirstBy(rest, S, left) THEN 1 ELSE 0)]
  BY DEF Apportioned
<1> HIDE DEF floor, rest, left, ahead
<1>6. QED
  BY <1>3, <1>4, <1>5

(* Time-weighted averages are numbers. *)
LEMMA TwabIsNat ==
    ASSUME SplitConstants, SplitTypes
    PROVE  Split!Twab \in [Owners -> Nat]
<1>1. ASSUME NEW owner \in Owners, NEW s \in Samples
      PROVE  Split!SampleBalance(owner, s) \in Nat
  <2>1. snapshot[s].balance \in [Accounts -> Nat]
    BY DEF SplitConstants, SplitTypes
  <2>2. PICK A : A = {a \in Accounts : OwnerOf[a] = owner}
    OBVIOUS
  <2>3. A \subseteq Accounts /\ IsFiniteSet(A)
    BY <2>2, FS_Subset DEF SplitConstants
  <2>4. \A a \in A : snapshot[s].balance[a] \in Nat
    BY <2>1, <2>3
  <2>5. SumFunctionOnSet(snapshot[s].balance, A) \in Nat
    BY <2>3, <2>4, SumNat
  <2>6. QED
    BY <2>2, <2>5, SplitSums DEF Split!SampleBalance
<1>2. PICK n \in Nat \ {0} : n = Cardinality(Samples)
  BY FS_CardinalityType, FS_EmptySet DEF SplitConstants
<1>3. ASSUME NEW owner \in Owners
      PROVE  SumFunctionOnSet([s \in Samples |-> Split!SampleBalance(owner, s)], Samples) \div n \in Nat
  <2>1. PICK f : f = [s \in Samples |-> Split!SampleBalance(owner, s)]
    OBVIOUS
  <2>2. \A s \in Samples : f[s] \in Nat
    BY <1>1, <2>1
  <2>3. PICK x \in Nat : x = SumFunctionOnSet(f, Samples)
    BY <2>2, SumNat DEF SplitConstants
  <2>4. x \div n \in Nat
    BY <1>2
  <2>5. QED
    BY <2>1, <2>3, <2>4
<1>4. Split!Twab = [owner \in Owners |->
          SumFunctionOnSet([s \in Samples |-> Split!SampleBalance(owner, s)], Samples) \div n]
  BY <1>2, SplitSums, SplitCounts DEF Split!Twab
<1>5. QED
  BY <1>3, <1>4

(* Holders that are left in can be apportioned to. *)
LEMMA HeirsAreWeighed ==
    ASSUME SplitConstants, SplitTypes, HeirsShare, NEW S, S \subseteq eligible, S # {}
    PROVE  Apportioning(asset.allocatable, twab, S)
<1>1. S \subseteq Owners /\ \A i \in S : twab[i] \in Nat /\ twab[i] > 0
  BY DEF HeirsShare
<1>2. S \subseteq Int /\ IsFiniteSet(S)
  BY <1>1, FS_Subset DEF SplitConstants
<1>3. asset.allocatable \in Nat
  BY DEF SplitConstants, SplitTypes
<1>4. QED
  BY <1>1, <1>2, <1>3 DEF Apportioning

(* Initially there are no holders yet. *)
LEMMA SplitInitIInv == ASSUME SplitConstants, Split!Init PROVE SplitIInv
BY DEF Split!Init, SplitIInv, SplitTypes, SplitConstants

(* computeHolders, and the first division. *)
LEMMA HoldersKeep ==
    ASSUME SplitConstants, SplitIInv, Split!Holders
    PROVE  SplitIInv'
<1>1. SplitTypes /\ split = "holders" /\ heirs = {} /\ amounts = <<>>
  BY DEF SplitIInv, Split!Holders
<1>2. twab' \in [Owners -> Nat]
  BY <1>1, TwabIsNat DEF Split!Holders
<1>3. eligible' \subseteq Owners \ Excluded /\ \A i \in eligible' : twab'[i] > 0
  BY DEF Split!Holders, Split!Eligible
<1>4. SplitTypes' /\ split' \in {"passes", "done"}
  BY <1>1 DEF Split!Holders, SplitTypes
<1>5. CASE asset.allocatable = 0
  <2>1. heirs' = {}
    BY <1>1, <1>5 DEF Split!Holders
  <2>2. Cardinality(heirs') <= MaxLeaves
    BY <2>1, FS_EmptySet DEF SplitConstants
  <2>3. HeirsShare'
    BY <1>2, <1>3, <2>1, <2>2 DEF HeirsShare
  <2>4. QED
    BY <1>4, <2>1, <2>3 DEF SplitIInv
<1>6. CASE asset.allocatable # 0
  <2>1. /\ split' = "passes" /\ asset' = asset /\ heirs' = FirstBy(twab', eligible', MaxLeaves)
        /\ amounts' = Apportioned(asset.allocatable, twab', heirs')
    BY <1>6, RankedAre, DividedIs DEF Split!Holders
  <2>2. PICK w, E : w = twab' /\ E = eligible'
    OBVIOUS
  <2>3. E \subseteq Int /\ IsFiniteSet(E) /\ (\A i \in E : w[i] \in Int) /\ MaxLeaves \in Nat /\ MaxLeaves \in Int
    <3>1. E \subseteq Owners /\ w \in [Owners -> Nat]
      BY <1>2, <1>3, <2>2
    <3>2. \A i \in E : w[i] \in Int
      BY <3>1
    <3>3. E \subseteq Int /\ IsFiniteSet(E) /\ MaxLeaves \in Nat
      BY <3>1, FS_Subset DEF SplitConstants
    <3>4. QED
      BY <3>2, <3>3
  <2>4. heirs' \subseteq eligible' /\ Cardinality(heirs') <= MaxLeaves
    BY <2>1, <2>2, <2>3, FirstByCount
  <2>5. \A j \in heirs', i \in eligible' : Outranks(twab', i, j) => i \in heirs'
    <3>1. ASSUME NEW j \in FirstBy(w, E, MaxLeaves), NEW i \in E, Outranks(w, i, j)
          PROVE  i \in FirstBy(w, E, MaxLeaves)
      BY <2>3, <3>1, FirstAreClosed
    <3>2. heirs' = FirstBy(w, E, MaxLeaves)
      BY <2>1, <2>2
    <3>3. QED
      BY <2>2, <3>1, <3>2
  <2>6. HeirsShare'
    BY <1>2, <1>3, <2>1, <2>4, <2>5 DEF HeirsShare
  <2>7. QED
    BY <1>4, <2>1, <2>6 DEF SplitIInv
<1>7. QED
  BY <1>5, <1>6

(* One pass drops the smallest shares and divides again. *)
LEMMA PassKeeps ==
    ASSUME SplitConstants, SplitIInv, Split!Pass
    PROVE  SplitIInv'
<1>1. SplitTypes /\ split = "passes" /\ HeirsShare
  BY DEF SplitIInv, Split!Pass
<1>2. PICK H : H = Split!AboveMin
  OBVIOUS
<1>3. /\ heirs' = H /\ amounts' = Apportioned(asset.allocatable, twab, H) /\ pass' = pass + 1 /\ pass < MaxPasses
      /\ asset' = asset /\ twab' = twab /\ eligible' = eligible /\ split' = split /\ snapshot' = snapshot
  BY <1>2, DividedIs DEF Split!Pass, Split!More
<1>4. H \subseteq heirs /\ \A i \in heirs : i \in H <=> amounts[i] >= asset.minLeaf
  BY <1>2 DEF Split!AboveMin
<1>5. SplitTypes'
  BY <1>1, <1>3 DEF SplitTypes, SplitConstants
<1>6. Cardinality(H) <= MaxLeaves
  <2>1. IsFiniteSet(heirs)
    <3>1. heirs \subseteq Owners
      BY <1>1 DEF HeirsShare
    <3>2. QED
      BY <3>1, FS_Subset DEF SplitConstants
  <2>2. Cardinality(H) <= Cardinality(heirs) /\ Cardinality(H) \in Nat /\ Cardinality(heirs) \in Nat
    BY <1>4, <2>1, FS_Subset, FS_CardinalityType
  <2>3. Cardinality(heirs) <= MaxLeaves /\ MaxLeaves \in Nat
    BY <1>1 DEF HeirsShare, SplitConstants
  <2>4. QED
    BY <2>2, <2>3
<1>7. ASSUME NEW j \in H, NEW i \in eligible, Outranks(twab, i, j)
      PROVE  i \in H
  <2>1. j \in heirs /\ i \in heirs
    BY <1>1, <1>4, <1>7 DEF HeirsShare
  <2>2. Apportioning(asset.allocatable, twab, heirs) /\ amounts = Apportioned(asset.allocatable, twab, heirs)
    <3>1. heirs \subseteq eligible /\ heirs # {} /\ amounts = Apportioned(asset.allocatable, twab, heirs)
      BY <1>1, <2>1 DEF HeirsShare
    <3>2. QED
      BY <1>1, <3>1, HeirsAreWeighed
  <2>3. amounts[i] >= amounts[j]
    BY <1>7, <2>1, <2>2, SharesFollowWeights
  <2>4. amounts[i] \in Int /\ amounts[j] \in Int
    BY <2>1, <2>2, SharesAreClose
  <2>5. amounts[j] >= asset.minLeaf /\ asset.minLeaf \in Nat
    BY <1>1, <1>4 DEF SplitTypes, SplitConstants
  <2>6. amounts[i] >= asset.minLeaf
    BY ONLY <2>3, <2>4, <2>5
  <2>7. QED
    BY <1>4, <2>1, <2>6
<1>8. HeirsShare'
  <2>1. H \subseteq eligible
    BY <1>1, <1>4 DEF HeirsShare
  <2>2. QED
    BY <1>1, <1>3, <1>6, <1>7, <2>1 DEF HeirsShare
<1>9. QED
  BY <1>1, <1>3, <1>5, <1>8 DEF SplitIInv

(* The passes end when none is left to drop, or there were enough of them. *)
LEMMA FinishKeeps ==
    ASSUME SplitConstants, SplitIInv, Split!Finish
    PROVE  SplitIInv'
<1>1. SplitTypes /\ HeirsShare /\ split = "passes" /\ split' = "done"
  BY DEF SplitIInv, Split!Finish
<1>2. UNCHANGED <<snapshot, asset, twab, eligible, heirs, amounts, pass>>
  BY DEF Split!Finish
<1>3. ASSUME pass < MaxPasses, NEW i \in heirs
      PROVE  amounts[i] >= asset.minLeaf
  <2>1. Split!AboveMin = heirs
    BY <1>3 DEF Split!Finish, Split!More
  <2>2. QED
    BY <2>1 DEF Split!AboveMin
<1>4. SplitTypes' /\ HeirsShare'
  BY <1>1, <1>2 DEF SplitTypes, HeirsShare
<1>5. QED
  BY <1>1, <1>2, <1>3, <1>4 DEF SplitIInv

(* Every step of the split keeps the invariant. *)
LEMMA SplitNextIInv ==
    ASSUME SplitConstants, SplitIInv, [Split!Next]_splitVars
    PROVE  SplitIInv'
<1>1. CASE UNCHANGED splitVars
  BY <1>1 DEF splitVars, SplitIInv, SplitTypes, HeirsShare
<1>2. QED
  BY <1>1, HoldersKeep, PassKeeps, FinishKeeps DEF Split!Next

(* What somebody is paid at the end is at most the asset's amount. *)
LEMMA SharesOfHeirs ==
    ASSUME SplitConstants, SplitTypes, HeirsShare, NEW i \in heirs
    PROVE  /\ Apportioning(asset.allocatable, twab, heirs)
           /\ amounts = Apportioned(asset.allocatable, twab, heirs)
           /\ amounts[i] \in 0 .. asset.allocatable
<1>1. heirs \subseteq eligible /\ heirs # {} /\ amounts = Apportioned(asset.allocatable, twab, heirs)
  BY DEF HeirsShare
<1>2. Apportioning(asset.allocatable, twab, heirs)
  BY <1>1, HeirsAreWeighed
<1>3. QED
  BY <1>1, <1>2, SharesAreClose

(* The types of the split. *)
LEMMA SplitIsTyped ==
    ASSUME SplitConstants, SplitIInv
    PROVE  Split!TypeOK
<1>1. SplitTypes
  BY DEF SplitIInv
<1>2. split # "holders" => twab \in [Owners -> Nat]
  BY DEF SplitIInv, HeirsShare
<1>3. heirs \subseteq eligible /\ eligible \subseteq Owners \ Excluded
  BY DEF SplitIInv, HeirsShare
<1>4. ASSUME heirs # {}
      PROVE  amounts \in [heirs -> 0 .. asset.allocatable]
  <2>1. HeirsShare
    BY <1>4 DEF SplitIInv
  <2>2. amounts = Apportioned(asset.allocatable, twab, heirs)
    BY <1>4, <2>1 DEF HeirsShare
  <2>3. \A i \in heirs : amounts[i] \in 0 .. asset.allocatable
    BY <1>1, <2>1, SharesOfHeirs
  <2>4. QED
    BY <2>2, <2>3 DEF Apportioned
<1>5. QED
  BY <1>1, <1>2, <1>3, <1>4 DEF Split!TypeOK, SplitTypes

(* All of an asset is handed out. *)
LEMMA SplitHandsOut ==
    ASSUME SplitConstants, SplitIInv
    PROVE  Split!AllHandedOut
<1> SUFFICES ASSUME split = "done", Split!Leaves # {}
             PROVE  /\ Split!SumFunctionOnSet(amounts, Split!Leaves) = asset.allocatable
                    /\ Split!Leaves \subseteq eligible /\ Split!Cardinality(Split!Leaves) <= MaxLeaves
                    /\ pass < MaxPasses => \A i \in Split!Leaves : amounts[i] >= asset.minLeaf
  BY DEF Split!AllHandedOut
<1>1. PICK L : L = Split!Leaves
  OBVIOUS
<1>2. L \subseteq heirs /\ L # {} /\ \A i \in heirs : i \in L <=> amounts[i] > 0
  BY <1>1 DEF Split!Leaves
<1>3. SplitTypes /\ HeirsShare
  BY DEF SplitIInv
<1>4. heirs \subseteq eligible /\ IsFiniteSet(heirs) /\ Cardinality(heirs) <= MaxLeaves
  <2>1. heirs \subseteq eligible /\ heirs \subseteq Owners /\ Cardinality(heirs) <= MaxLeaves
    BY <1>3 DEF HeirsShare
  <2>2. QED
    BY <2>1, FS_Subset DEF SplitConstants
<1>5. \A i \in heirs : amounts[i] \in Nat /\ amounts[i] \in Int
  BY <1>3, SharesOfHeirs
<1>6. SumFunctionOnSet(amounts, heirs) = asset.allocatable
  BY <1>2, <1>3, SharesOfHeirs, SharesAddUp
<1>7. IsFiniteSet(L) /\ IsFiniteSet(heirs \ L)
  BY <1>2, <1>4, FS_Subset
<1>8. SumFunctionOnSet(amounts, heirs) = SumFunctionOnSet(amounts, L) + SumFunctionOnSet(amounts, heirs \ L)
  BY <1>2, <1>4, <1>5, SumSplit
<1>9. SumFunctionOnSet(amounts, heirs \ L) = 0
  <2>1. \A i \in heirs \ L : amounts[i] = 0
    BY <1>2, <1>5
  <2>2. QED
    BY <1>7, <2>1, SumZero
<1>10. SumFunctionOnSet(amounts, L) \in Nat
  BY <1>2, <1>5, <1>7, SumNat
<1>11. Cardinality(L) <= MaxLeaves
  <2>1. Cardinality(L) <= Cardinality(heirs) /\ Cardinality(L) \in Nat /\ Cardinality(heirs) \in Nat
    BY <1>2, <1>4, FS_Subset, FS_CardinalityType
  <2>2. QED
    BY <1>4, <2>1 DEF SplitConstants
<1>12. pass < MaxPasses => \A i \in L : amounts[i] >= asset.minLeaf
  BY <1>2 DEF SplitIInv
<1>13. QED
  BY <1>1, <1>2, <1>4, <1>6, <1>8, <1>9, <1>10, <1>11, <1>12, SplitSums, SplitCounts

(* No share is a unit away from the exact one. *)
LEMMA SplitIsClose ==
    ASSUME SplitConstants, SplitIInv
    PROVE  Split!WithinOneUnit
<1> SUFFICES ASSUME split # "holders", NEW i \in heirs
             PROVE  /\ amounts[i] * Split!SumFunctionOnSet(twab, heirs)
                          < asset.allocatable * twab[i] + Split!SumFunctionOnSet(twab, heirs)
                    /\ asset.allocatable * twab[i] < (amounts[i] + 1) * Split!SumFunctionOnSet(twab, heirs)
  BY DEF Split!WithinOneUnit
<1>1. SplitTypes /\ HeirsShare
  BY DEF SplitIInv
<1>2. QED
  BY <1>1, SharesOfHeirs, SharesAreClose, SplitSums

(* Nobody is paid more than a larger holder. *)
LEMMA SplitIsOrdered ==
    ASSUME SplitConstants, SplitIInv
    PROVE  Split!LargerHoldersGetMore
<1> SUFFICES ASSUME split = "done", NEW i \in eligible, NEW j \in eligible, Outranks(twab, i, j)
             PROVE  Split!Paid(i) >= Split!Paid(j)
  BY DEF Split!LargerHoldersGetMore, Outranks
<1>1. SplitTypes /\ HeirsShare
  BY DEF SplitIInv
<1>2. ASSUME NEW k \in eligible
      PROVE  Split!Paid(k) = IF k \in heirs THEN amounts[k] ELSE 0
  <2>1. k \in heirs => amounts[k] \in Nat
    BY <1>1, SharesOfHeirs
  <2>2. QED
    BY <2>1 DEF Split!Paid, Split!Leaves
<1>3. CASE j \notin heirs
  <2>1. i \in heirs => amounts[i] \in Nat
    BY <1>1, SharesOfHeirs
  <2>2. QED
    BY <1>2, <1>3, <2>1
<1>4. CASE j \in heirs
  <2>1. i \in heirs
    BY <1>1, <1>4 DEF HeirsShare
  <2>2. amounts[i] >= amounts[j]
    BY <1>1, <1>4, <2>1, SharesOfHeirs, SharesFollowWeights
  <2>3. QED
    BY <1>2, <1>4, <2>1, <2>2
<1>5. QED
  BY <1>3, <1>4

(***************************************************************************)
(* For any holders, balances, averages, limits and minimum leaves, and     *)
(* however many passes it takes: what is allocated of an asset is handed   *)
(* out to the last unit, to eligible holders only, each share less than a  *)
(* unit away from the exact one of its pass, and nobody is paid more than  *)
(* a larger holder (allocate.ts 3-12 and 161).                             *)
(***************************************************************************)
THEOREM SplitsAreFair ==
    ASSUME SplitConstants
    PROVE  RoundDataSpec => []SplitIsFair
<1> DEFINE Inv == part = "split" => SplitIInv
           all == <<part, pageVars, vetVars, swapVars, splitVars, vars, verifyVars, triggerVars>>
<1>1. RoundDataInit => Inv
  BY SplitInitIInv DEF RoundDataInit
<1>2. Inv /\ [RoundDataNext]_all => Inv'
  <2> SUFFICES ASSUME Inv, [RoundDataNext]_all, part' = "split"
               PROVE  SplitIInv'
    OBVIOUS
  <2>1. part = "split" /\ [Split!Next]_splitVars
    BY DEF RoundDataNext
  <2>2. QED
    BY <2>1, SplitNextIInv
<1>3. Inv => SplitIsFair
  BY SplitIsTyped, SplitHandsOut, SplitIsClose, SplitIsOrdered DEF SplitIsFair, Split!SplitIsFair
<1>4. QED
  BY <1>1, <1>2, <1>3, PTL DEF RoundDataSpec

----------------------------------------------------------------------------
(* The trigger (RoundTrigger). *)

(* A swap's overhead is at most 0.01 SOL (SWAP_OVERHEAD_LAMPORTS), and what *)
(* is lost of the pot between close and buying at most 0.02 SOL a coin.    *)
LossesAreSmall ==
    /\ SwapOverhead <= 250000
    /\ MaxOverflows * Overflow <= 500000 * ExpectedBasketSize

(* What the proof about the trigger asks of the constants.  Amounts are in *)
(* units of 40 lamports; rent and transaction fees are the numbers         *)
(* MCRoundData gives.                                                      *)
TriggerConstants ==
    /\ IsFiniteSet(Shareholders) /\ Cap \in Nat /\ ExpectedBasketSize \in Nat /\ SwapOverhead \in Nat
    /\ MinWindow \in Nat /\ MaxWindow \in Nat /\ Revenues \subseteq Nat
    /\ MaxPot \in Nat /\ Overflow \in Nat /\ MaxOverflows \in Nat
    /\ LossesAreSmall

TriggerTypes ==
    /\ basketLamports \in 0 .. MaxPot /\ operationsLamports \in 0 .. MaxPot /\ basketBudgetLamports \in 0 .. MaxPot
    /\ status \in {"COLLECTING", "SEEDED", "BUYING", "NO_COINS"}
    /\ candidates \in 0 .. 2 /\ latestEligibleCount \in 0 .. Cap
    /\ age \in 0 .. MaxWindow /\ overflows \in 0 .. MaxOverflows

(* Rent and fees of paying every eligible holder every coin. *)
PayoutsCost(eligibles, coins) == eligibles * coins * 51357 + (coins + 3) * 375

(* The pot of a closed round was twenty times its payouts' cost. *)
PotCovers ==
    /\ latestEligibleCount >= 1
    /\ basketLamports + overflows * Overflow >= 20 * PayoutsCost(latestEligibleCount, ExpectedBasketSize)

TriggerIInv ==
    /\ TriggerTypes
    /\ status \in {"COLLECTING", "SEEDED"} => operationsLamports = 0
    /\ status = "SEEDED" => PotCovers

(* The sizes that RoundTrigger speaks of. *)
LEMMA TriggerCounts == ASSUME NEW S PROVE Trigger!Cardinality(S) = Cardinality(S)
BY DEF Trigger!Cardinality, Cardinality

(* An estimate of the whole round is the payouts' cost and the impact. *)
LEMMA RoundCostIs ==
    ASSUME NEW e \in Nat, NEW c \in Nat, NEW impacts \in Int
    PROVE  Trigger!EstimateRoundCost(e * c, c, impacts) = PayoutsCost(e, c) + impacts
<1>1. PICK p \in Nat : p = e * c
  OBVIOUS
<1>2. Trigger!EstimateRoundCost(p, c, impacts) = p * 50982 + (p + 1 + c + 2) * 375 + impacts
  BY DEF Trigger!EstimateRoundCost, Trigger!EstimateTransactions, Trigger!Rent
<1>3. PayoutsCost(e, c) = p * 51357 + (c + 3) * 375
  BY <1>1 DEF PayoutsCost
<1>4. p * 50982 + (p + 1 + c + 2) * 375 + impacts = p * 51357 + (c + 3) * 375 + impacts
  BY ONLY <1>1, c \in Nat, impacts \in Int
<1>5. QED
  BY <1>1, <1>2, <1>3, <1>4

(* The reserve and the least each coin needs are within what a closed      *)
(* round's pot was asked for, however few of the coins are bought.         *)
LEMMA ReserveFits ==
    ASSUME NEW e \in Nat, e >= 1, NEW B \in Nat, NEW c \in 1 .. B
    PROVE  /\ Trigger!EstimateOperatingCost(e, c) \in Nat
           /\ Trigger!EstimateOperatingCost(e, c) + c * 250001 + 500000 * B <= 20 * PayoutsCost(e, B)
<1>1. PICK p \in Nat, q \in Nat : p = e * c /\ q = e * B
  OBVIOUS
<1>2. c \in Nat /\ c >= 1 /\ B >= 1 /\ c <= B
  OBVIOUS
<1>3. p <= q /\ B <= q
  BY ONLY <1>1, <1>2, e \in Nat, e >= 1, B \in Nat
<1>4. PICK y \in Nat : y = (e + 7) \div 8 /\ y <= e
  <2>1. (e + 7) \div 8 \in Nat /\ (e + 7) \div 8 <= e
    BY ONLY e \in Nat, e >= 1
  <2>2. QED
    BY <2>1
<1>5. PICK z \in Nat : z = c * y /\ z <= p
  <2>1. c * y \in Nat /\ c * y <= e * c
    BY ONLY <1>2, <1>4, e \in Nat
  <2>2. QED
    BY <1>1, <2>1
<1>6. Trigger!EstimateOperatingCost(e, c) = PayoutsCost(e, c) + 111360 + 121626 * c + 174 * z
  <2>1. Trigger!RoundAccounts(e, c) = 49764 + 61596 + c * ((371 + y) * 174 + 57072)
    BY <1>2, <1>4 DEF Trigger!RoundAccounts, Trigger!Rent
  <2>2. c * ((371 + y) * 174 + 57072) = 121626 * c + 174 * z
    BY ONLY <1>2, <1>4, <1>5
  <2>3. Trigger!EstimateRoundCost(e * c, c, 0) = PayoutsCost(e, c)
    <3>1. PayoutsCost(e, c) \in Int
      BY <1>2 DEF PayoutsCost
    <3>2. QED
      BY <1>2, <3>1, RoundCostIs
  <2>4. PayoutsCost(e, c) \in Int
    BY <1>2 DEF PayoutsCost
  <2>5. QED
    BY <1>2, <1>5, <2>1, <2>2, <2>3, <2>4 DEF Trigger!EstimateOperatingCost
<1>7. PayoutsCost(e, c) = p * 51357 + (c + 3) * 375 /\ PayoutsCost(e, B) = q * 51357 + (B + 3) * 375
  BY <1>1 DEF PayoutsCost
<1>8. p * 51357 + (c + 3) * 375 + 111360 + 121626 * c + 174 * z + c * 250001 + 500000 * B
          <= 20 * (q * 51357 + (B + 3) * 375)
  BY ONLY <1>1, <1>2, <1>3, <1>5, B \in Nat
<1>9. QED
  BY <1>1, <1>2, <1>5, <1>6, <1>7, <1>8

(* Initially nothing was collected. *)
LEMMA TriggerInitIInv == ASSUME TriggerConstants, Trigger!Init PROVE TriggerIInv
BY DEF Trigger!Init, TriggerIInv, TriggerTypes, TriggerConstants

(* A snapshot counts at most the cap. *)
LEMMA CountsAreCapped ==
    ASSUME TriggerConstants, NEW balance
    PROVE  /\ Trigger!CountLikelyEligible(balance) \in 0 .. Cap
           /\ Trigger!EveryOwner(balance) \in 0 .. Cap
<1>1. ASSUME NEW S, S \subseteq Shareholders
      PROVE  Trigger!Least(Cap, Trigger!Cardinality(S)) \in 0 .. Cap
  <2>1. Cardinality(S) \in Nat /\ Cap \in Nat
    BY <1>1, FS_Subset, FS_CardinalityType DEF TriggerConstants
  <2>2. QED
    BY <2>1, TriggerCounts DEF Trigger!Least
<1>2. QED
  BY <1>1 DEF Trigger!CountLikelyEligible, Trigger!EveryOwner

(* A close asks for twenty times the cost. *)
LEMMA CloseCovers ==
    ASSUME TriggerConstants, TriggerTypes, Trigger!ShouldTriggerRound, latestEligibleCount # 0
    PROVE  PotCovers
<1>1. PICK x \in Nat, e \in Nat, B \in Nat, o \in Nat :
          x = basketLamports /\ e = latestEligibleCount /\ B = ExpectedBasketSize /\ o = overflows * Overflow
  BY DEF TriggerTypes, TriggerConstants
<1>2. PICK d \in Nat : d = x \div 100
  BY <1>1
<1>3. PayoutsCost(e, B) \in Int
  BY DEF PayoutsCost
<1>4. (PayoutsCost(e, B) + d) * 20 <= x
  <2>1. Trigger!EstimateCost(x, e) = PayoutsCost(e, B) + d
    BY <1>1, <1>2, RoundCostIs DEF Trigger!EstimateCost
  <2>2. QED
    BY <1>1, <2>1 DEF Trigger!ShouldTriggerRound
<1>5. x + o >= 20 * PayoutsCost(e, B)
  BY ONLY <1>1, <1>2, <1>3, <1>4
<1>6. QED
  BY <1>1, <1>5 DEF PotCovers, TriggerTypes

(* What is bought of the basket leaves every coin enough. *)
LEMMA BuyKeeps ==
    ASSUME TriggerConstants, TriggerIInv, NEW coins \in 0 .. ExpectedBasketSize, Trigger!BuyBasket(coins)
    PROVE  TriggerIInv'
<1>1. TriggerTypes /\ status = "SEEDED" /\ PotCovers /\ operationsLamports = 0
  BY DEF TriggerIInv, Trigger!BuyBasket
<1>2. UNCHANGED <<candidates, latestEligibleCount, age, overflows>>
  BY DEF Trigger!BuyBasket
<1>3. CASE coins = 0
  <2>1. status' = "NO_COINS" /\ UNCHANGED <<basketLamports, operationsLamports, basketBudgetLamports>>
    BY <1>3 DEF Trigger!BuyBasket, TriggerConstants
  <2>2. QED
    BY <1>1, <1>2, <2>1 DEF TriggerIInv, TriggerTypes
<1>4. CASE coins # 0
  <2>1. PICK x \in Nat, e \in Nat, B \in Nat, o \in Nat, h \in Nat :
            /\ x = basketLamports /\ e = latestEligibleCount /\ B = ExpectedBasketSize
            /\ o = overflows * Overflow /\ h = SwapOverhead
    BY <1>1 DEF TriggerTypes, TriggerConstants
  <2>2. e >= 1 /\ x + o >= 20 * PayoutsCost(e, B) /\ h <= 250000 /\ coins \in 1 .. B
    <3>1. e >= 1 /\ x + o >= 20 * PayoutsCost(e, B) /\ coins \in 1 .. B
      BY <1>1, <1>4, <2>1 DEF PotCovers
    <3>2. h <= 250000
      BY <2>1, SMT DEF TriggerConstants, LossesAreSmall
    <3>3. QED
      BY <3>1, <3>2
  <2>3. o <= 500000 * B
    <3>1. PICK i \in Nat, n \in Nat, f \in Nat : i = overflows /\ n = MaxOverflows /\ f = Overflow
      BY <1>1 DEF TriggerTypes, TriggerConstants
    <3>2. i <= n
      BY <1>1, <3>1 DEF TriggerTypes
    <3>3. n * f <= 500000 * B
      BY <2>1, <3>1, SMT DEF TriggerConstants, LossesAreSmall
    <3>4. i * f <= n * f
      BY ONLY <3>1, <3>2
    <3>5. o = i * f
      BY <2>1, <3>1
    <3>6. QED
      BY ONLY <2>1, <3>1, <3>3, <3>4, <3>5
  <2>4. PICK r \in Nat : /\ r = Trigger!EstimateOperatingCost(e, coins)
                        /\ r + coins * 250001 + 500000 * B <= 20 * PayoutsCost(e, B)
    BY <2>2, ReserveFits
  <2>5. PayoutsCost(e, B) \in Int
    BY DEF PayoutsCost
  <2>6. x - r >= coins * 250001 /\ coins \in Nat /\ coins >= 1
    BY ONLY <2>1, <2>2, <2>3, <2>4, <2>5
  <2>7. PICK per \in Nat : per = (x - r) \div coins /\ per >= 250001 /\ per <= x
    <3>1. PICK d \in Nat : d = x - r
      BY ONLY <2>1, <2>4, <2>6
    <3>2. d \div coins \in Nat /\ d \div coins >= 250001 /\ d \div coins <= d
      BY ONLY <2>6, <3>1
    <3>3. d <= x
      BY ONLY <2>1, <2>4, <3>1
    <3>4. QED
      BY <2>1, <3>1, <3>2, <3>3
  <2>8. ~ (x <= r) /\ ~ (per <= h)
    BY ONLY <2>1, <2>2, <2>4, <2>6, <2>7
  <2>9. /\ status' = "BUYING" /\ basketLamports' = x - r /\ operationsLamports' = operationsLamports + r
        /\ basketBudgetLamports' = per
    BY <1>4, <2>1, <2>4, <2>7, <2>8 DEF Trigger!BuyBasket
  <2>10. x - r \in 0 .. MaxPot /\ r \in 0 .. MaxPot /\ per \in 0 .. MaxPot
    BY <1>1, <2>1, <2>4, <2>6, <2>7 DEF TriggerTypes, TriggerConstants
  <2>11. QED
    BY <1>1, <1>2, <2>4, <2>9, <2>10 DEF TriggerIInv, TriggerTypes
<1>5. QED
  BY <1>3, <1>4

(* The steps of the window and of the rest of the tick. *)
LEMMA WindowKeeps ==
    ASSUME TriggerConstants, TriggerIInv,
           \/ \E balance \in [Shareholders -> 0 .. 2] : Trigger!TakeSnapshot(balance)
           \/ Trigger!CloseWindow \/ Trigger!RestartWindow \/ Trigger!TimePasses
    PROVE  TriggerIInv'
<1>1. CASE \E balance \in [Shareholders -> 0 .. 2] : Trigger!TakeSnapshot(balance)
  <2>1. PICK balance : Trigger!TakeSnapshot(balance)
    BY <1>1
  <2>2. latestEligibleCount' \in 0 .. Cap
    BY <2>1, CountsAreCapped DEF Trigger!TakeSnapshot
  <2>3. candidates' \in 0 .. 2
    BY <2>1 DEF Trigger!TakeSnapshot, Trigger!Least, TriggerIInv, TriggerTypes
  <2>4. status = "COLLECTING"
    BY <2>1 DEF Trigger!TakeSnapshot
  <2>5. QED
    BY <2>1, <2>2, <2>3, <2>4 DEF Trigger!TakeSnapshot, TriggerIInv, TriggerTypes
<1>2. CASE Trigger!CloseWindow
  <2>1. PotCovers
    BY <1>2, CloseCovers DEF Trigger!CloseWindow, TriggerIInv
  <2>2. /\ status = "COLLECTING" /\ status' = "SEEDED"
        /\ UNCHANGED <<basketLamports, operationsLamports, candidates, latestEligibleCount, basketBudgetLamports,
                       age, overflows>>
    BY <1>2 DEF Trigger!CloseWindow, Trigger!Sampled
  <2>3. PotCovers'
    BY <2>1, <2>2 DEF PotCovers
  <2>4. QED
    BY <2>2, <2>3 DEF TriggerIInv, TriggerTypes
<1>3. CASE Trigger!RestartWindow
  BY <1>3 DEF Trigger!RestartWindow, Trigger!Sampled, TriggerIInv, TriggerTypes, TriggerConstants
<1>4. CASE Trigger!TimePasses
  BY <1>4 DEF Trigger!TimePasses, TriggerIInv, TriggerTypes, TriggerConstants
<1>5. QED
  BY <1>1, <1>2, <1>3, <1>4

(* What comes into the pot helps, and what is lost of it is counted. *)
LEMMA TickKeeps ==
    ASSUME TriggerConstants, TriggerIInv,
           (\E lamps \in Revenues : Trigger!CreditRevenue(lamps)) \/ Trigger!ChargeLedger
    PROVE  TriggerIInv'
<1>1. TriggerTypes
  BY DEF TriggerIInv
<1>2. PICK x \in Nat, i \in Nat, f \in Nat, e \in Nat : /\ x = basketLamports /\ i = overflows /\ f = Overflow
                                                        /\ e = latestEligibleCount
  BY <1>1 DEF TriggerTypes, TriggerConstants
<1>3. PICK w \in Int : w = 20 * PayoutsCost(e, ExpectedBasketSize)
  BY DEF PayoutsCost, TriggerConstants
<1>4. CASE \E lamps \in Revenues : Trigger!CreditRevenue(lamps)
  <2>1. PICK lamps \in Nat : Trigger!CreditRevenue(lamps)
    BY <1>4 DEF TriggerConstants
  <2>2. /\ basketLamports' = x + lamps /\ x + lamps \in 0 .. MaxPot
        /\ UNCHANGED <<operationsLamports, status, candidates, latestEligibleCount, basketBudgetLamports,
                       age, overflows>>
    BY <1>2, <2>1 DEF Trigger!CreditRevenue, TriggerConstants
  <2>3. ASSUME PotCovers
        PROVE  PotCovers'
    <3>1. e >= 1 /\ x + i * f >= w
      BY <1>2, <1>3, <2>3 DEF PotCovers
    <3>2. x + lamps + i * f >= w
      BY ONLY <1>2, <1>3, <2>1, <3>1
    <3>3. QED
      BY <1>2, <1>3, <2>2, <3>1, <3>2 DEF PotCovers
  <2>4. QED
    BY <1>1, <2>2, <2>3 DEF TriggerIInv, TriggerTypes
<1>5. CASE Trigger!ChargeLedger
  <2>1. PICK y \in Nat : y = basketLamports' /\ y <= x /\ y + f >= x
    BY <1>2, <1>5 DEF Trigger!ChargeLedger, Trigger!Least
  <2>2. /\ overflows' = i + 1 /\ i + 1 \in 0 .. MaxOverflows
        /\ UNCHANGED <<operationsLamports, status, candidates, latestEligibleCount, basketBudgetLamports, age>>
    BY <1>1, <1>2, <1>5 DEF Trigger!ChargeLedger, TriggerTypes, TriggerConstants
  <2>3. ASSUME PotCovers
        PROVE  PotCovers'
    <3>1. e >= 1 /\ x + i * f >= w
      BY <1>2, <1>3, <2>3 DEF PotCovers
    <3>2. (i + 1) * f = i * f + f
      BY ONLY <1>2
    <3>3. y + (i + 1) * f >= w
      <4>1. PICK k \in Nat : k = i * f
        BY ONLY <1>2
      <4>2. x + k >= w
        BY <3>1, <4>1
      <4>3. y + f >= x /\ x \in Nat /\ f \in Nat /\ y \in Nat /\ w \in Int /\ k \in Nat
        BY <1>2, <1>3, <2>1, <4>1
      <4>4. y + (k + f) >= w
        BY ONLY <4>2, <4>3
      <4>5. QED
        BY <3>2, <4>1, <4>4
    <3>4. latestEligibleCount' = e /\ basketLamports' = y /\ overflows' = i + 1 /\ Overflow = f
      BY <1>2, <2>1, <2>2
    <3>5. QED
      BY <1>2, <1>3, <2>1, <3>1, <3>3, <3>4 DEF PotCovers
  <2>4. basketLamports' \in 0 .. MaxPot
    BY <1>1, <1>2, <2>1 DEF TriggerTypes, TriggerConstants
  <2>5. QED
    BY <1>1, <2>2, <2>3, <2>4 DEF TriggerIInv, TriggerTypes
<1>6. QED
  BY <1>4, <1>5

(* Every step around the trigger keeps the invariant. *)
LEMMA TriggerNextIInv ==
    ASSUME TriggerConstants, TriggerIInv, [Trigger!Next]_triggerVars
    PROVE  TriggerIInv'
<1>1. CASE UNCHANGED triggerVars
  BY <1>1 DEF triggerVars, TriggerIInv, TriggerTypes, PotCovers
<1>2. CASE Trigger!Next
  BY <1>2, BuyKeeps, WindowKeeps, TickKeeps DEF Trigger!Next
<1>3. QED
  BY <1>1, <1>2

(***************************************************************************)
(* For any holders, basket, window and revenue: a round that was started   *)
(* because its pot covers its costs can buy, whatever came in between and  *)
(* however few of the coins are left, as long as no more was lost of the   *)
(* pot than TriggerConstants says (trigger.ts 50, engine.ts 499-506).      *)
(***************************************************************************)
THEOREM TriggeredRoundsBuy ==
    ASSUME TriggerConstants
    PROVE  RoundDataSpec => []TriggerLeavesBuys
<1> DEFINE Inv == part = "trigger" => TriggerIInv
           all == <<part, pageVars, vetVars, swapVars, splitVars, vars, verifyVars, triggerVars>>
<1>1. RoundDataInit => Inv
  BY TriggerInitIInv DEF RoundDataInit
<1>2. Inv /\ [RoundDataNext]_all => Inv'
  <2> SUFFICES ASSUME Inv, [RoundDataNext]_all, part' = "trigger"
               PROVE  TriggerIInv'
    OBVIOUS
  <2>1. part = "trigger" /\ [Trigger!Next]_triggerVars
    BY DEF RoundDataNext
  <2>2. QED
    BY <2>1, TriggerNextIInv
<1>3. Inv => TriggerLeavesBuys
  BY DEF TriggerLeavesBuys, Trigger!TriggerLeavesBuys, Trigger!TypeOK, TriggerIInv, TriggerTypes
<1>4. QED
  BY <1>1, <1>2, <1>3, PTL DEF RoundDataSpec

----------------------------------------------------------------------------
(* The verifier (RoundVerify). *)

(* A chain of hashes is one function of its length. *)
LEMMA ChainExists ==
    ASSUME NEW hashes, NEW n \in Nat
    PROVE  \E g : g = [m \in 0 .. n |-> IF m = 0 THEN Verifying!Genesis
                                        ELSE Verifying!Hash(<<g[m - 1], hashes[m]>>)]
<1> DEFINE Links(g, k) == g = [m \in 0 .. k |-> IF m = 0 THEN Verifying!Genesis
                                                ELSE Verifying!Hash(<<g[m - 1], hashes[m]>>)]
           F == {k \in Nat : \E g : Links(g, k)}
<1>1. 0 \in F
  <2>1. Links([m \in 0 .. 0 |-> Verifying!Genesis], 0)
    OBVIOUS
  <2> HIDE DEF Links
  <2>2. QED
    BY <2>1
<1>2. ASSUME NEW k \in Nat, k \in F
      PROVE  k + 1 \in F
  <2>1. PICK g : Links(g, k)
    BY <1>2
  <2> DEFINE h == [m \in 0 .. k + 1 |-> IF m = k + 1 THEN Verifying!Hash(<<g[k], hashes[k + 1]>>) ELSE g[m]]
  <2>2. \A m \in 0 .. k : g[m] = IF m = 0 THEN Verifying!Genesis ELSE Verifying!Hash(<<g[m - 1], hashes[m]>>)
    BY <2>1
  <2>3. \A m \in 0 .. k : h[m] = g[m]
    OBVIOUS
  <2>4. ASSUME NEW m \in 0 .. k + 1
        PROVE  h[m] = IF m = 0 THEN Verifying!Genesis ELSE Verifying!Hash(<<h[m - 1], hashes[m]>>)
    <3>1. CASE m = k + 1
      <4>1. m # 0 /\ m - 1 = k /\ k \in 0 .. k
        BY <3>1
      <4>2. h[m] = Verifying!Hash(<<g[k], hashes[k + 1]>>) /\ h[m - 1] = g[k]
        BY <2>3, <3>1, <4>1
      <4> HIDE DEF h
      <4>3. QED
        BY <3>1, <4>1, <4>2
    <3>2. CASE m # k + 1
      <4>1. m \in 0 .. k /\ (m # 0 => m - 1 \in 0 .. k)
        BY <3>2
      <4> HIDE DEF h
      <4>2. QED
        BY <2>2, <2>3, <4>1
    <3>3. QED
      BY <3>1, <3>2
  <2>5. h = [m \in 0 .. k + 1 |-> h[m]]
    OBVIOUS
  <2>6. Links(h, k + 1)
    <3> HIDE DEF h
    <3>1. QED
      BY <2>4, <2>5
  <2> HIDE DEF Links, h
  <2>7. QED
    BY <2>6
<1>3. n \in F
  <2> HIDE DEF F
  <2>1. QED
    BY <1>1, <1>2, NaturalInduction
<1>4. QED
  BY <1>3

(* The head of a chain is its last link. *)
LEMMA ChainHeadIs ==
    ASSUME NEW hashes, Len(hashes) \in Nat
    PROVE  \E g : /\ Verifying!SnapshotChainHead(hashes) = g[Len(hashes)]
                  /\ \A m \in 1 .. Len(hashes) : g[m] = Verifying!Hash(<<g[m - 1], hashes[m]>>)
<1>1. PICK n \in Nat : n = Len(hashes)
  OBVIOUS
<1> DEFINE Links(g) == g = [m \in 0 .. Len(hashes) |-> IF m = 0 THEN Verifying!Genesis
                                             ELSE Verifying!Hash(<<g[m - 1], hashes[m]>>)]
           head == CHOOSE g : Links(g)
<1>2. Verifying!SnapshotChainHead(hashes) = head[Len(hashes)]
  BY DEF Verifying!SnapshotChainHead
<1>3. Links(head)
  <2>1. \E g : Links(g)
    BY ChainExists
  <2> HIDE DEF Links
  <2>2. QED
    BY <2>1
<1>4. ASSUME NEW m \in 1 .. Len(hashes)
      PROVE  head[m] = Verifying!Hash(<<head[m - 1], hashes[m]>>)
  <2>1. m \in 0 .. Len(hashes) /\ m # 0
    BY <1>1
  <2> HIDE DEF head
  <2>2. QED
    BY <1>3, <2>1
<1> HIDE DEF head
<1>5. QED
  BY <1>2, <1>4

(* A list and a chain of the same length with the same head are one. *)
LEMMA ChainBinds ==
    ASSUME NEW a, NEW b, Len(a) \in Nat, Len(b) = Len(a),
           Verifying!SnapshotChainHead(a) = Verifying!SnapshotChainHead(b)
    PROVE  \A m \in 1 .. Len(a) : a[m] = b[m]
<1>1. PICK n \in Nat : n = Len(a) /\ n = Len(b)
  OBVIOUS
<1>2. PICK g : /\ Verifying!SnapshotChainHead(a) = g[n]
               /\ \A m \in 1 .. n : g[m] = Verifying!Hash(<<g[m - 1], a[m]>>)
  BY <1>1, ChainHeadIs
<1>3. PICK h : /\ Verifying!SnapshotChainHead(b) = h[n]
               /\ \A m \in 1 .. n : h[m] = Verifying!Hash(<<h[m - 1], b[m]>>)
  BY <1>1, ChainHeadIs
<1> DEFINE F == {k \in Nat : k <= n => g[n - k] = h[n - k]}
<1>4. ASSUME NEW m \in 1 .. n, g[m] = h[m]
      PROVE  g[m - 1] = h[m - 1] /\ a[m] = b[m]
  <2>1. Verifying!Hash(<<g[m - 1], a[m]>>) = Verifying!Hash(<<h[m - 1], b[m]>>)
    BY <1>2, <1>3, <1>4
  <2>2. QED
    BY <2>1 DEF Verifying!Hash
<1>5. \A k \in Nat : k \in F
  <2>1. 0 \in F
    <3>1. n - 0 = n
      BY <1>1
    <3>2. g[n] = h[n]
      <4>1. g[n] = Verifying!SnapshotChainHead(a)
        BY <1>2
      <4>2. h[n] = Verifying!SnapshotChainHead(b)
        BY <1>3
      <4>3. QED
        BY <4>1, <4>2
    <3>3. QED
      BY <3>1, <3>2
  <2>2. ASSUME NEW k \in Nat, k \in F
        PROVE  k + 1 \in F
    <3>1. CASE k + 1 <= n
      <4>1. n - k \in 1 .. n /\ k <= n /\ n - (k + 1) = (n - k) - 1
        BY <3>1
      <4>2. g[(n - k) - 1] = h[(n - k) - 1]
        BY <1>4, <2>2, <4>1
      <4>3. QED
        BY <4>1, <4>2
    <3>2. CASE ~(k + 1 <= n)
      BY <3>2
    <3>3. QED
      BY <3>1, <3>2
  <2> HIDE DEF F
  <2>3. QED
    BY <2>1, <2>2, NaturalInduction
<1>6. ASSUME NEW m \in 1 .. n
      PROVE  a[m] = b[m]
  <2>1. n - m \in Nat /\ n - m <= n /\ n - (n - m) = m
    OBVIOUS
  <2>2. g[m] = h[m]
    BY <1>5, <2>1
  <2>3. QED
    BY <1>4, <2>2
<1>7. QED
  BY <1>1, <1>6

(* What is put in slot order is all there. *)
LEMMA OrderIsInside ==
    ASSUME NEW cs, NEW S, S \subseteq Int, IsFiniteSet(S), \A c \in S : cs[c].slot \in Int
    PROVE  Verifying!InSlotOrder(cs, S) \in [1 .. Cardinality(S) -> S]
<1> DEFINE key == [c \in S |-> 0 - cs[c].slot]
           InOrder(f) == \A a, b \in DOMAIN f : a < b => Verifying!Earlier(cs, f[a], f[b])
<1>1. \A c \in S : key[c] \in Int /\ key[c] = 0 - cs[c].slot
  <2> SUFFICES ASSUME NEW c \in S
               PROVE  key[c] \in Int /\ key[c] = 0 - cs[c].slot
    OBVIOUS
  <2>1. PICK x \in Int : x = cs[c].slot
    OBVIOUS
  <2>2. key[c] = 0 - cs[c].slot
    OBVIOUS
  <2> HIDE DEF key
  <2>3. QED
    BY <2>1, <2>2
<1>2. PICK f \in [1 .. Cardinality(S) -> S] :
          \A a, b \in 1 .. Cardinality(S) : a < b => Outranks(key, f[a], f[b])
  <2> HIDE DEF key
  <2>1. QED
    BY <1>1, RankingInOrder
<1>3. ASSUME NEW c \in S, NEW d \in S, Outranks(key, c, d)
      PROVE  Verifying!Earlier(cs, c, d)
  <2>1. PICK x \in Int, y \in Int : x = cs[c].slot /\ y = cs[d].slot
    OBVIOUS
  <2>2. key[c] = 0 - x /\ key[d] = 0 - y
    BY <1>1, <2>1
  <2> HIDE DEF key
  <2>3. (0 - x > 0 - y) \/ (0 - x = 0 - y /\ c < d)
    BY <1>3, <2>2 DEF Outranks
  <2>4. x < y \/ (x = y /\ c < d)
    BY <2>1, <2>3
  <2>5. QED
    BY <2>1, <2>4 DEF Verifying!Earlier
<1>4. InOrder(f)
  <2> HIDE DEF key
  <2>1. QED
    BY <1>2, <1>3
<1>5. Verifying!InSlotOrder(cs, S) = CHOOSE g \in [1 .. Cardinality(S) -> S] : InOrder(g)
  <2>1. Verifying!Cardinality(S) = Cardinality(S)
    BY DEF Verifying!Cardinality, Cardinality
  <2>2. QED
    BY <2>1 DEF Verifying!InSlotOrder
<1> HIDE DEF InOrder
<1>6. QED
  BY <1>2, <1>4, <1>5

(***************************************************************************)
(* What the proofs about the verifier ask of the constants: a bound on the *)
(* snapshots and, for OwnIsAccepted, that the keeper's evidence of its     *)
(* purchase is true: known transactions of the buyer that did not fail,    *)
(* which brought what it says and cost at least what it says.              *)
(***************************************************************************)
SnapshotsBounded == MaxSnapshots \in Nat

EvidenceIsTrue ==
    /\ \E e \in Purchases : e.honest
    /\ \A e \in Purchases : e.honest =>
          /\ e.signatures \subseteq DOMAIN Txs /\ (e.received > 0 => e.signatures # {})
          /\ \A s \in e.signatures : ~Txs[s].failed /\ Txs[s].signer = e.buyer
          /\ e.received = Verifying!Total("received", e.signatures)
          /\ Verifying!Total("out", e.signatures) >= e.spent

(* The distributor is the policy's. *)
Created ==
    /\ distributor = [policyHash |-> Verifying!Hash(policy), offset |-> policy.offset, minWindow |-> policy.minWindow]
    /\ Verifying!ValidPolicy(policy)

(* A snapshot was taken since open, one slot each. *)
Taking ==
    /\ intent.secretCommitment = Verifying!Hash(secret)
    /\ intent.openSlot \in Nat /\ intent.openSlot <= now
    /\ \A i \in DOMAIN taken : intent.openSlot <= taken[i].slot

(* What close recorded is what was taken. *)
Closed ==
    /\ intent.closeSlot = now /\ intent.snapshotCount = Len(taken)
    /\ intent.snapshotChainHead = Verifying!SnapshotChainHead(Verifying!Sha(Verifying!Candidates(taken)))
    /\ now - intent.openSlot >= policy.minWindow

(* The intent once its seed is recorded. *)
Seeded ==
    /\ intent = [openSlot |-> intent.openSlot, secretCommitment |-> intent.secretCommitment,
                 closeSlot |-> intent.closeSlot, snapshotCount |-> intent.snapshotCount,
                 solUsd |-> intent.solUsd, snapshotChainHead |-> intent.snapshotChainHead,
                 seedSlot |-> intent.seedSlot, seedHash |-> intent.seedHash, seedTs |-> intent.seedTs]
    /\ intent.seedSlot >= intent.closeSlot + policy.offset

(* The bundle as it was published, whatever it is of. *)
PublishedWhole ==
    /\ directory.manifest = Verifying!BuildManifest(directory.files)
    /\ header.artifactHash = Verifying!Hash(directory.manifest)

VerifyIInv ==
    /\ Verifying!TypeOK
    /\ taken \in Seq([index : Nat, slot : Nat, body : Bodies]) /\ now = Len(taken)
    /\ distributor = <<>> \/ Created
    /\ stage # "new" => Created /\ Taking
    /\ stage = "new" => taken = <<>>
    /\ stage \notin {"new", "open"} => Closed
    /\ stage \notin {"new", "open", "closed"} => Seeded
    /\ stage = "committed" => PublishedWhole

(* Initially nothing was opened. *)
LEMMA VerifyInitIInv == ASSUME SnapshotsBounded, Verifying!Init PROVE VerifyIInv
BY DEF Verifying!Init, VerifyIInv, Verifying!TypeOK, SnapshotsBounded

(* The distributor is created once. *)
LEMMA CreateKeeps == ASSUME VerifyIInv, Verifying!EnsureDistributor PROVE VerifyIInv'
<1>1. stage' = stage /\ intent' = intent /\ header' = header /\ taken' = taken /\ secret' = secret /\ now' = now
      /\ policy' = policy /\ directory' = directory
  BY DEF Verifying!EnsureDistributor
<1>2. Created'
  BY <1>1 DEF Verifying!EnsureDistributor, Created
<1>3. Verifying!TypeOK'
  BY <1>1 DEF VerifyIInv, Verifying!TypeOK
<1>4. QED
  BY <1>1, <1>2, <1>3 DEF VerifyIInv, Taking, Closed, Seeded, PublishedWhole

(* A round is opened before any snapshot of it. *)
LEMMA OpenKeeps == ASSUME VerifyIInv, Verifying!OpenRound PROVE VerifyIInv'
<1>1. /\ stage = "new" /\ stage' = "open" /\ distributor # <<>>
      /\ intent' = [openSlot |-> now, secretCommitment |-> Verifying!Hash(secret)]
      /\ distributor' = distributor /\ header' = header /\ taken' = taken /\ secret' = secret
      /\ now' = now /\ policy' = policy /\ directory' = directory
  BY DEF Verifying!OpenRound
<1>2. Created /\ taken = <<>> /\ now \in Nat
  BY <1>1 DEF VerifyIInv
<1>3. intent' # <<>>
  <2>1. "openSlot" \in DOMAIN intent'
    BY <1>1
  <2>2. QED
    BY <2>1
<1>4. Created'
  BY <1>1, <1>2 DEF Created
<1>5. Verifying!TypeOK'
  BY <1>1, <1>3 DEF VerifyIInv, Verifying!TypeOK
<1>6. Taking'
  <2>1. intent'.openSlot = now /\ intent'.secretCommitment = Verifying!Hash(secret)
    BY <1>1
  <2>2. QED
    BY <1>1, <1>2, <2>1 DEF Taking
<1>7. QED
  BY <1>1, <1>4, <1>5, <1>6 DEF VerifyIInv

(* Snapshots are taken one slot after another. *)
LEMMA TakeKeeps == ASSUME SnapshotsBounded, VerifyIInv, Verifying!TakeSnapshot PROVE VerifyIInv'
<1>1. PICK b \in Bodies : taken' = Append(taken, [index |-> Len(taken) + 1, slot |-> now, body |-> b])
  BY DEF Verifying!TakeSnapshot
<1>2. /\ stage = "open" /\ Len(taken) < MaxSnapshots /\ now' = now + 1 /\ stage' = stage /\ intent' = intent
      /\ distributor' = distributor /\ header' = header /\ secret' = secret
      /\ policy' = policy /\ directory' = directory
  BY DEF Verifying!TakeSnapshot
<1>3. PICK n \in Nat : /\ n = now /\ n = Len(taken) /\ DOMAIN taken = 1 .. n
                       /\ taken \in Seq([index : Nat, slot : Nat, body : Bodies])
  BY DEF VerifyIInv
<1>4. PICK s : s = [index |-> n + 1, slot |-> n, body |-> b]
  OBVIOUS
<1>5. /\ s \in [index : Nat, slot : Nat, body : Bodies] /\ s \in [index : {n + 1}, slot : 0 .. n + 1, body : Bodies]
      /\ s.slot = n
  BY <1>4
<1>6. /\ taken' \in Seq([index : Nat, slot : Nat, body : Bodies]) /\ Len(taken') = n + 1 /\ DOMAIN taken' = 1 .. n + 1
      /\ \A i \in 1 .. n : taken'[i] = taken[i]
      /\ taken'[n + 1] = s
  BY <1>1, <1>3, <1>4, <1>5
<1>7. Created /\ Created' /\ Taking
  BY <1>2 DEF VerifyIInv, Created
<1>8. Verifying!TypeOK'
  <2>1. \A i \in 1 .. n + 1 : taken'[i] \in [index : {i}, slot : 0 .. n + 1, body : Bodies]
    <3>1. \A i \in 1 .. n : taken[i] \in [index : {i}, slot : 0 .. n, body : Bodies]
      BY <1>3 DEF VerifyIInv, Verifying!TypeOK
    <3>2. ASSUME NEW i \in 1 .. n + 1
          PROVE  taken'[i] \in [index : {i}, slot : 0 .. n + 1, body : Bodies]
      <4>1. CASE i = n + 1
        BY <1>5, <1>6, <4>1
      <4>2. CASE i # n + 1
        <5>1. i \in 1 .. n
          BY <4>2
        <5>2. taken'[i] \in [index : {i}, slot : 0 .. n, body : Bodies]
          BY <1>6, <3>1, <5>1
        <5>3. 0 .. n \subseteq 0 .. n + 1
          OBVIOUS
        <5>4. QED
          BY <5>2, <5>3
      <4>3. QED
        BY <4>1, <4>2
    <3>3. QED
      BY <3>2
  <2>2. n + 1 \in 0 .. MaxSnapshots
    BY <1>2, <1>3 DEF SnapshotsBounded
  <2>3. stage = "new" <=> intent = <<>>
    BY DEF VerifyIInv, Verifying!TypeOK
  <2>4. policy \in Policies /\ secret \in Secrets
    BY DEF VerifyIInv, Verifying!TypeOK
  <2>5. QED
    BY <1>2, <1>3, <1>6, <2>1, <2>2, <2>3, <2>4 DEF Verifying!TypeOK
<1>9. Taking'
  <2>1. intent.openSlot \in Nat /\ intent.openSlot <= n /\ \A i \in 1 .. n : intent.openSlot <= taken[i].slot
    BY <1>3, <1>7 DEF Taking
  <2>2. \A i \in 1 .. n + 1 : intent.openSlot <= taken'[i].slot
    <3> SUFFICES ASSUME NEW i \in 1 .. n + 1
                 PROVE  intent.openSlot <= taken'[i].slot
      OBVIOUS
    <3>1. CASE i = n + 1
      BY <1>5, <1>6, <2>1, <3>1
    <3>2. CASE i # n + 1
      <4>1. i \in 1 .. n
        BY <3>2
      <4>2. QED
        BY <1>6, <2>1, <4>1
    <3>3. QED
      BY <3>1, <3>2
  <2>3. intent.secretCommitment = Verifying!Hash(secret)
    BY <1>7 DEF Taking
  <2>4. QED
    BY <1>2, <1>3, <1>6, <2>1, <2>2, <2>3 DEF Taking
<1>10. QED
  BY <1>2, <1>3, <1>6, <1>7, <1>8, <1>9 DEF VerifyIInv

(* Close records what was taken. *)
LEMMA CloseKeeps == ASSUME VerifyIInv, Verifying!CloseWindow PROVE VerifyIInv'
<1>1. /\ stage = "open" /\ stage' = "closed" /\ now - intent.openSlot >= distributor.minWindow
      /\ distributor' = distributor /\ header' = header /\ taken' = taken /\ secret' = secret
      /\ now' = now /\ policy' = policy /\ directory' = directory
  BY DEF Verifying!CloseWindow
<1>2. PICK head : head = Verifying!SnapshotChainHead(Verifying!Sha(Verifying!Candidates(taken)))
  OBVIOUS
<1>3. intent' = [openSlot |-> intent.openSlot, secretCommitment |-> intent.secretCommitment,
                 closeSlot |-> now, snapshotCount |-> Len(taken), solUsd |-> 1, snapshotChainHead |-> head]
  BY <1>2 DEF Verifying!CloseWindow
<1>4. /\ intent'.openSlot = intent.openSlot /\ intent'.secretCommitment = intent.secretCommitment
      /\ intent'.closeSlot = now /\ intent'.snapshotCount = Len(taken) /\ intent'.snapshotChainHead = head
  BY <1>3
<1>5. intent' # <<>>
  <2>1. "openSlot" \in DOMAIN intent'
    BY <1>3
  <2>2. QED
    BY <2>1
<1>6. Created /\ Taking
  BY <1>1 DEF VerifyIInv
<1>7. distributor.minWindow = policy.minWindow
  BY <1>6 DEF Created
<1>8. Created' /\ Taking'
  BY <1>1, <1>4, <1>6 DEF Created, Taking
<1>9. Verifying!TypeOK'
  BY <1>1, <1>5 DEF VerifyIInv, Verifying!TypeOK
<1>10. Verifying!SnapshotChainHead(Verifying!Sha(Verifying!Candidates(taken')))
          = Verifying!SnapshotChainHead(Verifying!Sha(Verifying!Candidates(taken)))
  BY <1>1
<1>11. Closed'
  BY <1>1, <1>2, <1>4, <1>7, <1>10 DEF Closed
<1>12. QED
  BY <1>1, <1>8, <1>9, <1>11 DEF VerifyIInv

(* The seed is of a block after the target. *)
LEMMA SeedKeeps == ASSUME VerifyIInv, Verifying!RecordSeed PROVE VerifyIInv'
<1>1. /\ stage = "closed" /\ stage' = "seeded"
      /\ distributor' = distributor /\ header' = header /\ taken' = taken /\ secret' = secret
      /\ now' = now /\ policy' = policy /\ directory' = directory
  BY DEF Verifying!RecordSeed
<1>2. PICK skip \in 0 .. 1, seed \in Seeds :
          intent' = [openSlot |-> intent.openSlot, secretCommitment |-> intent.secretCommitment,
                     closeSlot |-> intent.closeSlot, snapshotCount |-> intent.snapshotCount,
                     solUsd |-> intent.solUsd, snapshotChainHead |-> intent.snapshotChainHead,
                     seedSlot |-> intent.closeSlot + distributor.offset + skip, seedHash |-> seed,
                     seedTs |-> now]
  BY DEF Verifying!RecordSeed
<1>3. /\ intent'.openSlot = intent.openSlot /\ intent'.secretCommitment = intent.secretCommitment
      /\ intent'.closeSlot = intent.closeSlot /\ intent'.snapshotCount = intent.snapshotCount
      /\ intent'.solUsd = intent.solUsd /\ intent'.snapshotChainHead = intent.snapshotChainHead
      /\ intent'.seedSlot = intent.closeSlot + distributor.offset + skip
      /\ intent'.seedHash = seed /\ intent'.seedTs = now
  BY <1>2
<1>4. intent' # <<>>
  <2>1. "openSlot" \in DOMAIN intent'
    BY <1>2
  <2>2. QED
    BY <2>1
<1>5. Created /\ Taking /\ Closed
  BY <1>1 DEF VerifyIInv
<1>6. distributor.offset = policy.offset /\ policy.offset \in Int
  BY <1>5 DEF Created, Verifying!ValidPolicy
<1>7. Created' /\ Taking'
  BY <1>1, <1>3, <1>5 DEF Created, Taking
<1>8. Closed'
  <2>1. Verifying!SnapshotChainHead(Verifying!Sha(Verifying!Candidates(taken')))
            = Verifying!SnapshotChainHead(Verifying!Sha(Verifying!Candidates(taken)))
    BY <1>1
  <2>2. QED
    BY <1>1, <1>3, <1>5, <2>1 DEF Closed
<1>9. Verifying!TypeOK'
  BY <1>1, <1>4 DEF VerifyIInv, Verifying!TypeOK
<1>10. Seeded'
  <2>1. intent' = [openSlot |-> intent'.openSlot, secretCommitment |-> intent'.secretCommitment,
                   closeSlot |-> intent'.closeSlot, snapshotCount |-> intent'.snapshotCount,
                   solUsd |-> intent'.solUsd, snapshotChainHead |-> intent'.snapshotChainHead,
                   seedSlot |-> intent'.seedSlot, seedHash |-> intent'.seedHash, seedTs |-> intent'.seedTs]
    BY <1>2, <1>3
  <2>2. intent.closeSlot \in Int
    BY <1>5 DEF Closed, VerifyIInv
  <2>3. intent.closeSlot + policy.offset + skip >= intent.closeSlot + policy.offset
    BY <1>6, <2>2
  <2>4. QED
    BY <1>1, <1>3, <1>6, <2>1, <2>3 DEF Seeded
<1>11. QED
  BY <1>1, <1>7, <1>8, <1>9, <1>10 DEF VerifyIInv

(* What is committed is published whole; what happens to it later is not   *)
(* asked for.                                                              *)
LEMMA PublishKeeps ==
    ASSUME VerifyIInv, Verifying!CommitOwn \/ Verifying!CommitOther \/ Verifying!Damage
    PROVE  VerifyIInv'
<1>1. ASSUME NEW files, NEW root, Verifying!Commit(files, root)
      PROVE  /\ stage = "seeded" /\ stage' = "committed"
             /\ distributor' = distributor /\ intent' = intent /\ taken' = taken /\ secret' = secret
             /\ now' = now /\ policy' = policy
             /\ PublishedWhole'
  <2>1. /\ directory' = [files |-> files, manifest |-> Verifying!BuildManifest(files)]
        /\ header' = [assetsRoot |-> root, artifactHash |-> Verifying!Hash(Verifying!BuildManifest(files))]
    BY <1>1 DEF Verifying!Commit
  <2>2. /\ directory'.files = files /\ directory'.manifest = Verifying!BuildManifest(files)
        /\ header'.artifactHash = Verifying!Hash(Verifying!BuildManifest(files))
    BY <2>1
  <2>3. PublishedWhole'
    BY <2>2 DEF PublishedWhole
  <2>4. QED
    BY <1>1, <2>3 DEF Verifying!Commit
<1>2. CASE \E files, root : Verifying!Commit(files, root)
  <2>1. /\ stage = "seeded" /\ stage' = "committed"
        /\ distributor' = distributor /\ intent' = intent /\ taken' = taken /\ secret' = secret
        /\ now' = now /\ policy' = policy
        /\ PublishedWhole'
    BY <1>1, <1>2
  <2>2. Created' /\ Taking' /\ Closed' /\ Seeded' /\ Verifying!TypeOK'
    BY <2>1 DEF VerifyIInv, Created, Taking, Closed, Seeded, Verifying!TypeOK
  <2>3. QED
    BY <2>1, <2>2 DEF VerifyIInv
<1>3. CASE Verifying!Damage
  <2>1. /\ stage = "committed" /\ stage' = "damaged"
        /\ distributor' = distributor /\ intent' = intent /\ taken' = taken /\ secret' = secret
        /\ now' = now /\ policy' = policy
    BY <1>3 DEF Verifying!Damage
  <2>2. Created' /\ Taking' /\ Closed' /\ Seeded' /\ Verifying!TypeOK'
    BY <2>1 DEF VerifyIInv, Created, Taking, Closed, Seeded, Verifying!TypeOK
  <2>3. QED
    BY <2>1, <2>2 DEF VerifyIInv
<1>4. CASE Verifying!CommitOwn
  <2>1. PICK own : own = Verifying!Prepare(Verifying!OwnInputs)
    OBVIOUS
  <2>2. Verifying!Commit(own.files, own.root)
    BY <1>4, <2>1 DEF Verifying!CommitOwn
  <2>3. QED
    BY <1>2, <2>2
<1>5. CASE Verifying!CommitOther
  <2>1. \E files, root : Verifying!Commit(files, root)
    BY <1>5 DEF Verifying!CommitOther
  <2>2. QED
    BY <1>2, <2>1
<1>6. QED
  BY <1>3, <1>4, <1>5

(* Every step of a round and its bundle. *)
LEMMA VerifyNextIInv == ASSUME SnapshotsBounded, VerifyIInv, [Verifying!Next]_verifyVars PROVE VerifyIInv'
<1>1. CASE UNCHANGED verifyVars
  BY <1>1 DEF verifyVars, VerifyIInv, Created, Taking, Closed, Seeded, PublishedWhole, Verifying!TypeOK
<1>2. CASE Verifying!Next
  BY <1>2, CreateKeeps, OpenKeeps, TakeKeeps, CloseKeeps, SeedKeeps, PublishKeeps DEF Verifying!Next
<1>3. QED
  BY <1>1, <1>2

(* A function of the first n numbers is a list of n. *)
LEMMA ListOf ==
    ASSUME NEW n \in Nat, NEW f, f = [m \in 1 .. n |-> f[m]]
    PROVE  Len(f) = n /\ DOMAIN f = 1 .. n
<1> DEFINE S == {f[m] : m \in 1 .. n}
<1>1. f \in [1 .. n -> S]
  <2>1. \A m \in 1 .. n : f[m] \in S
    OBVIOUS
  <2> HIDE DEF S
  <2>2. QED
    BY <2>1
<1> HIDE DEF S
<1>2. f \in Seq(S)
  BY <1>1, SeqDef
<1>3. Len(f) \in Nat /\ DOMAIN f = 1 .. Len(f)
  BY <1>2
<1>4. DOMAIN f = 1 .. n
  BY <1>1
<1>5. PICK k \in Nat : k = Len(f) /\ 1 .. k = 1 .. n
  BY <1>3, <1>4
<1>6. k = n
  <2>1. CASE k < n
    <3>1. n \in 1 .. n /\ n \notin 1 .. k
      BY <2>1
    <3>2. QED
      BY <1>5, <3>1
  <2>2. CASE n < k
    <3>1. k \in 1 .. k /\ k \notin 1 .. n
      BY <2>2
    <3>2. QED
      BY <1>5, <3>1
  <2>3. QED
    BY <2>1, <2>2
<1>7. QED
  BY <1>4, <1>5, <1>6

(* A valid policy draws at least one snapshot. *)
LEMMA SamplesAreCounted ==
    ASSUME Verifying!ValidPolicy(policy)
    PROVE  policy.samples \in Nat /\ policy.samples >= 1
<1>1. PICK k : k = policy.samples
  OBVIOUS
<1>2. k \in 1 .. Verifying!MaxSamples
  BY <1>1 DEF Verifying!ValidPolicy
<1>3. k \in Nat /\ k >= 1
  BY <1>2 DEF Verifying!MaxSamples
<1>4. QED
  BY <1>1, <1>3

(* Everything drawn is on the list. *)
LEMMA DrawnIsListed ==
    ASSUME NEW n \in Nat, NEW cs, DOMAIN cs = 1 .. n, NEW a \in Int, NEW b \in Int,
           NEW k \in Nat, k >= 1, NEW seed
    PROVE  \E m \in Nat : Verifying!SelectSampleIndices(cs, <<a, b>>, k, seed) \in [1 .. m -> 1 .. n]
<1> DEFINE inside == {c \in 1 .. n : cs[c].slot \in a .. b}
           order == Verifying!InSlotOrder(cs, inside)
           place == IF Verifying!Draw[seed[2]] THEN 1 ELSE Len(order)
<1>1. Verifying!SelectSampleIndices(cs, <<a, b>>, k, seed) = IF Len(order) <= k THEN order ELSE <<order[place]>>
  <2>1. /\ inside = {c \in DOMAIN cs : cs[c].slot \in a .. b}
        /\ <<a, b>>[1] = a /\ <<a, b>>[2] = b
    OBVIOUS
  <2>2. Verifying!SelectSampleIndices(cs, <<a, b>>, k, seed) =
            IF Len(Verifying!InSlotOrder(cs, {c \in DOMAIN cs : cs[c].slot \in <<a, b>>[1] .. <<a, b>>[2]})) <= k
            THEN Verifying!InSlotOrder(cs, {c \in DOMAIN cs : cs[c].slot \in <<a, b>>[1] .. <<a, b>>[2]})
            ELSE <<Verifying!InSlotOrder(cs, {c \in DOMAIN cs : cs[c].slot \in <<a, b>>[1] .. <<a, b>>[2]})
                      [IF Verifying!Draw[seed[2]] THEN 1
                       ELSE Len(Verifying!InSlotOrder(cs, {c \in DOMAIN cs : cs[c].slot \in <<a, b>>[1] .. <<a, b>>[2]}))]>>
    BY DEF Verifying!SelectSampleIndices
  <2>3. {c \in DOMAIN cs : cs[c].slot \in <<a, b>>[1] .. <<a, b>>[2]} = inside
    BY <2>1
  <2> HIDE DEF inside
  <2>4. QED
    BY <2>2, <2>3
<1>2. inside \subseteq Int /\ inside \subseteq 1 .. n /\ \A c \in inside : cs[c].slot \in Int
  OBVIOUS
<1> HIDE DEF inside
<1>3. IsFiniteSet(inside) /\ Cardinality(inside) \in Nat
  <2>1. IsFiniteSet(1 .. n)
    BY FS_Interval
  <2>2. QED
    BY <1>2, <2>1, FS_Subset, FS_CardinalityType
<1>4. PICK m \in Nat : m = Cardinality(inside) /\ order \in [1 .. m -> inside]
  BY <1>2, <1>3, OrderIsInside
<1> HIDE DEF order
<1>5. Len(order) = m
  BY <1>4, ListOf
<1>6. CASE Len(order) <= k
  BY <1>1, <1>2, <1>4, <1>6
<1>7. CASE ~(Len(order) <= k)
  <2>1. m >= 1 /\ 1 \in 1 .. m /\ m \in 1 .. m
    BY <1>5, <1>7
  <2>2. place \in 1 .. m
    BY <1>5, <2>1
  <2> HIDE DEF place
  <2>3. order[place] \in inside
    BY <1>4, <2>2
  <2>4. <<order[place]>> \in [1 .. 1 -> 1 .. n]
    <3>1. PICK c \in 1 .. n : c = order[place]
      BY <1>2, <2>3
    <3>2. <<c>> \in [1 .. 1 -> 1 .. n]
      OBVIOUS
    <3>3. QED
      BY <3>1, <3>2
  <2>5. QED
    BY <1>1, <1>7, <2>4
<1>8. QED
  BY <1>6, <1>7

(* What of the intent a bundle repeats. *)
LEMMA RecordHas ==
    ASSUME Seeded
    PROVE  LET r == Verifying!IntentRecord(intent) IN
           /\ r.openSlot = intent.openSlot /\ r.secretCommitment = intent.secretCommitment
           /\ r.closeSlot = intent.closeSlot /\ r.snapshotCount = intent.snapshotCount
           /\ r.snapshotChainHead = intent.snapshotChainHead
           /\ r.seedSlot = intent.seedSlot /\ r.seedHash = intent.seedHash
<1>1. DOMAIN intent = {"openSlot", "secretCommitment", "closeSlot", "snapshotCount", "solUsd", "snapshotChainHead",
                       "seedSlot", "seedHash", "seedTs"}
  <2>1. PICK a, b, c, d, e, f, g, h, j :
            intent = [openSlot |-> a, secretCommitment |-> b, closeSlot |-> c, snapshotCount |-> d,
                      solUsd |-> e, snapshotChainHead |-> f, seedSlot |-> g, seedHash |-> h, seedTs |-> j]
    BY DEF Seeded
  <2>2. QED
    BY <2>1
<1>2. \A f \in DOMAIN intent \ {"seedTs"} : Verifying!IntentRecord(intent)[f] = intent[f]
  BY DEF Verifying!IntentRecord
<1>3. {"openSlot", "secretCommitment", "closeSlot", "snapshotCount", "snapshotChainHead", "seedSlot", "seedHash"}
          \subseteq DOMAIN intent \ {"seedTs"}
  BY <1>1
<1>4. QED
  BY <1>2, <1>3

(* The hashes of a list are a list. *)
LEMMA ShaIs ==
    ASSUME NEW n \in Nat, NEW cs, DOMAIN cs = 1 .. n
    PROVE  /\ Len(Verifying!Sha(cs)) = n /\ DOMAIN Verifying!Sha(cs) = 1 .. n
           /\ \A m \in 1 .. n : Verifying!Sha(cs)[m] = cs[m].sha256
           /\ Verifying!Sha(cs) = [m \in 1 .. n |-> Verifying!Sha(cs)[m]]
<1>1. PICK f : f = Verifying!Sha(cs) /\ f = [m \in 1 .. n |-> cs[m].sha256]
  BY DEF Verifying!Sha
<1>2. f = [m \in 1 .. n |-> f[m]]
  BY <1>1
<1>3. QED
  BY <1>1, <1>2, ListOf

(* What was taken, as candidates. *)
LEMMA TakenAsCandidates ==
    ASSUME VerifyIInv
    PROVE  LET own == Verifying!Candidates(taken) IN
           /\ Len(taken) \in Nat /\ DOMAIN taken = 1 .. Len(taken)
           /\ DOMAIN own = 1 .. Len(taken) /\ Len(own) = Len(taken)
           /\ \A m \in 1 .. Len(taken) : /\ own[m] = Verifying!Candidate(taken[m])
                                         /\ own[m].slot = taken[m].slot
                                         /\ own[m].sha256 = Verifying!Hash(taken[m])
<1>1. PICK n \in Nat : n = Len(taken) /\ DOMAIN taken = 1 .. n
  BY DEF VerifyIInv
<1>2. PICK own : own = Verifying!Candidates(taken) /\ own = [m \in 1 .. n |-> Verifying!Candidate(taken[m])]
  BY <1>1 DEF Verifying!Candidates
<1>3. own = [m \in 1 .. n |-> own[m]]
  BY <1>2
<1>4. Len(own) = n /\ DOMAIN own = 1 .. n
  BY <1>3, ListOf
<1>5. \A m \in 1 .. n : own[m] = Verifying!Candidate(taken[m])
  BY <1>2
<1>6. \A s : Verifying!Candidate(s).slot = s.slot /\ Verifying!Candidate(s).sha256 = Verifying!Hash(s)
  BY DEF Verifying!Candidate
<1>7. QED
  BY <1>1, <1>2, <1>4, <1>5, <1>6

(* A list with the recorded head has the hashes of what was taken. *)
LEMMA ListBinds ==
    ASSUME VerifyIInv, Closed, NEW cs, DOMAIN cs = 1 .. Len(cs), Len(cs) = intent.snapshotCount,
           Verifying!SnapshotChainHead(Verifying!Sha(cs)) = intent.snapshotChainHead
    PROVE  /\ DOMAIN cs = 1 .. Len(taken)
           /\ Verifying!Sha(cs) = Verifying!Sha(Verifying!Candidates(taken))
           /\ \A m \in 1 .. Len(taken) : cs[m].sha256 = Verifying!Hash(taken[m])
<1>1. PICK n \in Nat : /\ n = Len(taken) /\ DOMAIN taken = 1 .. n /\ n = intent.snapshotCount /\ DOMAIN cs = 1 .. n
  BY TakenAsCandidates DEF Closed
<1>2. PICK own : /\ own = Verifying!Candidates(taken) /\ DOMAIN own = 1 .. n
                 /\ \A m \in 1 .. n : own[m].sha256 = Verifying!Hash(taken[m])
  BY <1>1, TakenAsCandidates
<1>3. PICK a, b : a = Verifying!Sha(cs) /\ b = Verifying!Sha(own)
  OBVIOUS
<1>4. /\ Len(a) = n /\ a = [m \in 1 .. n |-> a[m]] /\ \A m \in 1 .. n : a[m] = cs[m].sha256
  BY <1>1, <1>3, ShaIs
<1>5. /\ Len(b) = n /\ b = [m \in 1 .. n |-> b[m]] /\ \A m \in 1 .. n : b[m] = own[m].sha256
  BY <1>2, <1>3, ShaIs
<1>6. Verifying!SnapshotChainHead(a) = Verifying!SnapshotChainHead(b)
  BY <1>2, <1>3 DEF Closed
<1>7. \A m \in 1 .. n : a[m] = b[m]
  BY <1>4, <1>5, <1>6, ChainBinds
<1>8. a = b
  BY <1>4, <1>5, <1>7
<1>9. \A m \in 1 .. n : cs[m].sha256 = Verifying!Hash(taken[m])
  BY <1>2, <1>4, <1>5, <1>7
<1>10. Verifying!Sha(cs) = Verifying!Sha(Verifying!Candidates(taken))
  BY <1>2, <1>3, <1>8
<1>11. QED
  BY <1>1, <1>9, <1>10

(* What an accepted bundle says, whatever it is. *)
LEMMA AcceptedSays ==
    ASSUME VerifyIInv, Created, Taking, Closed, Seeded, Verifying!Accepted
    PROVE  LET i == directory.files.inputs
               e == i.purchase
               drawn == Verifying!SelectSampleIndices(i.candidates, <<intent.openSlot, intent.closeSlot>>, policy.samples,
                                                      Verifying!DeriveSampleSeed(intent.seedHash, secret))
           IN /\ i.policy = policy /\ i.secret = secret /\ i.intent = Verifying!IntentRecord(intent)
              /\ Verifying!Sha(i.candidates) = Verifying!Sha(Verifying!Candidates(taken))
              /\ DOMAIN i.selected = DOMAIN drawn
              /\ \A s \in DOMAIN drawn :
                    i.selected[s] = taken[drawn[s]] /\ i.candidates[drawn[s]].slot = taken[drawn[s]].slot
              /\ i.minLeafAmount = Verifying!ExpectedMinLeafAmount(policy, e)
              /\ \E s \in SUBSET DOMAIN Txs :
                    /\ \A t \in s : Txs[t].signer = e.buyer /\ ~Txs[t].failed
                    /\ e.received = Verifying!Total("received", s) /\ e.spent <= Verifying!Total("out", s)
              /\ header.assetsRoot = Verifying!BuildRoundTrees(Verifying!Allocate(i))
<1>1. PICK i : i = directory.files.inputs
  OBVIOUS
<1>2. Verifying!ParseRoundInputs(i) /\ Verifying!CheckInputs(i)
  BY <1>1 DEF Verifying!Accepted, Verifying!VerifyRoundArtifacts
<1>3. /\ distributor.policyHash = Verifying!Hash(i.policy) /\ Verifying!IntentRecord(intent) = i.intent
      /\ header.assetsRoot = Verifying!Prepare(i).root /\ Verifying!VerifyPurchase(i.purchase)
  BY <1>1 DEF Verifying!Accepted, Verifying!VerifyRoundOnChain
<1>4. i.policy = policy
  <2>1. distributor.policyHash = Verifying!Hash(policy)
    BY DEF Created
  <2>2. QED
    BY <1>3, <2>1 DEF Verifying!Hash
<1>5. PICK r : r = i.intent /\ r = Verifying!IntentRecord(intent)
  BY <1>3
<1>6. /\ r.openSlot = intent.openSlot /\ r.secretCommitment = intent.secretCommitment
      /\ r.closeSlot = intent.closeSlot /\ r.snapshotCount = intent.snapshotCount
      /\ r.snapshotChainHead = intent.snapshotChainHead /\ r.seedHash = intent.seedHash
  BY <1>5, RecordHas
<1>7. i.secret = secret
  <2>1. Verifying!Hash(i.secret) = r.secretCommitment
    BY <1>2, <1>5 DEF Verifying!CheckInputs
  <2>2. Verifying!Hash(i.secret) = Verifying!Hash(secret)
    BY <1>6, <2>1 DEF Taking
  <2>3. QED
    BY <2>2 DEF Verifying!Hash
<1>8. PICK cs : cs = i.candidates
  OBVIOUS
<1>9. DOMAIN cs = 1 .. Len(cs)
  BY <1>2, <1>8 DEF Verifying!ParseRoundInputs
<1>10. Len(cs) = intent.snapshotCount /\ Verifying!SnapshotChainHead(Verifying!Sha(cs)) = intent.snapshotChainHead
  <2>1. Verifying!ChainHeadMatches(i)
    BY <1>2 DEF Verifying!CheckInputs
  <2>2. QED
    BY <1>5, <1>6, <1>8, <2>1 DEF Verifying!ChainHeadMatches
<1>11. /\ DOMAIN cs = 1 .. Len(taken)
       /\ Verifying!Sha(cs) = Verifying!Sha(Verifying!Candidates(taken))
       /\ \A m \in 1 .. Len(taken) : cs[m].sha256 = Verifying!Hash(taken[m])
  BY <1>9, <1>10, ListBinds
<1>12. PICK seed : seed = Verifying!DeriveSampleSeed(intent.seedHash, secret)
  OBVIOUS
<1>13. PICK drawn : drawn = Verifying!SelectSampleIndices(cs, <<intent.openSlot, intent.closeSlot>>, policy.samples, seed)
  OBVIOUS
<1>14. \A s \in DOMAIN drawn : drawn[s] \in 1 .. Len(taken)
  <2>1. Len(taken) \in Nat
    BY TakenAsCandidates
  <2>2. intent.openSlot \in Int /\ intent.closeSlot \in Int
    BY <2>1 DEF Taking, Closed, VerifyIInv
  <2>3. policy.samples \in Nat /\ policy.samples >= 1
    BY SamplesAreCounted DEF Created
  <2>4. PICK n \in Nat, a \in Int, b \in Int, k \in Nat :
            n = Len(taken) /\ a = intent.openSlot /\ b = intent.closeSlot /\ k = policy.samples /\ k >= 1
    BY <2>1, <2>2, <2>3
  <2>5. drawn = Verifying!SelectSampleIndices(cs, <<a, b>>, k, seed) /\ DOMAIN cs = 1 .. n
    BY <1>11, <1>13, <2>4
  <2>6. PICK m \in Nat : Verifying!SelectSampleIndices(cs, <<a, b>>, k, seed) \in [1 .. m -> 1 .. n]
    <3>1. k >= 1 /\ DOMAIN cs = 1 .. n
      BY <2>4, <2>5
    <3>2. QED
      BY <3>1, DrawnIsListed
  <2>7. QED
    BY <2>4, <2>5, <2>6
<1>15. PICK sel : sel = i.selected
  OBVIOUS
<1>16. /\ [s \in DOMAIN sel |-> sel[s].index] = drawn
       /\ \A s \in DOMAIN sel : Verifying!Candidate(sel[s]) = cs[sel[s].index]
  <2>1. [s \in DOMAIN sel |-> sel[s].index] =
            Verifying!SelectSampleIndices(cs, <<r.openSlot, r.closeSlot>>, i.policy.samples,
                                          Verifying!DeriveSampleSeed(r.seedHash, i.secret))
    BY <1>2, <1>5, <1>8, <1>15 DEF Verifying!CheckInputs
  <2>2. \A s \in DOMAIN sel : Verifying!Candidate(sel[s]) = cs[sel[s].index]
    BY <1>2, <1>8, <1>15 DEF Verifying!CheckInputs
  <2>3. QED
    BY <1>4, <1>6, <1>7, <1>12, <1>13, <2>1, <2>2
<1>17. DOMAIN sel = DOMAIN drawn /\ \A s \in DOMAIN drawn : sel[s].index = drawn[s]
  BY <1>16
<1>18. ASSUME NEW s \in DOMAIN drawn
       PROVE  sel[s] = taken[drawn[s]] /\ cs[drawn[s]].slot = taken[drawn[s]].slot
  <2>1. Verifying!Candidate(sel[s]) = cs[drawn[s]]
    BY <1>16, <1>17
  <2>2. cs[drawn[s]].slot = sel[s].slot /\ cs[drawn[s]].sha256 = Verifying!Hash(sel[s])
    BY <2>1 DEF Verifying!Candidate
  <2>3. Verifying!Hash(sel[s]) = Verifying!Hash(taken[drawn[s]])
    BY <1>11, <1>14, <2>2
  <2>4. sel[s] = taken[drawn[s]]
    BY <2>3 DEF Verifying!Hash
  <2>5. QED
    BY <2>2, <2>4
<1>19. i.minLeafAmount = Verifying!ExpectedMinLeafAmount(policy, i.purchase)
  BY <1>2, <1>4 DEF Verifying!CheckInputs
<1>20. PICK e : e = i.purchase
  OBVIOUS
<1>21. /\ e.signatures \in SUBSET DOMAIN Txs
       /\ \A t \in e.signatures : Txs[t].signer = e.buyer /\ ~Txs[t].failed
       /\ e.received = Verifying!Total("received", e.signatures) /\ e.spent <= Verifying!Total("out", e.signatures)
  <2>1. Verifying!VerifyPurchase(e)
    BY <1>3, <1>20
  <2>2. e.signatures \in SUBSET DOMAIN Txs /\ e.received = Verifying!Total("received", e.signatures)
    BY <2>1 DEF Verifying!VerifyPurchase
  <2>3. \A t \in e.signatures : Txs[t].signer = e.buyer /\ ~Txs[t].failed
    BY <2>1 DEF Verifying!VerifyPurchase
  <2>4. Verifying!Total("out", e.signatures) >= e.spent
    BY <2>1 DEF Verifying!VerifyPurchase, Verifying!SpentEnough
  <2>5. QED
    BY <2>2, <2>3, <2>4
<1>22. header.assetsRoot = Verifying!BuildRoundTrees(Verifying!Allocate(i))
  BY <1>3 DEF Verifying!Prepare
<1>23. PICK S \in SUBSET DOMAIN Txs :
           /\ \A t \in S : Txs[t].signer = e.buyer /\ ~Txs[t].failed
           /\ e.received = Verifying!Total("received", S) /\ e.spent <= Verifying!Total("out", S)
  BY <1>21
<1>24. drawn = Verifying!SelectSampleIndices(i.candidates, <<intent.openSlot, intent.closeSlot>>, policy.samples,
                                             Verifying!DeriveSampleSeed(intent.seedHash, secret))
  BY <1>8, <1>12, <1>13
<1>25. /\ i.policy = policy /\ i.secret = secret /\ i.intent = Verifying!IntentRecord(intent)
       /\ Verifying!Sha(i.candidates) = Verifying!Sha(Verifying!Candidates(taken))
       /\ DOMAIN i.selected = DOMAIN drawn
  BY <1>3, <1>4, <1>7, <1>8, <1>11, <1>15, <1>17
<1>26. \A s \in DOMAIN drawn :
          i.selected[s] = taken[drawn[s]] /\ i.candidates[drawn[s]].slot = taken[drawn[s]].slot
  BY <1>8, <1>15, <1>18
<1>27. /\ i.minLeafAmount = Verifying!ExpectedMinLeafAmount(policy, i.purchase)
       /\ \E s \in SUBSET DOMAIN Txs :
             /\ \A t \in s : Txs[t].signer = i.purchase.buyer /\ ~Txs[t].failed
             /\ i.purchase.received = Verifying!Total("received", s)
             /\ i.purchase.spent <= Verifying!Total("out", s)
  BY <1>19, <1>20, <1>23
<1> DEFINE I == directory.files.inputs
           D == Verifying!SelectSampleIndices(I.candidates, <<intent.openSlot, intent.closeSlot>>, policy.samples,
                                              Verifying!DeriveSampleSeed(intent.seedHash, secret))
<1>28. i = I /\ drawn = D
  BY <1>1, <1>24
<1> HIDE DEF I, D
<1>29. /\ I.policy = policy /\ I.secret = secret /\ I.intent = Verifying!IntentRecord(intent)
       /\ Verifying!Sha(I.candidates) = Verifying!Sha(Verifying!Candidates(taken))
       /\ DOMAIN I.selected = DOMAIN D
  BY <1>25, <1>28
<1>30. \A s \in DOMAIN D : I.selected[s] = taken[D[s]] /\ I.candidates[D[s]].slot = taken[D[s]].slot
  BY <1>26, <1>28
<1>31. /\ I.minLeafAmount = Verifying!ExpectedMinLeafAmount(policy, I.purchase)
       /\ \E s \in SUBSET DOMAIN Txs :
             /\ \A t \in s : Txs[t].signer = I.purchase.buyer /\ ~Txs[t].failed
             /\ I.purchase.received = Verifying!Total("received", s)
             /\ I.purchase.spent <= Verifying!Total("out", s)
       /\ header.assetsRoot = Verifying!BuildRoundTrees(Verifying!Allocate(I))
  BY <1>22, <1>27, <1>28
<1>32. QED
  BY <1>29, <1>30, <1>31 DEF I, D

(* The round's own selection is of what was taken. *)
LEMMA OwnDrawn ==
    ASSUME VerifyIInv, Created, Taking, Closed, NEW seed
    PROVE  LET drawn == Verifying!SelectSampleIndices(Verifying!Candidates(taken), <<intent.openSlot, intent.closeSlot>>,
                                                      policy.samples, seed)
           IN /\ drawn = [s \in DOMAIN drawn |-> drawn[s]]
              /\ \A s \in DOMAIN drawn : drawn[s] \in 1 .. Len(taken)
<1>1. PICK n \in Nat, a \in Int, b \in Int, k \in Nat :
          n = Len(taken) /\ a = intent.openSlot /\ b = intent.closeSlot /\ k = policy.samples /\ k >= 1
  <2>1. Len(taken) \in Nat
    BY TakenAsCandidates
  <2>2. intent.openSlot \in Int /\ intent.closeSlot \in Int
    BY <2>1 DEF Taking, Closed, VerifyIInv
  <2>3. policy.samples \in Nat /\ policy.samples >= 1
    BY SamplesAreCounted DEF Created
  <2>4. QED
    BY <2>1, <2>2, <2>3
<1>2. PICK own : own = Verifying!Candidates(taken) /\ DOMAIN own = 1 .. n
  BY <1>1, TakenAsCandidates
<1>3. PICK drawn : drawn = Verifying!SelectSampleIndices(own, <<a, b>>, k, seed)
  OBVIOUS
<1>4. PICK m \in Nat : Verifying!SelectSampleIndices(own, <<a, b>>, k, seed) \in [1 .. m -> 1 .. n]
  <2>1. k >= 1 /\ DOMAIN own = 1 .. n
    BY <1>1, <1>2
  <2>2. QED
    BY <2>1, DrawnIsListed
<1>5. drawn = [s \in DOMAIN drawn |-> drawn[s]] /\ \A s \in DOMAIN drawn : drawn[s] \in 1 .. n
  BY <1>3, <1>4
<1>6. QED
  BY <1>1, <1>2, <1>3, <1>5

(* The keeper's own inputs follow from its round. *)
LEMMA OwnChecks ==
    ASSUME VerifyIInv, EvidenceIsTrue, Created, Taking, Closed, Seeded
    PROVE  Verifying!ParseRoundInputs(Verifying!OwnInputs) /\ Verifying!CheckInputs(Verifying!OwnInputs)
<1>1. PICK n \in Nat : n = Len(taken) /\ DOMAIN taken = 1 .. n
  BY TakenAsCandidates
<1>2. PICK own : /\ own = Verifying!Candidates(taken) /\ DOMAIN own = 1 .. n /\ Len(own) = n
                 /\ \A m \in 1 .. n : own[m] = Verifying!Candidate(taken[m]) /\ own[m].slot = taken[m].slot
  BY <1>1, TakenAsCandidates
<1>3. PICK seed : seed = Verifying!DeriveSampleSeed(intent.seedHash, secret)
  OBVIOUS
<1>4. PICK drawn : /\ drawn = Verifying!SelectSampleIndices(own, <<intent.openSlot, intent.closeSlot>>, policy.samples, seed)
                   /\ drawn = [s \in DOMAIN drawn |-> drawn[s]]
                   /\ \A s \in DOMAIN drawn : drawn[s] \in 1 .. n
  BY <1>1, <1>2, OwnDrawn
<1>5. PICK sel : sel = [s \in DOMAIN drawn |-> taken[drawn[s]]]
  OBVIOUS
<1>6. PICK r : r = Verifying!IntentRecord(intent)
  OBVIOUS
<1>7. PICK e : e = Verifying!Purchase
  OBVIOUS
<1>8. PICK i : i = Verifying!OwnInputs
  OBVIOUS
<1>9. i = [policy |-> policy, intent |-> r, secret |-> secret, candidates |-> own, selected |-> sel, purchase |-> e,
           minLeafAmount |-> Verifying!ExpectedMinLeafAmount(policy, e)]
  BY <1>2, <1>3, <1>4, <1>5, <1>6, <1>7, <1>8 DEF Verifying!OwnInputs
<1>10. /\ i.policy = policy /\ i.intent = r /\ i.secret = secret /\ i.candidates = own /\ i.selected = sel
       /\ i.purchase = e /\ i.minLeafAmount = Verifying!ExpectedMinLeafAmount(policy, e)
  BY <1>9
<1>11. /\ r.openSlot = intent.openSlot /\ r.secretCommitment = intent.secretCommitment
       /\ r.closeSlot = intent.closeSlot /\ r.snapshotCount = intent.snapshotCount
       /\ r.snapshotChainHead = intent.snapshotChainHead
       /\ r.seedSlot = intent.seedSlot /\ r.seedHash = intent.seedHash
  BY <1>6, RecordHas
<1>12. Verifying!ParseRoundInputs(i)
  <2>1. Verifying!ValidPolicy(policy)
    BY DEF Created
  <2>2. QED
    BY <1>2, <1>10, <2>1 DEF Verifying!ParseRoundInputs
<1>13. Verifying!Hash(i.secret) = r.secretCommitment
  BY <1>10, <1>11 DEF Taking
<1>14. PICK a \in Nat, b \in Nat : a = r.openSlot /\ b = r.closeSlot /\ b = now /\ a = intent.openSlot /\ a <= b
  BY <1>1, <1>11 DEF Taking, Closed, VerifyIInv
<1>15. r.closeSlot >= r.openSlot /\ r.closeSlot - r.openSlot >= i.policy.minWindow
  <2>1. b - a >= policy.minWindow
    BY <1>14 DEF Closed
  <2>2. QED
    BY <1>10, <1>14, <2>1
<1>16. r.seedSlot >= r.closeSlot + i.policy.offset
  BY <1>10, <1>11 DEF Seeded
<1>17. \A c \in DOMAIN own : own[c].slot \in a .. b
  <2> SUFFICES ASSUME NEW c \in 1 .. n
               PROVE  own[c].slot \in a .. b
    BY <1>2
  <2>1. taken[c].slot \in 0 .. now
    BY <1>1 DEF VerifyIInv, Verifying!TypeOK
  <2>2. intent.openSlot <= taken[c].slot
    BY <1>1 DEF Taking
  <2>3. own[c].slot = taken[c].slot
    BY <1>2
  <2>4. QED
    BY <1>14, <2>1, <2>2, <2>3
<1>18. Verifying!ChainHeadMatches(i)
  <2>1. Len(own) = r.snapshotCount
    BY <1>1, <1>2, <1>11 DEF Closed
  <2>2. Verifying!SnapshotChainHead(Verifying!Sha(own)) = r.snapshotChainHead
    BY <1>2, <1>11 DEF Closed
  <2>3. QED
    BY <1>10, <2>1, <2>2 DEF Verifying!ChainHeadMatches
<1>19. \A s \in DOMAIN sel : sel[s] = taken[drawn[s]] /\ sel[s].index = drawn[s] /\ drawn[s] \in 1 .. n
  <2> SUFFICES ASSUME NEW s \in DOMAIN drawn
               PROVE  taken[drawn[s]].index = drawn[s]
    BY <1>4, <1>5
  <2>1. drawn[s] \in DOMAIN taken
    BY <1>1, <1>4
  <2>2. \A c \in DOMAIN taken : taken[c].index = c
    BY DEF VerifyIInv, Verifying!TypeOK
  <2>3. QED
    BY <2>1, <2>2
<1>20. [s \in DOMAIN sel |-> sel[s].index] = drawn
  <2>1. DOMAIN sel = DOMAIN drawn
    BY <1>5
  <2>2. [s \in DOMAIN sel |-> sel[s].index] = [s \in DOMAIN drawn |-> drawn[s]]
    BY <1>19, <2>1
  <2>3. QED
    BY <1>4, <2>2
<1>21. [s \in DOMAIN i.selected |-> i.selected[s].index] =
           Verifying!SelectSampleIndices(i.candidates, <<r.openSlot, r.closeSlot>>, i.policy.samples,
                                         Verifying!DeriveSampleSeed(r.seedHash, i.secret))
  BY <1>3, <1>4, <1>10, <1>11, <1>20
<1>22. \A s \in DOMAIN sel : Verifying!Candidate(sel[s]) = own[sel[s].index]
  BY <1>2, <1>19
<1>23. e.received > 0 => e.signatures # {}
  <2>1. e \in Purchases /\ e.honest
    BY <1>7 DEF EvidenceIsTrue, Verifying!Purchase
  <2>2. QED
    BY <2>1 DEF EvidenceIsTrue
<1>24. \A c \in DOMAIN i.candidates : i.candidates[c].slot \in r.openSlot .. r.closeSlot
  BY <1>10, <1>14, <1>17
<1>25. Verifying!CheckInputs(i)
  BY <1>10, <1>13, <1>15, <1>16, <1>18, <1>21, <1>22, <1>23, <1>24 DEF Verifying!CheckInputs
<1>26. QED
  BY <1>8, <1>12, <1>25

(* What the keeper recorded is accepted. *)
LEMMA OwnAccepted ==
    ASSUME VerifyIInv, EvidenceIsTrue, Created, Taking, Closed, Seeded, PublishedWhole,
           directory.files = Verifying!Prepare(Verifying!OwnInputs).files,
           header.assetsRoot = Verifying!Prepare(Verifying!OwnInputs).root
    PROVE  Verifying!Accepted
<1>1. PICK i : i = Verifying!OwnInputs
  OBVIOUS
<1>2. Verifying!ParseRoundInputs(i) /\ Verifying!CheckInputs(i)
  BY <1>1, OwnChecks
<1>3. PICK files : files = directory.files
  OBVIOUS
<1>4. files = Verifying!Prepare(i).files /\ header.assetsRoot = Verifying!Prepare(i).root
  BY <1>1, <1>3
<1>5. files.inputs = i
  <2>1. Verifying!Prepare(i).files.inputs = i
    BY DEF Verifying!Prepare
  <2>2. QED
    BY <1>4, <2>1
<1>6. PICK manifest : /\ manifest = directory.manifest /\ manifest = Verifying!BuildManifest(files)
                      /\ header.artifactHash = Verifying!Hash(manifest)
  BY <1>3 DEF PublishedWhole
<1>7. DOMAIN manifest = DOMAIN files /\ \A f \in DOMAIN files : manifest[f] = Verifying!Hash(files[f])
  BY <1>6 DEF Verifying!BuildManifest
<1>8. Verifying!VerifyRoundArtifacts(directory)
  <2>1. Verifying!ReadArtifacts(directory)
    BY <1>3, <1>6, <1>7 DEF Verifying!ReadArtifacts
  <2>2. QED
    BY <1>2, <1>3, <1>4, <1>5, <1>6, <1>7, <2>1 DEF Verifying!VerifyRoundArtifacts
<1>9. /\ i.policy = policy /\ i.intent = Verifying!IntentRecord(intent) /\ i.purchase = Verifying!Purchase
  BY <1>1 DEF Verifying!OwnInputs
<1>10. Verifying!VerifyPurchase(Verifying!Purchase)
  <2>1. PICK e : e = Verifying!Purchase /\ e \in Purchases /\ e.honest
    BY DEF EvidenceIsTrue, Verifying!Purchase
  <2>2. QED
    BY <2>1 DEF EvidenceIsTrue, Verifying!VerifyPurchase, Verifying!SpentEnough
<1>11. /\ distributor.policyHash = Verifying!Hash(policy)
       /\ distributor.offset = policy.offset /\ distributor.minWindow = policy.minWindow
  BY DEF Created
<1>12. Verifying!VerifyRoundOnChain(directory)
  BY <1>3, <1>4, <1>5, <1>6, <1>9, <1>10, <1>11 DEF Verifying!VerifyRoundOnChain
<1>13. QED
  BY <1>8, <1>12 DEF Verifying!Accepted

(***************************************************************************)
(* For any policies, snapshots, seeds, transactions and whatever directory *)
(* is held against the chain: one the verifier accepts carries the         *)
(* distributor's policy, the recorded intent and the committed secret, the *)
(* hashes of the snapshots this round took, and of those the ones drawn    *)
(* from its list, with their own slots (verify.ts 1-8).                    *)
(***************************************************************************)
THEOREM AcceptedBundlesFollow ==
    ASSUME SnapshotsBounded
    PROVE  RoundDataSpec => []AcceptedFollows
<1> DEFINE Inv == part = "verify" => VerifyIInv
           all == <<part, pageVars, vetVars, swapVars, splitVars, vars, verifyVars, triggerVars>>
<1>1. RoundDataInit => Inv
  BY VerifyInitIInv DEF RoundDataInit
<1>2. Inv /\ [RoundDataNext]_all => Inv'
  <2> SUFFICES ASSUME Inv, [RoundDataNext]_all, part' = "verify"
               PROVE  VerifyIInv'
    OBVIOUS
  <2>1. part = "verify" /\ [Verifying!Next]_verifyVars
    BY DEF RoundDataNext
  <2>2. QED
    BY <2>1, VerifyNextIInv
<1>3. Inv => AcceptedFollows
  <2> SUFFICES ASSUME part = "verify", VerifyIInv
               PROVE  Verifying!AcceptedFollows
    BY DEF AcceptedFollows
  <2>1. Verifying!TypeOK
    BY DEF VerifyIInv
  <2>2. ASSUME stage \in {"committed", "damaged"}, Verifying!Accepted
        PROVE  Created /\ Taking /\ Closed /\ Seeded
    BY <2>2 DEF VerifyIInv
  <2>3. QED
    BY <2>1, <2>2, AcceptedSays DEF Verifying!AcceptedFollows
<1>4. QED
  BY <1>1, <1>2, <1>3, PTL DEF RoundDataSpec

(***************************************************************************)
(* For any policies, snapshots, seeds and skipped slots, and as long as    *)
(* the evidence of the keeper's purchase is true: a keeper that publishes  *)
(* what it recorded is accepted (verify.ts 30-120).                        *)
(***************************************************************************)
THEOREM OwnBundlesAccepted ==
    ASSUME SnapshotsBounded, EvidenceIsTrue
    PROVE  RoundDataSpec => []OwnIsAccepted
<1> DEFINE Inv == part = "verify" => VerifyIInv
           all == <<part, pageVars, vetVars, swapVars, splitVars, vars, verifyVars, triggerVars>>
<1>1. RoundDataInit => Inv
  BY VerifyInitIInv DEF RoundDataInit
<1>2. Inv /\ [RoundDataNext]_all => Inv'
  <2> SUFFICES ASSUME Inv, [RoundDataNext]_all, part' = "verify"
               PROVE  VerifyIInv'
    OBVIOUS
  <2>1. part = "verify" /\ [Verifying!Next]_verifyVars
    BY DEF RoundDataNext
  <2>2. QED
    BY <2>1, VerifyNextIInv
<1>3. Inv => OwnIsAccepted
  <2> SUFFICES ASSUME part = "verify", VerifyIInv
               PROVE  Verifying!OwnIsAccepted
    BY DEF OwnIsAccepted
  <2>1. ASSUME stage = "committed"
        PROVE  Created /\ Taking /\ Closed /\ Seeded /\ PublishedWhole
    BY <2>1 DEF VerifyIInv
  <2>2. QED
    BY <2>1, OwnAccepted DEF Verifying!OwnIsAccepted
<1>4. QED
  BY <1>1, <1>2, <1>3, PTL DEF RoundDataSpec

----------------------------------------------------------------------------
(***************************************************************************)
(* The trees (MerkleBlocks): powers of two, rows, and the recursions.      *)
(***************************************************************************)
(* Doubling has one result for every exponent. *)
LEMMA DoublesExist ==
    ASSUME NEW n \in Nat
    PROVE  \E g : g = [j \in 0 .. n |-> IF j = 0 THEN 1 ELSE 2 * g[j - 1]]
<1> DEFINE Links(g, k) == g = [j \in 0 .. k |-> IF j = 0 THEN 1 ELSE 2 * g[j - 1]]
           F == {k \in Nat : \E g : Links(g, k)}
<1>1. 0 \in F
  <2>1. Links([j \in 0 .. 0 |-> 1], 0)
    OBVIOUS
  <2> HIDE DEF Links
  <2>2. QED
    BY <2>1
<1>2. ASSUME NEW k \in Nat, k \in F
      PROVE  k + 1 \in F
  <2>1. PICK g : Links(g, k)
    BY <1>2
  <2> DEFINE last == 2 * g[(k + 1) - 1]
             h == [j \in 0 .. k + 1 |-> IF j = k + 1 THEN last ELSE g[j]]
  <2>2. \A j \in 0 .. k : g[j] = IF j = 0 THEN 1 ELSE 2 * g[j - 1]
    BY <2>1
  <2>3. \A j \in 0 .. k : h[j] = g[j]
    OBVIOUS
  <2>4. ASSUME NEW j \in 0 .. k + 1
        PROVE  h[j] = IF j = 0 THEN 1 ELSE 2 * h[j - 1]
    <3>1. CASE j = k + 1
      <4>1. j # 0 /\ j - 1 = k /\ (k + 1) - 1 = k /\ k \in 0 .. k
        BY <3>1
      <4>2. h[j] = last /\ h[j - 1] = g[k]
        BY <2>3, <3>1, <4>1
      <4> HIDE DEF h
      <4>3. QED
        BY <3>1, <4>1, <4>2
    <3>2. CASE j # k + 1
      <4>1. j \in 0 .. k /\ (j # 0 => j - 1 \in 0 .. k)
        BY <3>2
      <4> HIDE DEF h, last
      <4>2. QED
        BY <2>2, <2>3, <4>1
    <3>3. QED
      BY <3>1, <3>2
  <2>5. h = [j \in 0 .. k + 1 |-> h[j]]
    OBVIOUS
  <2>6. Links(h, k + 1)
    <3> HIDE DEF h
    <3>1. QED
      BY <2>4, <2>5
  <2> HIDE DEF Links, h, last
  <2>7. QED
    BY <2>6
<1>3. n \in F
  <2> HIDE DEF F
  <2>1. QED
    BY <1>1, <1>2, NaturalInduction
<1>4. QED
  BY <1>3

(* A power of two is the last of its doublings. *)
LEMMA TwoToAt ==
    ASSUME NEW n \in Nat
    PROVE  \E g : /\ TwoTo(n) = g[n]
                  /\ \A j \in 0 .. n : g[j] = IF j = 0 THEN 1 ELSE 2 * g[j - 1]
<1> DEFINE Links(g) == g = [j \in 0 .. n |-> IF j = 0 THEN 1 ELSE 2 * g[j - 1]]
           it == CHOOSE g : Links(g)
<1>1. TwoTo(n) = it[n]
  BY DEF TwoTo
<1>2. Links(it)
  <2>1. \E g : Links(g)
    BY DoublesExist
  <2> HIDE DEF Links
  <2>2. QED
    BY <2>1
<1>3. \A j \in 0 .. n : it[j] = IF j = 0 THEN 1 ELSE 2 * it[j - 1]
  <2> HIDE DEF it
  <2>1. QED
    BY <1>2
<1> HIDE DEF it
<1>4. QED
  BY <1>1, <1>3

(* The rows over some leaves. *)
LEMMA RowsExist ==
    ASSUME NEW base, NEW n \in Nat
    PROVE  \E g : g = [j \in 0 .. n |-> IF j = 0 THEN base ELSE Above(g[j - 1])]
<1> DEFINE Links(g, k) == g = [j \in 0 .. k |-> IF j = 0 THEN base ELSE Above(g[j - 1])]
           F == {k \in Nat : \E g : Links(g, k)}
<1>1. 0 \in F
  <2>1. Links([j \in 0 .. 0 |-> base], 0)
    OBVIOUS
  <2> HIDE DEF Links
  <2>2. QED
    BY <2>1
<1>2. ASSUME NEW k \in Nat, k \in F
      PROVE  k + 1 \in F
  <2>1. PICK g : Links(g, k)
    BY <1>2
  <2> DEFINE last == Above(g[(k + 1) - 1])
             h == [j \in 0 .. k + 1 |-> IF j = k + 1 THEN last ELSE g[j]]
  <2>2. \A j \in 0 .. k : g[j] = IF j = 0 THEN base ELSE Above(g[j - 1])
    BY <2>1
  <2>3. \A j \in 0 .. k : h[j] = g[j]
    OBVIOUS
  <2>4. ASSUME NEW j \in 0 .. k + 1
        PROVE  h[j] = IF j = 0 THEN base ELSE Above(h[j - 1])
    <3>1. CASE j = k + 1
      <4>1. j # 0 /\ j - 1 = k /\ (k + 1) - 1 = k /\ k \in 0 .. k
        BY <3>1
      <4>2. h[j] = last /\ h[j - 1] = g[k]
        BY <2>3, <3>1, <4>1
      <4> HIDE DEF h
      <4>3. QED
        BY <3>1, <4>1, <4>2
    <3>2. CASE j # k + 1
      <4>1. j \in 0 .. k /\ (j # 0 => j - 1 \in 0 .. k)
        BY <3>2
      <4> HIDE DEF h, last
      <4>2. QED
        BY <2>2, <2>3, <4>1
    <3>3. QED
      BY <3>1, <3>2
  <2>5. h = [j \in 0 .. k + 1 |-> h[j]]
    OBVIOUS
  <2>6. Links(h, k + 1)
    <3> HIDE DEF h
    <3>1. QED
      BY <2>4, <2>5
  <2> HIDE DEF Links, h, last
  <2>7. QED
    BY <2>6
<1>3. n \in F
  <2> HIDE DEF F
  <2>1. QED
    BY <1>1, <1>2, NaturalInduction
<1>4. QED
  BY <1>3

(* g folds the first n siblings of p onto x. *)
FoldsTo(g, p, x, n) ==
    g = [j \in 0 .. n |-> IF j = 0 THEN x ELSE HashPair(g[j - 1], p[j])]

(* A proof folds onto a leaf sibling by sibling. *)
LEMMA FoldsExist ==
    ASSUME NEW p, NEW x, NEW n \in Nat
    PROVE  \E g : FoldsTo(g, p, x, n)
<1> DEFINE Links(g, k) == g = [j \in 0 .. k |-> IF j = 0 THEN x ELSE HashPair(g[j - 1], p[j])]
           F == {k \in Nat : \E g : Links(g, k)}
<1>1. 0 \in F
  <2>1. Links([j \in 0 .. 0 |-> x], 0)
    OBVIOUS
  <2> HIDE DEF Links
  <2>2. QED
    BY <2>1
<1>2. ASSUME NEW k \in Nat, k \in F
      PROVE  k + 1 \in F
  <2>1. PICK g : Links(g, k)
    BY <1>2
  <2> DEFINE last == HashPair(g[(k + 1) - 1], p[(k + 1)])
             h == [j \in 0 .. k + 1 |-> IF j = k + 1 THEN last ELSE g[j]]
  <2>2. \A j \in 0 .. k : g[j] = IF j = 0 THEN x ELSE HashPair(g[j - 1], p[j])
    BY <2>1
  <2>3. \A j \in 0 .. k : h[j] = g[j]
    OBVIOUS
  <2>4. ASSUME NEW j \in 0 .. k + 1
        PROVE  h[j] = IF j = 0 THEN x ELSE HashPair(h[j - 1], p[j])
    <3>1. CASE j = k + 1
      <4>1. j # 0 /\ j - 1 = k /\ (k + 1) - 1 = k /\ k \in 0 .. k
        BY <3>1
      <4>2. h[j] = last /\ h[j - 1] = g[k]
        BY <2>3, <3>1, <4>1
      <4> HIDE DEF h
      <4>3. QED
        BY <3>1, <4>1, <4>2
    <3>2. CASE j # k + 1
      <4>1. j \in 0 .. k /\ (j # 0 => j - 1 \in 0 .. k)
        BY <3>2
      <4> HIDE DEF h, last
      <4>2. QED
        BY <2>2, <2>3, <4>1
    <3>3. QED
      BY <3>1, <3>2
  <2>5. h = [j \in 0 .. k + 1 |-> h[j]]
    OBVIOUS
  <2>6. Links(h, k + 1)
    <3> HIDE DEF h
    <3>1. QED
      BY <2>4, <2>5
  <2> HIDE DEF Links, h, last
  <2>7. QED
    BY <2>6
<1>3. n \in F
  <2> HIDE DEF F
  <2>1. QED
    BY <1>1, <1>2, NaturalInduction
<1>4. QED
  BY <1>3 DEF FoldsTo

(* The place of the sibling a block meets in a row. *)
SiblingAt(f, k) == Sibling(f \div TwoTo(k))

(* What a block has met once it is through row k of the tree t. *)
Collected(t, f, k, met) ==
    IF SiblingAt(f, k) < Len(t[k]) THEN Append(met, t[k][SiblingAt(f, k) + 1]) ELSE met

(* g collects what a block meets in the n rows from l on. *)
CollectsTo(g, t, f, l, n) ==
    g = [j \in 0 .. n |-> IF j = 0 THEN << >> ELSE Collected(t, f, l + j - 1, g[j - 1])]

(* The siblings a block meets, row by row. *)
LEMMA MeetingsExist ==
    ASSUME NEW t, NEW f, NEW l, NEW n \in Nat
    PROVE  \E g : CollectsTo(g, t, f, l, n)
<1> DEFINE Links(g, k) == g = [j \in 0 .. k |-> IF j = 0 THEN << >> ELSE Collected(t, f, l + j - 1, g[j - 1])]
           F == {k \in Nat : \E g : Links(g, k)}
<1>1. 0 \in F
  <2>1. Links([j \in 0 .. 0 |-> << >>], 0)
    OBVIOUS
  <2> HIDE DEF Links
  <2>2. QED
    BY <2>1
<1>2. ASSUME NEW k \in Nat, k \in F
      PROVE  k + 1 \in F
  <2>1. PICK g : Links(g, k)
    BY <1>2
  <2> DEFINE last == Collected(t, f, l + (k + 1) - 1, g[(k + 1) - 1])
             h == [j \in 0 .. k + 1 |-> IF j = k + 1 THEN last ELSE g[j]]
  <2>2. \A j \in 0 .. k : g[j] = IF j = 0 THEN << >> ELSE Collected(t, f, l + j - 1, g[j - 1])
    BY <2>1
  <2>3. \A j \in 0 .. k : h[j] = g[j]
    OBVIOUS
  <2>4. ASSUME NEW j \in 0 .. k + 1
        PROVE  h[j] = IF j = 0 THEN << >> ELSE Collected(t, f, l + j - 1, h[j - 1])
    <3>1. CASE j = k + 1
      <4>1. j # 0 /\ j - 1 = k /\ (k + 1) - 1 = k /\ k \in 0 .. k
        BY <3>1
      <4>2. h[j] = last /\ h[j - 1] = g[k]
        BY <2>3, <3>1, <4>1
      <4> HIDE DEF h
      <4>3. QED
        BY <3>1, <4>1, <4>2
    <3>2. CASE j # k + 1
      <4>1. j \in 0 .. k /\ (j # 0 => j - 1 \in 0 .. k)
        BY <3>2
      <4> HIDE DEF h, last
      <4>2. QED
        BY <2>2, <2>3, <4>1
    <3>3. QED
      BY <3>1, <3>2
  <2>5. h = [j \in 0 .. k + 1 |-> h[j]]
    OBVIOUS
  <2>6. Links(h, k + 1)
    <3> HIDE DEF h
    <3>1. QED
      BY <2>4, <2>5
  <2> HIDE DEF Links, h, last
  <2>7. QED
    BY <2>6
<1>3. n \in F
  <2> HIDE DEF F
  <2>1. QED
    BY <1>1, <1>2, NaturalInduction
<1>4. QED
  BY <1>3 DEF CollectsTo

(* Powers of two. *)
LEMMA TwoToDoubles ==
    /\ TwoTo(0) = 1
    /\ \A k \in Nat : TwoTo(k) \in Nat /\ TwoTo(k) > 0 /\ TwoTo(k) > k /\ TwoTo(k + 1) = 2 * TwoTo(k)
<1>1. ASSUME NEW n \in Nat, NEW g, \A j \in 0 .. n : g[j] = IF j = 0 THEN 1 ELSE 2 * g[j - 1]
      PROVE  \A j \in 0 .. n : g[j] \in Nat /\ g[j] > j
  <2> DEFINE F == {j \in Nat : j <= n => g[j] \in Nat /\ g[j] > j}
  <2>1. 0 \in F
    BY <1>1
  <2>2. ASSUME NEW j \in Nat, j \in F PROVE j + 1 \in F
    <3>1. CASE j + 1 <= n
      <4>1. g[j] \in Nat /\ g[j] > j
        BY <2>2, <3>1
      <4>2. g[j + 1] = 2 * g[j]
        BY <1>1, <3>1
      <4>3. QED
        BY <4>1, <4>2
    <3>2. QED
      BY <3>1
  <2>3. ASSUME NEW j \in Nat PROVE j \in F
    <3> HIDE DEF F
    <3>1. QED
      BY <2>1, <2>2, NaturalInduction
  <2>4. QED
    BY <2>3
<1>2. ASSUME NEW n \in Nat
      PROVE  TwoTo(n) \in Nat /\ TwoTo(n) > 0 /\ TwoTo(n) > n /\ (n = 0 => TwoTo(n) = 1)
  <2>1. PICK g : TwoTo(n) = g[n] /\ \A j \in 0 .. n : g[j] = IF j = 0 THEN 1 ELSE 2 * g[j - 1]
    BY TwoToAt
  <2>2. PICK t \in Nat : t = TwoTo(n) /\ t > n /\ (n = 0 => t = 1)
    BY <1>1, <2>1
  <2>3. t > 0
    BY <2>2
  <2>4. QED
    BY <2>2, <2>3
<1>3. ASSUME NEW n \in Nat
      PROVE  TwoTo(n + 1) = 2 * TwoTo(n)
  <2>1. PICK g : TwoTo(n) = g[n] /\ \A j \in 0 .. n : g[j] = IF j = 0 THEN 1 ELSE 2 * g[j - 1]
    BY TwoToAt
  <2>2. PICK h : TwoTo(n + 1) = h[n + 1] /\ \A j \in 0 .. n + 1 : h[j] = IF j = 0 THEN 1 ELSE 2 * h[j - 1]
    BY TwoToAt
  <2> DEFINE F == {j \in Nat : j <= n => g[j] = h[j]}
  <2>3. 0 \in F
    BY <2>1, <2>2
  <2>4. ASSUME NEW j \in Nat, j \in F PROVE j + 1 \in F
    BY <2>1, <2>2, <2>4
  <2>5. n \in F
    <3> HIDE DEF F
    <3>1. QED
      BY <2>3, <2>4, NaturalInduction
  <2>6. h[n + 1] = 2 * h[n]
    BY <2>2
  <2>7. QED
    BY <2>1, <2>2, <2>5, <2>6
<1>4. QED
  BY <1>2, <1>3

(* A higher power is an even multiple of a lower one. *)
LEMMA TwoToMultiple ==
    ASSUME NEW k \in Nat, NEW d \in Nat
    PROVE  /\ TwoTo(k + d) = TwoTo(k) * TwoTo(d)
           /\ d > 0 => \E q \in Nat : q > 0 /\ TwoTo(d) = 2 * q
<1> DEFINE F == {j \in Nat : TwoTo(k + j) = TwoTo(k) * TwoTo(j)}
<1>1. 0 \in F
  <2>1. TwoTo(k) \in Nat /\ TwoTo(0) = 1 /\ k + 0 = k
    BY TwoToDoubles
  <2>2. QED
    BY <2>1
<1>2. ASSUME NEW j \in Nat, j \in F PROVE j + 1 \in F
  <2>1. PICK a \in Nat, b \in Nat : a = TwoTo(k) /\ b = TwoTo(j)
    BY TwoToDoubles
  <2>2. TwoTo(k + j) = a * b
    BY <1>2, <2>1
  <2>3. TwoTo(j + 1) = 2 * b /\ TwoTo((k + j) + 1) = 2 * (a * b)
    BY <2>1, <2>2, TwoToDoubles
  <2>4. a * (2 * b) = 2 * (a * b) /\ k + (j + 1) = (k + j) + 1
    OBVIOUS
  <2>5. QED
    BY <2>1, <2>3, <2>4
<1>3. d \in F
  <2> HIDE DEF F
  <2>1. QED
    BY <1>1, <1>2, NaturalInduction
<1>4. ASSUME d > 0 PROVE \E q \in Nat : q > 0 /\ TwoTo(d) = 2 * q
  <2>1. d - 1 \in Nat /\ (d - 1) + 1 = d
    BY <1>4
  <2>2. TwoTo(d) = 2 * TwoTo(d - 1) /\ TwoTo(d - 1) \in Nat /\ TwoTo(d - 1) > 0
    BY <2>1, TwoToDoubles
  <2>3. QED
    BY <2>2
<1>5. QED
  BY <1>3, <1>4

(* Half a number, rounded up. *)
LEMMA HalfUp ==
    ASSUME NEW s \in Nat, s > 0
    PROVE  /\ (s + 1) \div 2 \in Nat /\ (s + 1) \div 2 > 0
           /\ s <= 2 * ((s + 1) \div 2) /\ 2 * ((s + 1) \div 2) <= s + 1
OBVIOUS

(* One row up. *)
LEMMA AboveRow ==
    ASSUME NEW r, Len(r) \in Nat
    PROVE  /\ Len(Above(r)) = (Len(r) + 1) \div 2
           /\ Above(r) = [i \in 1 .. (Len(r) + 1) \div 2 |-> Above(r)[i]]
           /\ \A i \in 1 .. (Len(r) + 1) \div 2 :
                 Above(r)[i] = IF 2 * i <= Len(r) THEN HashPair(r[2 * i - 1], r[2 * i]) ELSE r[2 * i - 1]
BY DEF Above

(* Rows that follow one another hold a node for each power of two begun. *)
LEMMA RowSizes ==
    ASSUME NEW r, NEW K \in Nat, Len(r[0]) \in Nat \ {0},
           \A k \in 0 .. K : k # 0 => r[k] = Above(r[k - 1])
    PROVE  \A k \in 0 .. K :
              /\ Len(r[k]) \in Nat \ {0}
              /\ (Len(r[k]) - 1) * TwoTo(k) < Len(r[0]) /\ Len(r[0]) <= Len(r[k]) * TwoTo(k)
<1>1. PICK n \in Nat : n = Len(r[0]) /\ n > 0
  OBVIOUS
<1> DEFINE Fits(s, k) == s \in Nat \ {0} /\ (s - 1) * TwoTo(k) < n /\ n <= s * TwoTo(k)
           F == {k \in Nat : k <= K => Fits(Len(r[k]), k)}
<1>2. 0 \in F
  <2>1. TwoTo(0) = 1
    BY TwoToDoubles
  <2>2. (n - 1) * 1 < n /\ n <= n * 1
    OBVIOUS
  <2>3. QED
    BY <1>1, <2>1, <2>2
<1>3. ASSUME NEW k \in Nat, k \in F PROVE k + 1 \in F
  <2>1. CASE k + 1 <= K
    <3>1. Fits(Len(r[k]), k)
      BY <1>3, <2>1
    <3>2. PICK s \in Nat : s = Len(r[k]) /\ s > 0
      BY <3>1
    <3>3. PICK b \in Nat : b = TwoTo(k) /\ b > 0
      BY TwoToDoubles
    <3>4. TwoTo(k + 1) = 2 * b
      BY <3>3, TwoToDoubles
    <3>5. r[k + 1] = Above(r[k])
      BY <2>1
    <3>6. Len(r[k + 1]) = (s + 1) \div 2
      BY <3>2, <3>5, AboveRow
    <3>7. PICK h \in Nat : h = (s + 1) \div 2 /\ h > 0 /\ s <= 2 * h /\ 2 * h <= s + 1
      BY <3>2, HalfUp
    <3>8. (s - 1) * b < n /\ n <= s * b
      BY <3>1, <3>2, <3>3
    <3>9. (2 * h - 2) * b <= (s - 1) * b /\ s * b <= (2 * h) * b
      BY <3>3, <3>7
    <3>10. (h - 1) * (2 * b) = (2 * h - 2) * b /\ h * (2 * b) = (2 * h) * b
      OBVIOUS
    <3>11. Fits(h, k + 1)
      BY <3>4, <3>7, <3>8, <3>9, <3>10
    <3>12. QED
      BY <3>6, <3>7, <3>11
  <2>2. QED
    BY <2>1
<1>4. ASSUME NEW k \in Nat PROVE k \in F
  <2> HIDE DEF F
  <2>1. QED
    BY <1>2, <1>3, NaturalInduction
<1>5. QED
  BY <1>1, <1>4

(* The rows go on above the root, which stays what it is. *)
RowOf(base, k) == Rows(base)[IF k <= Len(base) THEN k ELSE Len(base)]

(* Rows are what their definition says, row by row. *)
LEMMA RowsAre ==
    ASSUME NEW base, Len(base) \in Nat
    PROVE  \A j \in 0 .. Len(base) : Rows(base)[j] = IF j = 0 THEN base ELSE Above(Rows(base)[j - 1])
<1> DEFINE Links(g) == g = [j \in 0 .. Len(base) |-> IF j = 0 THEN base ELSE Above(g[j - 1])]
           it == CHOOSE g : Links(g)
<1>1. Rows(base) = it
  BY DEF Rows
<1>2. Links(it)
  <2>1. \A n \in Nat : \E g : g = [j \in 0 .. n |-> IF j = 0 THEN base ELSE Above(g[j - 1])]
    BY RowsExist
  <2>2. \E g : Links(g)
    BY <2>1
  <2> HIDE DEF Links
  <2>3. QED
    BY <2>2
<1>3. \A j \in 0 .. Len(base) : it[j] = IF j = 0 THEN base ELSE Above(it[j - 1])
  <2> HIDE DEF it
  <2>1. QED
    BY <1>2
<1> HIDE DEF it
<1>4. QED
  BY <1>1, <1>3

(* Every row follows from the one below, and holds a node for each power   *)
(* of two the base has begun.                                              *)
LEMMA RowsClimb ==
    ASSUME NEW base, Len(base) \in Nat \ {0}
    PROVE  /\ RowOf(base, 0) = base
           /\ \A k \in Nat :
                 /\ RowOf(base, k + 1) = Above(RowOf(base, k))
                 /\ Len(RowOf(base, k)) \in Nat \ {0}
                 /\ (Len(RowOf(base, k)) - 1) * TwoTo(k) < Len(base)
                 /\ Len(base) <= Len(RowOf(base, k)) * TwoTo(k)
<1>1. PICK n \in Nat : n = Len(base) /\ n > 0
  OBVIOUS
<1>2. PICK r : r = Rows(base)
  OBVIOUS
<1>4. \A j \in 0 .. n : r[j] = IF j = 0 THEN base ELSE Above(r[j - 1])
  BY <1>1, <1>2, RowsAre
<1>5. r[0] = base /\ \A k \in 0 .. n : k # 0 => r[k] = Above(r[k - 1])
  BY <1>4
<1>6. \A k \in 0 .. n : /\ Len(r[k]) \in Nat \ {0}
                        /\ (Len(r[k]) - 1) * TwoTo(k) < n /\ n <= Len(r[k]) * TwoTo(k)
  BY <1>1, <1>5, RowSizes
<1>7. Len(r[n]) = 1
  <2>1. PICK s \in Nat : s = Len(r[n]) /\ s > 0
    BY <1>6
  <2>2. PICK b \in Nat : b = TwoTo(n) /\ b > n
    BY TwoToDoubles
  <2>3. (s - 1) * b < n
    BY <1>6, <2>1, <2>2
  <2>4. s > 1 => (s - 1) * b >= b
    BY <2>1, <2>2
  <2>5. ~(s > 1)
    BY <2>2, <2>3, <2>4
  <2>6. s \in Nat /\ s > 0
    BY <2>1
  <2>7. s = 1
    BY <2>5, <2>6
  <2>8. QED
    BY <2>1, <2>7
<1>8. r[n] = [i \in 1 .. 1 |-> r[n][i]]
  <2>1. n - 1 \in 0 .. n /\ n # 0 /\ n \in 0 .. n
    BY <1>1
  <2>2. r[n] = Above(r[n - 1]) /\ Len(r[n - 1]) \in Nat
    BY <1>5, <1>6, <2>1
  <2>3. (Len(r[n - 1]) + 1) \div 2 = 1
    BY <1>7, <2>2, AboveRow
  <2>4. QED
    BY <2>2, <2>3, AboveRow
<1>9. Above(r[n]) = r[n]
  <2>1. Above(r[n]) = [i \in 1 .. 1 |-> r[n][i]]
    BY <1>7 DEF Above
  <2>2. QED
    BY <1>8, <2>1
<1>10. ASSUME NEW k \in Nat PROVE RowOf(base, k + 1) = Above(RowOf(base, k))
  BY <1>1, <1>2, <1>5, <1>9 DEF RowOf
<1>11. RowOf(base, 0) = base
  BY <1>1, <1>2, <1>5 DEF RowOf
<1>12. ASSUME NEW k \in Nat
       PROVE  /\ Len(RowOf(base, k)) \in Nat \ {0}
              /\ (Len(RowOf(base, k)) - 1) * TwoTo(k) < n /\ n <= Len(RowOf(base, k)) * TwoTo(k)
  <2> DEFINE q == [j \in 0 .. k |-> RowOf(base, j)]
  <2>1. Len(q[0]) = n /\ q[0] = base
    BY <1>1, <1>11
  <2>2. \A j \in 0 .. k : j # 0 => q[j] = Above(q[j - 1])
    BY <1>10
  <2>3. q[k] = RowOf(base, k)
    OBVIOUS
  <2> HIDE DEF q
  <2>4. Len(q[0]) \in Nat \ {0}
    BY <1>1, <2>1
  <2>5. \A j \in 0 .. k : /\ Len(q[j]) \in Nat \ {0}
                          /\ (Len(q[j]) - 1) * TwoTo(j) < Len(q[0]) /\ Len(q[0]) <= Len(q[j]) * TwoTo(j)
    BY <2>2, <2>4, RowSizes
  <2>6. QED
    BY <1>1, <2>1, <2>3, <2>5
<1>13. QED
  BY <1>1, <1>10, <1>11, <1>12

(* Node j of row k, counted from 0. *)
NodeOf(base, k, j) == RowOf(base, k)[j + 1]

(* The next row has half as many nodes, rounded up: pairs, and the odd one. *)
LEMMA NodesClimb ==
    ASSUME NEW base, Len(base) \in Nat \ {0}, NEW k \in Nat
    PROVE  /\ Len(RowOf(base, k + 1)) = (Len(RowOf(base, k)) + 1) \div 2
           /\ \A j \in Nat : j < Len(RowOf(base, k + 1)) =>
                 /\ 2 * j < Len(RowOf(base, k))
                 /\ NodeOf(base, k + 1, j) =
                       IF 2 * j + 1 < Len(RowOf(base, k))
                       THEN HashPair(NodeOf(base, k, 2 * j), NodeOf(base, k, 2 * j + 1))
                       ELSE NodeOf(base, k, 2 * j)
<1>1. PICK r : r = RowOf(base, k) /\ Len(r) \in Nat /\ RowOf(base, k + 1) = Above(r)
  <2>1. Len(RowOf(base, k)) \in Nat /\ RowOf(base, k + 1) = Above(RowOf(base, k))
    BY RowsClimb
  <2>2. QED
    BY <2>1
<1>2. Len(Above(r)) = (Len(r) + 1) \div 2
  BY <1>1, AboveRow
<1>3. ASSUME NEW j \in Nat, j < (Len(r) + 1) \div 2
      PROVE  /\ 2 * j < Len(r)
             /\ Above(r)[j + 1] = IF 2 * j + 1 < Len(r) THEN HashPair(r[2 * j + 1], r[2 * j + 2]) ELSE r[2 * j + 1]
  <2>1. PICK s \in Nat : s = Len(r)
    BY <1>1
  <2>2. j < (s + 1) \div 2
    BY <1>3, <2>1
  <2>3. 2 * j < s /\ j + 1 \in 1 .. (s + 1) \div 2
    BY <2>2
  <2>4. 2 * (j + 1) - 1 = 2 * j + 1 /\ 2 * (j + 1) = 2 * j + 2
    OBVIOUS
  <2>5. (2 * (j + 1) <= s) <=> (2 * j + 1 < s)
    OBVIOUS
  <2>6. Above(r)[j + 1] = IF 2 * (j + 1) <= s THEN HashPair(r[2 * (j + 1) - 1], r[2 * (j + 1)])
                                              ELSE r[2 * (j + 1) - 1]
    BY <1>1, <2>1, <2>3, AboveRow
  <2>7. Above(r)[j + 1] = IF 2 * j + 1 < s THEN HashPair(r[2 * j + 1], r[2 * j + 2]) ELSE r[2 * j + 1]
    BY <2>4, <2>5, <2>6
  <2>8. QED
    BY <2>1, <2>3, <2>7
<1>4. QED
  BY <1>1, <1>2, <1>3 DEF NodeOf

(* The tree of n leaves. *)
RowSize(n, k) == Len(RowOf(CommittedLeaves(n), k))
TreeNode(n, k, j) == NodeOf(CommittedLeaves(n), k, j)

(* The same of the tree the keeper built, from its leaves on. *)
LEMMA TreeClimbs ==
    ASSUME NEW n \in Nat \ {0}
    PROVE  /\ RowSize(n, 0) = n
           /\ \A j \in 0 .. n - 1 : TreeNode(n, 0, j) = Leaf(j, TRUE)
           /\ \A k \in Nat :
                 /\ RowSize(n, k) \in Nat \ {0}
                 /\ (RowSize(n, k) - 1) * TwoTo(k) < n /\ n <= RowSize(n, k) * TwoTo(k)
                 /\ RowSize(n, k + 1) = (RowSize(n, k) + 1) \div 2
                 /\ \A j \in Nat : j < RowSize(n, k + 1) =>
                       /\ 2 * j < RowSize(n, k)
                       /\ TreeNode(n, k + 1, j) =
                             IF 2 * j + 1 < RowSize(n, k)
                             THEN HashPair(TreeNode(n, k, 2 * j), TreeNode(n, k, 2 * j + 1))
                             ELSE TreeNode(n, k, 2 * j)
<1>1. PICK base : base = CommittedLeaves(n)
  OBVIOUS
<1>2. Len(base) = n
  BY <1>1 DEF CommittedLeaves
<1>3. \A j \in 0 .. n - 1 : base[j + 1] = Leaf(j, TRUE)
  <2>1. ASSUME NEW j \in 0 .. n - 1 PROVE j + 1 \in 1 .. n /\ (j + 1) - 1 = j
    OBVIOUS
  <2>2. QED
    BY <1>1, <2>1 DEF CommittedLeaves
<1>4. Len(base) \in Nat \ {0}
  BY <1>2
<1>5. RowOf(base, 0) = base
  BY <1>4, RowsClimb
<1>6. ASSUME NEW k \in Nat
      PROVE  /\ Len(RowOf(base, k)) \in Nat \ {0}
             /\ (Len(RowOf(base, k)) - 1) * TwoTo(k) < n /\ n <= Len(RowOf(base, k)) * TwoTo(k)
  BY <1>2, <1>4, RowsClimb
<1>7. ASSUME NEW k \in Nat
      PROVE  /\ Len(RowOf(base, k + 1)) = (Len(RowOf(base, k)) + 1) \div 2
             /\ \A j \in Nat : j < Len(RowOf(base, k + 1)) =>
                   /\ 2 * j < Len(RowOf(base, k))
                   /\ NodeOf(base, k + 1, j) =
                         IF 2 * j + 1 < Len(RowOf(base, k))
                         THEN HashPair(NodeOf(base, k, 2 * j), NodeOf(base, k, 2 * j + 1))
                         ELSE NodeOf(base, k, 2 * j)
  BY <1>4, NodesClimb
<1>8. \A j \in 0 .. n - 1 : NodeOf(base, 0, j) = Leaf(j, TRUE)
  BY <1>3, <1>5 DEF NodeOf
<1>9. QED
  BY <1>1, <1>2, <1>5, <1>6, <1>7, <1>8 DEF RowSize, TreeNode

(* The places of row k are those that begin before the end of the tree. *)
LEMMA InRow ==
    ASSUME NEW n \in Nat \ {0}, NEW k \in Nat, NEW j \in Nat
    PROVE  j < RowSize(n, k) <=> j * TwoTo(k) < n
<1>1. PICK s \in Nat : s = RowSize(n, k)
  BY TreeClimbs
<1>2. PICK b \in Nat : b = TwoTo(k) /\ b > 0
  BY TwoToDoubles
<1>3. (s - 1) * b < n /\ n <= s * b
  BY <1>1, <1>2, TreeClimbs
<1>4. j < s => j * b <= (s - 1) * b
  BY <1>2
<1>5. ~(j < s) => s * b <= j * b
  BY <1>2
<1>6. j < s <=> j * b < n
  BY <1>2, <1>3, <1>4, <1>5
<1>7. QED
  BY <1>1, <1>2, <1>6

(***************************************************************************)
(* The leaves under a node: from Start to End.  A node carried up keeps    *)
(* them, and so two nodes of which neither was carried up are one if they  *)
(* have the same leaves.                                                   *)
(***************************************************************************)
Start(k, j) == j * TwoTo(k)
End(n, k, j) == IF (j + 1) * TwoTo(k) < n THEN (j + 1) * TwoTo(k) ELSE n
SameLeaves(n, k, i, m, j) == Start(k, i) = Start(m, j) /\ End(n, k, i) = End(n, m, j)
Meets(n, k, i) == Sibling(i) < RowSize(n, k)

(* A node where two meet has the leaves of no node above it. *)
LEMMA NoneHigher ==
    ASSUME NEW n \in Nat \ {0}, NEW k \in Nat, NEW d \in Nat, d > 0, NEW i \in Nat, NEW c \in Nat,
           Meets(n, k, i)
    PROVE  ~SameLeaves(n, k, i, k + d, c)
<1>1. PICK b \in Nat : b = TwoTo(k) /\ b > 0
  BY TwoToDoubles
<1>2. PICK q \in Nat : q > 0 /\ TwoTo(d) = 2 * q
  BY TwoToMultiple
<1>3. TwoTo(k + d) = b * (2 * q)
  BY <1>1, <1>2, TwoToMultiple
<1>4. PICK g \in Nat : g = q * c
  OBVIOUS
<1>5. c * (b * (2 * q)) = (2 * g) * b
  <2>1. c * (b * (2 * q)) = (2 * (q * c)) * b
    OBVIOUS
  <2>2. QED
    BY <1>4, <2>1
<1>6. SUFFICES ASSUME i * b = (2 * g) * b, End(n, k, i) = End(n, k + d, c)
               PROVE  FALSE
  BY <1>1, <1>3, <1>5 DEF SameLeaves, Start
<1>7. i = 2 * g
  BY <1>1, <1>6
<1>8. Sibling(i) = i + 1
  BY <1>7 DEF Sibling
<1>9. (i + 1) * b < n
  BY <1>1, <1>8, InRow DEF Meets
<1>10. End(n, k, i) = (i + 1) * b
  BY <1>1, <1>9 DEF End
<1>11. (c + 1) * (b * (2 * q)) > (i + 1) * b
  <2>1. (c + 1) * (b * (2 * q)) = c * (b * (2 * q)) + b * (2 * q)
    OBVIOUS
  <2>2. (i + 1) * b = i * b + b
    OBVIOUS
  <2>3. b * (2 * q) > b
    BY <1>1, <1>2
  <2>4. PICK x \in Int, y \in Int, z \in Int : x = c * (b * (2 * q)) /\ y = b * (2 * q) /\ z = i * b
    OBVIOUS
  <2>5. x = z /\ y > b
    BY <1>5, <1>6, <2>3, <2>4
  <2>6. x + y > z + b
    BY <2>5
  <2>7. QED
    BY <2>1, <2>2, <2>4, <2>6
<1>12. End(n, k + d, c) > (i + 1) * b
  <2>1. PICK x \in Int, y \in Int : x = (c + 1) * (b * (2 * q)) /\ y = (i + 1) * b
    OBVIOUS
  <2>2. End(n, k + d, c) = IF x < n THEN x ELSE n
    BY <1>3, <2>1 DEF End
  <2>3. x > y /\ y < n
    BY <1>9, <1>11, <2>1
  <2>4. End(n, k + d, c) > y
    BY <2>2, <2>3
  <2>5. QED
    BY <2>1, <2>4
<1>13. PICK y \in Int : y = (i + 1) * b
  OBVIOUS
<1>14. End(n, k, i) = y /\ End(n, k + d, c) > y
  BY <1>10, <1>12, <1>13
<1>15. QED
  BY <1>6, <1>14

(* So two such nodes with the same leaves are one. *)
LEMMA SameLeavesSameNode ==
    ASSUME NEW n \in Nat \ {0}, NEW k \in Nat, NEW m \in Nat, NEW i \in Nat, NEW c \in Nat,
           Meets(n, k, i), Meets(n, m, c), SameLeaves(n, k, i, m, c)
    PROVE  k = m /\ i = c
<1>1. CASE k < m
  <2>1. m - k \in Nat /\ m - k > 0 /\ k + (m - k) = m
    BY <1>1
  <2>2. ~SameLeaves(n, k, i, k + (m - k), c)
    BY <2>1, NoneHigher
  <2>3. QED
    BY <2>1, <2>2
<1>2. CASE m < k
  <2>1. k - m \in Nat /\ k - m > 0 /\ m + (k - m) = k
    BY <1>2
  <2>2. ~SameLeaves(n, m, c, m + (k - m), i)
    BY <2>1, NoneHigher
  <2>3. QED
    BY <2>1, <2>2 DEF SameLeaves
<1>3. CASE k = m
  <2>1. PICK b \in Nat : b = TwoTo(k) /\ b > 0
    BY TwoToDoubles
  <2>2. i * b = c * b
    BY <1>3, <2>1 DEF SameLeaves, Start
  <2>3. i = c
    BY <2>1, <2>2
  <2>4. QED
    BY <1>3, <2>3
<1>4. QED
  BY <1>1, <1>2, <1>3

(* Hashes are terms. *)
LEMMA PairsBind ==
    ASSUME NEW a, NEW b, NEW c, NEW d
    PROVE  HashPair(a, b) = HashPair(c, d) <=> {a, b} = {c, d}
<1>1. HashPair(a, b).kids = {a, b} /\ HashPair(c, d).kids = {c, d}
  BY DEF HashPair
<1>2. QED
  BY <1>1 DEF HashPair

(* No hash of two nodes is a leaf. *)
LEMMA PairIsNoLeaf ==
    ASSUME NEW a, NEW b, NEW c, NEW d
    PROVE  HashPair(a, b) # Leaf(c, d)
<1>1. HashPair(a, b).kids = {a, b} /\ Leaf(c, d).kids = {}
  BY DEF HashPair, Leaf
<1>2. a \in {a, b}
  OBVIOUS
<1>3. QED
  BY <1>1, <1>2

(* Halves of a place, and its sibling. *)
LEMMA Halves ==
    ASSUME NEW i \in Nat
    PROVE  /\ i \div 2 \in Nat
           /\ \/ i = 2 * (i \div 2) /\ Sibling(i) = i + 1
              \/ i = 2 * (i \div 2) + 1 /\ Sibling(i) = i - 1
BY DEF Sibling

(* A node carried up keeps its leaves. *)
LEMMA CarryLeaves ==
    ASSUME NEW n \in Nat \ {0}, NEW k \in Nat, NEW j \in Nat,
           2 * j < RowSize(n, k), ~(2 * j + 1 < RowSize(n, k))
    PROVE  SameLeaves(n, k + 1, j, k, 2 * j)
<1>1. PICK b \in Nat : b = TwoTo(k) /\ b > 0 /\ TwoTo(k + 1) = 2 * b
  BY TwoToDoubles
<1>2. ~((2 * j + 1) * b < n)
  <2>1. 2 * j + 1 \in Nat
    OBVIOUS
  <2>2. QED
    BY <1>1, <2>1, InRow
<1>3. j * (2 * b) = (2 * j) * b
  OBVIOUS
<1>4. (j + 1) * (2 * b) = (2 * j + 1) * b + b
  OBVIOUS
<1>5. ~((j + 1) * (2 * b) < n)
  <2>1. PICK x \in Int, y \in Int : x = (j + 1) * (2 * b) /\ y = (2 * j + 1) * b
    OBVIOUS
  <2>2. ~(x < n)
    BY <1>1, <1>2, <1>4, <2>1
  <2>3. QED
    BY <2>1, <2>2
<1>6. Start(k + 1, j) = Start(k, 2 * j)
  BY <1>1, <1>3 DEF Start
<1>7. End(n, k + 1, j) = n /\ End(n, k, 2 * j) = n
  BY <1>1, <1>2, <1>5 DEF End
<1>8. QED
  BY <1>6, <1>7 DEF SameLeaves

(* A node is a leaf, or the hash of two nodes of a row where they meet. *)
IsALeaf(n, m, j) ==
    \E a \in 0 .. n - 1 : TreeNode(n, m, j) = Leaf(a, TRUE) /\ SameLeaves(n, m, j, 0, a)
IsAPair(n, m, j) ==
    \E l \in Nat, c \in Nat :
        /\ 2 * c + 1 < RowSize(n, l) /\ SameLeaves(n, m, j, l + 1, c)
        /\ TreeNode(n, m, j) = HashPair(TreeNode(n, l, 2 * c), TreeNode(n, l, 2 * c + 1))

(* Every node of the tree is one or the other. *)
LEMMA NodeShapes ==
    ASSUME NEW n \in Nat \ {0}, NEW m \in Nat, NEW j \in Nat, j < RowSize(n, m)
    PROVE  IsALeaf(n, m, j) \/ IsAPair(n, m, j)
<1> DEFINE F == {k \in Nat : \A i \in Nat : i < RowSize(n, k) => IsALeaf(n, k, i) \/ IsAPair(n, k, i)}
<1>1. 0 \in F
  <2>1. ASSUME NEW i \in Nat, i < RowSize(n, 0) PROVE IsALeaf(n, 0, i)
    <3>1. i \in 0 .. n - 1
      <4>1. RowSize(n, 0) = n
        BY TreeClimbs
      <4>2. QED
        BY <2>1, <4>1
    <3>2. TreeNode(n, 0, i) = Leaf(i, TRUE)
      BY <3>1, TreeClimbs
    <3>3. QED
      BY <3>1, <3>2 DEF IsALeaf, SameLeaves
  <2>2. QED
    BY <2>1
<1>2. ASSUME NEW k \in Nat, k \in F PROVE k + 1 \in F
  <2>1. ASSUME NEW i \in Nat, i < RowSize(n, k + 1)
        PROVE  IsALeaf(n, k + 1, i) \/ IsAPair(n, k + 1, i)
    <3>1. /\ 2 * i < RowSize(n, k)
          /\ TreeNode(n, k + 1, i) =
                IF 2 * i + 1 < RowSize(n, k)
                THEN HashPair(TreeNode(n, k, 2 * i), TreeNode(n, k, 2 * i + 1))
                ELSE TreeNode(n, k, 2 * i)
      BY <2>1, TreeClimbs, ZenonT(60)
    <3>2. CASE 2 * i + 1 < RowSize(n, k)
      <4>1. TreeNode(n, k + 1, i) = HashPair(TreeNode(n, k, 2 * i), TreeNode(n, k, 2 * i + 1))
        BY <3>1, <3>2
      <4>2. SameLeaves(n, k + 1, i, k + 1, i)
        BY DEF SameLeaves
      <4>3. IsAPair(n, k + 1, i)
        BY <3>2, <4>1, <4>2 DEF IsAPair
      <4>4. QED
        BY <4>3
    <3>3. CASE ~(2 * i + 1 < RowSize(n, k))
      <4>1. TreeNode(n, k + 1, i) = TreeNode(n, k, 2 * i)
        BY <3>1, <3>3
      <4>2. SameLeaves(n, k + 1, i, k, 2 * i)
        BY <3>1, <3>3, CarryLeaves
      <4>3. 2 * i \in Nat
        OBVIOUS
      <4>4. IsALeaf(n, k, 2 * i) \/ IsAPair(n, k, 2 * i)
        BY <1>2, <3>1, <4>3
      <4>5. CASE IsALeaf(n, k, 2 * i)
        BY <4>1, <4>2, <4>5 DEF IsALeaf, SameLeaves
      <4>6. CASE IsAPair(n, k, 2 * i)
        <5>1. PICK l \in Nat, c \in Nat :
                /\ 2 * c + 1 < RowSize(n, l) /\ SameLeaves(n, k, 2 * i, l + 1, c)
                /\ TreeNode(n, k, 2 * i) = HashPair(TreeNode(n, l, 2 * c), TreeNode(n, l, 2 * c + 1))
          BY <4>6 DEF IsAPair
        <5>2. SameLeaves(n, k + 1, i, l + 1, c)
          BY <4>2, <5>1 DEF SameLeaves
        <5>3. IsAPair(n, k + 1, i)
          BY <4>1, <5>1, <5>2 DEF IsAPair
        <5>4. QED
          BY <5>3
      <4>7. QED
        BY <4>4, <4>5, <4>6
    <3>4. QED
      BY <3>2, <3>3
  <2>2. QED
    BY <2>1
<1>3. m \in F
  <2> HIDE DEF F
  <2>1. QED
    BY <1>1, <1>2, NaturalInduction
<1>4. QED
  BY <1>3

(***************************************************************************)
(* A hash that binds a place: if it is a node of the tree at all, then one *)
(* with the leaves of that place.  A leaf binds its own, whoever it pays,  *)
(* and hashing any sibling onto a hash that binds a place where two nodes  *)
(* meet binds the place above.                                             *)
(***************************************************************************)
Binds(n, x, k, i) ==
    \A m \in Nat : \A j \in Nat :
        j < RowSize(n, m) /\ x = TreeNode(n, m, j) => SameLeaves(n, k, i, m, j)

(* A leaf binds the place it names, and is the one there if it is committed. *)
LEMMA LeafBinds ==
    ASSUME NEW n \in Nat \ {0}, NEW a \in 0 .. n - 1, NEW t
    PROVE  Binds(n, Leaf(a, t), 0, a) /\ (Leaf(a, t) = TreeNode(n, 0, a) <=> t = TRUE)
<1>1. ASSUME NEW m \in Nat, NEW j \in Nat, j < RowSize(n, m), Leaf(a, t) = TreeNode(n, m, j)
      PROVE  SameLeaves(n, 0, a, m, j)
  <2>1. ~IsAPair(n, m, j)
    BY <1>1, PairIsNoLeaf DEF IsAPair
  <2>2. IsALeaf(n, m, j)
    BY <1>1, <2>1, NodeShapes
  <2>3. PICK c \in 0 .. n - 1 : TreeNode(n, m, j) = Leaf(c, TRUE) /\ SameLeaves(n, m, j, 0, c)
    BY <2>2 DEF IsALeaf
  <2>4. a = c
    <3>1. Leaf(a, t).idx = a /\ Leaf(c, TRUE).idx = c
      BY DEF Leaf
    <3>2. QED
      BY <1>1, <2>3, <3>1
  <2>5. QED
    BY <2>3, <2>4 DEF SameLeaves
<1>2. TreeNode(n, 0, a) = Leaf(a, TRUE)
  BY TreeClimbs
<1>3. Binds(n, Leaf(a, t), 0, a)
  BY <1>1 DEF Binds
<1>4. Leaf(a, t) = Leaf(a, TRUE) <=> t = TRUE
  <2>1. Leaf(a, t).committed = t /\ Leaf(a, TRUE).committed = TRUE
    BY DEF Leaf
  <2>2. QED
    BY <2>1
<1>5. QED
  BY <1>2, <1>3, <1>4

(* A pair binds the place above, and is the node there if both halves are. *)
LEMMA PairBinds ==
    ASSUME NEW n \in Nat \ {0}, NEW k \in Nat, NEW i \in Nat, NEW x, NEW s,
           i < RowSize(n, k), Meets(n, k, i), Binds(n, x, k, i)
    PROVE  /\ Binds(n, HashPair(x, s), k + 1, i \div 2)
           /\ HashPair(x, s) = TreeNode(n, k + 1, i \div 2) <=>
                 x = TreeNode(n, k, i) /\ s = TreeNode(n, k, Sibling(i))
<1>1. PICK h \in Nat :
         /\ h = i \div 2
         /\ (i = 2 * h /\ Sibling(i) = i + 1) \/ (i = 2 * h + 1 /\ Sibling(i) = i - 1)
  BY Halves
<1>2. PICK z \in Nat : z = RowSize(n, k)
  BY TreeClimbs
<1>3. 2 * h + 1 < z
  BY <1>1, <1>2 DEF Meets
<1>4. h < RowSize(n, k + 1)
  <2>1. RowSize(n, k + 1) = (z + 1) \div 2
    BY <1>2, TreeClimbs
  <2>2. h < (z + 1) \div 2
    BY <1>3
  <2>3. QED
    BY <2>1, <2>2
<1>5. TreeNode(n, k + 1, h) = HashPair(TreeNode(n, k, 2 * h), TreeNode(n, k, 2 * h + 1))
  BY <1>2, <1>3, <1>4, TreeClimbs
<1>6. ASSUME NEW l \in Nat, NEW c \in Nat, 2 * c + 1 < RowSize(n, l),
             HashPair(x, s) = HashPair(TreeNode(n, l, 2 * c), TreeNode(n, l, 2 * c + 1))
      PROVE  /\ l = k /\ c = h
             /\ x = TreeNode(n, k, i) /\ s = TreeNode(n, k, Sibling(i))
  <2>1. PICK u, v : u = TreeNode(n, l, 2 * c) /\ v = TreeNode(n, l, 2 * c + 1)
    OBVIOUS
  <2>2. {x, s} = {u, v}
    BY <1>6, <2>1, PairsBind
  <2>3. PICK y \in Nat : y = RowSize(n, l)
    BY TreeClimbs
  <2>4. 2 * c + 1 < y
    BY <1>6, <2>3
  <2>5. PICK e \in Nat : (e = 2 * c \/ e = 2 * c + 1) /\ x = TreeNode(n, l, e)
    <3>1. x = u \/ x = v
      BY <2>2
    <3>2. 2 * c \in Nat /\ 2 * c + 1 \in Nat
      OBVIOUS
    <3>3. QED
      BY <2>1, <3>1, <3>2
  <2>6. e < y /\ Sibling(e) < y /\ e \div 2 = c
    BY <2>4, <2>5 DEF Sibling
  <2>7. SameLeaves(n, k, i, l, e)
    BY <2>3, <2>5, <2>6 DEF Binds
  <2>8. l = k /\ e = i
    BY <2>3, <2>6, <2>7, SameLeavesSameNode DEF Meets
  <2>9. c = h
    BY <1>1, <2>6, <2>8
  <2>10. x = TreeNode(n, k, i)
    BY <2>5, <2>8
  <2>11. s = TreeNode(n, k, Sibling(i))
    <3>1. CASE i = 2 * h
      <4>1. Sibling(i) = 2 * h + 1
        BY <1>1, <3>1
      <4>2. x = u /\ v = TreeNode(n, k, Sibling(i))
        BY <2>1, <2>8, <2>9, <2>10, <3>1, <4>1
      <4>3. s = v
        BY <2>2, <4>2
      <4>4. QED
        BY <4>2, <4>3
    <3>2. CASE i = 2 * h + 1
      <4>1. Sibling(i) = 2 * h
        BY <1>1, <3>2
      <4>2. x = v /\ u = TreeNode(n, k, Sibling(i))
        BY <2>1, <2>8, <2>9, <2>10, <3>2, <4>1
      <4>3. s = u
        BY <2>2, <4>2
      <4>4. QED
        BY <4>2, <4>3
    <3>3. QED
      BY <1>1, <3>1, <3>2
  <2>12. QED
    BY <2>8, <2>9, <2>10, <2>11
<1>7. ASSUME NEW m \in Nat, NEW j \in Nat, j < RowSize(n, m), HashPair(x, s) = TreeNode(n, m, j)
      PROVE  SameLeaves(n, k + 1, h, m, j)
  <2>1. ~IsALeaf(n, m, j)
    BY <1>7, PairIsNoLeaf DEF IsALeaf
  <2>2. IsAPair(n, m, j)
    BY <1>7, <2>1, NodeShapes
  <2>3. PICK l \in Nat, c \in Nat :
                /\ 2 * c + 1 < RowSize(n, l) /\ SameLeaves(n, m, j, l + 1, c)
                /\ TreeNode(n, m, j) = HashPair(TreeNode(n, l, 2 * c), TreeNode(n, l, 2 * c + 1))
    BY <2>2 DEF IsAPair
  <2>4. l = k /\ c = h
    BY <1>6, <1>7, <2>3
  <2>5. QED
    BY <2>3, <2>4 DEF SameLeaves
<1>8. ASSUME HashPair(x, s) = TreeNode(n, k + 1, h)
      PROVE  x = TreeNode(n, k, i) /\ s = TreeNode(n, k, Sibling(i))
  BY <1>2, <1>3, <1>5, <1>6, <1>8
<1>9. ASSUME x = TreeNode(n, k, i), s = TreeNode(n, k, Sibling(i))
      PROVE  HashPair(x, s) = TreeNode(n, k + 1, h)
  <2>1. CASE i = 2 * h
    <3>1. Sibling(i) = 2 * h + 1
      BY <1>1, <2>1
    <3>2. QED
      BY <1>5, <1>9, <2>1, <3>1
  <2>2. CASE i = 2 * h + 1
    <3>1. Sibling(i) = 2 * h
      BY <1>1, <2>2
    <3>2. {x, s} = {TreeNode(n, k, 2 * h), TreeNode(n, k, 2 * h + 1)}
      BY <1>9, <2>2, <3>1
    <3>3. QED
      BY <1>5, <3>2, PairsBind
  <2>3. QED
    BY <1>1, <2>1, <2>2
<1>10. Binds(n, HashPair(x, s), k + 1, h)
  BY <1>7 DEF Binds
<1>11. QED
  BY <1>1, <1>8, <1>9, <1>10

(* Without a sibling the place above has the same leaves and the same node. *)
LEMMA CarryBinds ==
    ASSUME NEW n \in Nat \ {0}, NEW k \in Nat, NEW i \in Nat,
           i < RowSize(n, k), ~Meets(n, k, i)
    PROVE  /\ i = 2 * (i \div 2)
           /\ SameLeaves(n, k + 1, i \div 2, k, i)
           /\ TreeNode(n, k + 1, i \div 2) = TreeNode(n, k, i)
           /\ \A x : Binds(n, x, k, i) => Binds(n, x, k + 1, i \div 2)
<1>1. PICK h \in Nat :
         /\ h = i \div 2
         /\ (i = 2 * h /\ Sibling(i) = i + 1) \/ (i = 2 * h + 1 /\ Sibling(i) = i - 1)
  BY Halves
<1>2. PICK z \in Nat : z = RowSize(n, k)
  BY TreeClimbs
<1>3. i = 2 * h /\ 2 * h < z /\ ~(2 * h + 1 < z)
  BY <1>1, <1>2 DEF Meets
<1>4. h < RowSize(n, k + 1)
  <2>1. RowSize(n, k + 1) = (z + 1) \div 2
    BY <1>2, TreeClimbs
  <2>2. h < (z + 1) \div 2
    BY <1>3
  <2>3. QED
    BY <2>1, <2>2
<1>5. TreeNode(n, k + 1, h) = TreeNode(n, k, 2 * h)
  <2>1. TreeNode(n, k + 1, h) = IF 2 * h + 1 < RowSize(n, k)
                                THEN HashPair(TreeNode(n, k, 2 * h), TreeNode(n, k, 2 * h + 1))
                                ELSE TreeNode(n, k, 2 * h)
    BY <1>4, TreeClimbs, ZenonT(60)
  <2>2. ~(2 * h + 1 < RowSize(n, k))
    BY <1>2, <1>3
  <2>3. QED
    BY <2>1, <2>2
<1>6. SameLeaves(n, k + 1, h, k, i)
  BY <1>2, <1>3, CarryLeaves
<1>7. ASSUME NEW x, Binds(n, x, k, i) PROVE Binds(n, x, k + 1, h)
  BY <1>6, <1>7 DEF Binds, SameLeaves
<1>8. QED
  BY <1>1, <1>3, <1>5, <1>6, <1>7

(* Two rows of one node hold the same node. *)
LEMMA OneRoot ==
    ASSUME NEW base, Len(base) \in Nat \ {0}, NEW k \in Nat, NEW m \in Nat,
           Len(RowOf(base, k)) = 1, Len(RowOf(base, m)) = 1
    PROVE  NodeOf(base, k, 0) = NodeOf(base, m, 0)
<1>1. ASSUME NEW a \in Nat, NEW d \in Nat, Len(RowOf(base, a)) = 1
      PROVE  NodeOf(base, a + d, 0) = NodeOf(base, a, 0)
  <2> DEFINE F == {e \in Nat : Len(RowOf(base, a + e)) = 1 /\ NodeOf(base, a + e, 0) = NodeOf(base, a, 0)}
  <2>1. 0 \in F
    <3>1. a + 0 = a
      OBVIOUS
    <3>2. QED
      BY <1>1, <3>1
  <2>2. ASSUME NEW e \in Nat, e \in F PROVE e + 1 \in F
    <3>1. PICK g \in Nat : g = a + e /\ a + (e + 1) = g + 1
      OBVIOUS
    <3>2. Len(RowOf(base, g)) = 1 /\ NodeOf(base, g, 0) = NodeOf(base, a, 0)
      BY <2>2, <3>1
    <3>3. Len(RowOf(base, g + 1)) = 1
      <4>1. Len(RowOf(base, g + 1)) = (Len(RowOf(base, g)) + 1) \div 2
        BY NodesClimb
      <4>2. QED
        BY <3>2, <4>1
    <3>4. ASSUME NEW z \in Nat, z = 0 PROVE NodeOf(base, g + 1, z) = NodeOf(base, g, z)
      <4>1. 2 * z = z /\ ~(2 * z + 1 < 1)
        BY <3>4
      <4>2. z < Len(RowOf(base, g + 1))
        <5>1. PICK w : w = Len(RowOf(base, g + 1))
          OBVIOUS
        <5>2. w = 1
          BY <3>3, <5>1
        <5>3. z < w
          BY <3>4, <5>2
        <5>4. QED
          BY <5>1, <5>3
      <4>3. NodeOf(base, g + 1, z) =
               IF 2 * z + 1 < Len(RowOf(base, g))
               THEN HashPair(NodeOf(base, g, 2 * z), NodeOf(base, g, 2 * z + 1))
               ELSE NodeOf(base, g, 2 * z)
        BY <4>2, NodesClimb
      <4>4. QED
        BY <3>2, <4>1, <4>3
    <3>5. NodeOf(base, g + 1, 0) = NodeOf(base, g, 0)
      BY <3>4
    <3>6. QED
      BY <3>1, <3>2, <3>3, <3>5
  <2>3. d \in F
    <3> HIDE DEF F
    <3>1. QED
      BY <2>1, <2>2, NaturalInduction
  <2>4. QED
    BY <2>3
<1>2. CASE k <= m
  <2>1. m - k \in Nat /\ k + (m - k) = m
    BY <1>2
  <2>2. NodeOf(base, k + (m - k), 0) = NodeOf(base, k, 0)
    BY <1>1, <2>1
  <2>3. QED
    BY <2>1, <2>2
<1>3. CASE ~(k <= m)
  <2>1. k - m \in Nat /\ m + (k - m) = k
    BY <1>3
  <2>2. NodeOf(base, m + (k - m), 0) = NodeOf(base, m, 0)
    BY <1>1, <2>1
  <2>3. QED
    BY <2>1, <2>2
<1>4. QED
  BY <1>2, <1>3

(* A row high enough has one node. *)
LEMMA HighRows ==
    ASSUME NEW base, Len(base) \in Nat \ {0}, NEW k \in Nat, Len(base) <= TwoTo(k)
    PROVE  Len(RowOf(base, k)) = 1
<1>1. PICK s \in Nat : s = Len(RowOf(base, k)) /\ s > 0
  <2>1. Len(RowOf(base, k)) \in Nat \ {0}
    BY RowsClimb
  <2>2. QED
    BY <2>1
<1>2. PICK b \in Nat : b = TwoTo(k) /\ b > 0
  BY TwoToDoubles
<1>3. PICK n \in Nat : n = Len(base)
  OBVIOUS
<1>4. (s - 1) * b < n
  BY <1>1, <1>2, <1>3, RowsClimb
<1>5. n <= b
  BY <1>2, <1>3
<1>6. s > 1 => (s - 1) * b >= b
  BY <1>1, <1>2
<1>7. ~(s > 1)
  BY <1>2, <1>4, <1>5, <1>6
<1>8. s \in Nat /\ s > 0
  BY <1>1
<1>9. s = 1
  BY <1>7, <1>8
<1>10. QED
  BY <1>1, <1>9

(* block_root is the node of any row of one. *)
LEMMA BlockRootIs ==
    ASSUME NEW base, Len(base) \in Nat \ {0}, NEW k \in Nat, Len(RowOf(base, k)) = 1
    PROVE  block_root(base) = NodeOf(base, k, 0)
<1>1. PICK n \in Nat : n = Len(base)
  OBVIOUS
<1>2. n <= TwoTo(n)
  <2>1. TwoTo(n) \in Nat /\ TwoTo(n) > n
    BY TwoToDoubles
  <2>2. QED
    BY <2>1
<1>3. Len(RowOf(base, n)) = 1
  BY <1>1, <1>2, HighRows
<1>4. NodeOf(base, n, 0) = NodeOf(base, k, 0)
  BY <1>3, OneRoot
<1>5. RowOf(base, n) = Rows(base)[n]
  BY <1>1 DEF RowOf
<1>6. block_root(base) = Rows(base)[n][1]
  BY <1>1 DEF block_root
<1>7. NodeOf(base, n, 0) = Rows(base)[n][1]
  BY <1>5 DEF NodeOf
<1>8. QED
  BY <1>4, <1>6, <1>7

----------------------------------------------------------------------------
(***************************************************************************)
(* An aligned block: number p of level l, in a tree of n leaves.           *)
(***************************************************************************)
IsBlock(base, n, l, p) ==
    /\ n \in Nat \ {0} /\ l \in Nat /\ p \in Nat /\ p * TwoTo(l) < n
    /\ Len(base) = IF TwoTo(l) < n - p * TwoTo(l) THEN TwoTo(l) ELSE n - p * TwoTo(l)
    /\ \A j \in 1 .. Len(base) : base[j] = Leaf(p * TwoTo(l) + j - 1, base[j].committed)

(* The row of the tree that a row of the block is a part of begins here. *)
Offset(l, p, k) == p * TwoTo(l - k)

(* A block ends with its size or with the tree. *)
LEMMA BlockSpan ==
    ASSUME NEW base, NEW n, NEW l, NEW p, IsBlock(base, n, l, p)
    PROVE  /\ Len(base) \in Nat \ {0}
           /\ \A i \in Nat : i < Len(base) <=> i < TwoTo(l) /\ p * TwoTo(l) + i < n
<1>1. PICK b \in Nat : b = TwoTo(l) /\ b > 0
  BY TwoToDoubles DEF IsBlock
<1>2. PICK f \in Nat : f = p * TwoTo(l)
  BY <1>1 DEF IsBlock
<1>3. n \in Nat /\ f < n /\ Len(base) = IF b < n - f THEN b ELSE n - f
  BY <1>1, <1>2 DEF IsBlock
<1>4. Len(base) \in Nat \ {0} /\ \A i \in Nat : i < Len(base) <=> i < b /\ f + i < n
  BY <1>1, <1>2, <1>3
<1>5. QED
  BY <1>1, <1>2, <1>4

(* The places of a row over any leaves. *)
LEMMA InRowOf ==
    ASSUME NEW base, Len(base) \in Nat \ {0}, NEW k \in Nat, NEW j \in Nat
    PROVE  j < Len(RowOf(base, k)) <=> j * TwoTo(k) < Len(base)
<1>1. PICK s \in Nat : s = Len(RowOf(base, k))
  <2>1. Len(RowOf(base, k)) \in Nat \ {0}
    BY RowsClimb
  <2>2. QED
    BY <2>1
<1>2. PICK b \in Nat : b = TwoTo(k) /\ b > 0
  BY TwoToDoubles
<1>3. PICK n \in Nat : n = Len(base)
  OBVIOUS
<1>4. (s - 1) * b < n /\ n <= s * b
  BY <1>1, <1>2, <1>3, RowsClimb
<1>5. j < s => j * b <= (s - 1) * b
  BY <1>2
<1>6. ~(j < s) => s * b <= j * b
  BY <1>2
<1>7. j < s <=> j * b < n
  BY <1>2, <1>4, <1>5, <1>6
<1>8. QED
  BY <1>1, <1>2, <1>3, <1>7

(* The rows of a block are parts of the rows of the tree. *)
LEMMA BlockRow ==
    ASSUME NEW base, NEW n, NEW l, NEW p, IsBlock(base, n, l, p), NEW k \in Nat, k <= l, NEW i \in Nat
    PROVE  /\ Offset(l, p, k) \in Nat
           /\ i < Len(RowOf(base, k)) <=> i < TwoTo(l - k) /\ Offset(l, p, k) + i < RowSize(n, k)
<1>1. n \in Nat \ {0} /\ l \in Nat /\ p \in Nat /\ l - k \in Nat /\ k + (l - k) = l
  BY DEF IsBlock
<1>2. PICK b \in Nat : b = TwoTo(k) /\ b > 0
  BY TwoToDoubles
<1>3. PICK q \in Nat : q = TwoTo(l - k) /\ q > 0
  BY <1>1, TwoToDoubles
<1>4. TwoTo(k + (l - k)) = b * q
  BY <1>1, <1>2, <1>3, TwoToMultiple
<1>5. TwoTo(l) = b * q
  BY <1>1, <1>4
<1>6. PICK o \in Nat : o = p * q /\ o = Offset(l, p, k)
  BY <1>1, <1>3 DEF Offset
<1>7. i * b \in Nat /\ i * b < b * q <=> i < q
  <2>1. i < q => b * i < b * q
    BY <1>2
  <2>2. ~(i < q) => b * q <= b * i
    BY <1>2
  <2>3. i * b = b * i /\ i * b \in Nat /\ b * q \in Nat
    OBVIOUS
  <2>4. QED
    BY <2>1, <2>2, <2>3
<1>8. p * (b * q) + i * b = (o + i) * b
  <2>1. p * (b * q) = (p * q) * b
    BY <1>1
  <2>2. (o + i) * b = o * b + i * b
    OBVIOUS
  <2>3. QED
    BY <1>6, <2>1, <2>2
<1>9. i < Len(RowOf(base, k)) <=> i * b < Len(base)
  BY <1>2, BlockSpan, InRowOf
<1>10. i * b < Len(base) <=> i * b < b * q /\ p * (b * q) + i * b < n
  BY <1>5, <1>7, BlockSpan
<1>11. o + i < RowSize(n, k) <=> (o + i) * b < n
  <2>1. o + i \in Nat
    OBVIOUS
  <2>2. QED
    BY <1>1, <1>2, <2>1, InRow
<1>12. QED
  BY <1>3, <1>6, <1>7, <1>8, <1>9, <1>10, <1>11

(* Where two nodes meet, the leaves of both are those of their pair. *)
LEMMA PairLeaves ==
    ASSUME NEW n \in Nat \ {0}, NEW k \in Nat, NEW j \in Nat, 2 * j + 1 < RowSize(n, k)
    PROVE  /\ Start(k + 1, j) = Start(k, 2 * j) /\ End(n, k + 1, j) = End(n, k, 2 * j + 1)
           /\ End(n, k, 2 * j) = Start(k, 2 * j + 1)
           /\ Start(k, 2 * j) \in Nat /\ Start(k, 2 * j + 1) \in Nat /\ End(n, k, 2 * j + 1) \in Nat
           /\ Start(k, 2 * j) <= Start(k, 2 * j + 1) /\ Start(k, 2 * j + 1) <= End(n, k, 2 * j + 1)
<1>1. PICK b \in Nat : b = TwoTo(k) /\ b > 0 /\ TwoTo(k + 1) = 2 * b
  BY TwoToDoubles
<1>2. (2 * j + 1) * b < n
  <2>1. 2 * j + 1 \in Nat
    OBVIOUS
  <2>2. QED
    BY <1>1, <2>1, InRow
<1>3. PICK x \in Nat : x = (2 * j) * b
  OBVIOUS
<1>4. j * (2 * b) = x /\ (2 * j + 1) * b = x + b /\ (j + 1) * (2 * b) = x + 2 * b /\ ((2 * j + 1) + 1) * b = x + 2 * b
  BY <1>3
<1>5. Start(k + 1, j) = x /\ Start(k, 2 * j) = x /\ Start(k, 2 * j + 1) = x + b
  BY <1>1, <1>3, <1>4 DEF Start
<1>6. End(n, k, 2 * j) = x + b
  BY <1>1, <1>2, <1>4 DEF End
<1>7. End(n, k + 1, j) = (IF x + 2 * b < n THEN x + 2 * b ELSE n)
  BY <1>1, <1>4 DEF End
<1>8. End(n, k, 2 * j + 1) = (IF x + 2 * b < n THEN x + 2 * b ELSE n)
  BY <1>1, <1>4 DEF End
<1>9. x + b < n
  BY <1>2, <1>4
<1>10. QED
  BY <1>1, <1>3, <1>5, <1>6, <1>7, <1>8, <1>9

(***************************************************************************)
(* The root of a part of a block binds its place, and is the tree's node   *)
(* there exactly if every leaf under it is the committed one.              *)
(***************************************************************************)
AreCommitted(base, n, f, k, j) ==
    \A a \in 0 .. n - 1 : Start(k, j) <= a /\ a < End(n, k, j) => base[a - f + 1].committed = TRUE

(* Every node of a block binds its place in the tree. *)
LEMMA BlockBinds ==
    ASSUME NEW base, NEW n, NEW l, NEW p, IsBlock(base, n, l, p),
           NEW m \in Nat, m <= l, NEW h \in Nat, h < Len(RowOf(base, m))
    PROVE  /\ Binds(n, NodeOf(base, m, h), m, Offset(l, p, m) + h)
           /\ NodeOf(base, m, h) = TreeNode(n, m, Offset(l, p, m) + h)
                 <=> AreCommitted(base, n, p * TwoTo(l), m, Offset(l, p, m) + h)
<1>1. n \in Nat \ {0} /\ l \in Nat /\ p \in Nat /\ Len(base) \in Nat \ {0}
  BY BlockSpan DEF IsBlock
<1>2. PICK f \in Nat : f = p * TwoTo(l)
  <2>1. TwoTo(l) \in Nat
    BY <1>1, TwoToDoubles
  <2>2. QED
    BY <1>1, <2>1
<1> DEFINE Good(k, i) ==
              /\ Binds(n, NodeOf(base, k, i), k, Offset(l, p, k) + i)
              /\ NodeOf(base, k, i) = TreeNode(n, k, Offset(l, p, k) + i)
                    <=> AreCommitted(base, n, f, k, Offset(l, p, k) + i)
           F == {k \in Nat : k <= l => \A i \in Nat : i < Len(RowOf(base, k)) => Good(k, i)}
<1>3. 0 \in F
  <2>1. Offset(l, p, 0) = f
    BY <1>1, <1>2 DEF Offset
  <2>2. RowOf(base, 0) = base
    BY <1>1, RowsClimb
  <2>3. ASSUME NEW i \in Nat, i < Len(base) PROVE Good(0, i)
    <3>1. f + i < n
      BY <1>2, <2>3, BlockSpan
    <3>2. i + 1 \in 1 .. Len(base) /\ (f + (i + 1)) - 1 = f + i
      BY <1>1, <2>3
    <3>3. base[i + 1] = Leaf(f + (i + 1) - 1, base[i + 1].committed)
      BY <1>2, <3>2 DEF IsBlock
    <3>4. PICK t : t = base[i + 1].committed
      OBVIOUS
    <3>5. NodeOf(base, 0, i) = Leaf(f + i, t)
      BY <2>2, <3>2, <3>3, <3>4 DEF NodeOf
    <3>6. f + i \in 0 .. n - 1
      BY <1>1, <3>1
    <3>7. Binds(n, Leaf(f + i, t), 0, f + i) /\ (Leaf(f + i, t) = TreeNode(n, 0, f + i) <=> t = TRUE)
      BY <1>1, <3>6, LeafBinds
    <3>8. Start(0, f + i) = f + i /\ End(n, 0, f + i) = f + i + 1
      <4>1. TwoTo(0) = 1
        BY TwoToDoubles
      <4>2. (f + i) * 1 = f + i /\ ((f + i) + 1) * 1 = f + i + 1
        OBVIOUS
      <4>3. End(n, 0, f + i) = IF f + i + 1 < n THEN f + i + 1 ELSE n
        BY <4>1, <4>2 DEF End
      <4>4. End(n, 0, f + i) = f + i + 1
        BY <1>1, <3>1, <4>3
      <4>5. QED
        BY <4>1, <4>2, <4>4 DEF Start
    <3>9. AreCommitted(base, n, f, 0, f + i) <=> t = TRUE
      <4>1. \A a \in 0 .. n - 1 : Start(0, f + i) <= a /\ a < End(n, 0, f + i) <=> a = f + i
        BY <3>6, <3>8
      <4>2. (f + i) - f + 1 = i + 1
        OBVIOUS
      <4>3. QED
        BY <3>4, <3>6, <4>1, <4>2 DEF AreCommitted
    <3>10. QED
      BY <2>1, <3>5, <3>7, <3>9
  <2>4. QED
    BY <2>2, <2>3
<1>4. ASSUME NEW k \in Nat, k \in F PROVE k + 1 \in F
  <2>1. SUFFICES ASSUME k + 1 <= l, NEW i \in Nat, i < Len(RowOf(base, k + 1))
                 PROVE  Good(k + 1, i)
    OBVIOUS
  <2>2. PICK q \in Nat, o \in Nat, P \in Nat :
          /\ TwoTo(l - k) = 2 * q /\ o = Offset(l, p, k + 1) /\ Offset(l, p, k) = 2 * o /\ P = o + i
    <3>1. l - k \in Nat /\ l - (k + 1) \in Nat /\ l - k = (l - (k + 1)) + 1
      BY <1>1, <2>1
    <3>2. PICK q \in Nat : q = TwoTo(l - (k + 1))
      BY <3>1, TwoToDoubles
    <3>3. TwoTo(l - k) = 2 * q
      BY <3>1, <3>2, TwoToDoubles
    <3>4. p * q \in Nat /\ p * (2 * q) = 2 * (p * q)
      BY <1>1
    <3>5. Offset(l, p, k + 1) = p * q /\ Offset(l, p, k) = p * (2 * q)
      BY <3>2, <3>3 DEF Offset
    <3>6. p * q + i \in Nat
      BY <3>4
    <3>7. QED
      BY <3>3, <3>4, <3>5, <3>6
  <2>3. /\ 2 * i < Len(RowOf(base, k))
        /\ NodeOf(base, k + 1, i) =
              IF 2 * i + 1 < Len(RowOf(base, k))
              THEN HashPair(NodeOf(base, k, 2 * i), NodeOf(base, k, 2 * i + 1))
              ELSE NodeOf(base, k, 2 * i)
    BY <1>1, <2>1, NodesClimb, ZenonT(60)
  <2>4. k <= l /\ 2 * i \in Nat /\ 2 * i + 1 \in Nat /\ 2 * P \in Nat
    BY <1>1, <2>1
  <2>5. 2 * i < 2 * q /\ 2 * o + 2 * i < RowSize(n, k)
    <3>1. 2 * i < Len(RowOf(base, k)) <=> 2 * i < TwoTo(l - k) /\ Offset(l, p, k) + 2 * i < RowSize(n, k)
      BY <2>4, BlockRow
    <3>2. 2 * i < TwoTo(l - k) /\ Offset(l, p, k) + 2 * i < RowSize(n, k)
      BY <2>3, <3>1
    <3>3. QED
      BY <2>2, <3>2
  <2>6. 2 * i + 1 < Len(RowOf(base, k)) <=> 2 * i + 1 < 2 * q /\ 2 * o + (2 * i + 1) < RowSize(n, k)
    <3>1. PICK j \in Nat : j = 2 * i + 1
      BY <2>4
    <3>2. j < Len(RowOf(base, k)) <=> j < TwoTo(l - k) /\ Offset(l, p, k) + j < RowSize(n, k)
      BY <2>4, BlockRow
    <3>3. QED
      BY <2>2, <3>1, <3>2
  <2>7. 2 * i + 1 < 2 * q
    BY <2>5
  <2>8. 2 * o + 2 * i = 2 * P /\ 2 * o + (2 * i + 1) = 2 * P + 1
    BY <2>2, SMTT(60)
  <2>9. 2 * P < RowSize(n, k) /\ (2 * i + 1 < Len(RowOf(base, k)) <=> 2 * P + 1 < RowSize(n, k))
    BY <2>5, <2>6, <2>7, <2>8
  <2>10. Sibling(2 * P) = 2 * P + 1 /\ (2 * P) \div 2 = P
    BY DEF Sibling
  <2>11. Good(k, 2 * i)
    BY <1>4, <2>3, <2>4
  <2>12. /\ Binds(n, NodeOf(base, k, 2 * i), k, 2 * P)
         /\ NodeOf(base, k, 2 * i) = TreeNode(n, k, 2 * P) <=> AreCommitted(base, n, f, k, 2 * P)
    BY <2>2, <2>8, <2>11
  <2>13. CASE 2 * i + 1 < Len(RowOf(base, k))
    <3>1. PICK x, s : x = NodeOf(base, k, 2 * i) /\ s = NodeOf(base, k, 2 * i + 1)
      OBVIOUS
    <3>2. NodeOf(base, k + 1, i) = HashPair(x, s)
      BY <2>3, <2>13, <3>1
    <3>3. Good(k, 2 * i + 1)
      BY <1>4, <2>4, <2>13
    <3>4. s = TreeNode(n, k, 2 * P + 1) <=> AreCommitted(base, n, f, k, 2 * P + 1)
      BY <2>2, <2>8, <3>1, <3>3
    <3>5. Meets(n, k, 2 * P)
      BY <2>9, <2>10, <2>13 DEF Meets
    <3>6. /\ Binds(n, HashPair(x, s), k + 1, (2 * P) \div 2)
          /\ HashPair(x, s) = TreeNode(n, k + 1, (2 * P) \div 2) <=>
                 x = TreeNode(n, k, 2 * P) /\ s = TreeNode(n, k, Sibling(2 * P))
      BY <1>1, <2>4, <2>9, <2>12, <3>1, <3>5, PairBinds, SMTT(60)
    <3>7. AreCommitted(base, n, f, k + 1, P) <=>
             AreCommitted(base, n, f, k, 2 * P) /\ AreCommitted(base, n, f, k, 2 * P + 1)
      <4>1. PICK u \in Nat, v \in Nat, w \in Nat :
              /\ u = Start(k, 2 * P) /\ v = Start(k, 2 * P + 1) /\ w = End(n, k, 2 * P + 1)
              /\ u <= v /\ v <= w
              /\ Start(k + 1, P) = u /\ End(n, k + 1, P) = w /\ End(n, k, 2 * P) = v
        <5>1. /\ Start(k + 1, P) = Start(k, 2 * P) /\ End(n, k + 1, P) = End(n, k, 2 * P + 1)
              /\ End(n, k, 2 * P) = Start(k, 2 * P + 1)
              /\ Start(k, 2 * P) \in Nat /\ Start(k, 2 * P + 1) \in Nat /\ End(n, k, 2 * P + 1) \in Nat
              /\ Start(k, 2 * P) <= Start(k, 2 * P + 1) /\ Start(k, 2 * P + 1) <= End(n, k, 2 * P + 1)
          BY <1>1, <2>9, <2>13, PairLeaves
        <5>2. QED
          BY <5>1
      <4>2. \A a \in 0 .. n - 1 : (u <= a /\ a < w) <=> (u <= a /\ a < v) \/ (v <= a /\ a < w)
        BY <1>1, <4>1, SMTT(60)
      <4>3. QED
        BY <4>1, <4>2 DEF AreCommitted
    <3>8. QED
      BY <2>2, <2>10, <2>12, <3>1, <3>2, <3>4, <3>6, <3>7
  <2>14. CASE ~(2 * i + 1 < Len(RowOf(base, k)))
    <3>1. NodeOf(base, k + 1, i) = NodeOf(base, k, 2 * i)
      BY <2>3, <2>14
    <3>2. ~Meets(n, k, 2 * P)
      BY <2>9, <2>10, <2>14 DEF Meets
    <3>3. /\ SameLeaves(n, k + 1, P, k, 2 * P)
          /\ TreeNode(n, k + 1, P) = TreeNode(n, k, 2 * P)
          /\ \A x : Binds(n, x, k, 2 * P) => Binds(n, x, k + 1, P)
      BY <1>1, <2>4, <2>9, <2>10, <3>2, CarryBinds
    <3>4. AreCommitted(base, n, f, k + 1, P) <=> AreCommitted(base, n, f, k, 2 * P)
      BY <3>3 DEF AreCommitted, SameLeaves
    <3>5. QED
      BY <2>2, <2>12, <3>1, <3>3, <3>4
  <2>15. QED
    BY <2>13, <2>14
<1>5. m \in F
  <2> HIDE DEF F
  <2>1. QED
    BY <1>3, <1>4, NaturalInduction
<1>6. QED
  BY <1>2, <1>5

AllCommitted(base) == \A j \in 1 .. Len(base) : base[j].committed = TRUE

(***************************************************************************)
(* So block_root binds the block's place in the tree, and is the node      *)
(* there exactly if the block holds the committed leaves.                  *)
(***************************************************************************)
LEMMA BlockRootBinds ==
    ASSUME NEW base, NEW n, NEW l, NEW p, IsBlock(base, n, l, p)
    PROVE  /\ Binds(n, block_root(base), l, p)
           /\ p < RowSize(n, l)
           /\ block_root(base) = TreeNode(n, l, p) <=> AllCommitted(base)
<1>1. n \in Nat \ {0} /\ l \in Nat /\ p \in Nat /\ Len(base) \in Nat \ {0} /\ l - l = 0
  <2>1. n \in Nat \ {0} /\ l \in Nat /\ p \in Nat
    BY DEF IsBlock
  <2>2. Len(base) \in Nat \ {0}
    BY BlockSpan
  <2>3. l - l = 0
    BY <2>1
  <2>4. QED
    BY <2>1, <2>2, <2>3
<1>2. PICK b \in Nat : b = TwoTo(l) /\ b > 0
  <2>1. l \in Nat
    BY <1>1
  <2>2. TwoTo(l) \in Nat /\ TwoTo(l) > l
    BY <2>1, TwoToDoubles
  <2>3. TwoTo(l) > 0
    BY <2>1, <2>2
  <2>4. QED
    BY <2>2, <2>3
<1>3. PICK f \in Nat : f = p * b
  BY <1>1
<1>4. Len(base) = IF b < n - f THEN b ELSE n - f
  BY <1>2, <1>3 DEF IsBlock
<1>5. Len(base) <= b
  BY <1>1, <1>2, <1>4
<1>6. Len(RowOf(base, l)) = 1
  BY <1>1, <1>2, <1>5, HighRows
<1>7. block_root(base) = NodeOf(base, l, 0)
  BY <1>1, <1>6, BlockRootIs
<1>8. Offset(l, p, l) = p
  <2>1. TwoTo(0) = 1 /\ p * 1 = p
    BY <1>1, TwoToDoubles
  <2>2. QED
    BY <1>1, <2>1 DEF Offset
<1>9. p + 0 = p
  BY <1>1
<1>10. /\ Binds(n, NodeOf(base, l, 0), l, p)
       /\ NodeOf(base, l, 0) = TreeNode(n, l, p) <=> AreCommitted(base, n, f, l, p)
  <2>1. l \in Nat /\ l <= l /\ 0 \in Nat /\ 0 < Len(RowOf(base, l))
    BY <1>1, <1>6
  <2>2. /\ Binds(n, NodeOf(base, l, 0), l, Offset(l, p, l) + 0)
        /\ NodeOf(base, l, 0) = TreeNode(n, l, Offset(l, p, l) + 0)
              <=> AreCommitted(base, n, p * TwoTo(l), l, Offset(l, p, l) + 0)
    BY <2>1, BlockBinds
  <2>3. QED
    BY <1>2, <1>3, <1>8, <1>9, <2>2
<1>11. f < n
  BY <1>2, <1>3 DEF IsBlock
<1>12. p < RowSize(n, l)
  BY <1>1, <1>2, <1>3, <1>11, InRow
<1>13. Start(l, p) = f /\ End(n, l, p) = f + Len(base)
  <2>1. (p + 1) * b = f + b
    BY <1>1, <1>3
  <2>2. End(n, l, p) = IF f + b < n THEN f + b ELSE n
    BY <1>2, <2>1 DEF End
  <2>3. End(n, l, p) = f + Len(base)
    BY <1>1, <1>4, <2>2
  <2>4. QED
    BY <1>2, <1>3, <2>3 DEF Start
<1>14. AreCommitted(base, n, f, l, p) <=> AllCommitted(base)
  <2>1. PICK z \in Nat : z = Len(base) /\ f + z <= n
    <3>1. PICK w \in Nat : w = Len(base)
      BY <1>1
    <3>2. w = IF b < n - f THEN b ELSE n - f
      BY <1>4, <3>1
    <3>3. f + w <= n
      BY <1>1, <1>11, <3>2
    <3>4. QED
      BY <3>1, <3>3
  <2>2. ASSUME AreCommitted(base, n, f, l, p), NEW j \in 1 .. z PROVE base[j].committed = TRUE
    <3>1. f + j - 1 \in 0 .. n - 1 /\ f <= f + j - 1 /\ f + j - 1 < f + z /\ (f + j - 1) - f + 1 = j
      BY <1>1, <2>1
    <3>2. QED
      BY <1>13, <2>1, <2>2, <3>1 DEF AreCommitted
  <2>3. ASSUME \A j \in 1 .. z : base[j].committed = TRUE PROVE AreCommitted(base, n, f, l, p)
    <3>1. \A a \in 0 .. n - 1 : f <= a /\ a < f + z => a - f + 1 \in 1 .. z
      BY <1>1
    <3>2. QED
      BY <1>13, <2>1, <2>3, <3>1 DEF AreCommitted
  <2>4. QED
    BY <2>1, <2>2, <2>3 DEF AllCommitted
<1>15. QED
  BY <1>7, <1>10, <1>12, <1>14

----------------------------------------------------------------------------
(***************************************************************************)
(* The tree the keeper climbs, and the one the program does.               *)
(***************************************************************************)
(* A place of the row above is half the one below. *)
LEMMA PlacesHalve ==
    ASSUME NEW f \in Nat, NEW k \in Nat
    PROVE  f \div TwoTo(k) \in Nat /\ f \div TwoTo(k + 1) = (f \div TwoTo(k)) \div 2
<1>1. PICK b \in Nat : b = TwoTo(k) /\ b > 0 /\ TwoTo(k + 1) = 2 * b
  <2>1. TwoTo(k) \in Nat /\ TwoTo(k) > k /\ TwoTo(k + 1) = 2 * TwoTo(k)
    BY TwoToDoubles
  <2>2. TwoTo(k) > 0
    BY <2>1
  <2>3. QED
    BY <2>1, <2>2
<1>2. f \div b \in Nat
  BY <1>1
<1>3. PICK q \in Nat : q = f \div b
  BY <1>2
<1>4. q * b <= f /\ f < (q + 1) * b
  BY <1>1, <1>3, QuotientIs
<1>5. PICK h \in Nat : h = q \div 2 /\ 2 * h <= q /\ q + 1 <= 2 * h + 2
  <2>1. q \div 2 \in Nat /\ 2 * (q \div 2) <= q /\ q + 1 <= 2 * (q \div 2) + 2
    OBVIOUS
  <2>2. QED
    BY <2>1
<1>6. (2 * h) * b <= q * b /\ (q + 1) * b <= (2 * h + 2) * b
  BY <1>5
<1>7. h * (2 * b) = (2 * h) * b /\ (h + 1) * (2 * b) = (2 * h + 2) * b
  OBVIOUS
<1>8. h * (2 * b) <= f /\ f < (h + 1) * (2 * b)
  <2>1. PICK x \in Int, y \in Int, u \in Int, v \in Int :
           x = q * b /\ y = (q + 1) * b /\ u = (2 * h) * b /\ v = (2 * h + 2) * b
    OBVIOUS
  <2>2. u <= f /\ f < v
    BY <1>4, <1>6, <2>1
  <2>3. QED
    BY <1>7, <2>1, <2>2
<1>9. 2 * b \in Nat /\ 2 * b > 0
  BY <1>1
<1>10. h = f \div (2 * b)
  BY <1>8, <1>9, QuotientIs
<1>11. QED
  BY <1>1, <1>2, <1>3, <1>5, <1>10

(* The model's rows are those of RowOf, and its root the node of the last. *)
LEMMA TreesAre ==
    ASSUME NEW n \in LeafCounts, n \in Nat \ {0}
    PROVE  /\ \A k \in 0 .. n : /\ Trees[n][k] = RowOf(CommittedLeaves(n), k)
                                /\ Len(Trees[n][k]) = RowSize(n, k)
           /\ \A k \in Nat : RowSize(n, k) = 1 => Root(n) = TreeNode(n, k, 0)
<1>1. PICK base : base = CommittedLeaves(n)
  OBVIOUS
<1>2. Len(base) = n
  BY <1>1 DEF CommittedLeaves
<1>3. Trees[n] = Rows(base)
  BY <1>1 DEF Trees
<1>4. \A k \in 0 .. n : Trees[n][k] = RowOf(base, k)
  BY <1>2, <1>3 DEF RowOf
<1>5. Len(RowOf(base, n)) = 1
  <2>1. TwoTo(n) \in Nat /\ TwoTo(n) > n
    BY TwoToDoubles
  <2>2. Len(base) \in Nat \ {0} /\ Len(base) <= TwoTo(n)
    BY <1>2, <2>1
  <2>3. QED
    BY <2>2, HighRows
<1>6. ASSUME NEW k \in Nat, RowSize(n, k) = 1 PROVE Root(n) = TreeNode(n, k, 0)
  <2>1. Len(base) \in Nat \ {0} /\ Len(RowOf(base, k)) = 1
    BY <1>1, <1>2, <1>6 DEF RowSize
  <2>2. NodeOf(base, n, 0) = NodeOf(base, k, 0)
    BY <1>5, <2>1, OneRoot
  <2>3. Root(n) = Trees[n][n][1]
    BY DEF Root
  <2>4. NodeOf(base, n, 0) = RowOf(base, n)[1]
    BY DEF NodeOf
  <2>5. n \in 0 .. n
    OBVIOUS
  <2>6. QED
    BY <1>1, <1>4, <2>2, <2>3, <2>4, <2>5 DEF TreeNode
<1>7. QED
  BY <1>1, <1>4, <1>6 DEF RowSize

(* The keeper's tree ends with the first row of one node, and every row    *)
(* from there on is one.                                                   *)
LEMMA DepthIs ==
    ASSUME NEW n \in LeafCounts, n \in Nat \ {0}
    PROVE  /\ Depth(n) \in 0 .. n
           /\ \A k \in Nat : RowSize(n, k) = 1 <=> Depth(n) <= k
<1> DEFINE One == {k \in Nat : RowSize(n, k) = 1}
<1>1. n \in One
  <2>1. PICK z \in Nat : z = RowSize(n, n) /\ z > 0
    <3>1. RowSize(n, n) \in Nat \ {0}
      BY TreeClimbs
    <3>2. QED
      BY <3>1
  <2>2. PICK b \in Nat : b = TwoTo(n) /\ b > n
    BY TwoToDoubles
  <2>3. (1 < z <=> 1 * b < n) /\ 1 * b = b
    BY <2>1, <2>2, InRow
  <2>4. z = 1
    BY <2>1, <2>2, <2>3
  <2>5. QED
    BY <2>1, <2>4
<1>2. \A k \in Nat : k \in One => k + 1 \in One
  <2>1. ASSUME NEW k \in Nat, RowSize(n, k) = 1 PROVE RowSize(n, k + 1) = 1
    <3>1. RowSize(n, k + 1) = (RowSize(n, k) + 1) \div 2
      BY TreeClimbs
    <3>2. QED
      BY <2>1, <3>1
  <2>2. QED
    BY <2>1
<1>3. PICK d \in One : \A k \in One : d <= k
  <2>1. One \in SUBSET Nat /\ One # {}
    BY <1>1
  <2> HIDE DEF One
  <2>2. QED
    BY <2>1, Least
<1>4. d \in 0 .. n
  BY <1>1, <1>3
<1>5. \A k \in 0 .. n : Len(Trees[n][k]) = RowSize(n, k)
  BY TreesAre
<1>6. ASSUME NEW e \in 0 .. n, e \notin One PROVE Len(Trees[n][e]) > 1
  <2>1. PICK z \in Nat : z = RowSize(n, e) /\ z # 0
    <3>1. e \in Nat
      OBVIOUS
    <3>2. RowSize(n, e) \in Nat \ {0}
      BY <3>1, TreeClimbs
    <3>3. QED
      BY <3>2
  <2>2. z # 1
    BY <1>6, <2>1
  <2>3. z > 1
    BY <2>1, <2>2
  <2>4. QED
    BY <1>5, <2>1, <2>3
<1>7. ASSUME NEW e \in 0 .. n, e \in One PROVE Len(Trees[n][e]) = 1
  BY <1>5, <1>7
<1> DEFINE First(x) == /\ Len(Trees[n][x]) = 1
                       /\ \A e \in 0 .. x - 1 : Len(Trees[n][e]) > 1
<1>8. First(d)
  <2>1. Len(Trees[n][d]) = 1
    BY <1>3, <1>4, <1>7
  <2>2. ASSUME NEW e \in 0 .. d - 1 PROVE Len(Trees[n][e]) > 1
    <3>1. e \in 0 .. n /\ ~(d <= e) /\ e \in Nat
      BY <1>4
    <3>2. e \notin One
      BY <1>3, <3>1
    <3>3. QED
      BY <1>6, <3>1, <3>2
  <2>3. QED
    BY <2>1, <2>2
<1>9. Depth(n) = CHOOSE x \in 0 .. n : First(x)
  BY DEF Depth
<1>10. Depth(n) \in 0 .. n /\ First(Depth(n))
  <2> HIDE DEF First
  <2>1. QED
    BY <1>4, <1>8, <1>9
<1>11. Depth(n) = d
  <2>1. PICK x \in 0 .. n : x = Depth(n)
    BY <1>10
  <2>2. x \in One
    <3>1. Len(Trees[n][x]) = 1
      BY <1>10, <2>1
    <3>2. x \notin One => Len(Trees[n][x]) > 1
      BY <1>6
    <3>3. QED
      BY <3>1, <3>2
  <2>3. d <= x
    BY <1>3, <2>2
  <2>4. ~(d < x)
    <3>1. ASSUME d < x PROVE FALSE
      <4>1. d \in 0 .. x - 1
        BY <1>4, <3>1
      <4>2. Len(Trees[n][d]) > 1 /\ Len(Trees[n][d]) = 1
        BY <1>8, <1>10, <2>1, <4>1
      <4>3. PICK w : w = Len(Trees[n][d])
        OBVIOUS
      <4>4. w > 1 /\ w = 1
        BY <4>2, <4>3
      <4>5. QED
        BY <4>4
    <3>2. QED
      BY <3>1
  <2>5. QED
    BY <1>4, <2>1, <2>3, <2>4
<1>12. ASSUME NEW k \in Nat, d <= k PROVE k \in One
  <2> DEFINE G == {e \in Nat : d + e \in One}
  <2>1. 0 \in G
    BY <1>3, <1>4
  <2>2. ASSUME NEW e \in Nat, e \in G PROVE e + 1 \in G
    <3>1. d + e \in Nat /\ d + (e + 1) = (d + e) + 1
      BY <1>4
    <3> HIDE DEF One
    <3>2. QED
      BY <1>2, <2>2, <3>1
  <2>3. k - d \in Nat /\ d + (k - d) = k
    BY <1>4, <1>12
  <2>4. k - d \in G
    <3> HIDE DEF G
    <3>1. QED
      BY <2>1, <2>2, <2>3, NaturalInduction
  <2>5. QED
    BY <2>3, <2>4
<1>13. \A k \in Nat : RowSize(n, k) = 1 <=> d <= k
  BY <1>3, <1>12
<1>14. QED
  BY <1>10, <1>11, <1>13

(* Nothing meets a node that has every leaf. *)
LEMMA WholeMeetsNone ==
    ASSUME NEW n \in Nat \ {0}, NEW k \in Nat, RowSize(n, k) = 1, NEW z, z = 0,
           NEW l \in Nat, NEW e \in Nat, SameLeaves(n, k, z, l, e) \/ SameLeaves(n, l, e, k, z)
    PROVE  ~Meets(n, l, e)
<1>1. PICK b \in Nat : b = TwoTo(l) /\ b > 0
  BY TwoToDoubles
<1>2. PICK a \in Nat : a = TwoTo(k) /\ a > 0
  BY TwoToDoubles
<1>3. z * a = 0 /\ (z + 1) * a = a
  BY <1>2
<1>4. e * b = 0
  BY <1>1, <1>2, <1>3 DEF SameLeaves, Start
<1>5. e = 0
  BY <1>1, <1>4
<1>6. (e + 1) * b = b
  BY <1>5
<1>7. ~(a < n)
  <2>1. PICK w \in Nat : w = 1
    OBVIOUS
  <2>2. ~(w < RowSize(n, k)) /\ w * a = a
    BY <2>1
  <2>3. QED
    BY <1>2, <2>2, InRow
<1>8. End(n, k, z) = n
  BY <1>2, <1>3, <1>7 DEF End
<1>9. End(n, l, e) = IF b < n THEN b ELSE n
  BY <1>1, <1>6 DEF End
<1>10. ~(b < n)
  BY <1>8, <1>9 DEF SameLeaves
<1>11. Sibling(e) = 1
  BY <1>5 DEF Sibling
<1>12. ~(1 < RowSize(n, l))
  <2>1. PICK w \in Nat : w = 1
    OBVIOUS
  <2>2. w * b = b
    BY <2>1
  <2>3. ~(w < RowSize(n, l))
    BY <1>1, <1>10, <2>2, InRow
  <2>4. QED
    BY <2>1, <2>3
<1>13. QED
  BY <1>11, <1>12 DEF Meets
----------------------------------------------------------------------------
(***************************************************************************)
(* Proofs: what a proof folds to, and the siblings a block meets.          *)
(***************************************************************************)
(* A proof folds sibling by sibling. *)
LEMMA FoldedGrows ==
    ASSUME NEW x, NEW S, NEW p \in Seq(S), NEW s \in S
    PROVE  Folded(<< >>, x) = x /\ Folded(Append(p, s), x) = HashPair(Folded(p, x), s)
<1>1. ASSUME NEW q, NEW m \in Nat, m = Len(q)
      PROVE  \E g : /\ Folded(q, x) = g[m]
                    /\ \A j \in 0 .. m : g[j] = IF j = 0 THEN x ELSE HashPair(g[j - 1], q[j])
  <2> DEFINE it == CHOOSE g : FoldsTo(g, q, x, m)
  <2>1. Folded(q, x) = it[m]
    BY <1>1 DEF Folded, FoldsTo
  <2>2. FoldsTo(it, q, x, m)
    <3>1. \E g : FoldsTo(g, q, x, m)
      BY FoldsExist
    <3>2. QED
      BY <3>1
  <2> HIDE DEF it
  <2>3. \A j \in 0 .. m : it[j] = IF j = 0 THEN x ELSE HashPair(it[j - 1], q[j])
    BY <2>2 DEF FoldsTo
  <2>4. QED
    BY <2>1, <2>3
<1>2. PICK n \in Nat : n = Len(p)
  BY LenProperties
<1>3. PICK r : r = Append(p, s)
  OBVIOUS
<1>4. Len(r) = n + 1 /\ r[n + 1] = s /\ \A i \in 1 .. n : r[i] = p[i]
  BY <1>2, <1>3, AppendProperties
<1>5. PICK g : Folded(p, x) = g[n] /\ \A j \in 0 .. n : g[j] = IF j = 0 THEN x ELSE HashPair(g[j - 1], p[j])
  BY <1>1, <1>2
<1>6. PICK h : /\ Folded(r, x) = h[n + 1]
               /\ \A j \in 0 .. n + 1 : h[j] = IF j = 0 THEN x ELSE HashPair(h[j - 1], r[j])
  <2>1. n + 1 \in Nat /\ n + 1 = Len(r)
    BY <1>4
  <2>2. QED
    BY <1>1, <2>1
<1> DEFINE F == {j \in Nat : j <= n => g[j] = h[j]}
<1>7. 0 \in F
  BY <1>5, <1>6
<1>8. ASSUME NEW j \in Nat, j \in F PROVE j + 1 \in F
  <2>1. ASSUME j + 1 <= n PROVE g[j + 1] = h[j + 1]
    <3>1. j + 1 \in 0 .. n /\ j + 1 \in 0 .. n + 1 /\ j + 1 \in 1 .. n /\ j + 1 # 0 /\ (j + 1) - 1 = j /\ j <= n
      BY <2>1
    <3>2. g[j] = h[j] /\ r[j + 1] = p[j + 1]
      BY <1>4, <1>8, <3>1
    <3>3. QED
      BY <1>5, <1>6, <3>1, <3>2
  <2>2. QED
    BY <2>1
<1>9. n \in F
  <2> HIDE DEF F
  <2>1. QED
    BY <1>7, <1>8, NaturalInduction
<1>10. h[n + 1] = HashPair(h[n], r[n + 1])
  <2>1. n + 1 \in 0 .. n + 1 /\ n + 1 # 0 /\ (n + 1) - 1 = n
    OBVIOUS
  <2>2. QED
    BY <1>6, <2>1
<1>11. Folded(Append(p, s), x) = HashPair(Folded(p, x), s)
  <2>1. g[n] = h[n]
    BY <1>9
  <2>2. QED
    BY <1>3, <1>4, <1>5, <1>6, <1>10, <2>1
<1>12. Folded(<< >>, x) = x
  <2>1. PICK e : e = << >>
    OBVIOUS
  <2>2. PICK m \in Nat : m = Len(e) /\ m = 0
    BY <2>1
  <2>3. PICK f : Folded(e, x) = f[m] /\ \A j \in 0 .. m : f[j] = IF j = 0 THEN x ELSE HashPair(f[j - 1], e[j])
    BY <1>1, <2>2
  <2>4. f[0] = x
    BY <2>2, <2>3
  <2>5. QED
    BY <2>1, <2>2, <2>3, <2>4
<1>13. QED
  BY <1>11, <1>12

(* The nodes proofs are made of, and those of the tree's every row. *)
Nodes(n) == Hashes[n] \cup {TreeNode(n, k, j) : k \in Nat, j \in Nat}

(* From one row to the next a block meets the sibling there, if there is one. *)
LEMMA MeetingsClimb ==
    ASSUME NEW n \in LeafCounts, n \in Nat \ {0}, NEW f \in Nat, NEW l \in Nat
    PROVE  /\ Met(n, f, l, 0) = << >>
           /\ \A j \in Nat : l + j <= n =>
                 LET i == f \div TwoTo(l + j)
                 IN Met(n, f, l, j + 1) = IF Meets(n, l + j, i)
                                          THEN Append(Met(n, f, l, j), TreeNode(n, l + j, Sibling(i)))
                                          ELSE Met(n, f, l, j)
<1>1. PICK t : t = Trees[n]
  OBVIOUS
<1> DEFINE At(k) == SiblingAt(f, k)
           Step(g, j) == Collected(t, f, l + j - 1, g[j - 1])
           Is(g, m) == \A j \in 0 .. m : g[j] = IF j = 0 THEN << >> ELSE Step(g, j)
<1>2. ASSUME NEW m \in Nat PROVE \E g : Met(n, f, l, m) = g[m] /\ Is(g, m)
  <2> DEFINE it == CHOOSE g : CollectsTo(g, t, f, l, m)
  <2>1. Met(n, f, l, m) = it[m]
    BY <1>1 DEF Met, SiblingAt, CollectsTo, Collected
  <2>2. CollectsTo(it, t, f, l, m)
    <3>1. \E g : CollectsTo(g, t, f, l, m)
      BY MeetingsExist
    <3>2. QED
      BY <3>1
  <2> HIDE DEF it
  <2>3. Is(it, m)
    BY <2>2 DEF CollectsTo
  <2> HIDE DEF Is
  <2>4. QED
    BY <2>1, <2>3
<1>3. Met(n, f, l, 0) = << >>
  <2>1. PICK g : Met(n, f, l, 0) = g[0] /\ Is(g, 0)
    BY <1>2
  <2> HIDE DEF Step
  <2>2. g[0] = << >>
    BY <2>1
  <2>3. QED
    BY <2>1, <2>2
<1>4. ASSUME NEW m \in Nat, l + m <= n
      PROVE  Met(n, f, l, m + 1) = IF Meets(n, l + m, f \div TwoTo(l + m))
                                   THEN Append(Met(n, f, l, m), TreeNode(n, l + m, Sibling(f \div TwoTo(l + m))))
                                   ELSE Met(n, f, l, m)
  <2>1. PICK g : Met(n, f, l, m) = g[m] /\ Is(g, m)
    BY <1>2
  <2>2. PICK h : Met(n, f, l, m + 1) = h[m + 1] /\ Is(h, m + 1)
    <3>1. m + 1 \in Nat
      OBVIOUS
    <3> HIDE DEF Is
    <3>2. QED
      BY <1>2, <3>1
  <2> DEFINE F == {j \in Nat : j <= m => g[j] = h[j]}
  <2>3. 0 \in F
    <3> HIDE DEF Step
    <3>1. QED
      BY <2>1, <2>2
  <2>4. ASSUME NEW j \in Nat, j \in F PROVE j + 1 \in F
    <3>1. ASSUME j + 1 <= m PROVE g[j + 1] = h[j + 1]
      <4>1. j + 1 \in 0 .. m /\ j + 1 \in 0 .. m + 1 /\ j + 1 # 0 /\ (j + 1) - 1 = j /\ j <= m
        BY <3>1
      <4>2. g[j] = h[j]
        BY <2>4, <4>1
      <4>3. Step(g, j + 1) = Step(h, j + 1)
        BY <4>1, <4>2
      <4> HIDE DEF Step
      <4>4. QED
        BY <2>1, <2>2, <4>1, <4>3
    <3>2. QED
      BY <3>1
  <2>5. m \in F
    <3> HIDE DEF F
    <3>1. QED
      BY <2>3, <2>4, NaturalInduction
  <2>6. g[m] = h[m]
    BY <2>5
  <2>7. m + 1 \in 0 .. m + 1 /\ m + 1 # 0 /\ (m + 1) - 1 = m /\ l + (m + 1) - 1 = l + m /\ l + m \in 0 .. n
    BY <1>4
  <2>8. h[m + 1] = Step(h, m + 1)
    <3> HIDE DEF Step
    <3>1. QED
      BY <2>2, <2>7
  <2>9. Step(h, m + 1) = IF At(l + m) < Len(t[l + m]) THEN Append(h[m], t[l + m][At(l + m) + 1]) ELSE h[m]
    BY <2>7 DEF Collected
  <2>10. Len(t[l + m]) = RowSize(n, l + m) /\ t[l + m] = RowOf(CommittedLeaves(n), l + m)
    BY <1>1, <2>7, TreesAre
  <2>11. At(l + m) = Sibling(f \div TwoTo(l + m))
    BY DEF SiblingAt
  <2>12. t[l + m][At(l + m) + 1] = TreeNode(n, l + m, At(l + m))
    BY <2>10 DEF TreeNode, NodeOf
  <2>13. QED
    BY <2>1, <2>2, <2>6, <2>8, <2>9, <2>10, <2>11, <2>12 DEF Meets
<1>5. QED
  BY <1>3, <1>4

(* What a block meets is a list of nodes, one a row at most, and no shorter *)
(* higher up.                                                              *)
LEMMA MeetingsAre ==
    ASSUME NEW n \in LeafCounts, n \in Nat \ {0}, NEW f \in Nat, NEW l \in Nat
    PROVE  \A j \in Nat : l + j <= n + 1 =>
              /\ Met(n, f, l, j) \in Seq(Nodes(n)) /\ Len(Met(n, f, l, j)) \in Nat /\ Len(Met(n, f, l, j)) <= j
              /\ \A d \in Nat : d <= j => Len(Met(n, f, l, d)) <= Len(Met(n, f, l, j))
<1> DEFINE M(j) == Met(n, f, l, j)
           Fine(j) == /\ M(j) \in Seq(Nodes(n)) /\ Len(M(j)) \in Nat /\ Len(M(j)) <= j
                      /\ \A d \in Nat : d <= j => Len(M(d)) <= Len(M(j))
           F == {j \in Nat : l + j <= n + 1 => Fine(j)}
<1>1. 0 \in F
  <2>1. M(0) = << >>
    BY MeetingsClimb
  <2>2. << >> \in Seq(Nodes(n)) /\ Len(<< >>) = 0
    OBVIOUS
  <2>3. M(0) \in Seq(Nodes(n)) /\ Len(M(0)) = 0
    BY <2>1, <2>2
  <2> HIDE DEF M
  <2>4. ASSUME NEW d \in Nat, d <= 0 PROVE Len(M(d)) <= Len(M(0))
    <3>1. d = 0
      BY <2>4
    <3>2. QED
      BY <2>3, <3>1
  <2>5. QED
    BY <2>3, <2>4
<1>2. ASSUME NEW j \in Nat, j \in F PROVE j + 1 \in F
  <2>1. SUFFICES ASSUME l + (j + 1) <= n + 1 PROVE Fine(j + 1)
    OBVIOUS
  <2>2. l + j <= n /\ l + j <= n + 1 /\ l + j \in Nat
    BY <2>1
  <2>3. Fine(j)
    BY <1>2, <2>2
  <2>4. PICK i \in Nat : i = f \div TwoTo(l + j)
    BY <2>2, PlacesHalve
  <2>5. M(j + 1) = IF Meets(n, l + j, i) THEN Append(M(j), TreeNode(n, l + j, Sibling(i))) ELSE M(j)
    BY <2>2, <2>4, MeetingsClimb
  <2>6. TreeNode(n, l + j, Sibling(i)) \in Nodes(n)
    <3>1. Sibling(i) \in Nat
      BY DEF Sibling
    <3>2. QED
      BY <2>2, <3>1 DEF Nodes
  <2> HIDE DEF M
  <2>7. /\ Append(M(j), TreeNode(n, l + j, Sibling(i))) \in Seq(Nodes(n))
        /\ Len(Append(M(j), TreeNode(n, l + j, Sibling(i)))) = Len(M(j)) + 1
    BY <2>3, <2>6, AppendProperties
  <2>8. M(j + 1) \in Seq(Nodes(n)) /\ (Len(M(j + 1)) = Len(M(j)) \/ Len(M(j + 1)) = Len(M(j)) + 1)
    BY <2>3, <2>5, <2>7
  <2>9. Len(M(j + 1)) \in Nat /\ Len(M(j + 1)) <= j + 1 /\ Len(M(j)) <= Len(M(j + 1))
    BY <2>3, <2>8
  <2>10. ASSUME NEW d \in Nat, d <= j + 1 PROVE Len(M(d)) <= Len(M(j + 1))
    <3>1. CASE d = j + 1
      BY <2>9, <3>1
    <3>2. CASE d # j + 1
      <4>1. d <= j /\ l + d <= n + 1
        BY <2>2, <2>10, <3>2
      <4>2. Len(M(d)) <= Len(M(j)) /\ Len(M(j)) \in Nat
        BY <2>3, <4>1
      <4>3. QED
        BY <2>9, <4>2
    <3>3. QED
      BY <3>1, <3>2
  <2>11. QED
    BY <2>8, <2>9, <2>10
<1>3. ASSUME NEW j \in Nat PROVE j \in F
  <2> HIDE DEF F
  <2>1. QED
    BY <1>1, <1>2, NaturalInduction
<1>4. QED
  BY <1>3
----------------------------------------------------------------------------
(***************************************************************************)
(* One climb of verify_block, in row k: the hash binds the block's place   *)
(* there, and is the tree's own node exactly if the leaves are the         *)
(* committed ones and the siblings so far the keeper's.                    *)
(***************************************************************************)
(* The row the keeper's proof ends in: the tree's last, or the block's own. *)
TopRow(n, l) == IF Depth(n) > l THEN Depth(n) ELSE l

Climbs(n, f, l, base, k, x, i, z, p) ==
    /\ k \in Nat /\ l <= k /\ k <= TopRow(n, l)
    /\ z = RowSize(n, k) /\ i = f \div TwoTo(k) /\ i \in Nat /\ i < z
    /\ Binds(n, x, k, i)
    /\ Len(p) = Len(Met(n, f, l, k - l))
    /\ x = TreeNode(n, k, i) <=> AllCommitted(base) /\ p = Met(n, f, l, k - l)
    /\ l = 0 => x = Folded(p, base[1])

(* A proper block begins to climb in the row of its level. *)
LEMMA BlockClimbs ==
    ASSUME NEW n \in LeafCounts, n \in Nat \ {0}, NEW f \in Nat, NEW l \in Nat, NEW base,
           f < n, f % TwoTo(l) = 0,
           Len(base) = IF TwoTo(l) < n - f THEN TwoTo(l) ELSE n - f,
           \A j \in 1 .. Len(base) : base[j] = Leaf(f + j - 1, base[j].committed)
    PROVE  Climbs(n, f, l, base, l, block_root(base), f \div TwoTo(l), (n + TwoTo(l) - 1) \div TwoTo(l), << >>)
<1>1. PICK b \in Nat : b = TwoTo(l) /\ b > 0
  <2>1. TwoTo(l) \in Nat /\ TwoTo(l) > l
    BY TwoToDoubles
  <2>2. TwoTo(l) > 0
    BY <2>1
  <2>3. QED
    BY <2>1, <2>2
<1>2. PICK q \in Nat : q = f \div b /\ f = q * b
  <2>1. f \div b \in Nat /\ f = b * (f \div b) + (f % b)
    BY <1>1, DivisionIs
  <2>2. PICK w \in Nat : w = f \div b
    BY <2>1
  <2>3. f = b * w
    <3>1. f % b = 0
      BY <1>1
    <3>2. f = b * w + 0
      BY <2>1, <2>2, <3>1
    <3>3. QED
      BY <3>2
  <2>4. b * w = w * b
    OBVIOUS
  <2>5. QED
    BY <2>2, <2>3, <2>4
<1>3. IsBlock(base, n, l, q)
  BY <1>1, <1>2 DEF IsBlock
<1>4. /\ Binds(n, block_root(base), l, q) /\ q < RowSize(n, l)
      /\ block_root(base) = TreeNode(n, l, q) <=> AllCommitted(base)
  BY <1>3, BlockRootBinds
<1>5. (n + b - 1) \div b = RowSize(n, l)
  <2>1. PICK z \in Nat : z = RowSize(n, l) /\ z > 0
    <3>1. RowSize(n, l) \in Nat \ {0}
      BY TreeClimbs
    <3>2. QED
      BY <3>1
  <2>2. (z - 1) * b < n /\ n <= z * b
    BY <1>1, <2>1, TreeClimbs
  <2>3. (n + b - 1) \div b = z
    BY <1>1, <2>1, <2>2, CeilingIs
  <2>4. QED
    BY <2>1, <2>3
<1>6. l - l = 0 /\ l <= l /\ l <= TopRow(n, l)
  <2>1. Depth(n) \in 0 .. n
    BY DepthIs
  <2>2. QED
    BY <2>1 DEF TopRow
<1>7. Met(n, f, l, l - l) = << >>
  BY <1>6, MeetingsClimb
<1>8. ASSUME l = 0 PROVE block_root(base) = Folded(<< >>, base[1])
  <2>1. b = 1
    BY <1>1, <1>8, TwoToDoubles
  <2>2. PICK w \in Nat : w = Len(base) /\ w = 1
    BY <1>1, <2>1
  <2>3. Len(base) \in Nat \ {0}
    BY <2>2
  <2>4. RowOf(base, 0) = base
    BY <2>3, RowsClimb
  <2>5. Len(RowOf(base, 0)) = 1
    BY <2>2, <2>4
  <2>6. block_root(base) = NodeOf(base, 0, 0)
    BY <2>3, <2>5, BlockRootIs
  <2>7. NodeOf(base, 0, 0) = base[1]
    BY <2>4 DEF NodeOf
  <2>8. Folded(<< >>, base[1]) = base[1]
    <3>1. << >> \in Seq({0}) /\ 0 \in {0}
      OBVIOUS
    <3>2. QED
      BY <3>1, FoldedGrows
  <2>9. QED
    BY <2>6, <2>7, <2>8
<1>9. QED
  BY <1>1, <1>2, <1>4, <1>5, <1>6, <1>7, <1>8 DEF Climbs

(* A row with more than one node is below the tree's last, and the next is *)
(* half as long.                                                           *)
LEMMA RowAbove ==
    ASSUME NEW n \in LeafCounts, n \in Nat \ {0}, NEW f \in Nat, NEW l \in Nat, NEW base,
           NEW k, NEW x, NEW i, NEW z, NEW p, Climbs(n, f, l, base, k, x, i, z, p), z > 1
    PROVE  /\ k \in Nat /\ l <= k /\ k < Depth(n) /\ k <= n /\ TopRow(n, l) = Depth(n)
           /\ z \in Nat /\ i \in Nat /\ i < z /\ i < RowSize(n, k)
           /\ (z + 1) \div 2 = RowSize(n, k + 1) /\ i \div 2 \in Nat /\ i \div 2 < (z + 1) \div 2
           /\ i \div 2 = f \div TwoTo(k + 1)
           /\ k - l \in Nat /\ l + (k - l) = k /\ (k + 1) - l = (k - l) + 1 /\ (k - l) + 1 \in Nat
           /\ (i % 2 = 1 \/ i + 1 < z) <=> Meets(n, k, i)
<1>1. k \in Nat /\ l <= k /\ z = RowSize(n, k) /\ i = f \div TwoTo(k) /\ i \in Nat /\ i < z
  BY DEF Climbs
<1>2. RowSize(n, k) \in Nat \ {0} /\ RowSize(n, k + 1) = (RowSize(n, k) + 1) \div 2
  BY <1>1, TreeClimbs
<1>3. z \in Nat
  BY <1>1, <1>2
<1>4. PICK d \in Nat : d = Depth(n) /\ d <= n
  BY DepthIs
<1>5. k < d
  <2>1. z # 1
    BY <1>3
  <2>2. ~(d <= k)
    BY <1>1, <1>4, <2>1, DepthIs
  <2>3. QED
    BY <1>1, <2>2
<1>6. i \div 2 = f \div TwoTo(k + 1)
  BY <1>1, PlacesHalve
<1>7. (z + 1) \div 2 = RowSize(n, k + 1)
  BY <1>1, <1>2
<1>8. i \div 2 \in Nat /\ i \div 2 < (z + 1) \div 2
  BY <1>1, <1>3
<1>9. (i % 2 = 1 \/ i + 1 < z) <=> Sibling(i) < z
  BY <1>1, <1>3 DEF Sibling
<1>10. TopRow(n, l) = Depth(n)
  BY <1>1, <1>4, <1>5 DEF TopRow
<1>11. (i % 2 = 1 \/ i + 1 < z) <=> Meets(n, k, i)
  BY <1>1, <1>9 DEF Meets
<1>12. k <= n /\ k < Depth(n)
  BY <1>1, <1>4, <1>5
<1>13. k - l \in Nat /\ l + (k - l) = k /\ (k + 1) - l = (k - l) + 1 /\ (k - l) + 1 \in Nat
  BY <1>1
<1>14. i < RowSize(n, k)
  BY <1>1
<1>15. QED
  BY <1>1, <1>3, <1>6, <1>7, <1>8, <1>10, <1>11, <1>12, <1>13, <1>14

(* Hashing a sibling on climbs a row. *)
LEMMA PairClimbs ==
    ASSUME NEW n \in LeafCounts, n \in Nat \ {0}, NEW f \in Nat, NEW l \in Nat, NEW base,
           NEW k, NEW x, NEW i, NEW z, NEW p \in Seq(Nodes(n)), NEW s \in Nodes(n),
           Climbs(n, f, l, base, k, x, i, z, p), z > 1, i % 2 = 1 \/ i + 1 < z
    PROVE  Climbs(n, f, l, base, k + 1, HashPair(x, s), i \div 2, (z + 1) \div 2, Append(p, s))
<1>1. /\ k \in Nat /\ l <= k /\ k < Depth(n) /\ k <= n /\ TopRow(n, l) = Depth(n)
      /\ z \in Nat /\ i \in Nat /\ i < z /\ i < RowSize(n, k)
      /\ (z + 1) \div 2 = RowSize(n, k + 1) /\ i \div 2 \in Nat /\ i \div 2 < (z + 1) \div 2
      /\ i \div 2 = f \div TwoTo(k + 1)
      /\ k - l \in Nat /\ l + (k - l) = k /\ (k + 1) - l = (k - l) + 1 /\ (k - l) + 1 \in Nat
      /\ (i % 2 = 1 \/ i + 1 < z) <=> Meets(n, k, i)
  BY RowAbove
<1>2. Meets(n, k, i)
  BY <1>1
<1>3. /\ i = f \div TwoTo(k) /\ Binds(n, x, k, i) /\ Len(p) = Len(Met(n, f, l, k - l))
      /\ x = TreeNode(n, k, i) <=> AllCommitted(base) /\ p = Met(n, f, l, k - l)
      /\ l = 0 => x = Folded(p, base[1])
  BY DEF Climbs
<1>4. PICK m, t : m = Met(n, f, l, k - l) /\ t = TreeNode(n, k, Sibling(i))
  OBVIOUS
<1>5. m \in Seq(Nodes(n))
  <2>1. l + (k - l) <= n + 1
    BY <1>1
  <2>2. QED
    BY <1>1, <1>4, <2>1, MeetingsAre
<1>6. t \in Nodes(n)
  <2>1. Sibling(i) \in Nat
    BY <1>1 DEF Sibling
  <2>2. QED
    BY <1>1, <1>4, <2>1 DEF Nodes
<1>7. Met(n, f, l, (k + 1) - l) = Append(m, t)
  <2>1. PICK j \in Nat : j = k - l /\ l + j = k /\ (k + 1) - l = j + 1 /\ l + j <= n
    BY <1>1
  <2>2. Met(n, f, l, j + 1) = IF Meets(n, l + j, f \div TwoTo(l + j))
                              THEN Append(Met(n, f, l, j), TreeNode(n, l + j, Sibling(f \div TwoTo(l + j))))
                              ELSE Met(n, f, l, j)
    BY <2>1, MeetingsClimb
  <2>3. Met(n, f, l, j + 1) = IF Meets(n, k, i) THEN Append(Met(n, f, l, j), TreeNode(n, k, Sibling(i)))
                              ELSE Met(n, f, l, j)
    BY <1>3, <2>1, <2>2
  <2>4. QED
    BY <1>2, <1>4, <2>1, <2>3
<1>8. /\ Binds(n, HashPair(x, s), k + 1, i \div 2)
      /\ HashPair(x, s) = TreeNode(n, k + 1, i \div 2) <=> x = TreeNode(n, k, i) /\ s = t
  BY <1>1, <1>2, <1>3, <1>4, PairBinds, SMTT(60)
<1>9. Append(p, s) = Append(m, t) <=> p = m /\ s = t
  BY <1>5, <1>6, AppendInjective
<1>10. Len(Append(p, s)) = Len(Append(m, t))
  <2>1. Len(Append(p, s)) = Len(p) + 1 /\ Len(Append(m, t)) = Len(m) + 1
    BY <1>5, <1>6, AppendProperties
  <2>2. QED
    BY <1>3, <1>4, <2>1
<1>11. HashPair(x, s) = TreeNode(n, k + 1, i \div 2) <=> AllCommitted(base) /\ Append(p, s) = Append(m, t)
  BY <1>3, <1>4, <1>8, <1>9
<1>12. l = 0 => HashPair(x, s) = Folded(Append(p, s), base[1])
  BY <1>3, FoldedGrows
<1>13. k + 1 \in Nat /\ l <= k + 1 /\ k + 1 <= TopRow(n, l)
  <2>1. Depth(n) \in 0 .. n
    BY DepthIs
  <2>2. QED
    BY <1>1, <2>1
<1>14. QED
  BY <1>1, <1>7, <1>8, <1>10, <1>11, <1>12, <1>13 DEF Climbs

(* So does carrying a last node up. *)
LEMMA CarryClimbs ==
    ASSUME NEW n \in LeafCounts, n \in Nat \ {0}, NEW f \in Nat, NEW l \in Nat, NEW base,
           NEW k, NEW x, NEW i, NEW z, NEW p,
           Climbs(n, f, l, base, k, x, i, z, p), z > 1, ~(i % 2 = 1 \/ i + 1 < z)
    PROVE  Climbs(n, f, l, base, k + 1, x, i \div 2, (z + 1) \div 2, p)
<1>1. /\ k \in Nat /\ l <= k /\ k < Depth(n) /\ k <= n /\ TopRow(n, l) = Depth(n)
      /\ z \in Nat /\ i \in Nat /\ i < z /\ i < RowSize(n, k)
      /\ (z + 1) \div 2 = RowSize(n, k + 1) /\ i \div 2 \in Nat /\ i \div 2 < (z + 1) \div 2
      /\ i \div 2 = f \div TwoTo(k + 1)
      /\ k - l \in Nat /\ l + (k - l) = k /\ (k + 1) - l = (k - l) + 1 /\ (k - l) + 1 \in Nat
      /\ (i % 2 = 1 \/ i + 1 < z) <=> Meets(n, k, i)
  BY RowAbove
<1>2. ~Meets(n, k, i)
  BY <1>1
<1>3. /\ i = f \div TwoTo(k) /\ Binds(n, x, k, i) /\ Len(p) = Len(Met(n, f, l, k - l))
      /\ x = TreeNode(n, k, i) <=> AllCommitted(base) /\ p = Met(n, f, l, k - l)
      /\ l = 0 => x = Folded(p, base[1])
  BY DEF Climbs
<1>4. Met(n, f, l, (k + 1) - l) = Met(n, f, l, k - l)
  BY <1>1, <1>2, <1>3, MeetingsClimb, SMTT(60)
<1>5. TreeNode(n, k + 1, i \div 2) = TreeNode(n, k, i) /\ Binds(n, x, k + 1, i \div 2)
  BY <1>1, <1>2, <1>3, CarryBinds
<1>6. k + 1 \in Nat /\ l <= k + 1 /\ k + 1 <= TopRow(n, l)
  <2>1. Depth(n) \in 0 .. n
    BY DepthIs
  <2>2. QED
    BY <1>1, <2>1
<1>7. QED
  BY <1>1, <1>3, <1>4, <1>5, <1>6 DEF Climbs

(* What the keeper proves a block with. *)
LEMMA BlockProofIs ==
    ASSUME NEW n \in LeafCounts, n \in Nat \ {0}, NEW f \in Nat, NEW l \in Nat
    PROVE  BlockProof(n, f, l) = Met(n, f, l, TopRow(n, l) - l)
<1>1. PICK d \in Nat : d = Depth(n)
  BY DepthIs
<1>2. CASE d > l
  BY <1>1, <1>2 DEF BlockProof, TopRow
<1>3. CASE ~(d > l)
  <2>1. l - l = 0
    OBVIOUS
  <2>2. QED
    BY <1>1, <1>3, <2>1 DEF BlockProof, TopRow
<1>4. QED
  BY <1>2, <1>3

(* No proof on the way is longer than the tree is deep. *)
LEMMA ProofsAreShort ==
    ASSUME NEW n \in LeafCounts, n \in Nat \ {0}, NEW f \in Nat, NEW l \in Nat, NEW base,
           NEW k, NEW x, NEW i, NEW z, NEW p, Climbs(n, f, l, base, k, x, i, z, p)
    PROVE  Len(p) \in Nat /\ Len(p) <= Depth(n)
<1>1. k \in Nat /\ l <= k /\ k <= TopRow(n, l) /\ Len(p) = Len(Met(n, f, l, k - l))
  BY DEF Climbs
<1>2. PICK d \in Nat : d = Depth(n) /\ d <= n
  BY DepthIs
<1>3. k - l \in Nat /\ k - l <= d /\ (k - l = 0 \/ l + (k - l) <= n + 1)
  BY <1>1, <1>2 DEF TopRow
<1>4. CASE k - l = 0
  <2>1. Met(n, f, l, k - l) = << >>
    BY <1>4, MeetingsClimb
  <2>2. Len(p) = Len(<< >>)
    BY <1>1, <2>1
  <2>3. Len(<< >>) = 0
    OBVIOUS
  <2>4. QED
    BY <1>2, <2>2, <2>3
<1>5. CASE l + (k - l) <= n + 1
  <2>1. PICK j \in Nat : j = k - l /\ l + j <= n + 1 /\ j <= d
    BY <1>3, <1>5
  <2>2. Len(Met(n, f, l, j)) \in Nat /\ Len(Met(n, f, l, j)) <= j
    BY <2>1, MeetingsAre
  <2>3. QED
    BY <1>1, <1>2, <2>1, <2>2
<1>6. QED
  BY <1>3, <1>4, <1>5

(* Below the top a proof is too short, and its hash no root. *)
LEMMA ClimbIsShort ==
    ASSUME NEW n \in LeafCounts, n \in Nat \ {0}, NEW f \in Nat, NEW l \in Nat, NEW base,
           NEW k, NEW x, NEW i, NEW z, NEW p,
           Climbs(n, f, l, base, k, x, i, z, p), z > 1, i % 2 = 1 \/ i + 1 < z
    PROVE  p # BlockProof(n, f, l) /\ x # Root(n)
<1>1. /\ k \in Nat /\ l <= k /\ k < Depth(n) /\ k <= n /\ TopRow(n, l) = Depth(n)
      /\ z \in Nat /\ i \in Nat /\ i < z /\ i < RowSize(n, k)
      /\ k - l \in Nat /\ l + (k - l) = k /\ (k + 1) - l = (k - l) + 1 /\ (k - l) + 1 \in Nat
      /\ Meets(n, k, i)
  BY RowAbove
<1>2. PICK d \in Nat : d = Depth(n) /\ d <= n /\ k < d
  BY <1>1, DepthIs
<1>3. i = f \div TwoTo(k) /\ Binds(n, x, k, i) /\ Len(p) = Len(Met(n, f, l, k - l))
  BY DEF Climbs
<1>4. p # BlockProof(n, f, l)
  <2>1. PICK j \in Nat, e \in Nat : /\ j = k - l /\ e = d - l /\ j + 1 <= e /\ l + j = k
                                    /\ l + e <= n + 1 /\ l + j <= n + 1
    <3>1. PICK j \in Nat : j = k - l /\ l + j = k
      BY <1>1
    <3>2. PICK e \in Nat : e = d - l /\ l + e = d
      BY <1>1, <1>2
    <3>3. j + 1 <= e /\ l + e <= n + 1 /\ l + j <= n + 1
      BY <1>2, <3>1, <3>2
    <3>4. QED
      BY <3>1, <3>2, <3>3
  <2>2. PICK m, t : m = Met(n, f, l, j) /\ t = TreeNode(n, k, Sibling(i))
    OBVIOUS
  <2>3. Met(n, f, l, j + 1) = Append(m, t)
    <3>1. Met(n, f, l, j + 1) = IF Meets(n, l + j, f \div TwoTo(l + j))
                                THEN Append(Met(n, f, l, j), TreeNode(n, l + j, Sibling(f \div TwoTo(l + j))))
                                ELSE Met(n, f, l, j)
      BY <1>1, <2>1, MeetingsClimb
    <3>2. Met(n, f, l, j + 1) = IF Meets(n, k, i) THEN Append(Met(n, f, l, j), TreeNode(n, k, Sibling(i)))
                                ELSE Met(n, f, l, j)
      BY <1>3, <2>1, <3>1
    <3>3. QED
      BY <1>1, <2>2, <3>2
  <2>4. m \in Seq(Nodes(n)) /\ Len(m) \in Nat
    BY <2>1, <2>2, MeetingsAre
  <2>5. t \in Nodes(n)
    <3>1. Sibling(i) \in Nat
      BY <1>1 DEF Sibling
    <3>2. QED
      BY <1>1, <2>2, <3>1 DEF Nodes
  <2>6. Len(Append(m, t)) = Len(m) + 1
    BY <2>4, <2>5, AppendProperties
  <2>7. Len(Met(n, f, l, j + 1)) <= Len(Met(n, f, l, e)) /\ Len(Met(n, f, l, e)) \in Nat
    <3>1. j + 1 \in Nat
      OBVIOUS
    <3>2. QED
      BY <2>1, <3>1, MeetingsAre
  <2>8. BlockProof(n, f, l) = Met(n, f, l, e)
    BY <1>1, <1>2, <2>1, BlockProofIs
  <2>9. Len(p) = Len(m)
    BY <1>3, <2>1, <2>2
  <2>10. PICK a \in Nat, c \in Nat : a = Len(m) /\ c = Len(BlockProof(n, f, l)) /\ a + 1 <= c
    BY <2>3, <2>4, <2>6, <2>7, <2>8
  <2>11. a # c
    BY <2>10
  <2>12. QED
    BY <2>9, <2>10, <2>11
<1>5. x # Root(n)
  <2>1. RowSize(n, d) = 1
    BY <1>2, DepthIs
  <2>2. Root(n) = TreeNode(n, d, 0)
    BY <2>1, TreesAre
  <2>3. ASSUME x = TreeNode(n, d, 0) PROVE FALSE
    <3>1. PICK w \in Nat : w = 0
      OBVIOUS
    <3>2. PICK r : r = RowSize(n, d) /\ r = 1
      BY <2>1
    <3>3. w < RowSize(n, d)
      BY <3>1, <3>2
    <3>4. SameLeaves(n, k, i, d, w)
      BY <1>2, <1>3, <2>3, <3>1, <3>3 DEF Binds
    <3>5. ~Meets(n, k, i)
      BY <1>1, <1>2, <2>1, <3>1, <3>4, WholeMeetsNone
    <3>6. QED
      BY <1>1, <3>5
  <2>4. QED
    BY <2>2, <2>3
<1>6. QED
  BY <1>4, <1>5

(* At the top the hash is the root exactly if all was the keeper's, and a  *)
(* proof with anything more proves nothing.                                *)
LEMMA ClimbEnds ==
    ASSUME NEW n \in LeafCounts, n \in Nat \ {0}, NEW f \in Nat, NEW l \in Nat, NEW base,
           NEW k, NEW x, NEW i, NEW z, NEW p \in Seq(Nodes(n)),
           Climbs(n, f, l, base, k, x, i, z, p), z <= 1
    PROVE  /\ x = Root(n) <=> AllCommitted(base) /\ p = BlockProof(n, f, l)
           /\ \A s \in Nodes(n) : Append(p, s) # BlockProof(n, f, l) /\ HashPair(x, s) # Root(n)
<1>1. /\ k \in Nat /\ l <= k /\ k <= TopRow(n, l) /\ z = RowSize(n, k) /\ i \in Nat /\ i < z
      /\ Binds(n, x, k, i) /\ Len(p) = Len(Met(n, f, l, k - l))
      /\ x = TreeNode(n, k, i) <=> AllCommitted(base) /\ p = Met(n, f, l, k - l)
  BY DEF Climbs
<1>2. z \in Nat
  BY <1>1, TreeClimbs
<1>3. z = 1 /\ i = 0
  BY <1>1, <1>2
<1>4. RowSize(n, k) = 1
  BY <1>1, <1>3
<1>5. Root(n) = TreeNode(n, k, i)
  BY <1>1, <1>3, <1>4, TreesAre
<1>6. k = TopRow(n, l)
  <2>1. PICK d \in Nat : d = Depth(n)
    BY DepthIs
  <2>2. d <= k
    BY <1>1, <1>4, <2>1, DepthIs
  <2>3. QED
    BY <1>1, <2>1, <2>2 DEF TopRow
<1>7. BlockProof(n, f, l) = Met(n, f, l, k - l)
  BY <1>6, BlockProofIs
<1>8. ASSUME NEW s \in Nodes(n) PROVE Append(p, s) # BlockProof(n, f, l)
  <2>1. Len(p) \in Nat /\ Len(Append(p, s)) = Len(p) + 1
    BY AppendProperties, LenProperties
  <2>2. PICK a \in Nat : a = Len(p) /\ Len(Append(p, s)) = a + 1 /\ Len(BlockProof(n, f, l)) = a
    BY <1>1, <1>7, <2>1
  <2>3. a # a + 1
    OBVIOUS
  <2>4. QED
    BY <2>2, <2>3
<1>9. ASSUME NEW s \in Nodes(n), HashPair(x, s) = TreeNode(n, k, i) PROVE FALSE
  <2>1. ~IsALeaf(n, k, i)
    BY <1>9, PairIsNoLeaf DEF IsALeaf
  <2>2. IsAPair(n, k, i)
    BY <1>1, <2>1, NodeShapes
  <2>3. PICK h \in Nat, c \in Nat :
                /\ 2 * c + 1 < RowSize(n, h) /\ SameLeaves(n, k, i, h + 1, c)
                /\ TreeNode(n, k, i) = HashPair(TreeNode(n, h, 2 * c), TreeNode(n, h, 2 * c + 1))
    BY <2>2 DEF IsAPair
  <2>4. PICK u, v : u = TreeNode(n, h, 2 * c) /\ v = TreeNode(n, h, 2 * c + 1)
    OBVIOUS
  <2>5. {x, s} = {u, v}
    <3>1. HashPair(x, s) = HashPair(u, v)
      BY <1>9, <2>3, <2>4
    <3>2. QED
      BY <3>1, PairsBind
  <2>6. PICK y \in Nat : y = RowSize(n, h)
    BY TreeClimbs
  <2>7. 2 * c + 1 < y
    BY <2>3, <2>6
  <2>8. PICK e \in Nat : (e = 2 * c \/ e = 2 * c + 1) /\ x = TreeNode(n, h, e)
    <3>1. x = u \/ x = v
      BY <2>5
    <3>2. 2 * c \in Nat /\ 2 * c + 1 \in Nat
      OBVIOUS
    <3>3. QED
      BY <2>4, <3>1, <3>2
  <2>9. e < y /\ Sibling(e) < y
    BY <2>7, <2>8 DEF Sibling
  <2>10. SameLeaves(n, k, i, h, e)
    BY <1>1, <2>6, <2>8, <2>9 DEF Binds
  <2>11. ~Meets(n, h, e)
    BY <1>1, <1>3, <1>4, <2>10, WholeMeetsNone
  <2>12. QED
    BY <2>6, <2>9, <2>11 DEF Meets
<1>10. QED
  BY <1>1, <1>5, <1>7, <1>8, <1>9
----------------------------------------------------------------------------
(***************************************************************************)
(* The verifier's states: a climb under way is the climb of a proper       *)
(* block, and a verdict is the one the climb came to.                      *)
(***************************************************************************)
(* The trees tried have leaves, and a tree of one leaf and blocks of one   *)
(* are among them.                                                         *)
TreeConstants == LeafCounts \subseteq Nat \ {0} /\ 1 \in LeafCounts /\ Levels \subseteq Nat /\ 0 \in Levels

(* A claimed leaf is one of the block's places, paying whom it should or not. *)
LeavesClaimed ==
    /\ Len(leaves) \in Nat
    /\ \A j \in 1 .. Len(leaves) :
          leaves[j] = Leaf(first_leaf + j - 1, leaves[j].committed) /\ leaves[j].committed \in BOOLEAN

TreesIInv ==
    /\ leaf_count \in LeafCounts /\ level \in Levels /\ first_leaf \in 0 .. leaf_count
    /\ LeavesClaimed
    /\ proof \in Seq(Nodes(leaf_count))
    /\ Len(proof) <= Depth(leaf_count) + 1
    /\ verdict \in {"called", "climbing", "accepted", "rejected"}
    /\ verdict = "called" => proof = << >>
    /\ verdict = "climbing" =>
          /\ ProperBlock
          /\ \E k \in Nat : Climbs(leaf_count, first_leaf, level, leaves, k, node, index, level_size, proof)
    /\ Sound
    /\ Complete
    /\ ClaimAgreesWithPush

(* Every leaf is committed as the model says it. *)
LEMMA HonestIs == ASSUME LeavesClaimed PROVE Honest <=> AllCommitted(leaves)
BY DEF LeavesClaimed, Honest, AllCommitted

(* The first states are in. *)
LEMMA TreesStart == ASSUME TreeConstants, Init PROVE TreesIInv
<1>1. PICK n \in Nat : n = leaf_count /\ n # 0
  BY DEF TreeConstants, Init
<1>2. PICK size \in 0 .. BlockSize + 1 : \E truth \in [1 .. size -> BOOLEAN] :
         leaves = [j \in 1 .. size |-> Leaf(first_leaf + j - 1, truth[j])]
  BY DEF Init
<1>3. PICK truth \in [1 .. size -> BOOLEAN] : leaves = [j \in 1 .. size |-> Leaf(first_leaf + j - 1, truth[j])]
  BY <1>2
<1>4. size \in Nat
  OBVIOUS
<1>5. Len(leaves) = size
  BY <1>3, <1>4
<1>6. ASSUME NEW j \in 1 .. size
      PROVE  leaves[j] = Leaf(first_leaf + j - 1, leaves[j].committed) /\ leaves[j].committed \in BOOLEAN
  <2>1. leaves[j] = Leaf(first_leaf + j - 1, truth[j])
    BY <1>3
  <2>2. leaves[j].committed = truth[j]
    BY <2>1 DEF Leaf
  <2>3. truth[j] \in BOOLEAN
    OBVIOUS
  <2>4. QED
    BY <2>1, <2>2, <2>3
<1>7. LeavesClaimed
  BY <1>4, <1>5, <1>6 DEF LeavesClaimed
<1>8. /\ proof = << >> /\ verdict = "called"
      /\ leaf_count \in LeafCounts /\ level \in Levels /\ first_leaf \in 0 .. leaf_count
  BY DEF Init
<1>9. Depth(leaf_count) \in 0 .. leaf_count
  BY <1>1, <1>8, DepthIs
<1>10. Len(proof) <= Depth(leaf_count) + 1
  <2>1. Len(proof) = 0
    BY <1>8
  <2>2. QED
    BY <1>1, <1>9, <2>1
<1>11. proof \in Seq(Nodes(leaf_count))
  BY <1>8
<1>12. Sound /\ Complete /\ ClaimAgreesWithPush
  BY <1>8 DEF Sound, Complete, ClaimAgreesWithPush
<1>13. QED
  BY <1>7, <1>8, <1>10, <1>11, <1>12 DEF TreesIInv

(* Nor does a tree at rest break it.                                       *)
LEMMA RestingTrees == ASSUME TreeConstants, TreesRest PROVE TreesIInv
<1>1. leaf_count = 1 /\ level = 0 /\ first_leaf = 0 /\ leaves = << >> /\ proof = << >> /\ verdict = "called"
  BY DEF TreesRest
<1>2. leaf_count \in LeafCounts /\ leaf_count \in Nat \ {0} /\ level \in Levels /\ first_leaf \in 0 .. leaf_count
  BY <1>1 DEF TreeConstants
<1>3. Depth(leaf_count) \in 0 .. leaf_count
  BY <1>2, DepthIs
<1>4. Len(leaves) = 0 /\ Len(proof) = 0
  BY <1>1
<1>5. LeavesClaimed
  BY <1>4 DEF LeavesClaimed
<1>6. Len(proof) <= Depth(leaf_count) + 1
  BY <1>2, <1>3, <1>4
<1>7. proof \in Seq(Nodes(leaf_count))
  BY <1>1
<1>8. Sound /\ Complete /\ ClaimAgreesWithPush
  BY <1>1 DEF Sound, Complete, ClaimAgreesWithPush
<1>9. QED
  BY <1>1, <1>2, <1>5, <1>6, <1>7, <1>8 DEF TreesIInv

(* A verdict keeps the invariant if it is the right one. *)
LEMMA DecisionKeeps ==
    ASSUME TreesIInv, NEW v \in {"accepted", "rejected"}, verdict' = v, UNCHANGED args,
           proof' \in Seq(Nodes(leaf_count)), Len(proof') <= Depth(leaf_count) + 1,
           v = "accepted" => Honest /\ ProperBlock /\ proof' = BlockProof(leaf_count, first_leaf, level),
           v = "rejected" => ~(Honest /\ ProperBlock /\ proof' = BlockProof(leaf_count, first_leaf, level)),
           level = 0 /\ ProperBlock => (v = "accepted") = (Folded(proof', leaves[1]) = Root(leaf_count))
    PROVE  TreesIInv'
<1>1. leaf_count' = leaf_count /\ first_leaf' = first_leaf /\ level' = level /\ leaves' = leaves
  BY DEF args
<1>2. (Honest' <=> Honest) /\ (ProperBlock' <=> ProperBlock) /\ (LeavesClaimed' <=> LeavesClaimed)
  BY <1>1 DEF Honest, ProperBlock, BlockSize, LeavesClaimed
<1>3. PICK b : b = BlockProof(leaf_count, first_leaf, level)
  OBVIOUS
<1>4. BlockProof(leaf_count, first_leaf, level)' = b
  BY <1>1, <1>3
<1>5. Sound' /\ Complete'
  BY <1>1, <1>2, <1>3, <1>4 DEF Sound, Complete
<1>6. ClaimAgreesWithPush'
  BY <1>1, <1>2 DEF ClaimAgreesWithPush, Verify
<1>7. QED
  BY <1>1, <1>2, <1>5, <1>6 DEF TreesIInv

(* Every step of verify_block keeps it. *)
LEMMA TreesStep == ASSUME TreeConstants, TreesIInv, [Next]_vars PROVE TreesIInv'
<1> DEFINE n == leaf_count
           f == first_leaf
           l == level
<1>1. /\ n \in LeafCounts /\ n \in Nat \ {0} /\ f \in Nat /\ l \in Nat
      /\ LeavesClaimed /\ proof \in Seq(Nodes(n)) /\ Len(proof) <= Depth(n) + 1
  BY DEF TreeConstants, TreesIInv
<1>2. Depth(n) \in 0 .. n
  BY <1>1, DepthIs
<1>3. ASSUME NEW s \in Siblings
      PROVE  s \in Nodes(n) /\ Append(proof, s) \in Seq(Nodes(n)) /\ Len(Append(proof, s)) = Len(proof) + 1
  <2>1. s \in Nodes(n)
    BY <1>3 DEF Siblings, Nodes
  <2>2. QED
    BY <1>1, <2>1, AppendProperties
<1>4. Honest <=> AllCommitted(leaves)
  BY <1>1, HonestIs
<1>5. ASSUME verdict = "climbing"
      PROVE  ProperBlock /\ \E k \in Nat : Climbs(n, f, l, leaves, k, node, index, level_size, proof)
  BY <1>5 DEF TreesIInv
<1>6. ASSUME NEW k, Climbs(n, f, l, leaves, k, node, index, level_size, proof), level = 0
      PROVE  node = Folded(proof, leaves[1])
  BY <1>6 DEF Climbs
<1>7. CASE RefuseBlock
  <2>1. verdict' = "rejected" /\ UNCHANGED args /\ proof' = proof /\ ~ProperBlock
    BY <1>7 DEF RefuseBlock, Decide
  <2> HIDE DEF n, f, l
  <2>2. QED
    BY <1>1, <2>1, DecisionKeeps DEF n
<1>8. CASE Enter
  <2>1. /\ verdict = "called" /\ ProperBlock /\ verdict' = "climbing" /\ UNCHANGED args /\ proof' = proof
        /\ node' = block_root(leaves) /\ index' = f \div TwoTo(l)
        /\ level_size' = (n + TwoTo(l) - 1) \div TwoTo(l)
    BY <1>8 DEF Enter, BlockSize
  <2>2. proof = << >>
    BY <2>1 DEF TreesIInv
  <2>3. f < n /\ f % TwoTo(l) = 0 /\ Len(leaves) = IF TwoTo(l) < n - f THEN TwoTo(l) ELSE n - f
    BY <2>1 DEF ProperBlock, BlockSize
  <2>4. \A j \in 1 .. Len(leaves) : leaves[j] = Leaf(f + j - 1, leaves[j].committed)
    BY <1>1 DEF LeavesClaimed
  <2>5. Climbs(n, f, l, leaves, l, node', index', level_size', proof')
    <3> HIDE DEF n, f, l
    <3>1. Climbs(n, f, l, leaves, l, block_root(leaves), f \div TwoTo(l), (n + TwoTo(l) - 1) \div TwoTo(l), << >>)
      BY <1>1, <2>3, <2>4, BlockClimbs
    <3>2. QED
      BY <2>1, <2>2, <3>1
  <2>6. leaf_count' = n /\ first_leaf' = f /\ level' = l /\ leaves' = leaves
    BY <2>1 DEF args
  <2>7. ProperBlock' /\ LeavesClaimed'
    BY <1>1, <2>1, <2>6 DEF ProperBlock, BlockSize, LeavesClaimed
  <2>8. Sound' /\ Complete' /\ ClaimAgreesWithPush'
    BY <2>1 DEF Sound, Complete, ClaimAgreesWithPush
  <2>9. leaf_count' \in LeafCounts /\ level' \in Levels /\ first_leaf' \in 0 .. leaf_count'
    BY <2>6 DEF TreesIInv
  <2> HIDE DEF n, f, l
  <2>10. QED
    BY <1>1, <2>1, <2>5, <2>6, <2>7, <2>8, <2>9 DEF TreesIInv
<1>9. ASSUME Climbing, Up, NEW k \in Nat, proof' \in Seq(Nodes(n)),
             Climbs(n, f, l, leaves, k, node', index', level_size', proof')
      PROVE  TreesIInv'
  <2>1. verdict = "climbing" /\ verdict' = "climbing" /\ UNCHANGED args
    BY <1>9 DEF Climbing, Up
  <2>2. leaf_count' = n /\ first_leaf' = f /\ level' = l /\ leaves' = leaves
    BY <2>1 DEF args
  <2>3. ProperBlock' /\ LeavesClaimed'
    BY <1>1, <1>5, <2>1, <2>2 DEF ProperBlock, BlockSize, LeavesClaimed
  <2>4. Sound' /\ Complete' /\ ClaimAgreesWithPush'
    BY <2>1 DEF Sound, Complete, ClaimAgreesWithPush
  <2>5. leaf_count' \in LeafCounts /\ level' \in Levels /\ first_leaf' \in 0 .. leaf_count'
    BY <2>2 DEF TreesIInv
  <2> HIDE DEF n, f, l
  <2>6. Len(proof') \in Nat /\ Len(proof') <= Depth(n)
    BY <1>1, <1>9, ProofsAreShort
  <2>7. Len(proof') <= Depth(n) + 1
    BY <1>2, <2>6
  <2>8. QED
    BY <1>9, <2>1, <2>2, <2>3, <2>4, <2>5, <2>7 DEF TreesIInv
<1>10. CASE PairUp
  <2>1. Climbing /\ Up /\ HasSibling /\ verdict = "climbing" /\ level_size > 1
    BY <1>10 DEF PairUp, Climbing
  <2>2. PICK s \in Siblings : proof' = Append(proof, s) /\ node' = HashPair(node, s)
    BY <1>10 DEF PairUp
  <2>3. index' = index \div 2 /\ level_size' = (level_size + 1) \div 2
    BY <2>1 DEF Up
  <2>4. PICK k \in Nat : Climbs(n, f, l, leaves, k, node, index, level_size, proof)
    BY <1>5, <2>1
  <2>5. index % 2 = 1 \/ index + 1 < level_size
    BY <2>1 DEF HasSibling
  <2> HIDE DEF n, f, l
  <2>6. s \in Nodes(n) /\ proof' \in Seq(Nodes(n))
    BY <1>3, <2>2
  <2>7. Climbs(n, f, l, leaves, k + 1, HashPair(node, s), index \div 2, (level_size + 1) \div 2, Append(proof, s))
    BY <1>1, <2>1, <2>4, <2>5, <2>6, PairClimbs
  <2>8. Climbs(n, f, l, leaves, k + 1, node', index', level_size', proof')
    BY <2>2, <2>3, <2>7
  <2>9. k + 1 \in Nat
    OBVIOUS
  <2>10. QED
    BY <1>9, <2>1, <2>6, <2>8, <2>9
<1>11. CASE CarryUp
  <2>1. Climbing /\ Up /\ ~HasSibling /\ verdict = "climbing" /\ level_size > 1 /\ proof' = proof /\ node' = node
    BY <1>11 DEF CarryUp, Climbing
  <2>2. index' = index \div 2 /\ level_size' = (level_size + 1) \div 2
    BY <2>1 DEF Up
  <2>3. PICK k \in Nat : Climbs(n, f, l, leaves, k, node, index, level_size, proof)
    BY <1>5, <2>1
  <2>4. ~(index % 2 = 1 \/ index + 1 < level_size)
    BY <2>1 DEF HasSibling
  <2> HIDE DEF n, f, l
  <2>5. Climbs(n, f, l, leaves, k + 1, node, index \div 2, (level_size + 1) \div 2, proof)
    BY <1>1, <2>1, <2>3, <2>4, CarryClimbs
  <2>6. Climbs(n, f, l, leaves, k + 1, node', index', level_size', proof')
    BY <2>1, <2>2, <2>5
  <2>7. k + 1 \in Nat /\ proof' \in Seq(Nodes(n))
    BY <1>1, <2>1
  <2>8. QED
    BY <1>9, <2>1, <2>6, <2>7
<1>12. CASE RunOut
  <2>1. /\ HasSibling /\ verdict = "climbing" /\ level_size > 1
        /\ proof' = proof /\ verdict' = "rejected" /\ UNCHANGED args
    BY <1>12 DEF RunOut, Climbing, Decide
  <2>2. PICK k \in Nat : Climbs(n, f, l, leaves, k, node, index, level_size, proof)
    BY <1>5, <2>1
  <2>3. index % 2 = 1 \/ index + 1 < level_size
    BY <2>1 DEF HasSibling
  <2>4. level = 0 => node = Folded(proof, leaves[1])
    BY <1>6, <2>2
  <2>5. proof # BlockProof(n, f, l) /\ node # Root(n)
    <3> HIDE DEF n, f, l
    <3>1. QED
      BY <1>1, <2>1, <2>2, <2>3, ClimbIsShort
  <2>6. QED
    BY <1>1, <2>1, <2>4, <2>5, DecisionKeeps
<1>13. CASE Compare
  <2>1. /\ verdict = "climbing" /\ level_size <= 1 /\ proof' = proof /\ UNCHANGED args
        /\ verdict' = IF node = Root(n) THEN "accepted" ELSE "rejected"
    BY <1>13 DEF Compare, AtTop, Decide
  <2>2. PICK k \in Nat : Climbs(n, f, l, leaves, k, node, index, level_size, proof)
    BY <1>5, <2>1
  <2>3. level = 0 => node = Folded(proof, leaves[1])
    BY <1>6, <2>2
  <2>4. node = Root(n) <=> Honest /\ proof = BlockProof(n, f, l)
    <3> HIDE DEF n, f, l
    <3>1. node = Root(n) <=> AllCommitted(leaves) /\ proof = BlockProof(n, f, l)
      BY <1>1, <2>1, <2>2, ClimbEnds
    <3>2. QED
      BY <1>4, <3>1
  <2>5. ProperBlock
    BY <1>5, <2>1
  <2>6. CASE node = Root(n)
    <3>1. verdict' = "accepted"
      BY <2>1, <2>6
    <3>2. QED
      BY <1>1, <2>1, <2>3, <2>4, <2>5, <2>6, <3>1, DecisionKeeps
  <2>7. CASE node # Root(n)
    <3>1. verdict' = "rejected"
      BY <2>1, <2>7
    <3>2. QED
      BY <1>1, <2>1, <2>3, <2>4, <2>5, <2>7, <3>1, DecisionKeeps
  <2>8. QED
    BY <2>6, <2>7
<1>14. CASE TooLong
  <2>1. verdict = "climbing" /\ level_size <= 1 /\ UNCHANGED args /\ verdict' = "rejected"
    BY <1>14 DEF TooLong, AtTop, Decide
  <2>2. PICK s \in Siblings : proof' = Append(proof, s)
    BY <1>14 DEF TooLong
  <2>3. PICK k \in Nat : Climbs(n, f, l, leaves, k, node, index, level_size, proof)
    BY <1>5, <2>1
  <2>4. level = 0 => node = Folded(proof, leaves[1])
    BY <1>6, <2>3
  <2>5. s \in Nodes(n) /\ proof' \in Seq(Nodes(n)) /\ Len(proof') = Len(proof) + 1
    BY <1>3, <2>2
  <2>6. Append(proof, s) # BlockProof(n, f, l) /\ HashPair(node, s) # Root(n)
    <3> HIDE DEF n, f, l
    <3>1. QED
      BY <1>1, <2>1, <2>3, <2>5, ClimbEnds
  <2>7. Len(proof') <= Depth(n) + 1
    <3> HIDE DEF n, f, l
    <3>1. Len(proof) \in Nat /\ Len(proof) <= Depth(n)
      BY <1>1, <2>3, ProofsAreShort
    <3>2. QED
      BY <1>2, <2>5, <3>1
  <2>8. Folded(proof', leaves[1]) = HashPair(Folded(proof, leaves[1]), s)
    BY <1>1, <2>2, <2>5, FoldedGrows
  <2>9. level = 0 => Folded(proof', leaves[1]) # Root(n)
    BY <2>4, <2>6, <2>8
  <2>10. QED
    BY <1>1, <2>1, <2>2, <2>5, <2>6, <2>7, <2>9, DecisionKeeps
<1>15. CASE UNCHANGED vars
  BY <1>15 DEF vars, args, TreesIInv, LeavesClaimed, ProperBlock, BlockSize, Honest, Sound, Complete,
               ClaimAgreesWithPush, Verify
<1>16. QED
  BY <1>7, <1>8, <1>10, <1>11, <1>12, <1>13, <1>14, <1>15 DEF Next

(* The invariant says the verdict is right. *)
LEMMA TreesIInvGives == ASSUME TreeConstants, TreesIInv PROVE VerdictIsRight
<1>1. ASSUME verdict = "climbing" PROVE index < level_size
  <2>1. PICK k \in Nat : Climbs(leaf_count, first_leaf, level, leaves, k, node, index, level_size, proof)
    BY <1>1 DEF TreesIInv
  <2>2. QED
    BY <2>1 DEF Climbs
<1>2. TypeOK
  BY <1>1 DEF TypeOK, TreesIInv
<1>3. QED
  BY <1>2 DEF VerdictIsRight, TreesIInv

(***************************************************************************)
(* For any trees, blocks, levels, claimed leaves and proofs: verify_block  *)
(* accepts a block exactly if its leaves are the committed ones and the    *)
(* proof is the keeper's, and a single leaf exactly if self_claim's verify *)
(* does (merkle.rs 44-116, lib/merkle.ts).                                 *)
(***************************************************************************)
THEOREM VerdictsAreRight ==
    ASSUME TreeConstants
    PROVE  RoundDataSpec => []VerdictIsRight
<1> DEFINE all == <<part, pageVars, vetVars, swapVars, splitVars, vars, verifyVars, triggerVars>>
<1>1. RoundDataInit => TreesIInv
  <2> SUFFICES ASSUME RoundDataInit PROVE TreesIInv
    OBVIOUS
  <2>1. Init \/ TreesRest
    BY DEF RoundDataInit
  <2>2. QED
    BY <2>1, TreesStart, RestingTrees
<1>2. TreesIInv /\ [RoundDataNext]_all => TreesIInv'
  <2> SUFFICES ASSUME TreesIInv, [RoundDataNext]_all PROVE TreesIInv'
    OBVIOUS
  <2>1. [Next]_vars
    BY DEF RoundDataNext
  <2>2. QED
    BY <2>1, TreesStep
<1>3. TreesIInv => VerdictIsRight
  BY TreesIInvGives
<1>4. QED
  BY <1>1, <1>2, <1>3, PTL DEF RoundDataSpec

----------------------------------------------------------------------------
(* The checks around a buy (SwapGuard). *)

(***************************************************************************)
(* What the proof about the guard asks of the constants: types; fees below *)
(* the whole, and none on a transfer of the old token program; a network   *)
(* fee within the overhead that is allowed; and that the pools are deep    *)
(* enough for every quote to buy a unit of the coin after its fees.        *)
(***************************************************************************)
BuysAUnit(m, x) == Swapping!Net(m, Swapping!PoolOut(m, x)) > 0

MarketsAreDeep ==
    \A m \in Markets :
        /\ m.price \in Nat /\ m.depth \in Nat \ {0} /\ m.fee \in 0 .. 99 /\ m.transferFee \in Nat
        /\ ~m.token2022 => m.transferFee = 0
        /\ m.transferFee <= SwapMaxTransferFeeBps =>
              \A x \in Lamports : BuysAUnit(m, x) /\ BuysAUnit(m, Swapping!ReferenceLamports(x))

SwapConstants ==
    /\ Lamports \subseteq Nat \ {0} /\ MarketsAreDeep
    /\ {SlippageBps, MaxPriceImpactBps, SwapMaxTransferFeeBps} \subseteq Nat
    /\ SlippageBps <= 10000 /\ SwapMaxTransferFeeBps < 10000
    /\ Moves \subseteq 0 .. 100 /\ Overhead \in Int /\ \A fee \in SwapFees : fee \in Int /\ fee <= Overhead
    /\ \A q \in Others : q.out \in Int /\ q.min \in Int
    /\ \A w \in OtherSwaps : w.spends \in Int /\ w.delivers \in Int

(* A buy that is judged against a reference quote, and by what. *)
Judged == Swapping!ReferenceLamports(lamports) < lamports
JudgedBy == Swapping!MarginalImpactBps(quote, Swapping!HonestQuote(market, Swapping!ReferenceLamports(lamports)))

(* What is known of a buy at a stage st, with what is to be known of it now. *)
Kept(st, re, im, sw) ==
    /\ st \notin {"new", "refused"} => Swapping!CheckQuote(quote, lamports) /\ quote.out \in Int /\ quote.min \in Int
    /\ honest /\ (st \notin {"new", "refused"} \/ re = "impact") => quote = Swapping!HonestQuote(market, lamports)
    /\ honest /\ st \in {"measured", "built", "sent"} /\ Judged => im = JudgedBy /\ im <= MaxPriceImpactBps
    /\ honest /\ re = "impact" => Judged /\ im = JudgedBy /\ im > MaxPriceImpactBps
    /\ honest /\ st = "built" => sw \in Swapping!HonestSwaps
    /\ honest /\ market.transferFee <= SwapMaxTransferFeeBps => re \in {"none", "impact", "fails"}
    /\ st \in {"built", "sent"} => sw.spends \in Int /\ sw.delivers \in Int
    /\ st = "sent" => sw.spends <= lamports + Overhead /\ sw.delivers >= Swapping!MinOutput(quote, market)

SwapIInv == Swapping!TypeOK /\ Kept(trade, refusal, impact, swap)

(* A reference is a part of the buy, or all of it. *)
LEMMA ReferenceIs ==
    ASSUME NEW x \in Nat, x > 0
    PROVE  Swapping!ReferenceLamports(x) \in Nat /\ 0 < Swapping!ReferenceLamports(x) /\ Swapping!ReferenceLamports(x) <= x
BY DEF Swapping!ReferenceLamports, Swapping!MinReference

(* What is left of a transfer. *)
LEMMA NetIs ==
    ASSUME NEW m, m.transferFee \in Nat, NEW g \in Nat
    PROVE  /\ Swapping!Net(m, g) \in Int /\ Swapping!Net(m, g) <= g
           /\ m.transferFee = 0 => Swapping!Net(m, g) = g
           /\ m.transferFee < 10000 => Swapping!Net(m, g) = (g * (10000 - m.transferFee)) \div 10000
<1>1. PICK t \in Nat : t = m.transferFee
  OBVIOUS
<1>2. PICK c \in Nat : c = g * t
  OBVIOUS
<1>3. Swapping!Net(m, g) = g - (c + 9999) \div 10000
  BY <1>1, <1>2 DEF Swapping!Net, Swapping!CeilDiv
<1>4. (c + 9999) \div 10000 \in Nat
  OBVIOUS
<1>5. t = 0 => c = 0
  BY <1>2
<1>6. g * (10000 - t) = 10000 * g - c
  BY <1>2
<1>7. g - (c + 9999) \div 10000 = (10000 * g - c) \div 10000
  BY <1>2
<1>8. c = 0 => g - (c + 9999) \div 10000 = g
  OBVIOUS
<1>9. PICK z \in Nat : z = (c + 9999) \div 10000
  BY <1>4
<1>10. Swapping!Net(m, g) = g - z
  BY <1>3, <1>9
<1>11. Swapping!Net(m, g) \in Int /\ Swapping!Net(m, g) <= g
  BY <1>10
<1>12. QED
  BY <1>1, <1>3, <1>5, <1>6, <1>7, <1>8, <1>11

(* What the pool gives. *)
LEMMA PoolOutIs ==
    ASSUME NEW m, m.price \in Nat, m.depth \in Nat \ {0}, m.fee \in 0 .. 99, NEW x \in Nat
    PROVE  Swapping!PoolOut(m, x) \in Nat
<1>1. PICK a \in Nat : a = (m.price * x * m.depth) \div (m.depth + x)
  <2>1. PICK p \in Nat, d \in Nat : p = m.price /\ d = m.depth /\ d > 0
    OBVIOUS
  <2>2. p * x * d \in Nat /\ d + x \in Nat /\ d + x > 0
    BY <2>1
  <2>3. QED
    BY <2>1, <2>2, DivisionIs
<1>2. PICK f \in Nat : f = 100 - m.fee
  OBVIOUS
<1>3. a * f \in Nat
  OBVIOUS
<1>4. (a * f) \div 100 \in Nat
  BY <1>3, DivisionIs
<1>5. QED
  BY <1>1, <1>2, <1>4 DEF Swapping!PoolOut

(* What an honest quote says. *)
LEMMA HonestQuoteIs ==
    ASSUME SwapConstants, NEW m \in Markets, NEW x \in Nat, netQuoted \in BOOLEAN
    PROVE  /\ Swapping!HonestQuote(m, x).out \in Int /\ Swapping!HonestQuote(m, x).min \in Int
           /\ Swapping!HonestQuote(m, x).in = x
           /\ BuysAUnit(m, x) => Swapping!CheckQuote(Swapping!HonestQuote(m, x), x)
<1>1. PICK g \in Nat : g = Swapping!PoolOut(m, x)
  BY PoolOutIs DEF SwapConstants, MarketsAreDeep
<1>2. Swapping!Net(m, g) \in Int /\ Swapping!Net(m, g) <= g
  BY NetIs DEF SwapConstants, MarketsAreDeep
<1>3. PICK o \in Int : /\ o = Swapping!HonestQuote(m, x).out /\ (BuysAUnit(m, x) => o > 0)
                       /\ Swapping!HonestQuote(m, x).min = Swapping!CeilDiv(o * (10000 - SlippageBps), 10000)
  <2>1. CASE netQuoted
    BY <1>1, <1>2, <2>1 DEF Swapping!HonestQuote, BuysAUnit
  <2>2. CASE ~netQuoted
    <3>1. BuysAUnit(m, x) => g > 0
      BY <1>1, <1>2 DEF BuysAUnit
    <3>2. QED
      BY <1>1, <2>2, <3>1 DEF Swapping!HonestQuote
  <2>3. QED
    BY <2>1, <2>2
<1>4. PICK k \in Int : k = o * (10000 - SlippageBps) /\ (o > 0 => k <= 10000 * o)
  <2>1. PICK c \in Nat : c = SlippageBps
    BY DEF SwapConstants
  <2>2. o * (10000 - c) \in Int /\ (o > 0 => o * c >= 0) /\ o * (10000 - c) = 10000 * o - o * c
    OBVIOUS
  <2>3. o * c \in Int
    OBVIOUS
  <2>4. QED
    BY <2>1, <2>2, <2>3
<1>5. PICK n \in Int : n = Swapping!HonestQuote(m, x).min /\ n = (k + 9999) \div 10000
  BY <1>3, <1>4 DEF Swapping!CeilDiv
<1>6. n * 10000 >= k /\ (o > 0 => n <= o)
  BY <1>4, <1>5
<1>7. Swapping!HonestQuote(m, x).inMint = "SOL" /\ Swapping!HonestQuote(m, x).outMint = "coin" /\ Swapping!HonestQuote(m, x).in = x
      /\ Swapping!HonestQuote(m, x).mode = "ExactIn" /\ Swapping!HonestQuote(m, x).slippage = SlippageBps
  BY DEF Swapping!HonestQuote
<1>8. QED
  BY <1>3, <1>4, <1>5, <1>6, <1>7 DEF Swapping!CheckQuote

(* Where an honest quote lies, one factor for both the pool's fee and the  *)
(* coin's.                                                                 *)
LEMMA HonestQuoteLies ==
    ASSUME SwapConstants, NEW m \in Markets, m.transferFee <= SwapMaxTransferFeeBps, netQuoted \in BOOLEAN
    PROVE  \E P \in Nat : \A x \in Nat :
              /\ Swapping!HonestQuote(m, x).out \in Nat
              /\ Swapping!HonestQuote(m, x).out * (Whole * (m.depth + x)) <= P * x
              /\ P * x < (Swapping!HonestQuote(m, x).out + 3) * (Whole * (m.depth + x))
<1>0. PICK p \in Nat, d \in Nat, k \in 0 .. 99, t \in Nat :
         p = m.price /\ d = m.depth /\ d # 0 /\ k = m.fee /\ t = m.transferFee
  <2>1. /\ m.price \in Nat /\ m.depth \in Nat \ {0} /\ m.fee \in 0 .. 99 /\ m.transferFee \in Nat
    BY DEF SwapConstants, MarketsAreDeep
  <2>2. QED
    BY <2>1
<1>1. PICK f \in 1 .. 100 : d > 0 /\ f = 100 - k
  <2>1. 100 - k \in 1 .. 100
    OBVIOUS
  <2>2. QED
    BY <1>0, <2>1
<1>2. t < 10000
  <2>1. SwapMaxTransferFeeBps \in Nat /\ SwapMaxTransferFeeBps < 10000
    BY DEF SwapConstants
  <2>2. QED
    BY <1>0, <2>1
<1>3. PICK u \in Nat : 1 <= u /\ u <= 10000 /\ u = IF netQuoted THEN 10000 - t ELSE 10000
  <2>1. 10000 - t \in Nat /\ 1 <= 10000 - t /\ 10000 - t <= 10000
    BY <1>2
  <2>2. CASE netQuoted
    BY <2>1, <2>2
  <2>3. CASE ~netQuoted
    BY <2>1, <2>3
  <2>4. QED
    BY <2>2, <2>3
<1>4. ASSUME NEW x \in Nat
      PROVE  Swapping!HonestQuote(m, x).out = (((((p * x * d) \div (d + x)) * f) \div 100) * u) \div 10000
  <2>1. PICK g \in Nat : g = Swapping!PoolOut(m, x)
    BY PoolOutIs DEF SwapConstants, MarketsAreDeep
  <2>2. g = (((p * x * d) \div (d + x)) * f) \div 100
    BY <1>0, <1>1, <2>1 DEF Swapping!PoolOut
  <2>3. Swapping!HonestQuote(m, x).out = (g * u) \div 10000
    <3>1. CASE netQuoted
      <4>1. Swapping!Net(m, g) = (g * (10000 - t)) \div 10000
        BY <1>0, <1>2, NetIs
      <4>2. QED
        BY <1>3, <2>1, <3>1, <4>1 DEF Swapping!HonestQuote
    <3>2. CASE ~netQuoted
      <4>1. (g * 10000) \div 10000 = g
        OBVIOUS
      <4>2. QED
        BY <1>3, <2>1, <3>2, <4>1 DEF Swapping!HonestQuote
    <3>3. QED
      BY <3>1, <3>2
  <2>4. QED
    BY <2>2, <2>3
<1>5. PICK P \in Nat : P = p * d * (f * u)
  <2>1. f * u \in Nat
    OBVIOUS
  <2>2. QED
    BY <2>1
<1>6. ASSUME NEW x \in Nat
      PROVE  /\ Swapping!HonestQuote(m, x).out \in Nat
             /\ Swapping!HonestQuote(m, x).out * (Whole * (d + x)) <= P * x
             /\ P * x < (Swapping!HonestQuote(m, x).out + 3) * (Whole * (d + x))
  <2>1. PICK o : o = Swapping!HonestQuote(m, x).out
    OBVIOUS
  <2>2. o = (((((p * x * d) \div (d + x)) * f) \div 100) * u) \div 10000
    BY <1>4, <2>1
  <2>3. /\ o \in Nat
        /\ o * (Whole * (d + x)) <= (p * d * (f * u)) * x
        /\ (p * d * (f * u)) * x < (o + 3) * (Whole * (d + x))
    <3>1. PICK n \in Nat :
              /\ n = (((((p * x * d) \div (d + x)) * f) \div 100) * u) \div 10000
              /\ n * (Whole * (d + x)) <= (p * d * (f * u)) * x
              /\ (p * d * (f * u)) * x < (n + 3) * (Whole * (d + x))
      <4>1. QuoteIsWithin(p, d, x, f, u)
        <5>1. d > 0 /\ 1 <= u /\ u <= 10000
          BY <1>1, <1>3
        <5>2. u \in TenThousandths
          BY <5>1 DEF TenThousandths
        <5>3. QED
          BY <1>1, <5>2, QuoteLies
      <4>2. QED
        BY <4>1 DEF QuoteIsWithin
    <3>2. o = n
      BY <2>2, <3>1
    <3>3. QED
      BY <3>1, <3>2
  <2>4. QED
    BY <1>5, <2>1, <2>3
<1>7. \A x \in Nat :
         /\ Swapping!HonestQuote(m, x).out \in Nat
         /\ Swapping!HonestQuote(m, x).out * (Whole * (m.depth + x)) <= P * x
         /\ P * x < (Swapping!HonestQuote(m, x).out + 3) * (Whole * (m.depth + x))
  BY <1>0, <1>6
<1>8. QED
  BY <1>7

(* The impact that is measured is a number of bps. *)
LEMMA ImpactIs ==
    ASSUME NEW q, NEW r, q.in \in Nat, q.in > 0, r.in \in Nat, r.in > 0,
           q.out \in Nat, q.out > 0, r.out \in Nat, r.out > 0
    PROVE  \E rate \in Nat :
              /\ rate * (q.in * r.out) <= q.out * r.in * 10000
              /\ q.out * r.in * 10000 < (rate + 1) * (q.in * r.out)
              /\ Swapping!MarginalImpactBps(q, r) = IF rate >= 10000 THEN 0 ELSE 10000 - rate
<1>1. PICK a \in Nat, b \in Nat, c \in Nat, d \in Nat : a = q.out /\ b = r.in /\ c = q.in /\ d = r.out
  OBVIOUS
<1>2. a * b * 10000 \in Nat /\ c * d \in Nat
  OBVIOUS
<1>3. c * d > 0
  BY <1>1
<1>4. PICK rate \in Nat : /\ rate = (a * b * 10000) \div (c * d)
                          /\ rate * (c * d) <= a * b * 10000 /\ a * b * 10000 < (rate + 1) * (c * d)
  BY <1>2, <1>3, QuotientLies
<1>5. Swapping!MarginalImpactBps(q, r) = IF rate >= 10000 THEN 0 ELSE 10000 - rate
  BY <1>1, <1>4 DEF Swapping!MarginalImpactBps
<1>6. QED
  BY <1>1, <1>4, <1>5

(***************************************************************************)
(* What is measured of an honest buy is the impact of the pool's depth up  *)
(* to the slack.                                                           *)
(***************************************************************************)
LEMMA MeasuredIsReal ==
    ASSUME SwapConstants, Swapping!TypeOK, honest, market.transferFee <= SwapMaxTransferFeeBps, Judged,
           quote = Swapping!HonestQuote(market, lamports), impact = JudgedBy
    PROVE  /\ impact > MaxPriceImpactBps => Swapping!RealImpact > MaxPriceImpactBps - Swapping!Slack
           /\ impact <= MaxPriceImpactBps => Swapping!RealImpact <= MaxPriceImpactBps + Swapping!Slack
<1>1. market \in Markets /\ lamports \in Lamports /\ netQuoted \in BOOLEAN
  BY DEF Swapping!TypeOK
<1>2. PICK X \in Nat, x \in Nat : X = lamports /\ x = Swapping!ReferenceLamports(lamports) /\ 0 < x /\ x < X
  BY <1>1, ReferenceIs DEF SwapConstants, Judged
<1>3. PICK d \in Nat : d = market.depth /\ d > 0
  BY <1>1 DEF SwapConstants, MarketsAreDeep
<1>4. PICK P \in Nat : \A y \in Nat :
         /\ Swapping!HonestQuote(market, y).out \in Nat
         /\ Swapping!HonestQuote(market, y).out * (Whole * (d + y)) <= P * y
         /\ P * y < (Swapping!HonestQuote(market, y).out + 3) * (Whole * (d + y))
  BY <1>1, <1>3, HonestQuoteLies
<1>5. /\ Swapping!CheckQuote(Swapping!HonestQuote(market, X), X) /\ Swapping!HonestQuote(market, X).in = X
      /\ Swapping!CheckQuote(Swapping!HonestQuote(market, x), x) /\ Swapping!HonestQuote(market, x).in = x
  <2>1. BuysAUnit(market, X) /\ BuysAUnit(market, x)
    BY <1>1, <1>2 DEF SwapConstants, MarketsAreDeep
  <2>2. QED
    BY <1>1, <2>1, HonestQuoteIs
<1>6. PICK q \in Nat : /\ q = Swapping!HonestQuote(market, X).out /\ q > 0
                       /\ q * (Whole * (d + X)) <= P * X /\ P * X < (q + 3) * (Whole * (d + X))
  BY <1>4, <1>5 DEF Swapping!CheckQuote
<1>7. PICK r \in Nat : /\ r = Swapping!HonestQuote(market, x).out /\ r > 0
                       /\ r * (Whole * (d + x)) <= P * x /\ P * x < (r + 3) * (Whole * (d + x))
  BY <1>4, <1>5 DEF Swapping!CheckQuote
<1>8. PICK rate \in Nat : /\ rate * (X * r) <= q * x * 10000 /\ q * x * 10000 < (rate + 1) * (X * r)
                          /\ impact = IF rate >= 10000 THEN 0 ELSE 10000 - rate
  <2>1. PICK a, b : a = Swapping!HonestQuote(market, X) /\ b = Swapping!HonestQuote(market, x)
    OBVIOUS
  <2>2. a.in = X /\ a.out = q /\ b.in = x /\ b.out = r /\ X > 0
    BY <1>2, <1>5, <1>6, <1>7, <2>1
  <2>3. PICK n \in Nat : /\ n * (a.in * b.out) <= a.out * b.in * 10000
                         /\ a.out * b.in * 10000 < (n + 1) * (a.in * b.out)
                         /\ Swapping!MarginalImpactBps(a, b) = IF n >= 10000 THEN 0 ELSE 10000 - n
    BY <1>2, <1>6, <1>7, <2>2, ImpactIs
  <2>4. impact = Swapping!MarginalImpactBps(a, b)
    BY <1>2, <2>1 DEF JudgedBy
  <2>5. QED
    BY <2>2, <2>3, <2>4
<1>9. PICK f \in Nat : /\ Swapping!RealImpact = 10000 - f
                       /\ f * (d + X) <= (d + x) * 10000 /\ (d + x) * 10000 < (f + 1) * (d + X)
  <2>1. PICK a \in Nat, b \in Nat : a = (d + x) * 10000 /\ b = d + X /\ b > 0
    BY <1>3
  <2>2. PICK f \in Nat : f = a \div b /\ f * b <= a /\ a < (f + 1) * b
    BY <2>1, QuotientLies
  <2>3. Swapping!RealImpact = 10000 - f
    BY <1>2, <1>3, <2>1, <2>2 DEF Swapping!RealImpact
  <2>4. QED
    BY <2>1, <2>2, <2>3
<1>10. PICK s \in Nat : Swapping!Slack = 3 + s /\ s * r <= 30000 /\ 30000 < (s + 1) * r
  <2>1. PICK s \in Nat : s = 30000 \div r /\ s * r <= 30000 /\ 30000 < (s + 1) * r
    <3>1. PICK c \in Nat : c = 30000
      OBVIOUS
    <3>2. PICK s \in Nat : s = c \div r /\ s * r <= c /\ c < (s + 1) * r
      BY <1>7, QuotientLies
    <3>3. QED
      BY <3>1, <3>2
  <2>2. QED
    BY <1>2, <1>7, <2>1 DEF Swapping!Slack
<1>11. rate <= f + s + 1 /\ f <= rate + s + 1 /\ f < 10000
  <2>1. PICK W \in Nat : W = Whole /\ W > 0
    BY DEF Whole
  <2>2. PICK v \in Nat, c \in Nat : v = d + X /\ c = d + x /\ c < v
    BY <1>2
  <2>3. PICK E \in Nat, e \in Nat : E = W * v /\ e = W * c /\ e < E
    <3>1. W * v \in Nat /\ W * c \in Nat
      OBVIOUS
    <3>2. c * W < v * W
      BY <2>1, <2>2, Factors
    <3>3. c * W = W * c /\ v * W = W * v
      OBVIOUS
    <3>4. QED
      BY <3>1, <3>2, <3>3
  <2>4. f * E <= e * 10000 /\ e * 10000 < (f + 1) * E
    <3>1. PICK m \in Int, n \in Int, k \in Int : m = f * v /\ n = c * 10000 /\ k = (f + 1) * v
      OBVIOUS
    <3>2. f * (W * v) = m * W /\ (W * c) * 10000 = n * W /\ (f + 1) * (W * v) = k * W
      BY <3>1
    <3>3. m <= n /\ n < k
      BY <1>9, <2>2, <3>1
    <3>4. m * W <= n * W /\ n * W < k * W
      BY <2>1, <3>3, Factors
    <3>5. QED
      BY <2>3, <3>2, <3>4
  <2>5. q * E <= P * X /\ P * X < (q + 3) * E
    BY <1>6, <2>1, <2>2, <2>3
  <2>6. r * e <= P * x /\ P * x < (r + 3) * e
    BY <1>7, <2>1, <2>2, <2>3
  <2>7. 0 < x /\ x < X /\ e < E /\ r > 0
    BY <1>2, <1>7, <2>3
  <2>8. rate * (X * r) <= q * x * 10000 /\ q * x * 10000 < (rate + 1) * (X * r)
    BY <1>8
  <2>9. s * r <= 30000 /\ 30000 < (s + 1) * r
    BY <1>10
  <2>10. QED
    BY <2>4, <2>5, <2>6, <2>7, <2>8, <2>9, RatesLie
<1>12. PICK l \in Nat : l = MaxPriceImpactBps
  BY DEF SwapConstants
<1>13. impact > l => 10000 - f > l - (3 + s)
  BY <1>8, <1>11
<1>14. impact <= l => 10000 - f <= l + (3 + s)
  BY <1>8, <1>11
<1>15. QED
  BY <1>9, <1>10, <1>12, <1>13, <1>14

(* Nothing is asked at the start.                                          *)
LEMMA SwapInitIInv == Swapping!Init => SwapIInv
BY DEF Swapping!Init, SwapIInv, Kept, Swapping!TypeOK

(* An honest quote is fit for a buy, another one as good as it says. *)
LEMMA QuotesAre ==
    ASSUME SwapConstants, Swapping!TypeOK, NEW x \in Nat, NEW q \in Swapping!Quotes(x)
    PROVE  /\ q.out \in Int /\ q.min \in Int
           /\ honest => q = Swapping!HonestQuote(market, x) /\ (BuysAUnit(market, x) => Swapping!CheckQuote(q, x))
<1>1. market \in Markets /\ netQuoted \in BOOLEAN
  BY DEF Swapping!TypeOK
<1>2. CASE honest
  <2>1. q = Swapping!HonestQuote(market, x)
    BY <1>2 DEF Swapping!Quotes
  <2>2. QED
    BY <1>1, <2>1, HonestQuoteIs
<1>3. CASE ~honest
  BY <1>3 DEF Swapping!Quotes, SwapConstants
<1>4. QED
  BY <1>2, <1>3

(* What a buy can be asked of. *)
LEMMA BuyIs ==
    ASSUME SwapConstants, Swapping!TypeOK
    PROVE  /\ lamports \in Nat /\ lamports > 0 /\ Swapping!ReferenceLamports(lamports) \in Nat /\ Swapping!ReferenceLamports(lamports) > 0
           /\ market.transferFee <= SwapMaxTransferFeeBps =>
                 BuysAUnit(market, lamports) /\ BuysAUnit(market, Swapping!ReferenceLamports(lamports))
<1>1. market \in Markets /\ lamports \in Lamports /\ lamports \in Nat /\ lamports > 0
  BY DEF Swapping!TypeOK, SwapConstants
<1>2. QED
  BY <1>1, ReferenceIs DEF SwapConstants, MarketsAreDeep

(* The first quote. *)
LEMMA GetQuoteIInv == SwapConstants /\ SwapIInv /\ Swapping!GetQuote => SwapIInv'
<1>1. SUFFICES ASSUME SwapConstants, SwapIInv, Swapping!GetQuote
               PROVE  SwapIInv'
  OBVIOUS
<1>2. PICK q \in Swapping!Quotes(lamports) :
         /\ quote' = q
         /\ IF Swapping!CheckQuote(q, lamports) THEN trade' = "quoted" /\ UNCHANGED refusal ELSE Swapping!Refuse("quote")
  BY <1>1 DEF Swapping!GetQuote
<1>3. /\ trade = "new" /\ refusal = "none" /\ Swapping!TypeOK
      /\ UNCHANGED <<market, lamports, honest, netQuoted, impact, swap>>
  BY <1>1 DEF Swapping!GetQuote, SwapIInv, Swapping!TypeOK
<1>4. /\ q.out \in Int /\ q.min \in Int
      /\ honest => q = Swapping!HonestQuote(market, lamports) /\ (BuysAUnit(market, lamports) => Swapping!CheckQuote(q, lamports))
  BY <1>1, <1>3, QuotesAre, BuyIs
<1>5. honest => q = (Swapping!HonestQuote(market, lamports))'
  BY <1>3, <1>4 DEF Swapping!HonestQuote
<1>6. Swapping!CheckQuote(q, lamports) => Swapping!CheckQuote(quote, lamports)'
  BY <1>2, <1>3 DEF Swapping!CheckQuote
<1>7. CASE Swapping!CheckQuote(q, lamports)
  <2>1. trade' = "quoted" /\ refusal' = "none"
    BY <1>2, <1>3, <1>7
  <2>2. Swapping!TypeOK'
    BY <1>3, <2>1 DEF Swapping!TypeOK
  <2>3. QED
    BY <1>2, <1>3, <1>4, <1>5, <1>6, <1>7, <2>1, <2>2 DEF SwapIInv, Kept
<1>8. CASE ~Swapping!CheckQuote(q, lamports)
  <2>1. trade' = "refused" /\ refusal' = "quote"
    BY <1>2, <1>8 DEF Swapping!Refuse
  <2>2. Swapping!TypeOK'
    BY <1>3, <2>1 DEF Swapping!TypeOK
  <2>3. honest /\ market.transferFee <= SwapMaxTransferFeeBps => FALSE
    BY <1>1, <1>3, <1>4, <1>8, BuyIs
  <2>4. QED
    BY <1>3, <2>1, <2>2, <2>3 DEF SwapIInv, Kept
<1>9. QED
  BY <1>7, <1>8

(* A number of bps. *)
Bps == 0 .. 10000

LEMMA BpsAre == \A x : x \in Bps <=> x \in Nat /\ x <= 10000
<1>1. ASSUME NEW b \in Nat, NEW x PROVE x \in 0 .. b <=> x \in Nat /\ x <= b
  OBVIOUS
<1>2. PICK b \in Nat : b = 10000
  OBVIOUS
<1>3. Bps = 0 .. b
  BY <1>2 DEF Bps
<1>4. \A x : x \in Bps <=> x \in Nat /\ x <= b
  BY <1>1, <1>3
<1>5. QED
  BY <1>2, <1>4

(* The types apart from the impact's. *)
TypeRest ==
    /\ trade \in {"new", "quoted", "measured", "built", "sent", "refused"}
    /\ market \in Markets /\ lamports \in Lamports /\ {honest, netQuoted} \subseteq BOOLEAN
    /\ refusal \in {"none", "quote", "impact", "shape", "fails", "cost", "delivery"}
    /\ trade = "refused" <=> refusal # "none"

LEMMA TypesAre == (Swapping!TypeOK <=> TypeRest /\ impact \in Bps) /\ (Swapping!TypeOK' <=> TypeRest' /\ impact' \in Bps)
BY SMT DEF Swapping!TypeOK, TypeRest, Bps

(* Nothing is known of a buy but by what it is and what was quoted for it. *)
LEMMA KeptOn ==
    ASSUME UNCHANGED <<market, lamports, honest, netQuoted, quote>>
    PROVE  (Kept(trade, refusal, impact, swap))' <=> Kept(trade', refusal', impact', swap')
<1>1. market' = market /\ lamports' = lamports /\ honest' = honest /\ netQuoted' = netQuoted /\ quote' = quote
  OBVIOUS
<1>2. (Swapping!HonestQuote(market, lamports))' = Swapping!HonestQuote(market, lamports)
  BY <1>1 DEF Swapping!HonestQuote
<1>3. Judged' <=> Judged
  BY <1>1 DEF Judged
<1>4. JudgedBy' = JudgedBy
  BY <1>1 DEF JudgedBy, Swapping!HonestQuote, Swapping!MarginalImpactBps
<1>5. Swapping!HonestSwaps' = Swapping!HonestSwaps
  BY <1>1 DEF Swapping!HonestSwaps
<1>6. (Swapping!CheckQuote(quote, lamports))' <=> Swapping!CheckQuote(quote, lamports)
  BY <1>1 DEF Swapping!CheckQuote
<1>7. (Swapping!MinOutput(quote, market))' = Swapping!MinOutput(quote, market)
  BY <1>1 DEF Swapping!MinOutput
<1>8. QED
  BY <1>1, <1>2, <1>3, <1>4, <1>5, <1>6, <1>7 DEF Kept

(* What an honest transaction does. *)
LEMMA HonestSwapIs ==
    ASSUME SwapConstants, Swapping!TypeOK, NEW s \in Swapping!HonestSwaps
    PROVE  /\ s.payer /\ s.signers = 1 /\ s.programs
           /\ s.spends \in Int /\ s.delivers \in Int /\ s.spends <= lamports + Overhead
           /\ \E gross \in Nat :
                 /\ s.delivers = Swapping!Net(market, gross)
                 /\ s.fails <=> (IF netQuoted THEN Swapping!Net(market, gross) ELSE gross) < quote.min
<1>1. market \in Markets /\ lamports \in Nat
  BY DEF Swapping!TypeOK, SwapConstants
<1>2. PICK move \in Moves, fee \in SwapFees :
         LET gross == (Swapping!PoolOut(market, lamports) * (100 - move)) \div 100
             measured == IF netQuoted THEN Swapping!Net(market, gross) ELSE gross
         IN s = [payer |-> TRUE, signers |-> 1, programs |-> TRUE, spends |-> lamports + fee,
                 delivers |-> Swapping!Net(market, gross), fails |-> measured < quote.min]
  BY DEF Swapping!HonestSwaps
<1>3. PICK gross \in Nat : gross = (Swapping!PoolOut(market, lamports) * (100 - move)) \div 100
  <2>1. PICK a \in Nat : a = Swapping!PoolOut(market, lamports)
    BY <1>1, PoolOutIs DEF SwapConstants, MarketsAreDeep
  <2>2. PICK b \in Nat : b = 100 - move
    BY DEF SwapConstants
  <2>3. a * b \in Nat
    OBVIOUS
  <2>4. (a * b) \div 100 \in Nat
    BY <2>3, DivisionIs
  <2>5. QED
    BY <2>1, <2>2, <2>4
<1>4. /\ s.payer = TRUE /\ s.signers = 1 /\ s.programs = TRUE /\ s.spends = lamports + fee
      /\ s.delivers = Swapping!Net(market, gross)
      /\ s.fails = ((IF netQuoted THEN Swapping!Net(market, gross) ELSE gross) < quote.min)
  BY <1>2, <1>3
<1>5. fee \in Int /\ Overhead \in Int /\ fee <= Overhead
  BY DEF SwapConstants
<1>6. s.spends \in Int /\ s.spends <= lamports + Overhead
  BY <1>1, <1>4, <1>5
<1>7. s.delivers \in Int
  BY <1>1, <1>4, NetIs DEF SwapConstants, MarketsAreDeep
<1>8. QED
  BY <1>4, <1>6, <1>7

(* The reference quote, and what is made of it. *)
LEMMA MeasureIInv == SwapConstants /\ SwapIInv /\ Swapping!Measure => SwapIInv'
<1>1. SUFFICES ASSUME SwapConstants, SwapIInv, Swapping!Measure
               PROVE  SwapIInv'
  OBVIOUS
<1>2. /\ trade = "quoted" /\ refusal = "none" /\ Swapping!TypeOK /\ TypeRest /\ impact \in Bps
      /\ market' = market /\ lamports' = lamports /\ honest' = honest /\ netQuoted' = netQuoted
      /\ quote' = quote /\ swap' = swap
  <2>1. trade = "quoted" /\ Swapping!TypeOK /\ UNCHANGED <<market, lamports, honest, netQuoted, quote, swap>>
    BY <1>1 DEF Swapping!Measure, SwapIInv
  <2>2. TypeRest /\ impact \in Bps
    BY <2>1, TypesAre
  <2>3. refusal = "none"
    BY <2>1, <2>2 DEF TypeRest
  <2>4. QED
    BY <2>1, <2>2, <2>3
<1>3. /\ Swapping!CheckQuote(quote, lamports) /\ quote.out \in Int /\ quote.min \in Int
      /\ honest => quote = Swapping!HonestQuote(market, lamports)
  BY <1>1, <1>2 DEF SwapIInv, Kept
<1>4. PICK x \in Nat : x = Swapping!ReferenceLamports(lamports) /\ x > 0
  BY <1>1, <1>2, BuyIs
<1>5. SUFFICES TypeRest' /\ impact' \in Bps /\ Kept(trade', refusal', impact', swap)
  BY <1>2, TypesAre, KeptOn DEF SwapIInv
<1>6. CASE x >= lamports
  <2>1. impact' = 0 /\ trade' = "measured" /\ refusal' = "none"
    BY <1>1, <1>2, <1>4, <1>6 DEF Swapping!Measure
  <2>2. ~Judged
    <3>1. lamports \in Nat
      BY <1>1, <1>2, BuyIs
    <3>2. QED
      BY <1>4, <1>6, <3>1 DEF Judged
  <2>3. TypeRest'
    BY <1>2, <2>1 DEF TypeRest
  <2>4. impact' \in Bps
    BY <2>1, BpsAre
  <2>5. QED
    BY <1>3, <2>1, <2>2, <2>3, <2>4 DEF Kept
<1>7. CASE ~(x >= lamports)
  <2>1. PICK r \in Swapping!Quotes(x) :
           IF ~Swapping!CheckQuote(r, x) THEN Swapping!Refuse("quote") /\ UNCHANGED impact
           ELSE /\ impact' = Swapping!MarginalImpactBps(quote, r)
                /\ IF impact' > MaxPriceImpactBps THEN Swapping!Refuse("impact")
                   ELSE trade' = "measured" /\ UNCHANGED refusal
    BY <1>1, <1>4, <1>7 DEF Swapping!Measure
  <2>2. /\ r.out \in Int /\ r.min \in Int
        /\ honest => r = Swapping!HonestQuote(market, x) /\ (BuysAUnit(market, x) => Swapping!CheckQuote(r, x))
    BY <1>1, <1>2, QuotesAre
  <2>3. Judged
    <3>1. lamports \in Nat
      BY <1>1, <1>2, BuyIs
    <3>2. QED
      BY <1>4, <1>7, <3>1 DEF Judged
  <2>4. CASE ~Swapping!CheckQuote(r, x)
    <3>1. trade' = "refused" /\ refusal' = "quote" /\ impact' = impact
      BY <2>1, <2>4 DEF Swapping!Refuse
    <3>2. ~(honest /\ market.transferFee <= SwapMaxTransferFeeBps)
      BY <1>1, <1>2, <1>4, <2>2, <2>4, BuyIs
    <3>3. TypeRest'
      BY <1>2, <3>1 DEF TypeRest
    <3>4. QED
      BY <1>2, <3>1, <3>2, <3>3 DEF Kept
  <2>5. CASE Swapping!CheckQuote(r, x)
    <3>1. /\ impact' = Swapping!MarginalImpactBps(quote, r)
          /\ IF impact' > MaxPriceImpactBps THEN Swapping!Refuse("impact") ELSE trade' = "measured" /\ refusal' = "none"
      BY <1>2, <2>1, <2>5
    <3>2. impact' \in Bps
      <4>1. quote.in = lamports /\ quote.out > 0 /\ r.in = x /\ r.out > 0
        BY <1>3, <2>5 DEF Swapping!CheckQuote
      <4>2. lamports \in Nat /\ lamports > 0
        BY <1>1, <1>2, BuyIs
      <4>3. quote.in \in Nat /\ quote.in > 0 /\ r.in \in Nat /\ r.in > 0
        BY <1>4, <4>1, <4>2
      <4>4. quote.out \in Nat /\ r.out \in Nat
        BY <1>3, <2>2, <4>1
      <4>5. PICK rate \in Nat : Swapping!MarginalImpactBps(quote, r) = IF rate >= 10000 THEN 0 ELSE 10000 - rate
        BY <4>1, <4>3, <4>4, ImpactIs
      <4>6. (IF rate >= 10000 THEN 0 ELSE 10000 - rate) \in Nat /\ (IF rate >= 10000 THEN 0 ELSE 10000 - rate) <= 10000
        OBVIOUS
      <4>7. impact' \in Nat /\ impact' <= 10000
        BY <3>1, <4>5, <4>6
      <4>8. QED
        BY <4>7, BpsAre
    <3>3. honest => impact' = JudgedBy
      BY <1>4, <2>2, <3>1 DEF JudgedBy
    <3>4. CASE impact' > MaxPriceImpactBps
      <4>1. trade' = "refused" /\ refusal' = "impact"
        BY <3>1, <3>4 DEF Swapping!Refuse
      <4>2. TypeRest'
        BY <1>2, <4>1 DEF TypeRest
      <4>3. QED
        BY <1>3, <2>3, <3>2, <3>3, <3>4, <4>1, <4>2 DEF Kept
    <3>5. CASE ~(impact' > MaxPriceImpactBps)
      <4>1. trade' = "measured" /\ refusal' = "none"
        BY <3>1, <3>5
      <4>2. TypeRest'
        BY <1>2, <4>1 DEF TypeRest
      <4>3. impact' <= MaxPriceImpactBps
        <5>1. impact' \in Nat
          BY <3>2, BpsAre
        <5>2. MaxPriceImpactBps \in Nat
          BY <1>1 DEF SwapConstants
        <5>3. QED
          BY <3>5, <5>1, <5>2
      <4>4. QED
        BY <1>3, <2>3, <3>2, <3>3, <4>1, <4>2, <4>3 DEF Kept
    <3>6. QED
      BY <3>4, <3>5
  <2>6. QED
    BY <2>4, <2>5
<1>8. QED
  BY <1>6, <1>7

(* The transaction that is built. *)
LEMMA BuildIInv == SwapConstants /\ SwapIInv /\ Swapping!Build => SwapIInv'
<1>1. SUFFICES ASSUME SwapConstants, SwapIInv, Swapping!Build
               PROVE  SwapIInv'
  OBVIOUS
<1>2. /\ trade = "measured" /\ refusal = "none" /\ Swapping!TypeOK /\ TypeRest /\ impact \in Bps
      /\ market' = market /\ lamports' = lamports /\ honest' = honest /\ netQuoted' = netQuoted
      /\ quote' = quote /\ impact' = impact
  <2>1. trade = "measured" /\ Swapping!TypeOK /\ UNCHANGED <<market, lamports, honest, netQuoted, quote, impact>>
    BY <1>1 DEF Swapping!Build, SwapIInv
  <2>2. TypeRest /\ impact \in Bps
    BY <2>1, TypesAre
  <2>3. refusal = "none"
    BY <2>1, <2>2 DEF TypeRest
  <2>4. QED
    BY <2>1, <2>2, <2>3
<1>3. /\ Swapping!CheckQuote(quote, lamports) /\ quote.out \in Int /\ quote.min \in Int
      /\ honest => quote = Swapping!HonestQuote(market, lamports)
      /\ honest /\ Judged => impact = JudgedBy /\ impact <= MaxPriceImpactBps
  BY <1>1, <1>2 DEF SwapIInv, Kept
<1>4. PICK s \in IF honest THEN Swapping!HonestSwaps ELSE OtherSwaps :
         /\ swap' = s
         /\ IF s.payer /\ s.signers = 1 /\ s.programs THEN trade' = "built" /\ UNCHANGED refusal ELSE Swapping!Refuse("shape")
  BY <1>1 DEF Swapping!Build
<1>5. /\ s.spends \in Int /\ s.delivers \in Int
      /\ honest => s \in Swapping!HonestSwaps /\ s.payer /\ s.signers = 1 /\ s.programs
  <2>1. CASE honest
    <3>1. s \in Swapping!HonestSwaps
      BY <2>1
    <3>2. QED
      BY <1>1, <1>2, <3>1, HonestSwapIs
  <2>2. CASE ~honest
    BY <1>1, <2>2 DEF SwapConstants
  <2>3. QED
    BY <2>1, <2>2
<1>6. SUFFICES TypeRest' /\ Kept(trade', refusal', impact', swap')
  BY <1>2, TypesAre, KeptOn DEF SwapIInv
<1>7. CASE s.payer /\ s.signers = 1 /\ s.programs
  <2>1. trade' = "built" /\ refusal' = "none" /\ swap' = s
    BY <1>2, <1>4, <1>7
  <2>2. TypeRest'
    BY <1>2, <2>1 DEF TypeRest
  <2>3. QED
    BY <1>2, <1>3, <1>5, <2>1, <2>2 DEF Kept
<1>8. CASE ~(s.payer /\ s.signers = 1 /\ s.programs)
  <2>1. trade' = "refused" /\ refusal' = "shape" /\ ~honest
    BY <1>4, <1>5, <1>8 DEF Swapping!Refuse
  <2>2. TypeRest'
    BY <1>2, <2>1 DEF TypeRest
  <2>3. QED
    BY <1>2, <2>1, <2>2 DEF Kept
<1>9. QED
  BY <1>7, <1>8

(* What is due of an amount, and that less is due of less and at a higher fee. *)
Due(a, fee) == (a * (10000 - fee)) \div 10000

LEMMA DueIs ==
    ASSUME NEW a \in Int, NEW b \in Nat, NEW s \in Bps, NEW t \in Bps, a <= b, s <= t
    PROVE  Due(a, t) \in Int /\ Due(a, t) <= Due(b, s) /\ Due(b, s) <= b
<1> SUFFICES ASSUME s \in Nat, t \in Nat, t <= 10000
             PROVE  Due(a, t) \in Int /\ Due(a, t) <= Due(b, s) /\ Due(b, s) <= b
  BY BpsAre
<1>1. PICK v \in Nat, u \in Nat : v = 10000 - t /\ u = 10000 - s /\ v <= u /\ u <= 10000
  OBVIOUS
<1>2. a * v <= b * v /\ v * b <= u * b /\ u * b <= 10000 * b
  BY <1>1, Factors
<1>3. PICK m \in Int, n \in Int : m = a * v /\ n = b * u /\ m <= n /\ n <= 10000 * b
  <2>1. b * v = v * b /\ b * u = u * b
    OBVIOUS
  <2>2. PICK m \in Int, n \in Int, o \in Int, p \in Int : m = a * v /\ n = u * b /\ o = v * b /\ p = 10000 * b
    OBVIOUS
  <2>3. m <= o /\ o <= n /\ n <= p
    BY <1>2, <2>1, <2>2
  <2>4. QED
    BY <2>1, <2>2, <2>3
<1>4. m \div 10000 \in Int /\ m \div 10000 <= n \div 10000 /\ n \div 10000 <= b
  BY <1>3
<1>5. QED
  BY <1>1, <1>3, <1>4 DEF Due

(* An honest transaction that does not fail delivers what was agreed. *)
LEMMA HonestDelivers ==
    ASSUME SwapConstants, Swapping!TypeOK, market.transferFee <= SwapMaxTransferFeeBps, NEW s \in Swapping!HonestSwaps, ~s.fails,
           Swapping!CheckQuote(quote, lamports), quote.out \in Int, quote.min \in Int
    PROVE  Swapping!MinOutput(quote, market) \in Int /\ s.delivers >= Swapping!MinOutput(quote, market)
<1>1. /\ market \in Markets
      /\ market.transferFee \in Nat /\ (~market.token2022 => market.transferFee = 0)
      /\ SwapMaxTransferFeeBps \in Nat /\ SwapMaxTransferFeeBps < 10000
  BY DEF Swapping!TypeOK, SwapConstants, MarketsAreDeep
<1>2. PICK t \in Nat, M \in Nat, n \in Int : /\ t = market.transferFee /\ M = SwapMaxTransferFeeBps /\ n = quote.min
                                             /\ t <= M /\ M < 10000
  BY <1>1
<1>3. PICK gross \in Nat :
         /\ s.delivers = Swapping!Net(market, gross)
         /\ s.fails <=> (IF netQuoted THEN Swapping!Net(market, gross) ELSE gross) < quote.min
  BY HonestSwapIs
<1>4. PICK d \in Int : d = Swapping!Net(market, gross) /\ d <= gross /\ (t = 0 => d = gross)
                       /\ d = (gross * (10000 - t)) \div 10000
  <2>1. t < 10000
    BY <1>2
  <2>2. QED
    BY <1>1, <1>2, <2>1, NetIs
<1>5. n <= gross /\ (netQuoted => n <= d)
  <2>1. CASE netQuoted
    <3>1. ~(d < n)
      BY <1>2, <1>3, <1>4, <2>1
    <3>2. QED
      BY <1>4, <3>1
  <2>2. CASE ~netQuoted
    <3>1. ~(gross < n)
      BY <1>2, <1>3, <2>2
    <3>2. QED
      BY <2>2, <3>1
  <2>3. QED
    BY <2>1, <2>2
<1>6. PICK o \in Int : o = (n * (10000 - M)) \div 10000 /\ o <= d
  <2>1. t \in Bps /\ M \in Bps
    <3>1. t <= 10000 /\ M <= 10000
      BY <1>2
    <3>2. QED
      BY <3>1, BpsAre
  <2>2. t <= M /\ n <= gross
    BY <1>2, <1>5
  <2>3. Due(n, M) \in Int /\ Due(n, M) <= Due(gross, t)
    BY <2>1, <2>2, DueIs
  <2>4. QED
    BY <1>4, <2>3 DEF Due
<1>7. CASE market.token2022
  <2>1. Swapping!MinOutput(quote, market) = o
    BY <1>2, <1>6, <1>7 DEF Swapping!MinOutput
  <2>2. QED
    BY <1>3, <1>4, <1>6, <2>1
<1>8. CASE ~market.token2022
  <2>1. Swapping!MinOutput(quote, market) = n
    BY <1>2, <1>8 DEF Swapping!MinOutput
  <2>2. d = gross
    BY <1>1, <1>2, <1>4, <1>8
  <2>3. QED
    BY <1>3, <1>4, <1>5, <2>1, <2>2
<1>9. QED
  BY <1>7, <1>8

(* The simulation, and what is sent after it. *)
LEMMA SimulateAndSendIInv == SwapConstants /\ SwapIInv /\ Swapping!SimulateAndSend => SwapIInv'
<1>1. SUFFICES ASSUME SwapConstants, SwapIInv, Swapping!SimulateAndSend
               PROVE  SwapIInv'
  OBVIOUS
<1>2. /\ trade = "built" /\ refusal = "none" /\ Swapping!TypeOK /\ TypeRest /\ impact \in Bps
      /\ market' = market /\ lamports' = lamports /\ honest' = honest /\ netQuoted' = netQuoted
      /\ quote' = quote /\ impact' = impact /\ swap' = swap
  <2>1. trade = "built" /\ Swapping!TypeOK /\ UNCHANGED <<market, lamports, honest, netQuoted, quote, impact, swap>>
    BY <1>1 DEF Swapping!SimulateAndSend, SwapIInv
  <2>2. TypeRest /\ impact \in Bps
    BY <2>1, TypesAre
  <2>3. refusal = "none"
    BY <2>1, <2>2 DEF TypeRest
  <2>4. QED
    BY <2>1, <2>2, <2>3
<1>3. /\ Swapping!CheckQuote(quote, lamports) /\ quote.out \in Int /\ quote.min \in Int
      /\ honest => quote = Swapping!HonestQuote(market, lamports) /\ swap \in Swapping!HonestSwaps
      /\ honest /\ Judged => impact = JudgedBy /\ impact <= MaxPriceImpactBps
      /\ swap.spends \in Int /\ swap.delivers \in Int
  BY <1>1, <1>2 DEF SwapIInv, Kept
<1>4. SUFFICES TypeRest' /\ Kept(trade', refusal', impact, swap)
  BY <1>2, TypesAre, KeptOn DEF SwapIInv
<1>5. lamports + Overhead \in Int
  <2>1. lamports \in Int /\ Overhead \in Int
    BY <1>1, <1>2, BuyIs DEF SwapConstants
  <2>2. QED
    BY <2>1
<1>6. Swapping!MinOutput(quote, market) \in Int
  <2>1. PICK n \in Int, M \in Nat : n = quote.min /\ M = SwapMaxTransferFeeBps
    BY <1>1, <1>3 DEF SwapConstants
  <2>2. PICK a \in Int : a = n * (10000 - M)
    OBVIOUS
  <2>3. a \div 10000 \in Int
    OBVIOUS
  <2>4. QED
    BY <2>1, <2>2, <2>3 DEF Swapping!MinOutput
<1>7. CASE swap.fails
  <2>1. trade' = "refused" /\ refusal' = "fails"
    BY <1>1, <1>7 DEF Swapping!SimulateAndSend, Swapping!Refuse
  <2>2. TypeRest'
    BY <1>2, <2>1 DEF TypeRest
  <2>3. QED
    BY <2>1, <2>2 DEF Kept
<1>8. CASE ~swap.fails /\ swap.spends > lamports + Overhead
  <2>1. trade' = "refused" /\ refusal' = "cost"
    BY <1>1, <1>8 DEF Swapping!SimulateAndSend, Swapping!Refuse
  <2>2. ~honest
    <3>1. honest => swap.spends <= lamports + Overhead
      BY <1>1, <1>2, <1>3, HonestSwapIs
    <3>2. QED
      BY <1>3, <1>5, <1>8, <3>1
  <2>3. TypeRest'
    BY <1>2, <2>1 DEF TypeRest
  <2>4. QED
    BY <2>1, <2>2, <2>3 DEF Kept
<1>9. CASE ~swap.fails /\ ~(swap.spends > lamports + Overhead) /\ swap.delivers < Swapping!MinOutput(quote, market)
  <2>1. trade' = "refused" /\ refusal' = "delivery"
    BY <1>1, <1>9 DEF Swapping!SimulateAndSend, Swapping!Refuse
  <2>2. ~(honest /\ market.transferFee <= SwapMaxTransferFeeBps)
    <3>1. honest /\ market.transferFee <= SwapMaxTransferFeeBps => swap.delivers >= Swapping!MinOutput(quote, market)
      BY <1>1, <1>2, <1>3, <1>9, HonestDelivers
    <3>2. QED
      BY <1>3, <1>6, <1>9, <3>1
  <2>3. TypeRest'
    BY <1>2, <2>1 DEF TypeRest
  <2>4. QED
    BY <2>1, <2>2, <2>3 DEF Kept
<1>10. CASE ~swap.fails /\ ~(swap.spends > lamports + Overhead) /\ ~(swap.delivers < Swapping!MinOutput(quote, market))
  <2>1. trade' = "sent" /\ refusal' = "none"
    BY <1>1, <1>2, <1>10 DEF Swapping!SimulateAndSend
  <2>2. TypeRest'
    BY <1>2, <2>1 DEF TypeRest
  <2>3. swap.spends <= lamports + Overhead /\ swap.delivers >= Swapping!MinOutput(quote, market)
    BY <1>3, <1>5, <1>6, <1>10
  <2>4. QED
    BY <1>3, <2>1, <2>2, <2>3 DEF Kept
<1>11. QED
  BY <1>7, <1>8, <1>9, <1>10

(* What is agreed is what was quoted less the slippage and the fee. *)
LEMMA AgreedIs ==
    ASSUME SwapConstants, Swapping!CheckQuote(quote, lamports), quote.out \in Int, quote.min \in Int,
           NEW w \in Int, w >= Swapping!MinOutput(quote, market)
    PROVE  w * 10000 >= quote.out * (10000 - SlippageBps - SwapMaxTransferFeeBps) - 10000
<1>1. PICK o \in Nat, n \in Int, S \in Nat, M \in Nat :
         o = quote.out /\ n = quote.min /\ S = SlippageBps /\ M = SwapMaxTransferFeeBps
  <2>1. quote.out \in Nat
    BY DEF Swapping!CheckQuote
  <2>2. QED
    BY <2>1 DEF SwapConstants
<1>2. S <= 10000 /\ M < 10000
  BY <1>1 DEF SwapConstants
<1>3. n * 10000 >= o * (10000 - S)
  BY <1>1 DEF Swapping!CheckQuote
<1>4. PICK a \in Nat, b \in Nat, c \in Nat : a = o * S /\ b = o * M /\ c = a * M
  <2>1. o * S \in Nat /\ o * M \in Nat
    OBVIOUS
  <2>2. (o * S) * M \in Nat
    BY <2>1
  <2>3. QED
    BY <2>1, <2>2
<1>5. o * (10000 - S) = 10000 * o - a /\ o * (10000 - S - M) = 10000 * o - a - b
  BY <1>4
<1>6. n * 10000 >= 10000 * o - a
  BY <1>3, <1>5
<1>7. PICK k \in Nat : k = 10000 - M
  BY <1>2
<1>8. n * k >= 10000 * o - a - b
  <2>1. (10000 * o - a) * k <= (n * 10000) * k
    <3>1. PICK e \in Nat : e = 10000
      OBVIOUS
    <3>2. e * o - a \in Int /\ n * e \in Int
      OBVIOUS
    <3>3. PICK x \in Int, y \in Int : x = e * o - a /\ y = n * e
      BY <3>2
    <3>4. x <= y
      BY <1>6, <3>1, <3>3
    <3>5. x * k <= y * k
      BY <3>4, Factors
    <3>6. QED
      BY <3>1, <3>3, <3>5
  <2>2. (10000 * o - a) * k = 10000 * (10000 * o - a - b) + c
    <3>1. (10000 * o - a) * k = (10000 * o - a) * (10000 - M)
      BY <1>7
    <3>2. (10000 * o - a) * (10000 - M) = 10000 * (10000 * o - a) - 10000 * (o * M) + a * M
      OBVIOUS
    <3>3. QED
      BY <1>4, <3>1, <3>2
  <2>3. (n * 10000) * k = 10000 * (n * k)
    OBVIOUS
  <2>4. PICK z \in Int : z = n * k
    OBVIOUS
  <2>5. 10000 * (10000 * o - a - b) + c <= 10000 * z
    BY <2>1, <2>2, <2>3, <2>4
  <2>6. QED
    BY <2>4, <2>5
<1>9. CASE market.token2022
  <2>1. PICK z \in Int : z = n * k
    OBVIOUS
  <2>2. w >= z \div 10000
    BY <1>1, <1>7, <1>9, <2>1 DEF Swapping!MinOutput
  <2>3. w * 10000 >= z - 10000
    BY <2>2
  <2>4. QED
    BY <1>1, <1>5, <1>8, <2>1, <2>3
<1>10. CASE ~market.token2022
  <2>1. w >= n
    BY <1>1, <1>10 DEF Swapping!MinOutput
  <2>2. w * 10000 >= 10000 * o - a - b - 10000
    BY <1>6, <2>1
  <2>3. QED
    BY <1>1, <1>5, <2>2
<1>11. QED
  BY <1>9, <1>10

(* The checks say what the guard is for. *)
LEMMA GuardHolds == SwapConstants /\ SwapIInv => Swapping!GuardJudgesDepth
<1>1. SUFFICES ASSUME SwapConstants, SwapIInv
               PROVE  Swapping!GuardJudgesDepth
  OBVIOUS
<1>2. Swapping!TypeOK /\ Kept(trade, refusal, impact, swap)
  BY <1>1 DEF SwapIInv
<1>3. ASSUME honest, market.transferFee <= SwapMaxTransferFeeBps
      PROVE  /\ refusal \in {"none", "impact", "fails"}
             /\ refusal = "impact" => Swapping!RealImpact > MaxPriceImpactBps - Swapping!Slack
             /\ trade = "sent" /\ Swapping!ReferenceLamports(lamports) < lamports => Swapping!RealImpact <= MaxPriceImpactBps + Swapping!Slack
  <2>1. refusal \in {"none", "impact", "fails"}
    BY <1>2, <1>3 DEF Kept
  <2>2. ASSUME refusal = "impact" PROVE Swapping!RealImpact > MaxPriceImpactBps - Swapping!Slack
    <3>1. quote = Swapping!HonestQuote(market, lamports) /\ Judged /\ impact = JudgedBy /\ impact > MaxPriceImpactBps
      BY <1>2, <1>3, <2>2 DEF Kept
    <3>2. QED
      BY <1>1, <1>2, <1>3, <3>1, MeasuredIsReal
  <2>3. ASSUME trade = "sent", Swapping!ReferenceLamports(lamports) < lamports PROVE Swapping!RealImpact <= MaxPriceImpactBps + Swapping!Slack
    <3>1. Judged
      BY <2>3 DEF Judged
    <3>2. quote = Swapping!HonestQuote(market, lamports) /\ impact = JudgedBy /\ impact <= MaxPriceImpactBps
      BY <1>2, <1>3, <2>3, <3>1 DEF Kept
    <3>3. QED
      BY <1>1, <1>2, <1>3, <3>1, <3>2, MeasuredIsReal
  <2>4. QED
    BY <2>1, <2>2, <2>3
<1>4. ASSUME trade = "sent"
      PROVE  /\ swap.spends <= lamports + Overhead
             /\ swap.delivers * 10000 >= quote.out * (10000 - SlippageBps - SwapMaxTransferFeeBps) - 10000
  <2>1. /\ Swapping!CheckQuote(quote, lamports) /\ quote.out \in Int /\ quote.min \in Int
        /\ swap.delivers \in Int /\ swap.delivers >= Swapping!MinOutput(quote, market)
        /\ swap.spends <= lamports + Overhead
    BY <1>2, <1>4 DEF Kept
  <2>2. QED
    BY <1>1, <2>1, AgreedIs
<1>5. QED
  BY <1>2, <1>3, <1>4 DEF Swapping!GuardJudgesDepth

(* Every step of a buy keeps the invariant. *)
LEMMA SwapNextIInv ==
    ASSUME SwapConstants, SwapIInv, [Swapping!Next]_swapVars
    PROVE  SwapIInv'
<1>1. CASE UNCHANGED swapVars
  <2>1. /\ trade' = trade /\ market' = market /\ lamports' = lamports /\ honest' = honest /\ netQuoted' = netQuoted
        /\ quote' = quote /\ impact' = impact /\ swap' = swap /\ refusal' = refusal
    BY <1>1 DEF swapVars
  <2>2. TypeRest /\ impact \in Bps /\ Kept(trade, refusal, impact, swap)
    BY TypesAre DEF SwapIInv
  <2>3. TypeRest'
    BY <2>1, <2>2 DEF TypeRest
  <2>4. QED
    BY <2>1, <2>2, <2>3, TypesAre, KeptOn DEF SwapIInv
<1>2. CASE Swapping!Next
  BY <1>2, GetQuoteIInv, MeasureIInv, BuildIInv, SimulateAndSendIInv DEF Swapping!Next
<1>3. QED
  BY <1>1, <1>2

(***************************************************************************)
(* For any pools deep enough for the sizes bought, fees, limits, moves of  *)
(* the price and answers of another API: an honest buy is refused for its  *)
(* impact only when the pool's depth accounts for it, up to the roundings  *)
(* of three quotients, and sent only when it does not; it is never refused *)
(* for what it costs or delivers; and nothing is sent that spends more or  *)
(* delivers less than agreed (basket.ts 66-73, jupiter.ts 117-149).        *)
(***************************************************************************)
THEOREM BuysAreJudgedByDepth ==
    ASSUME SwapConstants
    PROVE  RoundDataSpec => []GuardJudgesDepth
<1> DEFINE Inv == part = "swap" => SwapIInv
           all == <<part, pageVars, vetVars, swapVars, splitVars, vars, verifyVars, triggerVars>>
<1>1. RoundDataInit => Inv
  BY SwapInitIInv DEF RoundDataInit
<1>2. Inv /\ [RoundDataNext]_all => Inv'
  <2> SUFFICES ASSUME Inv, [RoundDataNext]_all, part' = "swap"
               PROVE  SwapIInv'
    OBVIOUS
  <2>1. part = "swap" /\ [Swapping!Next]_swapVars
    BY DEF RoundDataNext
  <2>2. QED
    BY <2>1, SwapNextIInv
<1>3. Inv => GuardJudgesDepth
  BY GuardHolds DEF GuardJudgesDepth
<1>4. QED
  BY <1>1, <1>2, <1>3, PTL DEF RoundDataSpec
=============================================================================
