------------------------ MODULE KeeperPayout_proofs ------------------------
(***************************************************************************)
(* Proofs about paying a round (KeeperPayout): the inventory is backed, a  *)
(* finished round has booked its leftovers, a complete one has paid whom   *)
(* it could reach.                                                         *)
(*                                                                         *)
(* The argument.  An asset's vault is empty until the asset is active, and *)
(* what is sent to it never brings more than its tree allocates            *)
(* (GrossIsGuess), so funded is exactly that and grossForNet finds again   *)
(* what was sent: a later step books the same amount as the one that sent  *)
(* it.  The chain moves first and no file becomes wrong by it              *)
(* (WorldSameKeeps to ExpireKeeperKeeps); then the file follows            *)
(* (RestingKeeps to DropKeeps).                                            *)
(*                                                                         *)
(* A reservation is given back only for an asset that is not on the chain  *)
(* and will not be: an attempt is counted against an asset that could      *)
(* still land only after it did, once, and once is below the limit; and    *)
(* the keeper's clock passes the expiry when nothing can land any more     *)
(* that its file calls pending.  That last fact is SeenInTime, without     *)
(* which tokens are in the vault and in the inventory until it closes.     *)
(***************************************************************************)
EXTENDS KeeperPayout, Sums, FiniteSetTheorems, TLAPS

(* What an activation sends to an empty vault. *)
Sent(i) == IF 0 < Allocated(i) THEN GrossForNet(i, Allocated(i)) ELSE 0

(* The program would still open, fund and activate this asset. *)
CanLand(i) == i \notin refusing /\ ~chainExpired /\ NetAfterTransferFee(i, Sent(i)) >= Allocated(i)

MayLand(i) == i \in flying /\ CanLand(i)

Worthless == {x \in Leaves : ~ShouldAutoPush(x)}

(* An asset on the chain, and what its activation and its payouts moved. *)
ChainOK(i) ==
    /\ onchain[i] = "none" => vault[i] = 0 /\ wallet[i] = Fund[i] /\ claimed \cap LeavesOf(i) = {}
    /\ onchain[i] # "none" => funded[i] = Allocated(i)
    /\ onchain[i] = "active" => /\ vault[i] = Allocated(i) - TokensOf(claimed \cap LeavesOf(i))
                                /\ wallet[i] = Fund[i] - Sent(i)
    /\ onchain[i] = "closed" => vault[i] = 0 /\ chainExpired

(* The chain and its clock, as far as they are not the state file's. *)
WorldOK ==
    /\ clock \in BOOLEAN \X BOOLEAN \X SUBSET Unfundable
    /\ onchain \in [Assets -> {"none", "active", "closed"}]
    /\ funded \in [Assets -> Nat] /\ vault \in [Assets -> Nat] /\ wallet \in [Assets -> Nat]
    /\ claimed \subseteq Leaves /\ flying \subseteq Assets
    /\ \A i \in Assets : ChainOK(i)

(* What a state file, the saved one or the one in memory, says of an asset. *)
PendingOK(m, i) ==
    m.asset[i] = "pending" =>
        /\ m.status = "COMMITTED" /\ m.inventory[i] = 0
        /\ m.attempts[i] < MaxActivationAttempts
        /\ onchain[i] = "none" /\ CanLand(i) => m.attempts[i] = 0
        /\ onchain[i] # "closed"
        /\ chainExpired \/ keeperExpired => onchain[i] = "none"
        /\ keeperExpired => ~MayLand(i)

ActiveOK(m, i) ==
    m.asset[i] = "active" =>
        /\ onchain[i] # "none" /\ m.inventory[i] <= wallet[i]
        /\ onchain[i] = "active" => m.inventory[i] = wallet[i]
        /\ m.status = "complete" => LeavesOf(i) \subseteq claimed \cup m.permanent

GivenUpOK(m, i) ==
    m.asset[i] \in {"abandoned", "released"} =>
        /\ onchain[i] = "none" /\ m.inventory[i] = Fund[i]
        /\ m.asset[i] = "abandoned" => ~CanLand(i)
        /\ m.asset[i] = "released" => m.status = "expired" /\ keeperExpired /\ ~MayLand(i)

ExpiringOK(m, i) == i \notin m.expiring => keeperExpired /\ onchain[i] # "active"

FailuresOK(m) ==
    /\ ~chainExpired => m.permanent \subseteq Frozen \cup Worthless
    /\ \A x \in Leaves \ m.permanent : m.failed[x] < MaxPushAttempts

AssetOK(m, i) == PendingOK(m, i) /\ ActiveOK(m, i) /\ GivenUpOK(m, i) /\ ExpiringOK(m, i)

FileOK(m) ==
    /\ m \in KeeperState
    /\ \A i \in Assets : AssetOK(m, i)
    /\ FailuresOK(m)

(* Memory and disk. *)
FilesAgree ==
    /\ pc = "idle" => mem = disk
    /\ pc # "pushing" => queue = {}
    /\ \A i \in Assets : disk.asset[i] \in {mem.asset[i], "pending"}

(* A close that the keeper knows of is booked in memory, and on the disk or about to be. *)
CloseOK(i) ==
    onchain[i] = "closed" /\ i \notin missed =>
        /\ i \notin mem.expiring /\ mem.inventory[i] = wallet[i]
        /\ i \in disk.expiring => pc = "saving"
        /\ i \notin disk.expiring => disk.inventory[i] = wallet[i]

(* What is still to be pushed in this step. *)
PartOK(p) ==
    /\ p.asset \in Assets /\ p.first \in Nat /\ p.size \in Nat
    /\ p.plan # {} /\ p.plan \subseteq LeavesOf(p.asset) /\ p.plan \cap mem.permanent = {}
    /\ mem.asset[p.asset] = "active"

QueueOK ==
    /\ \A p \in queue : PartOK(p)
    /\ \A p, q \in queue : p # q => p.plan \cap q.plan = {}

StepOK ==
    /\ missed \subseteq Assets /\ faults \in 0 .. MaxFaults
    /\ pc \in {"idle", "pushing", "saving"}

IInv ==
    /\ WorldOK
    /\ \A i \in Assets : CloseOK(i)
    /\ FileOK(mem) /\ FileOK(disk)
    /\ FilesAgree
    /\ QueueOK
    /\ StepOK

----------------------------------------------------------------------------
(* Transfer fees. *)

(* A fee never exceeds what is sent, and more is never withheld of less. *)
LEMMA FeeGrows ==
    ASSUME NEW p \in 0 .. 99, NEW g \in Nat, NEW h \in Nat, g <= h
    PROVE  /\ (g * p + 99) \div 100 \in 0 .. g
           /\ (g * p + 99) \div 100 <= (h * p + 99) \div 100
<1>1. PICK d \in Nat : h = g + d
  <2>1. h - g \in Nat /\ h = g + (h - g)
    OBVIOUS
  <2>2. QED
    BY <2>1
<1>2. PICK a \in Nat : a = g * p
  BY SMT
<1>3. PICK b \in Nat : b = d * p
  BY SMT
<1>4. h * p = a + b
  BY <1>1, <1>2, <1>3, SMT
<1>5. a <= 99 * g
  BY <1>2, SMT
<1>6. QED
  BY <1>2, <1>4, <1>5, SMT

(* What arrives of a number is a number, no larger; and of more arrives more, by at most the difference. *)
LEMMA NetGrows ==
    ASSUME PayoutAssumption, NEW i \in Assets, NEW g \in Nat, NEW h \in Nat, g <= h
    PROVE  /\ NetAfterTransferFee(i, g) \in 0 .. g
           /\ NetAfterTransferFee(i, h) \in Nat
           /\ NetAfterTransferFee(i, h) - NetAfterTransferFee(i, g) <= h - g
<1>1. FeePercent[i] \in 0 .. 99
  BY DEF PayoutAssumption
<1>2. PICK f \in 0 .. g : f = (g * FeePercent[i] + 99) \div 100
  BY <1>1, FeeGrows
<1>3. PICK e \in 0 .. h : e = (h * FeePercent[i] + 99) \div 100
  <2>1. h <= h
    OBVIOUS
  <2>2. (h * FeePercent[i] + 99) \div 100 \in 0 .. h
    BY <1>1, <2>1, FeeGrows
  <2>3. QED
    BY <2>2
<1>4. f <= e
  BY <1>1, <1>2, <1>3, FeeGrows
<1>5. NetAfterTransferFee(i, g) = g - f /\ NetAfterTransferFee(i, h) = h - e
  BY <1>2, <1>3 DEF NetAfterTransferFee
<1>6. QED
  BY <1>4, <1>5

(* One correction of grossForNet. *)
Correct(i, net, sent) ==
    IF NetAfterTransferFee(i, sent) >= net THEN sent ELSE sent + net - NetAfterTransferFee(i, sent)

(* A first guess of what to send, which is never too much. *)
Guess(i, net, sent) ==
    /\ sent \in Nat /\ net <= sent
    /\ NetAfterTransferFee(i, sent) <= net
    /\ \A h \in Nat : NetAfterTransferFee(i, h) >= net => sent <= h

(* A correction leaves the guess one that is never too much. *)
LEMMA CorrectGuess ==
    ASSUME PayoutAssumption, NEW i \in Assets, NEW net \in Nat, NEW sent, Guess(i, net, sent)
    PROVE  Guess(i, net, Correct(i, net, sent))
<1>1. sent \in Nat /\ net <= sent
  BY DEF Guess
<1>2. PICK n \in Nat : n = NetAfterTransferFee(i, sent) /\ n <= net
  BY <1>1, NetGrows DEF Guess
<1>3. CASE n >= net
  BY <1>2, <1>3 DEF Correct
<1>4. CASE n < net
  <2>1. PICK c \in Nat : c = sent + net - n /\ c >= sent
    BY <1>1, <1>2, <1>4
  <2>2. Correct(i, net, sent) = c
    BY <1>2, <1>4, <2>1 DEF Correct
  <2>3. NetAfterTransferFee(i, c) \in Nat /\ NetAfterTransferFee(i, c) - n <= c - sent
    BY ONLY PayoutAssumption, i \in Assets, <1>1, <1>2, <2>1, NetGrows
  <2>4. NetAfterTransferFee(i, c) <= net
    BY <1>1, <1>2, <2>1, <2>3
  <2>5. ASSUME NEW h \in Nat, NetAfterTransferFee(i, h) >= net
        PROVE  c <= h
    <3>1. sent <= h
      BY <2>5 DEF Guess
    <3>2. PICK k \in Nat : k = NetAfterTransferFee(i, h) /\ k - n <= h - sent
      BY ONLY PayoutAssumption, i \in Assets, h \in Nat, <1>1, <1>2, <3>1, NetGrows
    <3>3. k >= net
      BY <2>5, <3>2
    <3>4. QED
      BY ONLY net \in Nat, h \in Nat, k \in Nat, n \in Nat, c \in Nat, <1>1, <2>1, <3>2, <3>3
  <2>6. QED
    BY <1>1, <2>1, <2>2, <2>4, <2>5 DEF Guess
<1>5. QED
  BY <1>2, <1>3, <1>4

IsGross(g, i, net, m) ==
    g = [k \in 0 .. m |->
            IF k = 0 THEN net
            ELSE IF NetAfterTransferFee(i, g[k - 1]) >= net THEN g[k - 1]
                 ELSE g[k - 1] + net - NetAfterTransferFee(i, g[k - 1])]

(* The corrections exist, for any number of them. *)
LEMMA GrossExists ==
    ASSUME NEW i, NEW net
    PROVE  \A m \in Nat : \E g : IsGross(g, i, net, m)
<1> DEFINE F == {m \in Nat : \E g : IsGross(g, i, net, m)}
<1>1. 0 \in F
  <2>1. IsGross([k \in 0 .. 0 |-> net], i, net, 0)
    BY DEF IsGross
  <2>2. QED
    BY <2>1
<1>2. ASSUME NEW m \in Nat, m \in F
      PROVE  m + 1 \in F
  <2>1. PICK g : IsGross(g, i, net, m)
    BY <1>2
  <2> DEFINE h == [k \in 0 .. m + 1 |-> IF k <= m THEN g[k] ELSE Correct(i, net, g[m])]
  <2>2. \A k \in 0 .. m : h[k] = g[k]
    OBVIOUS
  <2>3. h[0] = net
    BY <2>1, <2>2 DEF IsGross
  <2>4. ASSUME NEW k \in 0 .. m + 1, k # 0
        PROVE  h[k] = Correct(i, net, h[k - 1])
    <3>1. k - 1 \in 0 .. m /\ h[k - 1] = g[k - 1]
      BY <2>2, <2>4
    <3>2. CASE k <= m
      <4>1. k \in 0 .. m /\ h[k] = g[k]
        BY <2>2, <3>2
      <4>2. g[k] = Correct(i, net, g[k - 1])
        BY <2>1, <2>4, <4>1 DEF IsGross, Correct
      <4>3. QED
        BY <3>1, <4>1, <4>2
    <3>3. CASE k = m + 1
      <4>1. h[k] = Correct(i, net, g[m]) /\ k - 1 = m
        BY <3>3
      <4>2. QED
        BY <3>1, <4>1
    <3>4. QED
      BY <3>2, <3>3
  <2>5. h = [k \in 0 .. m + 1 |-> IF k = 0 THEN net ELSE Correct(i, net, h[k - 1])]
    <3>1. \A k \in 0 .. m + 1 : h[k] = IF k = 0 THEN net ELSE Correct(i, net, h[k - 1])
      BY <2>3, <2>4
    <3>2. h = [k \in 0 .. m + 1 |-> h[k]]
      OBVIOUS
    <3> HIDE DEF h
    <3>3. QED
      BY <3>1, <3>2
  <2>6. IsGross(h, i, net, m + 1)
    <3> HIDE DEF h
    <3>1. QED
      BY <2>5 DEF IsGross, Correct
  <2>7. QED
    BY <2>6
<1>3. Nat \subseteq F
  <2> HIDE DEF F
  <2>1. QED
    BY <1>1, <1>2, NaturalInduction
<1>4. QED
  BY <1>3

Corrected(i, net) == CHOOSE g : IsGross(g, i, net, GrossTries)

(* What grossForNet sends never brings more than asked for, and nothing smaller would do. *)
LEMMA GrossIsGuess ==
    ASSUME PayoutAssumption, NEW i \in Assets, NEW net \in 0 .. Fund[i]
    PROVE  Guess(i, net, GrossForNet(i, net))
<1>1. GrossTries \in Nat /\ net \in Nat
  BY DEF PayoutAssumption
<1>2. GrossForNet(i, net) = Corrected(i, net)[GrossTries]
  BY DEF GrossForNet, Gross, Corrected, IsGross
<1>3. IsGross(Corrected(i, net), i, net, GrossTries)
  BY <1>1, GrossExists DEF Corrected
<1> DEFINE g == Corrected(i, net)
           F == {k \in Nat : k <= GrossTries => Guess(i, net, g[k])}
<1>4. 0 \in F
  <2>1. g[0] = net
    BY <1>1, <1>3 DEF IsGross
  <2>2. NetAfterTransferFee(i, net) <= net
    BY <1>1, NetGrows
  <2>3. \A h \in Nat : NetAfterTransferFee(i, h) >= net => net <= h
    <3>1. ASSUME NEW h \in Nat, NetAfterTransferFee(i, h) >= net
          PROVE  net <= h
      <4>1. NetAfterTransferFee(i, h) \in 0 .. h
        <5>1. h <= h
          OBVIOUS
        <5>2. QED
          BY <5>1, NetGrows
      <4>2. QED
        BY <1>1, <3>1, <4>1
    <3>2. QED
      BY <3>1
  <2>4. Guess(i, net, net)
    BY <1>1, <2>2, <2>3 DEF Guess
  <2>5. QED
    BY <2>1, <2>4
<1>5. ASSUME NEW k \in Nat, k \in F
      PROVE  k + 1 \in F
  <2>1. CASE k + 1 <= GrossTries
    <3>1. k + 1 \in 0 .. GrossTries /\ k + 1 # 0 /\ k <= GrossTries /\ (k + 1) - 1 = k
      BY <1>1, <2>1
    <3>2. g[k + 1] = Correct(i, net, g[k])
      BY <1>3, <3>1 DEF IsGross, Correct
    <3>3. Guess(i, net, g[k])
      BY <1>5, <3>1
    <3> HIDE DEF g
    <3>4. QED
      BY <1>1, <3>2, <3>3, CorrectGuess
  <2>2. QED
    BY <2>1
<1>6. Nat \subseteq F
  <2> HIDE DEF F
  <2>1. QED
    BY <1>4, <1>5, NaturalInduction
<1>7. GrossTries \in F
  BY <1>1, <1>6
<1>8. Guess(i, net, g[GrossTries])
  BY <1>1, <1>7
<1>9. QED
  BY <1>2, <1>8

----------------------------------------------------------------------------
(* Leaves and their tokens. *)

AmountOf == [x \in Leaves |-> Amount(x)]

(* The leaves of an asset are finitely many, each of some tokens. *)
LEMMA LeavesAre ==
    ASSUME PayoutAssumption, NEW i \in Assets
    PROVE  /\ LeavesOf(i) = {i} \X (0 .. Len(LeafAmounts[i]) - 1)
           /\ IsFiniteSet(LeavesOf(i)) /\ LeavesOf(i) \subseteq Leaves
           /\ \A x \in LeavesOf(i) : x[1] = i /\ x[2] \in Nat /\ Amount(x) \in Nat
<1>1. LeafAmounts[i] \in Seq(Nat \ {0}) /\ Len(LeafAmounts[i]) \in Nat
  BY DEF PayoutAssumption
<1> DEFINE R == 0 .. Len(LeafAmounts[i]) - 1
<1>2. LeavesOf(i) = {i} \X R
  BY DEF LeavesOf, Leaves
<1>3. IsFiniteSet(R)
  <2>1. 0 \in Int /\ Len(LeafAmounts[i]) - 1 \in Int
    BY <1>1
  <2>2. QED
    BY <2>1, FS_Interval
<1>4. IsFiniteSet({i} \X R)
  <2>1. IsFiniteSet({i})
    BY FS_Singleton
  <2> HIDE DEF R
  <2>2. QED
    BY <1>3, <2>1, FS_Product
<1>5. ASSUME NEW x \in LeavesOf(i)
      PROVE  x[1] = i /\ x[2] \in Nat /\ Amount(x) \in Nat
  <2>1. x[1] = i /\ x[2] \in R
    BY <1>2
  <2>2. x[2] \in Nat /\ x[2] + 1 \in 1 .. Len(LeafAmounts[i])
    BY <1>1, <2>1
  <2>3. LeafAmounts[i][x[2] + 1] \in Nat \ {0}
    BY <1>1, <2>2
  <2>4. QED
    BY <2>1, <2>2, <2>3 DEF Amount
<1>6. LeavesOf(i) \subseteq Leaves
  BY DEF LeavesOf
<1>7. QED
  BY <1>2, <1>4, <1>5, <1>6

(* A leaf belongs to its asset. *)
LEMMA LeafIs ==
    ASSUME PayoutAssumption, NEW x \in Leaves
    PROVE  x[1] \in Assets /\ x \in LeavesOf(x[1]) /\ x[2] \in Nat /\ Amount(x) \in Nat
<1>1. PICK i \in Assets : x \in {i} \X (0 .. Len(LeafAmounts[i]) - 1)
  BY DEF Leaves
<1>2. x \in LeavesOf(i) /\ x[1] = i
  BY <1>1, LeavesAre
<1>3. QED
  BY <1>2, LeavesAre

(* The tokens of some leaves are a sum over them. *)
LEMMA TokensAreSum ==
    ASSUME NEW xs, xs \subseteq Leaves, IsFiniteSet(xs)
    PROVE  TokensOf(xs) = SumFunctionOnSet(AmountOf, xs)
<1> DEFINE f == [x \in xs |-> Amount(x)]
<1>1. TokensOf(xs) = SumFunctionOnSet(f, xs)
  BY DEF TokensOf, SumFunction
<1>2. \A x \in xs : f[x] = AmountOf[x]
  BY DEF AmountOf
<1> HIDE DEF f
<1>3. SumFunctionOnSet(f, xs) = SumFunctionOnSet(AmountOf, xs)
  BY <1>2, SumSame
<1>4. QED
  BY <1>1, <1>3

(* Leaves of one asset come to a number of tokens, no more than all of them. *)
LEMMA TokensOfSome ==
    ASSUME PayoutAssumption, NEW i \in Assets, NEW xs, xs \subseteq LeavesOf(i)
    PROVE  /\ TokensOf(xs) \in Nat /\ TokensOf(xs) <= Allocated(i)
           /\ Allocated(i) \in Nat
<1>1. IsFiniteSet(LeavesOf(i)) /\ IsFiniteSet(xs) /\ xs \subseteq Leaves /\ LeavesOf(i) \subseteq Leaves
  BY LeavesAre, FS_Subset
<1>2. \A x \in LeavesOf(i) : AmountOf[x] \in Nat
  BY <1>1, LeavesAre DEF AmountOf
<1>3. /\ TokensOf(xs) = SumFunctionOnSet(AmountOf, xs)
      /\ Allocated(i) = SumFunctionOnSet(AmountOf, LeavesOf(i))
  BY <1>1, TokensAreSum DEF Allocated
<1>4. SumFunctionOnSet(AmountOf, xs) \in Nat /\ SumFunctionOnSet(AmountOf, LeavesOf(i)) \in Nat
  BY <1>1, <1>2, SumNat
<1>5. SumFunctionOnSet(AmountOf, xs) <= SumFunctionOnSet(AmountOf, LeavesOf(i))
  BY <1>1, <1>2, SumPart
<1>6. QED
  BY <1>3, <1>4, <1>5

(* No leaves, no tokens. *)
LEMMA NoTokens == TokensOf({}) = 0
<1>1. TokensOf({}) = SumFunctionOnSet([x \in {} |-> Amount(x)], {})
  BY DEF TokensOf, SumFunction
<1>2. QED
  BY <1>1, SumEmpty

(* Leaves not yet counted add their tokens. *)
LEMMA MoreTokens ==
    ASSUME PayoutAssumption, NEW i \in Assets, NEW xs, NEW ys, xs \subseteq LeavesOf(i), ys \subseteq LeavesOf(i),
           xs \cap ys = {}
    PROVE  TokensOf(xs \cup ys) = TokensOf(xs) + TokensOf(ys)
<1>1. /\ IsFiniteSet(xs) /\ IsFiniteSet(ys) /\ IsFiniteSet(xs \cup ys)
      /\ xs \subseteq Leaves /\ ys \subseteq Leaves
  <2>1. IsFiniteSet(LeavesOf(i)) /\ LeavesOf(i) \subseteq Leaves /\ xs \cup ys \subseteq LeavesOf(i)
    BY LeavesAre
  <2>2. QED
    BY <2>1, FS_Subset
<1>2. \A x \in xs \cup ys : AmountOf[x] \in Int
  <2>1. \A x \in Leaves : AmountOf[x] \in Nat
    BY LeafIs DEF AmountOf
  <2>2. QED
    BY <1>1, <2>1
<1>3. SumFunctionOnSet(AmountOf, xs \cup ys) = SumFunctionOnSet(AmountOf, xs) + SumFunctionOnSet(AmountOf, ys)
  BY <1>1, <1>2, SumUnion
<1>4. QED
  BY <1>1, <1>3, TokensAreSum

----------------------------------------------------------------------------
(* What activating an asset moves. *)

(* What is sent comes out of the reservation, and brings at most what the tree allocates. *)
LEMMA SentIs ==
    ASSUME PayoutAssumption, TreeAssumption, NEW i \in Assets
    PROVE  /\ Fund[i] \in Nat /\ Allocated(i) \in 0 .. Fund[i]
           /\ GrossForNet(i, Allocated(i)) = Sent(i)
           /\ Sent(i) \in 0 .. Fund[i]
           /\ NetAfterTransferFee(i, Sent(i)) \in 0 .. Allocated(i)
<1>1. Fund[i] \in Nat /\ Allocated(i) \in Nat /\ Fund[i] <= Fund[i]
  <2>1. Fund[i] \in Nat
    BY DEF PayoutAssumption
  <2>2. {} \subseteq LeavesOf(i)
    OBVIOUS
  <2>3. Allocated(i) \in Nat
    BY <2>2, TokensOfSome
  <2>4. QED
    BY <2>1, <2>3
<1>2. /\ NetAfterTransferFee(i, Fund[i]) \in 0 .. Fund[i]
      /\ Allocated(i) <= NetAfterTransferFee(i, Fund[i])
  BY <1>1, NetGrows DEF TreeAssumption
<1>3. Allocated(i) \in 0 .. Fund[i]
  BY <1>1, <1>2
<1>4. PICK s : s = GrossForNet(i, Allocated(i))
  OBVIOUS
<1>5. Guess(i, Allocated(i), s)
  BY <1>3, <1>4, GrossIsGuess
<1>6. s \in Nat /\ s <= Fund[i] /\ NetAfterTransferFee(i, s) <= Allocated(i)
  BY <1>1, <1>2, <1>5 DEF Guess
<1>7. NetAfterTransferFee(i, s) \in Nat
  <2>1. s <= s
    BY <1>6
  <2>2. NetAfterTransferFee(i, s) \in 0 .. s
    BY <1>6, <2>1, NetGrows
  <2>3. QED
    BY <1>6, <2>2
<1>8. Allocated(i) = 0 => s = 0
  <2>1. SUFFICES ASSUME Allocated(i) = 0
                 PROVE  s = 0
    OBVIOUS
  <2>2. 0 <= 0 /\ 0 \in Nat
    OBVIOUS
  <2>3. NetAfterTransferFee(i, 0) \in 0 .. 0
    BY <2>2, NetGrows
  <2>4. s <= 0
    BY <1>5, <2>1, <2>3 DEF Guess
  <2>5. QED
    BY <1>6, <2>4
<1>9. s = Sent(i)
  BY <1>1, <1>4, <1>8 DEF Sent
<1>10. QED
  BY <1>1, <1>3, <1>4, <1>6, <1>7, <1>9

(* With its vault empty, an asset can be activated if the program would still land it. *)
LEMMA ActivatingEmpty ==
    ASSUME PayoutAssumption, TreeAssumption, NEW i \in Assets, onchain[i] = "none", vault[i] = 0, wallet[i] = Fund[i]
    PROVE  /\ Lacking(i) = Sent(i)
           /\ CanActivate(i) <=> CanLand(i)
<1>1. Fund[i] \in Nat /\ Allocated(i) \in Nat /\ Sent(i) \in Nat /\ Sent(i) <= Fund[i]
  BY SentIs
<1>2. Lacking(i) = Sent(i)
  BY <1>1 DEF Lacking, Sent
<1>3. NetAfterTransferFee(i, Sent(i)) \in Nat
  BY SentIs
<1>4. 0 + NetAfterTransferFee(i, Sent(i)) = NetAfterTransferFee(i, Sent(i))
  BY <1>3
<1>5. QED
  BY <1>1, <1>2, <1>4 DEF CanActivate, CanLand

----------------------------------------------------------------------------
(* The chain moves, and a state file that said nothing wrong still does not. *)

(* The parts of a state file. *)
LEMMA FileTypes ==
    ASSUME PayoutAssumption, NEW m \in KeeperState
    PROVE  /\ m.status \in {"COMMITTED", "ACTIVE", "complete", "expired"}
           /\ \A i \in Assets :
                 /\ m.asset[i] \in {"pending", "active", "abandoned", "released"}
                 /\ m.attempts[i] \in Nat /\ m.attempts[i] <= MaxActivationAttempts
                 /\ m.inventory[i] \in Nat
           /\ \A x \in Leaves : m.failed[x] \in Nat
           /\ m.permanent \subseteq Leaves /\ m.expiring \subseteq Assets
<1>1. MaxActivationAttempts \in Nat /\ MaxPushAttempts \in Nat
  BY DEF PayoutAssumption
<1>2. QED
  BY <1>1 DEF KeeperState

(* Nothing moves but the activations in flight. *)
WorldSame ==
    /\ UNCHANGED <<clock, onchain, funded, vault, wallet, claimed>>
    /\ flying' \in SUBSET Assets
    /\ flying' \subseteq flying \/ ~keeperExpired

(* Nothing a file says depends on an activation in flight before the keeper thinks the round expired. *)
LEMMA WorldSameKeeps ==
    ASSUME WorldOK, WorldSame
    PROVE  WorldOK' /\ \A m : FileOK(m) => FileOK(m)'
<1>1. WorldOK'
  BY DEF WorldOK, WorldSame, ChainOK, clock
<1>2. ASSUME NEW m, FileOK(m)
      PROVE  FileOK(m)'
  <2>1. m \in KeeperState
    BY <1>2 DEF FileOK
  <2>2. FailuresOK(m)'
    BY <1>2 DEF FileOK, FailuresOK, WorldSame, clock
  <2>3. ASSUME NEW i \in Assets
        PROVE  AssetOK(m, i)'
    <3>1. AssetOK(m, i)
      BY <1>2 DEF FileOK
    <3>2. CanLand(i)' <=> CanLand(i)
      BY DEF WorldSame, CanLand, clock
    <3>3. keeperExpired => (MayLand(i)' => MayLand(i))
      BY <3>2 DEF WorldSame, MayLand
    <3>4. /\ keeperExpired' = keeperExpired /\ chainExpired' = chainExpired
          /\ onchain' = onchain /\ wallet' = wallet /\ claimed' = claimed
      BY DEF WorldSame, clock
    <3>5. PendingOK(m, i)'
      BY <3>1, <3>2, <3>3, <3>4 DEF AssetOK, PendingOK
    <3>6. ActiveOK(m, i)' /\ ExpiringOK(m, i)'
      BY <3>1, <3>4 DEF AssetOK, ActiveOK, ExpiringOK
    <3>7. GivenUpOK(m, i)'
      BY <3>1, <3>2, <3>3, <3>4 DEF AssetOK, GivenUpOK
    <3>8. QED
      BY <3>5, <3>6, <3>7 DEF AssetOK
  <2>4. QED
    BY <2>1, <2>2, <2>3 DEF FileOK
<1>3. QED
  BY <1>1, <1>2

(* An activation lands: what arrived is what the tree allocates, and the wallet lacks what was sent for it. *)
LEMMA LandingKeeps ==
    ASSUME PayoutAssumption, TreeAssumption, WorldOK, NEW i \in Assets,
           ActivationLands(i), CanActivate(i), UNCHANGED clock, i \in flying \/ ~keeperExpired
    PROVE  /\ WorldOK'
           /\ \A m : FileOK(m) => FileOK(m)'
           /\ onchain[i] = "none" /\ CanLand(i) /\ Lacking(i) = Sent(i)
           /\ onchain' = [onchain EXCEPT ![i] = "active"]
           /\ wallet' = [wallet EXCEPT ![i] = Fund[i] - Sent(i)]
<1>1. onchain[i] = "none" /\ ~chainExpired
  BY DEF CanActivate
<1>2. ChainOK(i)
  BY DEF WorldOK
<1>3. vault[i] = 0 /\ wallet[i] = Fund[i] /\ claimed \cap LeavesOf(i) = {}
  BY <1>1, <1>2 DEF ChainOK
<1>4. Lacking(i) = Sent(i) /\ CanLand(i)
  BY <1>1, <1>3, ActivatingEmpty
<1>5. /\ Fund[i] \in Nat /\ Sent(i) \in 0 .. Fund[i] /\ Allocated(i) \in 0 .. Fund[i]
      /\ NetAfterTransferFee(i, Sent(i)) \in 0 .. Allocated(i)
  BY SentIs
<1>6. PICK n \in 0 .. Allocated(i) : n = NetAfterTransferFee(i, Sent(i))
  BY <1>5
<1>7. n >= Allocated(i)
  BY <1>4, <1>6 DEF CanLand
<1>8. vault[i] + NetAfterTransferFee(i, Lacking(i)) = Allocated(i)
  BY <1>3, <1>4, <1>5, <1>6, <1>7
<1>9. /\ onchain' = [onchain EXCEPT ![i] = "active"]
      /\ funded' = [funded EXCEPT ![i] = Allocated(i)]
      /\ vault' = [vault EXCEPT ![i] = Allocated(i)]
      /\ wallet' = [wallet EXCEPT ![i] = Fund[i] - Sent(i)]
      /\ flying' = flying \ {i} /\ claimed' = claimed
  BY <1>3, <1>4, <1>8 DEF ActivationLands
<1>10. Fund[i] - Sent(i) \in Nat /\ Allocated(i) \in Nat
  BY <1>5
<1>11. TokensOf(claimed \cap LeavesOf(i)) = 0
  BY <1>3, NoTokens
<1>12. WorldOK'
  <2>1. ASSUME NEW j \in Assets
        PROVE  ChainOK(j)'
    <3>1. CASE j = i
      <4>1. /\ onchain'[i] = "active" /\ funded'[i] = Allocated(i)
            /\ vault'[i] = Allocated(i) /\ wallet'[i] = Fund[i] - Sent(i)
        BY <1>9 DEF WorldOK
      <4>2. vault'[i] = Allocated(i) - TokensOf(claimed \cap LeavesOf(i))
        BY <4>1, <1>10, <1>11
      <4>3. QED
        BY <3>1, <4>1, <4>2, <1>9 DEF ChainOK
    <3>2. CASE j # i
      <4>1. onchain'[j] = onchain[j] /\ funded'[j] = funded[j] /\ vault'[j] = vault[j] /\ wallet'[j] = wallet[j]
        BY <1>9, <3>2 DEF WorldOK
      <4>2. ChainOK(j) /\ claimed' = claimed /\ chainExpired' = chainExpired
        BY <1>9 DEF WorldOK, clock
      <4>3. QED
        BY <4>1, <4>2 DEF ChainOK
    <3>3. QED
      BY <3>1, <3>2
  <2>2. clock' \in BOOLEAN \X BOOLEAN \X SUBSET Unfundable
    BY DEF WorldOK
  <2>3. /\ onchain' \in [Assets -> {"none", "active", "closed"}]
        /\ funded' \in [Assets -> Nat] /\ vault' \in [Assets -> Nat] /\ wallet' \in [Assets -> Nat]
        /\ claimed' \subseteq Leaves /\ flying' \subseteq Assets
    BY <1>9, <1>10 DEF WorldOK
  <2>4. QED
    BY <2>1, <2>2, <2>3 DEF WorldOK
<1>13. ASSUME NEW m, FileOK(m)
       PROVE  FileOK(m)'
  <2>1. m \in KeeperState
    BY <1>13 DEF FileOK
  <2>2. FailuresOK(m)'
    BY <1>13 DEF FileOK, FailuresOK, clock
  <2>3. ASSUME NEW j \in Assets
        PROVE  AssetOK(m, j)'
    <3>1. AssetOK(m, j)
      BY <1>13 DEF FileOK
    <3>2. CanLand(j)' <=> CanLand(j)
      BY DEF CanLand, clock
    <3>3. MayLand(j)' => MayLand(j)
      BY <3>2, <1>9 DEF MayLand
    <3>4. keeperExpired' = keeperExpired /\ chainExpired' = chainExpired /\ claimed' = claimed
      BY <1>9 DEF clock
    <3>5. CASE j # i
      <4>1. onchain'[j] = onchain[j] /\ wallet'[j] = wallet[j]
        BY <1>9, <3>5 DEF WorldOK
      <4>2. PendingOK(m, j)'
        BY <3>1, <3>2, <3>3, <3>4, <4>1 DEF AssetOK, PendingOK
      <4>3. ActiveOK(m, j)' /\ ExpiringOK(m, j)'
        BY <3>1, <3>4, <4>1 DEF AssetOK, ActiveOK, ExpiringOK
      <4>4. GivenUpOK(m, j)'
        BY <3>1, <3>2, <3>3, <3>4, <4>1 DEF AssetOK, GivenUpOK
      <4>5. QED
        BY <4>2, <4>3, <4>4 DEF AssetOK
    <3>6. CASE j = i
      <4>1. onchain'[i] = "active"
        BY <1>9 DEF WorldOK
      <4>2. i \in flying => MayLand(i)
        BY <1>4 DEF MayLand
      <4>3. m.asset[i] = "pending"
        <5>1. m.asset[i] # "active"
          BY <3>1, <3>6, <1>1 DEF AssetOK, ActiveOK
        <5>2. m.asset[i] \notin {"abandoned", "released"}
          BY <3>1, <3>6, <1>4, <4>2 DEF AssetOK, GivenUpOK
        <5>3. QED
          BY <5>1, <5>2, <2>1, FileTypes
      <4>4. ~keeperExpired /\ i \in m.expiring
        BY <3>1, <3>6, <4>2, <4>3 DEF AssetOK, PendingOK, ExpiringOK
      <4>5. PendingOK(m, i)'
        BY <3>1, <3>4, <3>6, <4>1, <4>3, <4>4, <1>1 DEF AssetOK, PendingOK
      <4>6. ActiveOK(m, i)' /\ GivenUpOK(m, i)' /\ ExpiringOK(m, i)'
        BY <4>3, <4>4 DEF ActiveOK, GivenUpOK, ExpiringOK
      <4>7. QED
        BY <3>6, <4>5, <4>6 DEF AssetOK
    <3>7. QED
      BY <3>5, <3>6
  <2>4. QED
    BY <2>1, <2>2, <2>3 DEF FileOK
<1>14. QED
  BY <1>1, <1>4, <1>9, <1>12, <1>13

(* Payouts land: the vault loses what their leaves are worth, once each. *)
LEMMA PayKeeps ==
    ASSUME PayoutAssumption, WorldOK, NEW i \in Assets, NEW xs, xs \subseteq LeavesOf(i),
           onchain[i] = "active", Pay(xs), UNCHANGED clock
    PROVE  WorldOK' /\ \A m : FileOK(m) => FileOK(m)'
<1>1. /\ claimed' = claimed \cup xs
      /\ onchain' = onchain /\ funded' = funded /\ wallet' = wallet /\ flying' = flying
      /\ keeperExpired' = keeperExpired /\ chainExpired' = chainExpired /\ refusing' = refusing
  BY DEF Pay, clock
<1>2. \A j \in Assets : vault'[j] = vault[j] - TokensOf({x \in xs \ claimed : x[1] = j})
  BY DEF Pay
<1>3. \A x \in xs : x[1] = i
  BY LeavesAre
<1>4. claimed' \subseteq Leaves
  <2>1. xs \subseteq Leaves
    BY LeavesAre
  <2>2. QED
    BY <1>1, <2>1 DEF WorldOK
<1>5. ASSUME NEW j \in Assets, j # i
      PROVE  vault'[j] = vault[j] /\ claimed' \cap LeavesOf(j) = claimed \cap LeavesOf(j)
  <2>1. {x \in xs \ claimed : x[1] = j} = {}
    BY <1>3, <1>5
  <2>2. vault[j] \in Nat
    BY DEF WorldOK
  <2>3. vault'[j] = vault[j] - 0
    BY <1>2, <2>1, NoTokens
  <2>4. xs \cap LeavesOf(j) = {}
    BY <1>3, <1>5, LeavesAre
  <2>5. QED
    BY <1>1, <2>2, <2>3, <2>4
<1>6. vault'[i] = Allocated(i) - TokensOf(claimed' \cap LeavesOf(i)) /\ vault'[i] \in Nat
  <2> DEFINE old == claimed \cap LeavesOf(i)
             new == xs \ claimed
  <2>1. {x \in xs \ claimed : x[1] = i} = new
    BY <1>3
  <2>2. vault[i] = Allocated(i) - TokensOf(old)
    BY DEF WorldOK, ChainOK
  <2>3. vault'[i] = vault[i] - TokensOf(new)
    BY <1>2, <2>1
  <2>4. claimed' \cap LeavesOf(i) = old \cup new
    BY <1>1
  <2>5. old \subseteq LeavesOf(i) /\ new \subseteq LeavesOf(i) /\ old \cap new = {}
    OBVIOUS
  <2>6. old \cup new \subseteq LeavesOf(i)
    OBVIOUS
  <2> HIDE DEF old, new
  <2>7. TokensOf(old \cup new) = TokensOf(old) + TokensOf(new)
    BY ONLY PayoutAssumption, i \in Assets, <2>5, MoreTokens
  <2>8. TokensOf(old) \in Nat /\ TokensOf(new) \in Nat
    BY <2>5, TokensOfSome
  <2>9. TokensOf(old \cup new) \in Nat /\ TokensOf(old \cup new) <= Allocated(i) /\ Allocated(i) \in Nat
    BY <2>6, TokensOfSome
  <2>10. PICK a \in Nat, b \in Nat, c \in Nat, d \in Nat :
             a = TokensOf(old) /\ b = TokensOf(new) /\ c = Allocated(i) /\ d = TokensOf(old \cup new)
    BY <2>8, <2>9
  <2>11. vault'[i] = c - d /\ c - d \in Nat
    <3>1. d = a + b /\ d <= c /\ vault[i] = c - a /\ vault'[i] = vault[i] - b
      BY <2>2, <2>3, <2>7, <2>9, <2>10
    <3>2. QED
      BY <3>1
  <2>12. QED
    BY <2>4, <2>10, <2>11
<1>7. WorldOK'
  <2>1. ASSUME NEW j \in Assets
        PROVE  ChainOK(j)' /\ vault'[j] \in Nat
    <3>1. ChainOK(j) /\ vault[j] \in Nat
      BY DEF WorldOK
    <3>2. CASE j = i
      BY <1>1, <1>6, <3>1, <3>2 DEF ChainOK
    <3>3. CASE j # i
      <4>1. vault'[j] = vault[j] /\ claimed' \cap LeavesOf(j) = claimed \cap LeavesOf(j)
        BY <1>5, <3>3
      <4>2. QED
        BY <1>1, <3>1, <4>1 DEF ChainOK
    <3>4. QED
      BY <3>2, <3>3
  <2>2. vault' = [j \in Assets |-> vault'[j]]
    BY DEF Pay
  <2>3. vault' \in [Assets -> Nat]
    BY <2>1, <2>2
  <2>4. clock' \in BOOLEAN \X BOOLEAN \X SUBSET Unfundable
    BY DEF WorldOK
  <2>5. QED
    BY <1>1, <1>4, <2>1, <2>3, <2>4 DEF WorldOK
<1>8. ASSUME NEW m, FileOK(m)
      PROVE  FileOK(m)'
  <2>1. m \in KeeperState
    BY <1>8 DEF FileOK
  <2>2. FailuresOK(m)'
    BY <1>8, <1>1 DEF FileOK, FailuresOK
  <2>3. ASSUME NEW j \in Assets
        PROVE  AssetOK(m, j)'
    <3>1. AssetOK(m, j)
      BY <1>8 DEF FileOK
    <3>2. (CanLand(j)' <=> CanLand(j)) /\ (MayLand(j)' <=> MayLand(j))
      BY <1>1 DEF CanLand, MayLand
    <3>3. PendingOK(m, j)'
      BY <3>1, <3>2, <1>1 DEF AssetOK, PendingOK
    <3>4. ActiveOK(m, j)' /\ ExpiringOK(m, j)'
      BY <3>1, <1>1 DEF AssetOK, ActiveOK, ExpiringOK
    <3>5. GivenUpOK(m, j)'
      BY <3>1, <3>2, <1>1 DEF AssetOK, GivenUpOK
    <3>6. QED
      BY <3>3, <3>4, <3>5 DEF AssetOK
  <2>4. QED
    BY <2>1, <2>2, <2>3 DEF FileOK
<1>9. QED
  BY <1>7, <1>8

(* An asset is closed: what was left in its vault is back in the wallet, less the fee. *)
LEMMA CloseKeeps ==
    ASSUME PayoutAssumption, WorldOK, NEW i \in Assets, CloseLands(i), UNCHANGED clock
    PROVE  /\ WorldOK'
           /\ onchain' = [onchain EXCEPT ![i] = "closed"]
           /\ wallet' = [wallet EXCEPT ![i] = @ + NetAfterTransferFee(i, vault[i])]
           /\ NetAfterTransferFee(i, vault[i]) \in Nat
           /\ \A m : FileOK(m) => FileOK(m)' /\ m.asset[i] = "active" /\ m.inventory[i] = wallet[i]
<1>1. /\ onchain[i] = "active" /\ chainExpired
      /\ onchain' = [onchain EXCEPT ![i] = "closed"]
      /\ vault' = [vault EXCEPT ![i] = 0]
      /\ wallet' = [wallet EXCEPT ![i] = @ + NetAfterTransferFee(i, vault[i])]
      /\ funded' = funded /\ claimed' = claimed /\ flying' = flying
      /\ keeperExpired' = keeperExpired /\ chainExpired' = chainExpired /\ refusing' = refusing
  BY DEF CloseLands, clock
<1>2. PICK n \in Nat : n = NetAfterTransferFee(i, vault[i])
  <2>1. vault[i] \in Nat /\ vault[i] <= vault[i]
    BY DEF WorldOK
  <2>2. QED
    BY <2>1, NetGrows
<1>3. /\ onchain'[i] = "closed" /\ vault'[i] = 0 /\ wallet[i] \in Nat /\ wallet'[i] = wallet[i] + n
      /\ \A j \in Assets \ {i} : onchain'[j] = onchain[j] /\ vault'[j] = vault[j] /\ wallet'[j] = wallet[j]
  BY <1>1, <1>2 DEF WorldOK
<1>4. WorldOK'
  <2>1. ASSUME NEW j \in Assets
        PROVE  ChainOK(j)'
    <3>1. ChainOK(j)
      BY DEF WorldOK
    <3>2. CASE j = i
      BY <1>1, <1>3, <3>1, <3>2 DEF ChainOK
    <3>3. CASE j # i
      BY <1>1, <1>3, <3>1, <3>3 DEF ChainOK
    <3>4. QED
      BY <3>2, <3>3
  <2>2. clock' \in BOOLEAN \X BOOLEAN \X SUBSET Unfundable
    BY DEF WorldOK
  <2>3. wallet[i] + n \in Nat
    BY <1>3
  <2>4. /\ onchain' \in [Assets -> {"none", "active", "closed"}]
        /\ funded' \in [Assets -> Nat] /\ vault' \in [Assets -> Nat] /\ wallet' \in [Assets -> Nat]
        /\ claimed' \subseteq Leaves /\ flying' \subseteq Assets
    BY <1>1, <1>2, <2>3 DEF WorldOK
  <2>5. QED
    BY <2>1, <2>2, <2>4 DEF WorldOK
<1>5. ASSUME NEW m, FileOK(m)
      PROVE  FileOK(m)' /\ m.asset[i] = "active" /\ m.inventory[i] = wallet[i]
  <2>1. m \in KeeperState /\ AssetOK(m, i)
    BY <1>5 DEF FileOK
  <2>2. m.asset[i] = "active" /\ m.inventory[i] \in Nat
    BY <2>1, <1>1, FileTypes DEF AssetOK, PendingOK, GivenUpOK
  <2>3. m.inventory[i] = wallet[i]
    BY <2>1, <2>2, <1>1 DEF AssetOK, ActiveOK
  <2>4. FailuresOK(m)'
    BY <1>5, <1>1 DEF FileOK, FailuresOK
  <2>5. ASSUME NEW j \in Assets
        PROVE  AssetOK(m, j)'
    <3>1. AssetOK(m, j)
      BY <1>5 DEF FileOK
    <3>2. (CanLand(j)' <=> CanLand(j)) /\ (MayLand(j)' <=> MayLand(j))
      BY <1>1 DEF CanLand, MayLand
    <3>3. CASE j # i
      <4>1. PendingOK(m, j)'
        BY <3>1, <3>2, <3>3, <1>1, <1>3 DEF AssetOK, PendingOK
      <4>2. ActiveOK(m, j)' /\ ExpiringOK(m, j)'
        BY <3>1, <3>3, <1>1, <1>3 DEF AssetOK, ActiveOK, ExpiringOK
      <4>3. GivenUpOK(m, j)'
        BY <3>1, <3>2, <3>3, <1>1, <1>3 DEF AssetOK, GivenUpOK
      <4>4. QED
        BY <4>1, <4>2, <4>3 DEF AssetOK
    <3>4. CASE j = i
      <4>1. m.inventory[i] <= wallet'[i]
        BY <2>2, <2>3, <1>2, <1>3
      <4>2. ActiveOK(m, i)' /\ ExpiringOK(m, i)'
        BY <3>1, <3>4, <4>1, <1>1, <1>3 DEF AssetOK, ActiveOK, ExpiringOK
      <4>3. PendingOK(m, i)' /\ GivenUpOK(m, i)'
        BY <2>2 DEF PendingOK, GivenUpOK
      <4>4. QED
        BY <3>4, <4>2, <4>3 DEF AssetOK
    <3>5. QED
      BY <3>3, <3>4
  <2>6. QED
    BY <2>1, <2>2, <2>3, <2>4, <2>5 DEF FileOK
<1>6. QED
  BY <1>1, <1>2, <1>4, <1>5

(* The chain's clock passes the expiry while nothing landed that the files call pending. *)
LEMMA ExpireChainKeeps ==
    ASSUME WorldOK, ~chainExpired, chainExpired' = TRUE,
           UNCHANGED <<keeperExpired, refusing, onchain, funded, vault, wallet, claimed, flying>>
    PROVE  /\ WorldOK'
           /\ \A m : FileOK(m) /\ (\A i \in Assets : m.asset[i] = "pending" => onchain[i] # "active") => FileOK(m)'
<1>1. WorldOK'
  <2>1. clock' \in BOOLEAN \X BOOLEAN \X SUBSET Unfundable
    BY DEF WorldOK, clock
  <2>2. QED
    BY <2>1 DEF WorldOK, ChainOK
<1>2. ASSUME NEW m, FileOK(m), \A i \in Assets : m.asset[i] = "pending" => onchain[i] # "active"
      PROVE  FileOK(m)'
  <2>1. m \in KeeperState
    BY <1>2 DEF FileOK
  <2>2. FailuresOK(m)'
    BY <1>2 DEF FileOK, FailuresOK
  <2>3. ASSUME NEW i \in Assets
        PROVE  AssetOK(m, i)'
    <3>1. AssetOK(m, i)
      BY <1>2 DEF FileOK
    <3>2. ~CanLand(i)' /\ ~MayLand(i)'
      BY DEF CanLand, MayLand
    <3>3. m.asset[i] = "pending" => onchain[i] = "none"
      BY <1>2, <3>1 DEF WorldOK, AssetOK, PendingOK
    <3>4. PendingOK(m, i)'
      BY <3>1, <3>2, <3>3 DEF AssetOK, PendingOK
    <3>5. ActiveOK(m, i)' /\ ExpiringOK(m, i)'
      BY <3>1 DEF AssetOK, ActiveOK, ExpiringOK
    <3>6. GivenUpOK(m, i)'
      BY <3>1, <3>2 DEF AssetOK, GivenUpOK
    <3>7. QED
      BY <3>4, <3>5, <3>6 DEF AssetOK
  <2>4. QED
    BY <2>1, <2>2, <2>3 DEF FileOK
<1>3. QED
  BY <1>1, <1>2

(* The keeper's clock passes it while, besides, nothing of the kind can still land. *)
LEMMA ExpireKeeperKeeps ==
    ASSUME WorldOK, ~keeperExpired, keeperExpired' = TRUE,
           UNCHANGED <<chainExpired, refusing, onchain, funded, vault, wallet, claimed, flying>>
    PROVE  /\ WorldOK'
           /\ \A m : FileOK(m) /\ (\A i \in Assets : m.asset[i] = "pending" => onchain[i] # "active" /\ ~MayLand(i))
                        => FileOK(m)'
<1>1. WorldOK'
  <2>1. clock' \in BOOLEAN \X BOOLEAN \X SUBSET Unfundable
    BY DEF WorldOK, clock
  <2>2. QED
    BY <2>1 DEF WorldOK, ChainOK
<1>2. ASSUME NEW m, FileOK(m), \A i \in Assets : m.asset[i] = "pending" => onchain[i] # "active" /\ ~MayLand(i)
      PROVE  FileOK(m)'
  <2>1. m \in KeeperState
    BY <1>2 DEF FileOK
  <2>2. FailuresOK(m)'
    BY <1>2 DEF FileOK, FailuresOK
  <2>3. ASSUME NEW i \in Assets
        PROVE  AssetOK(m, i)'
    <3>1. AssetOK(m, i)
      BY <1>2 DEF FileOK
    <3>2. (CanLand(i)' <=> CanLand(i)) /\ (MayLand(i)' <=> MayLand(i))
      BY DEF CanLand, MayLand
    <3>3. m.asset[i] = "pending" => onchain[i] = "none" /\ ~MayLand(i)
      BY <1>2, <3>1 DEF WorldOK, AssetOK, PendingOK
    <3>4. PendingOK(m, i)'
      BY <3>1, <3>2, <3>3 DEF AssetOK, PendingOK
    <3>5. ActiveOK(m, i)' /\ ExpiringOK(m, i)'
      BY <3>1 DEF AssetOK, ActiveOK, ExpiringOK
    <3>6. GivenUpOK(m, i)'
      BY <3>1, <3>2 DEF AssetOK, GivenUpOK
    <3>7. QED
      BY <3>4, <3>5, <3>6 DEF AssetOK
  <2>4. QED
    BY <2>1, <2>2, <2>3 DEF FileOK
<1>3. QED
  BY <1>1, <1>2

----------------------------------------------------------------------------
(* The file follows the chain. *)

(* What a file says of an asset depends on no other asset. *)
LEMMA AssetSame ==
    ASSUME NEW m, NEW n, NEW i \in Assets, AssetOK(m, i)',
           n.status = m.status, n.asset[i] = m.asset[i],
           n.attempts[i] = m.attempts[i], n.inventory[i] = m.inventory[i],
           m.permanent \subseteq n.permanent, i \in m.expiring => i \in n.expiring
    PROVE  AssetOK(n, i)'
<1>1. PendingOK(n, i)'
  BY DEF AssetOK, PendingOK
<1>2. ActiveOK(n, i)'
  BY DEF AssetOK, ActiveOK
<1>3. GivenUpOK(n, i)' /\ ExpiringOK(n, i)'
  BY DEF AssetOK, GivenUpOK, ExpiringOK
<1>4. QED
  BY <1>1, <1>2, <1>3 DEF AssetOK

(* The same file but for what rests. *)
SameButResting(m, n) ==
    /\ n.status = m.status /\ n.asset = m.asset /\ n.attempts = m.attempts /\ n.inventory = m.inventory
    /\ n.failed = m.failed /\ n.permanent = m.permanent /\ n.expiring = m.expiring

(* What rests is no matter of the chain. *)
LEMMA RestingKeeps ==
    ASSUME NEW m, NEW n \in KeeperState, FileOK(m)', SameButResting(m, n)
    PROVE  FileOK(n)'
<1>1. \A i \in Assets : AssetOK(n, i)'
  <2>1. ASSUME NEW i \in Assets
        PROVE  AssetOK(n, i)'
    <3>1. AssetOK(m, i)'
      BY DEF FileOK
    <3>2. QED
      BY <3>1, AssetSame DEF SameButResting
  <2>2. QED
    BY <2>1
<1>2. FailuresOK(n)'
  BY DEF FileOK, FailuresOK, SameButResting
<1>3. QED
  BY <1>1, <1>2 DEF FileOK

(* These leaves may be given up, or have an attempt left. *)
MayFail(m, xs, counted, permanent) ==
    /\ xs \subseteq Leaves /\ counted \in {0, 1}
    /\ permanent /\ ~chainExpired => xs \subseteq Frozen \cup Worthless
    /\ counted = 1 => \A x \in xs :
             m.failed[x] < MaxPushAttempts /\ (permanent \/ m.failed[x] + 1 < MaxPushAttempts)

(* One file is another with nothing but failures recorded. *)
Failed(m, n, xs, counted, permanent) ==
    /\ n.status = m.status /\ n.asset = m.asset /\ n.attempts = m.attempts /\ n.inventory = m.inventory
    /\ n.expiring = m.expiring
    /\ n.permanent = m.permanent \cup (IF permanent THEN xs ELSE {})
    /\ counted = 0 => \A x \in Leaves : n.failed[x] = m.failed[x]

(* Failures recorded of leaves that may be given up. *)
LEMMA FailureKeeps ==
    ASSUME PayoutAssumption, NEW m, FileOK(m)', NEW xs, NEW counted, NEW permanent \in BOOLEAN, NEW later \in BOOLEAN,
           MayFail(m, xs, counted, permanent)'
    PROVE  /\ FileOK(RecordFailure(m, xs, counted, permanent, later))'
           /\ Failed(m, RecordFailure(m, xs, counted, permanent, later), xs, counted, permanent)
<1> DEFINE n == RecordFailure(m, xs, counted, permanent, later)
<1>0. /\ xs \subseteq Leaves /\ counted \in {0, 1}
      /\ permanent /\ ~chainExpired' => xs \subseteq Frozen \cup Worthless
      /\ counted = 1 => \A x \in xs :
             m.failed[x] < MaxPushAttempts /\ (permanent \/ m.failed[x] + 1 < MaxPushAttempts)
  BY DEF MayFail
<1>1. m \in KeeperState
  BY DEF FileOK
<1>2. /\ n.status = m.status /\ n.asset = m.asset /\ n.attempts = m.attempts /\ n.inventory = m.inventory
      /\ n.expiring = m.expiring
      /\ n.permanent = m.permanent \cup (IF permanent THEN xs ELSE {})
      /\ n.resting = m.resting \cup (IF later THEN xs ELSE {})
      /\ n.failed = [x \in Leaves |-> m.failed[x] + (IF x \in xs THEN counted ELSE 0)]
  BY <1>1 DEF RecordFailure, KeeperState
<1> HIDE DEF n
<1>3. MaxPushAttempts \in Nat /\ \A x \in Leaves : m.failed[x] \in 0 .. MaxPushAttempts
  BY <1>1 DEF PayoutAssumption, KeeperState
<1>4. n.failed \in [Leaves -> 0 .. MaxPushAttempts]
  <2>1. ASSUME NEW x \in Leaves
        PROVE  m.failed[x] + (IF x \in xs THEN counted ELSE 0) \in 0 .. MaxPushAttempts
    <3>1. m.failed[x] \in 0 .. MaxPushAttempts /\ MaxPushAttempts \in Nat
      BY <1>3
    <3>2. CASE x \in xs /\ counted = 1
      BY <1>0, <3>1, <3>2
    <3>3. CASE ~(x \in xs /\ counted = 1)
      BY <1>0, <3>1, <3>3
    <3>4. QED
      BY <3>2, <3>3
  <2>2. QED
    BY <1>2, <2>1
<1>5. n \in KeeperState
  <2>1. n = [m EXCEPT !.failed = n.failed, !.permanent = n.permanent, !.resting = n.resting]
    BY <1>1 DEF n, RecordFailure, KeeperState
  <2>2. n.permanent \subseteq Leaves /\ n.resting \subseteq Rests
    BY <1>0, <1>1, <1>2 DEF KeeperState, Rests
  <2>3. QED
    BY <1>1, <1>4, <2>1, <2>2 DEF KeeperState
<1>6. ASSUME NEW i \in Assets
      PROVE  AssetOK(n, i)'
  <2>1. AssetOK(m, i)'
    BY DEF FileOK
  <2>2. QED
    BY <1>2, <2>1, AssetSame
<1>7. FailuresOK(n)'
  <2>1. FailuresOK(m)'
    BY DEF FileOK
  <2>2. ~chainExpired' => n.permanent \subseteq Frozen \cup Worthless
    BY <1>0, <1>2, <2>1 DEF FailuresOK
  <2>3. ASSUME NEW x \in Leaves \ n.permanent
        PROVE  n.failed[x] < MaxPushAttempts
    <3>1. x \notin m.permanent /\ m.failed[x] < MaxPushAttempts
      BY <1>2, <2>1 DEF FailuresOK
    <3>2. n.failed[x] = m.failed[x] + (IF x \in xs THEN counted ELSE 0) /\ m.failed[x] \in Nat
      BY <1>2, <1>3
    <3>3. CASE x \in xs /\ counted = 1
      <4>1. ~permanent
        BY <1>2, <3>3
      <4>2. QED
        BY <1>0, <3>2, <3>3, <4>1
    <3>4. CASE ~(x \in xs /\ counted = 1)
      BY <1>0, <3>1, <3>2, <3>4
    <3>5. QED
      BY <3>3, <3>4
  <2>4. QED
    BY <2>2, <2>3 DEF FailuresOK
<1>8. counted = 0 => \A x \in Leaves : n.failed[x] = m.failed[x]
  BY <1>2, <1>3
<1>9. FileOK(n)'
  BY <1>5, <1>6, <1>7 DEF FileOK
<1>10. Failed(m, n, xs, counted, permanent)
  BY <1>2, <1>8 DEF Failed
<1>11. QED
  BY <1>9, <1>10 DEF n

(* Leaves that were paid owe nothing to earlier failures. *)
Forgiven(m, xs) == [m EXCEPT !.failed = [x \in Leaves |-> IF x \in xs THEN 0 ELSE @[x]]]

(* Forgetting them is no harm to the file. *)
LEMMA ForgivenKeeps ==
    ASSUME PayoutAssumption, NEW m, FileOK(m)', NEW xs, NEW n, n = Forgiven(m, xs)
    PROVE  /\ FileOK(n)' /\ n.asset = m.asset
           /\ n.permanent = m.permanent /\ n.inventory = m.inventory /\ n.expiring = m.expiring
<1>1. m \in KeeperState /\ MaxPushAttempts \in Nat \ {0}
  BY DEF FileOK, PayoutAssumption
<1>2. /\ n.status = m.status /\ n.asset = m.asset /\ n.attempts = m.attempts /\ n.inventory = m.inventory
      /\ n.expiring = m.expiring /\ n.permanent = m.permanent
      /\ n.failed = [x \in Leaves |-> IF x \in xs THEN 0 ELSE m.failed[x]]
  BY <1>1 DEF Forgiven, KeeperState
<1>3. n \in KeeperState
  <2>1. n.failed \in [Leaves -> 0 .. MaxPushAttempts]
    BY <1>1, <1>2 DEF Forgiven, KeeperState
  <2>2. n = [m EXCEPT !.failed = n.failed]
    BY <1>1 DEF Forgiven, KeeperState
  <2>3. QED
    BY <1>1, <2>1, <2>2 DEF Forgiven, KeeperState
<1>4. ASSUME NEW i \in Assets
      PROVE  AssetOK(n, i)'
  <2>1. AssetOK(m, i)'
    BY DEF FileOK
  <2>2. QED
    BY <1>2, <2>1, AssetSame
<1>5. FailuresOK(n)'
  BY <1>1, <1>2 DEF FileOK, FailuresOK
<1>6. QED
  BY <1>2, <1>3, <1>4, <1>5 DEF FileOK

(* These assets can be booked: they are on the chain, for what an empty vault is sent. *)
Bookable(m, is, used) ==
    is \subseteq Assets /\ \A i \in is : m.asset[i] = "pending" /\ onchain[i] = "active" /\ used[i] = Sent(i)

(* One file is another with these assets booked. *)
Books(m, n, is) ==
    /\ n.status = m.status /\ n.attempts = m.attempts /\ n.expiring = m.expiring
    /\ \A i \in Assets : n.asset[i] = IF i \in is THEN "active" ELSE m.asset[i]
    /\ \A i \in Assets \ is : n.inventory[i] = m.inventory[i]

(* What a file says of an asset it has just booked as active. *)
LEMMA BookKeeps ==
    ASSUME PayoutAssumption, TreeAssumption, WorldOK', NEW m, FileOK(m)', NEW is, NEW used, Bookable(m, is, used)'
    PROVE  FileOK(BookActive(m, is, used))' /\ Books(m, BookActive(m, is, used), is)
<1> DEFINE n == BookActive(m, is, used)
<1>0. /\ is \subseteq Assets
      /\ \A i \in is : m.asset[i] = "pending" /\ onchain'[i] = "active" /\ used[i] = Sent(i)
  BY DEF Bookable
<1>1. m \in KeeperState
  BY DEF FileOK
<1>2. \A i \in Assets : m.inventory[i] \in Nat
  BY <1>1, FileTypes
<1> DEFINE back(i) == IF Fund[i] > used[i] THEN Fund[i] - used[i] ELSE 0
<1>3. /\ n.status = m.status /\ n.attempts = m.attempts /\ n.expiring = m.expiring
      /\ n.failed = m.failed /\ n.permanent = m.permanent
      /\ n.asset = [i \in Assets |-> IF i \in is THEN "active" ELSE m.asset[i]]
      /\ n.inventory = [i \in Assets |-> m.inventory[i] + (IF i \in is THEN back(i) ELSE 0)]
  BY <1>1 DEF BookActive, Credit, KeeperState
<1> HIDE DEF n
<1>4. ASSUME NEW i \in is
      PROVE  n.inventory[i] = wallet'[i] /\ n.inventory[i] \in Nat
  <2>1. i \in Assets /\ m.asset[i] = "pending" /\ onchain'[i] = "active" /\ used[i] = Sent(i)
    BY <1>0
  <2>2. Fund[i] \in Nat /\ Sent(i) \in 0 .. Fund[i]
    BY <2>1, SentIs
  <2>3. back(i) = Fund[i] - Sent(i)
    BY <2>1, <2>2
  <2>4. AssetOK(m, i)'
    BY <2>1 DEF FileOK
  <2>5. m.inventory[i] = 0
    BY <2>1, <2>4 DEF AssetOK, PendingOK
  <2>6. wallet'[i] = Fund[i] - Sent(i)
    BY <2>1 DEF WorldOK, ChainOK
  <2>7. n.inventory[i] = m.inventory[i] + back(i)
    BY <1>3, <2>1
  <2> HIDE DEF back
  <2>8. QED
    BY <2>2, <2>3, <2>5, <2>6, <2>7
<1>5. ASSUME NEW i \in Assets \ is
      PROVE  n.inventory[i] = m.inventory[i]
  BY <1>2, <1>3
<1>6. n \in KeeperState
  <2>1. \A i \in Assets : n.inventory[i] \in Nat
    BY <1>2, <1>4, <1>5
  <2>2. n.inventory \in [Assets -> Nat]
    BY <1>3, <2>1
  <2>3. n.asset \in [Assets -> {"pending", "active", "abandoned", "released"}]
    BY <1>1, <1>3 DEF KeeperState
  <2>4. n = [m EXCEPT !.asset = n.asset, !.inventory = n.inventory]
    BY <1>1 DEF n, BookActive, Credit, KeeperState
  <2>5. QED
    BY <1>1, <2>2, <2>3, <2>4 DEF KeeperState
<1>7. ASSUME NEW i \in Assets
      PROVE  AssetOK(n, i)'
  <2>1. AssetOK(m, i)'
    BY DEF FileOK
  <2>2. CASE i \notin is
    <3>1. n.asset[i] = m.asset[i] /\ n.inventory[i] = m.inventory[i]
      BY <1>3, <1>5, <2>2
    <3>2. QED
      BY <1>3, <2>1, <3>1, AssetSame
  <2>3. CASE i \in is
    <3>1. n.asset[i] = "active" /\ m.asset[i] = "pending" /\ onchain'[i] = "active"
      BY <1>0, <1>3, <2>3
    <3>2. m.status = "COMMITTED"
      BY <2>1, <3>1 DEF AssetOK, PendingOK
    <3>3. ActiveOK(n, i)'
      <4>1. n.inventory[i] <= wallet'[i]
        BY <1>4, <2>3
      <4>2. QED
        BY <1>3, <1>4, <2>3, <3>1, <3>2, <4>1 DEF ActiveOK
    <3>4. ExpiringOK(n, i)'
      BY <1>3, <2>1 DEF AssetOK, ExpiringOK
    <3>5. PendingOK(n, i)' /\ GivenUpOK(n, i)'
      BY <3>1 DEF PendingOK, GivenUpOK
    <3>6. QED
      BY <3>3, <3>4, <3>5 DEF AssetOK
  <2>4. QED
    BY <2>2, <2>3
<1>8. FailuresOK(n)'
  BY <1>3 DEF FileOK, FailuresOK
<1>9. FileOK(n)'
  BY <1>6, <1>7, <1>8 DEF FileOK
<1>10. Books(m, n, is)
  <2> HIDE DEF n
  <2>1. QED
    BY <1>0, <1>3, <1>5 DEF Books
<1>11. QED
  BY <1>9, <1>10 DEF n

(***************************************************************************)
(* An attempt counted against an asset that is on the chain already, or    *)
(* that the program would not activate: only the second can be given up.   *)
(***************************************************************************)
LEMMA CountKeeps ==
    ASSUME PayoutAssumption, NEW m, FileOK(m)', NEW i \in Assets, m.asset[i] = "pending",
           \/ onchain'[i] = "active" /\ m.attempts[i] = 0
           \/ onchain'[i] = "none" /\ ~CanLand(i)',
           NEW n, n = CountActivation(m, i)
    PROVE  /\ FileOK(n)'
           /\ n.status = m.status /\ n.expiring = m.expiring
           /\ \A j \in Assets \ {i} : n.asset[j] = m.asset[j] /\ n.inventory[j] = m.inventory[j]
<1>1. m \in KeeperState /\ AssetOK(m, i)'
  BY DEF FileOK
<1>2. MaxActivationAttempts \in Nat \ {0, 1} /\ Fund[i] \in Nat
  BY DEF PayoutAssumption
<1>3. /\ m.status = "COMMITTED" /\ m.inventory[i] = 0 /\ m.attempts[i] \in Nat
      /\ m.attempts[i] + 1 <= MaxActivationAttempts
  <2>1. m.attempts[i] \in Nat
    BY <1>1, FileTypes
  <2>2. m.status = "COMMITTED" /\ m.inventory[i] = 0 /\ m.attempts[i] < MaxActivationAttempts
    BY <1>1 DEF AssetOK, PendingOK
  <2>3. QED
    BY <1>2, <2>1, <2>2
<1>4. PICK counted : counted = [m EXCEPT !.attempts[i] = @ + 1]
  OBVIOUS
<1>5. counted \in KeeperState
  <2>1. PICK k \in 0 .. MaxActivationAttempts : k = m.attempts[i] + 1
    BY <1>2, <1>3
  <2>2. counted = [m EXCEPT !.attempts = [m.attempts EXCEPT ![i] = k]]
    BY <1>4, <2>1
  <2>3. [m.attempts EXCEPT ![i] = k] \in [Assets -> 0 .. MaxActivationAttempts]
    BY <1>1, <2>1 DEF KeeperState
  <2>4. QED
    BY ONLY <1>1, <2>2, <2>3 DEF KeeperState
<1>6. /\ counted.attempts = [m.attempts EXCEPT ![i] = @ + 1]
      /\ counted.status = m.status /\ counted.asset = m.asset /\ counted.inventory = m.inventory
      /\ counted.failed = m.failed /\ counted.permanent = m.permanent /\ counted.expiring = m.expiring
      /\ counted.attempts[i] = m.attempts[i] + 1
  BY <1>1, <1>4 DEF KeeperState
<1>7. CASE counted.attempts[i] >= MaxActivationAttempts
  <2>1. onchain'[i] = "none" /\ ~CanLand(i)'
    BY <1>2, <1>6, <1>7
  <2>2. n = ReleaseReservation(counted, {i}, "abandoned")
    BY <1>4, <1>7 DEF CountActivation
  <2>3. /\ n.status = m.status /\ n.attempts = counted.attempts /\ n.expiring = m.expiring
        /\ n.failed = m.failed /\ n.permanent = m.permanent
        /\ n.asset = [j \in Assets |-> IF j \in {i} THEN "abandoned" ELSE m.asset[j]]
        /\ n.inventory = [j \in Assets |->
               m.inventory[j] + (IF j \in {k \in {i} : m.asset[k] = "pending"} THEN Fund[j] ELSE 0)]
    BY <1>5, <1>6, <2>2 DEF ReleaseReservation, Credit, KeeperState
  <2>4. n.asset[i] = "abandoned" /\ n.inventory[i] = Fund[i]
    <3>1. n.inventory[i] = m.inventory[i] + Fund[i]
      BY <2>3
    <3>2. QED
      BY <1>2, <1>3, <2>3, <3>1
  <2>5. \A j \in Assets \ {i} :
            n.asset[j] = m.asset[j] /\ n.inventory[j] = m.inventory[j] /\ n.inventory[j] \in Nat
            /\ n.attempts[j] = m.attempts[j]
    <3>1. \A j \in Assets : m.inventory[j] \in Nat
      BY <1>1, FileTypes
    <3>2. QED
      BY <1>1, <1>6, <2>3, <3>1 DEF KeeperState
  <2>6. n \in KeeperState
    <3>1. n.inventory \in [Assets -> Nat]
      BY <1>2, <2>3, <2>4, <2>5
    <3>2. n.asset \in [Assets -> {"pending", "active", "abandoned", "released"}]
      BY <1>1, <2>3 DEF KeeperState
    <3>3. n = [counted EXCEPT !.asset = n.asset, !.inventory = n.inventory]
      BY <1>5, <2>2 DEF ReleaseReservation, Credit, KeeperState
    <3>4. QED
      BY <1>5, <3>1, <3>2, <3>3 DEF KeeperState
  <2>7. ASSUME NEW j \in Assets
        PROVE  AssetOK(n, j)'
    <3>1. AssetOK(m, j)'
      BY DEF FileOK
    <3>2. CASE j # i
      <4>1. /\ n.status = m.status /\ n.asset[j] = m.asset[j] /\ n.attempts[j] = m.attempts[j]
            /\ n.inventory[j] = m.inventory[j] /\ m.permanent \subseteq n.permanent
            /\ j \in m.expiring => j \in n.expiring
        BY <2>3, <2>5, <3>2
      <4>2. QED
        BY ONLY j \in Assets, <3>1, <4>1, AssetSame
    <3>3. CASE j = i
      <4>1. GivenUpOK(n, i)'
        BY <2>1, <2>4 DEF GivenUpOK
      <4>2. ExpiringOK(n, i)'
        BY <1>1, <2>3 DEF AssetOK, ExpiringOK
      <4>3. PendingOK(n, i)' /\ ActiveOK(n, i)'
        BY <2>4 DEF PendingOK, ActiveOK
      <4>4. QED
        BY <3>3, <4>1, <4>2, <4>3 DEF AssetOK
    <3>4. QED
      BY <3>2, <3>3
  <2>8. FailuresOK(n)'
    BY <2>3 DEF FileOK, FailuresOK
  <2>9. QED
    BY <2>3, <2>5, <2>6, <2>7, <2>8 DEF FileOK
<1>8. CASE ~(counted.attempts[i] >= MaxActivationAttempts)
  <2>1. n = RestActivation(counted, i)
    BY <1>4, <1>8 DEF CountActivation
  <2>2. n = [counted EXCEPT !.resting = @ \cup {Activating(i)}]
    BY <2>1 DEF RestActivation
  <2>3. n \in KeeperState
    <3>1. Activating(i) \in Rests
      BY DEF Rests
    <3>2. counted.resting \cup {Activating(i)} \in SUBSET Rests
      BY <1>5, <3>1 DEF KeeperState
    <3>3. n = [counted EXCEPT !.resting = counted.resting \cup {Activating(i)}]
      BY <2>2
    <3>4. QED
      BY ONLY <1>5, <3>2, <3>3 DEF KeeperState
  <2>4. /\ n.status = m.status /\ n.attempts = [m.attempts EXCEPT ![i] = @ + 1] /\ n.expiring = m.expiring
        /\ n.failed = m.failed /\ n.permanent = m.permanent /\ n.asset = m.asset /\ n.inventory = m.inventory
    BY <1>5, <1>6, <2>2 DEF KeeperState
  <2>5. n.attempts[i] = m.attempts[i] + 1 /\ \A j \in Assets \ {i} : n.attempts[j] = m.attempts[j]
    BY <1>1, <2>4 DEF KeeperState
  <2>6. ASSUME NEW j \in Assets
        PROVE  AssetOK(n, j)'
    <3>1. AssetOK(m, j)'
      BY DEF FileOK
    <3>2. CASE j # i
      <4>1. /\ n.status = m.status /\ n.asset[j] = m.asset[j] /\ n.attempts[j] = m.attempts[j]
            /\ n.inventory[j] = m.inventory[j] /\ m.permanent \subseteq n.permanent
            /\ j \in m.expiring => j \in n.expiring
        BY <2>4, <2>5, <3>2
      <4>2. QED
        BY ONLY j \in Assets, <3>1, <4>1, AssetSame
    <3>3. CASE j = i
      <4>1. n.attempts[i] < MaxActivationAttempts
        BY <1>2, <1>3, <1>6, <1>8, <2>5
      <4>2. PendingOK(n, i)'
        BY <1>1, <2>4, <4>1 DEF AssetOK, PendingOK
      <4>3. ExpiringOK(n, i)'
        BY <1>1, <2>4 DEF AssetOK, ExpiringOK
      <4>4. ActiveOK(n, i)' /\ GivenUpOK(n, i)'
        BY <2>4 DEF ActiveOK, GivenUpOK
      <4>5. QED
        BY <3>3, <4>2, <4>3, <4>4 DEF AssetOK
    <3>4. QED
      BY <3>2, <3>3
  <2>7. FailuresOK(n)'
    BY <2>4 DEF FileOK, FailuresOK
  <2>8. QED
    BY <2>3, <2>4, <2>6, <2>7 DEF FileOK
<1>9. QED
  BY <1>7, <1>8

(* The round goes on to paying once no activation is pending. *)
LEMMA GoOnKeeps ==
    ASSUME NEW m, FileOK(m)', m.status = "COMMITTED", \A i \in Assets : m.asset[i] # "pending",
           NEW n, n = [m EXCEPT !.status = "ACTIVE"]
    PROVE  FileOK(n)' /\ n.asset = m.asset /\ n.inventory = m.inventory /\ n.expiring = m.expiring
<1>1. m \in KeeperState
  BY DEF FileOK
<1>2. /\ n \in KeeperState
      /\ n.status = "ACTIVE" /\ n.asset = m.asset /\ n.attempts = m.attempts /\ n.inventory = m.inventory
      /\ n.failed = m.failed /\ n.permanent = m.permanent /\ n.expiring = m.expiring
  BY <1>1 DEF KeeperState
<1>3. ASSUME NEW i \in Assets
      PROVE  AssetOK(n, i)'
  <2>1. AssetOK(m, i)'
    BY DEF FileOK
  <2>2. PendingOK(n, i)'
    BY <1>2 DEF PendingOK
  <2>3. ActiveOK(n, i)' /\ ExpiringOK(n, i)'
    BY <1>2, <2>1 DEF AssetOK, ActiveOK, ExpiringOK
  <2>4. GivenUpOK(n, i)'
    BY <1>2, <2>1 DEF AssetOK, GivenUpOK
  <2>5. QED
    BY <2>2, <2>3, <2>4 DEF AssetOK
<1>4. FailuresOK(n)'
  BY <1>2 DEF FileOK, FailuresOK
<1>5. QED
  BY <1>2, <1>3, <1>4 DEF FileOK

(***************************************************************************)
(* finishPaying: complete when nothing is pending and every leaf is paid   *)
(* or given up, expired once the keeper's clock says so.                   *)
(***************************************************************************)
LEMMA FinishKeeps ==
    ASSUME PayoutAssumption, NEW m, FileOK(m)', NEW outcome,
           \/ /\ outcome = "complete" /\ m.status = "ACTIVE"
              /\ \A i \in Assets : m.asset[i] = "active" => LeavesOf(i) \subseteq claimed' \cup m.permanent
           \/ outcome = "expired" /\ keeperExpired',
           NEW n, n = Finished(m, outcome)
    PROVE  /\ FileOK(n)'
           /\ n.expiring = m.expiring
           /\ \A i \in Assets : /\ n.asset[i] = m.asset[i] \/ m.asset[i] = "pending"
                                /\ m.asset[i] # "pending" => n.inventory[i] = m.inventory[i]
<1>1. m \in KeeperState
  BY DEF FileOK
<1>2. \A i \in Assets : m.inventory[i] \in Nat /\ Fund[i] \in Nat
  BY <1>1, FileTypes DEF PayoutAssumption
<1> DEFINE is == {i \in Assets : m.asset[i] = "pending"}
<1>3. /\ n.status = outcome /\ n.attempts = m.attempts /\ n.expiring = m.expiring
      /\ n.failed = m.failed /\ n.permanent = m.permanent
      /\ n.asset = [i \in Assets |-> IF i \in is THEN "released" ELSE m.asset[i]]
      /\ n.inventory = [i \in Assets |->
             m.inventory[i] + (IF i \in {k \in is : m.asset[k] = "pending"} THEN Fund[i] ELSE 0)]
  BY <1>1 DEF Finished, ReleaseReservation, Credit, KeeperState
<1>4. ASSUME NEW i \in Assets
      PROVE  /\ i \notin is => n.asset[i] = m.asset[i] /\ n.inventory[i] = m.inventory[i]
             /\ i \in is => n.asset[i] = "released" /\ n.inventory[i] = m.inventory[i] + Fund[i]
  BY <1>2, <1>3
<1>5. n \in KeeperState
  <2>1. ASSUME NEW i \in Assets
        PROVE  n.inventory[i] \in Nat
    <3>1. PICK a \in Nat, b \in Nat : a = m.inventory[i] /\ b = Fund[i]
      BY <1>2
    <3>2. n.inventory[i] = a \/ n.inventory[i] = a + b
      BY <1>4, <3>1
    <3>3. QED
      BY ONLY a \in Nat, b \in Nat, <3>2
  <2>2. n.inventory \in [Assets -> Nat]
    BY <1>3, <2>1
  <2>3. n.asset \in [Assets -> {"pending", "active", "abandoned", "released"}]
    BY <1>1, <1>3 DEF KeeperState
  <2>4. n = [m EXCEPT !.asset = n.asset, !.inventory = n.inventory, !.status = n.status]
    BY <1>1 DEF Finished, ReleaseReservation, Credit, KeeperState
  <2>5. n.status \in {"COMMITTED", "ACTIVE", "complete", "expired"}
    BY <1>3
  <2> HIDE DEF is
  <2>6. QED
    BY ONLY <1>1, <2>2, <2>3, <2>4, <2>5 DEF KeeperState
<1>6. ASSUME NEW i \in Assets
      PROVE  AssetOK(n, i)'
  <2>1. AssetOK(m, i)'
    BY DEF FileOK
  <2>2. ExpiringOK(n, i)'
    BY <1>3, <2>1 DEF AssetOK, ExpiringOK
  <2>3. CASE i \in is
    <3>1. m.status = "COMMITTED" /\ m.inventory[i] = 0
      BY <2>1, <2>3 DEF AssetOK, PendingOK
    <3>2. outcome = "expired" /\ keeperExpired'
      BY <3>1
    <3>3. onchain'[i] = "none" /\ ~MayLand(i)'
      BY <2>1, <2>3, <3>2 DEF AssetOK, PendingOK
    <3>4. n.asset[i] = "released" /\ n.inventory[i] = Fund[i]
      BY <1>2, <1>4, <2>3, <3>1
    <3>5. GivenUpOK(n, i)'
      BY <1>3, <3>2, <3>3, <3>4 DEF GivenUpOK
    <3>6. PendingOK(n, i)' /\ ActiveOK(n, i)'
      BY <3>4 DEF PendingOK, ActiveOK
    <3>7. QED
      BY <2>2, <3>5, <3>6 DEF AssetOK
  <2>4. CASE i \notin is
    <3>1. n.asset[i] = m.asset[i] /\ n.inventory[i] = m.inventory[i] /\ m.asset[i] # "pending"
      BY <1>4, <2>4
    <3>2. PendingOK(n, i)'
      BY <3>1 DEF PendingOK
    <3>3. ActiveOK(n, i)'
      BY <1>3, <2>1, <3>1 DEF AssetOK, ActiveOK
    <3>4. GivenUpOK(n, i)'
      <4>1. m.asset[i] = "released" => outcome = "expired"
        BY <2>1 DEF AssetOK, GivenUpOK
      <4>2. QED
        BY <1>3, <2>1, <3>1, <4>1 DEF AssetOK, GivenUpOK
    <3>5. QED
      BY <2>2, <3>2, <3>3, <3>4 DEF AssetOK
  <2>5. QED
    BY <2>3, <2>4
<1>7. FailuresOK(n)'
  BY <1>3 DEF FileOK, FailuresOK
<1>8. QED
  BY <1>3, <1>4, <1>5, <1>6, <1>7 DEF FileOK

(* The file without an asset to close, and with what its close brought. *)
Dropped(m, i, c) == Credit([m EXCEPT !.expiring = @ \ {i}], [j \in {i} |-> c])

(* An asset that is not active any more leaves the list. *)
LEMMA DropKeeps ==
    ASSUME PayoutAssumption, WorldOK', NEW m, FileOK(m)', NEW i \in Assets,
           keeperExpired', onchain'[i] # "active", NEW c \in Nat,
           c = 0 \/ (m.asset[i] = "active" /\ m.inventory[i] + c = wallet'[i]),
           NEW n, n = Dropped(m, i, c)
    PROVE  /\ FileOK(n)'
           /\ n.expiring = m.expiring \ {i} /\ n.asset = m.asset
           /\ n.inventory[i] = m.inventory[i] + c
           /\ \A j \in Assets \ {i} : n.inventory[j] = m.inventory[j]
<1>1. m \in KeeperState
  BY DEF FileOK
<1>2. \A j \in Assets : m.inventory[j] \in Nat
  BY <1>1, FileTypes
<1>3. /\ n.status = m.status /\ n.attempts = m.attempts /\ n.asset = m.asset
      /\ n.failed = m.failed /\ n.permanent = m.permanent /\ n.expiring = m.expiring \ {i}
      /\ n.inventory = [j \in Assets |->
               m.inventory[j] + (IF j \in {i} THEN c ELSE 0)]
  BY <1>1 DEF Dropped, Credit, KeeperState
<1>4. /\ n.inventory[i] = m.inventory[i] + c
      /\ \A j \in Assets \ {i} : n.inventory[j] = m.inventory[j]
      /\ \A j \in Assets : n.inventory[j] \in Nat
  <2>1. ASSUME NEW j \in Assets
        PROVE  /\ j # i => n.inventory[j] = m.inventory[j]
               /\ j = i => n.inventory[j] = m.inventory[j] + c
               /\ n.inventory[j] \in Nat
    <3>1. m.inventory[j] \in Nat /\ n.inventory[j] = m.inventory[j] + (IF j = i THEN c ELSE 0)
      BY <1>2, <1>3
    <3>2. QED
      BY <3>1
  <2>2. QED
    BY <2>1
<1>5. n \in KeeperState
  <2>1. n.inventory \in [Assets -> Nat]
    BY <1>3, <1>4
  <2>2. n.expiring \subseteq Assets
    BY <1>1, <1>3 DEF KeeperState
  <2>3. n = [m EXCEPT !.expiring = n.expiring, !.inventory = n.inventory]
    BY <1>1 DEF Dropped, Credit, KeeperState
  <2>4. QED
    BY ONLY <1>1, <2>1, <2>2, <2>3 DEF KeeperState
<1>6. ASSUME NEW j \in Assets
      PROVE  AssetOK(n, j)'
  <2>1. AssetOK(m, j)'
    BY DEF FileOK
  <2>2. CASE j # i
    <3>1. n.asset[j] = m.asset[j] /\ n.attempts[j] = m.attempts[j] /\ n.inventory[j] = m.inventory[j]
          /\ (j \in m.expiring => j \in n.expiring) /\ m.permanent \subseteq n.permanent /\ n.status = m.status
      BY <1>3, <1>4, <2>2
    <3>2. QED
      BY <2>1, <3>1, AssetSame
  <2>3. CASE j = i
    <3>1. ExpiringOK(n, i)'
      BY DEF ExpiringOK
    <3>2. CASE c = 0
      <4>1. n.inventory[i] = m.inventory[i]
        <5>1. m.inventory[i] \in Nat /\ n.inventory[i] = m.inventory[i] + c
          BY <1>2, <1>4
        <5>2. QED
          BY <3>2, <5>1
      <4>2. PendingOK(n, i)'
        BY <1>3, <2>1, <2>3, <4>1 DEF AssetOK, PendingOK
      <4>3. ActiveOK(n, i)'
        BY <1>3, <2>1, <2>3, <4>1 DEF AssetOK, ActiveOK
      <4>4. GivenUpOK(n, i)'
        BY <1>3, <2>1, <2>3, <4>1 DEF AssetOK, GivenUpOK
      <4>5. QED
        BY <2>3, <3>1, <4>2, <4>3, <4>4 DEF AssetOK
    <3>3. CASE m.asset[i] = "active" /\ m.inventory[i] + c = wallet'[i]
      <4>1. n.inventory[i] = wallet'[i] /\ wallet'[i] \in Nat
        BY <1>4, <3>3 DEF WorldOK
      <4>2. n.inventory[i] <= wallet'[i]
        BY <4>1
      <4>3. ActiveOK(n, i)'
        BY <1>3, <2>1, <2>3, <3>3, <4>1, <4>2 DEF AssetOK, ActiveOK
      <4>4. PendingOK(n, i)' /\ GivenUpOK(n, i)'
        BY <1>3, <3>3 DEF PendingOK, GivenUpOK
      <4>5. QED
        BY <2>3, <3>1, <4>3, <4>4 DEF AssetOK
    <3>4. QED
      BY <3>2, <3>3
  <2>4. QED
    BY <2>2, <2>3
<1>7. FailuresOK(n)'
  BY <1>3 DEF FileOK, FailuresOK
<1>8. QED
  BY <1>3, <1>4, <1>5, <1>6, <1>7 DEF FileOK

----------------------------------------------------------------------------
(* What is left to push in a step. *)

(* A number without a remainder is a multiple. *)
LEMMA Division ==
    ASSUME NEW s \in Int, s > 0, NEW b \in Int, b % s = 0
    PROVE  b = s * (b \div s)
BY SMTT(30)

(* Multiples of the block size are a block apart. *)
LEMMA BlocksApart ==
    ASSUME NEW size \in Nat \ {0}, NEW b \in Nat, NEW c \in Nat, b % size = 0, c % size = 0, b < c
    PROVE  b + size <= c
<1>1. PICK m \in Nat : b = size * m
  <2>1. b \div size \in Nat
    OBVIOUS
  <2>2. b = size * (b \div size)
    BY Division
  <2>3. QED
    BY <2>1, <2>2
<1>2. PICK n \in Nat : c = size * n
  <2>1. c \div size \in Nat
    OBVIOUS
  <2>2. c = size * (c \div size)
    BY Division
  <2>3. QED
    BY <2>1, <2>2
<1>3. n >= m + 1
  <2>1. SUFFICES ASSUME n <= m
                 PROVE  FALSE
    OBVIOUS
  <2>2. PICK d \in Nat : m = n + d
    <3>1. m - n \in Nat /\ m = n + (m - n)
      BY <2>1
    <3>2. QED
      BY <3>1
  <2>3. size * m = size * n + size * d /\ size * d \in Nat
    BY <2>2
  <2>4. QED
    BY <1>1, <1>2, <2>3
<1>4. PICK d \in Nat : n = m + 1 + d
  <2>1. n - (m + 1) \in Nat /\ n = m + 1 + (n - (m + 1))
    BY <1>3
  <2>2. QED
    BY <2>1
<1>5. size * n = size * m + size + size * d /\ size * d \in Nat
  BY <1>4
<1>6. QED
  BY <1>1, <1>2, <1>5

(* The blocks a step takes: each of an active asset, no two with a leaf in common. *)
LEMMA BlocksAreParts ==
    ASSUME PayoutAssumption, NEW b \in Blocks
    PROVE  /\ b[1] \in Assets /\ b[2] \in Nat
           /\ Candidates(b) \subseteq LeavesOf(b[1]) /\ Candidates(b) \cap mem.permanent = {}
           /\ Candidates(b) # {} => mem.asset[b[1]] = "active"
           /\ \A c \in Blocks : c # b => Candidates(b) \cap Candidates(c) = {}
<1>1. \A a \in Blocks : a \in Leaves /\ a[1] \in Assets /\ a[2] \in Nat /\ a[2] % BlockSize = 0
  BY LeafIs DEF Blocks
<1>2. \A a \in Blocks : Candidates(a) \subseteq {x \in LeavesOf(a[1]) : x[2] >= a[2] /\ x[2] < a[2] + BlockSize}
  BY DEF Candidates, InPart
<1>3. ASSUME NEW c \in Blocks, c # b
      PROVE  Candidates(b) \cap Candidates(c) = {}
  <2>1. SUFFICES ASSUME NEW x \in Candidates(b) \cap Candidates(c)
                 PROVE  FALSE
    OBVIOUS
  <2>2. /\ x \in LeavesOf(b[1]) /\ x[2] >= b[2] /\ x[2] < b[2] + BlockSize
        /\ x \in LeavesOf(c[1]) /\ x[2] >= c[2] /\ x[2] < c[2] + BlockSize
    BY <1>2, <2>1
  <2>3. b[1] = c[1] /\ x[2] \in Nat /\ BlockSize \in Nat \ {0}
    BY <1>1, <2>2, LeavesAre DEF PayoutAssumption
  <2>4. b[2] # c[2]
    <3>1. b \in LeavesOf(b[1]) /\ c \in LeavesOf(b[1])
      BY <1>1, <2>3, LeafIs
    <3>2. b = <<b[1], b[2]>> /\ c = <<c[1], c[2]>>
      BY <1>1, <3>1, LeavesAre
    <3>3. QED
      BY <1>3, <2>3, <3>2
  <2>5. b[2] < c[2] => b[2] + BlockSize <= c[2]
    BY <1>1, <2>3, BlocksApart
  <2>6. c[2] < b[2] => c[2] + BlockSize <= b[2]
    BY <1>1, <2>3, BlocksApart
  <2>7. b[2] \in Nat /\ c[2] \in Nat
    BY <1>1
  <2>8. QED
    BY <2>2, <2>3, <2>4, <2>5, <2>6, <2>7
<1>4. Candidates(b) \subseteq Unpaid
  BY DEF Candidates
<1>5. Candidates(b) # {} => mem.asset[b[1]] = "active"
  <2>1. \A x \in Candidates(b) : x[1] = b[1] /\ mem.asset[x[1]] = "active"
    BY <1>1, <1>2, <1>4, LeavesAre DEF Unpaid
  <2>2. QED
    BY <2>1
<1>6. Candidates(b) \subseteq LeavesOf(b[1]) /\ Candidates(b) \cap mem.permanent = {}
  BY <1>2, <1>4 DEF Unpaid
<1>7. QED
  BY <1>1, <1>3, <1>5, <1>6

(* Parts of a part, without the leaves given up. *)
PartsOf(p, parts, xs) ==
    /\ xs \subseteq p.plan
    /\ \A q \in parts : /\ q.asset = p.asset /\ q.first \in Nat /\ q.size \in Nat
                         /\ q.plan \subseteq p.plan \ xs
                         /\ \A r \in parts : r # q => q.plan \cap r.plan = {}

(* A part gives way to parts of it. *)
LEMMA PartsKeep ==
    ASSUME QueueOK, NEW p \in queue, NEW parts, ThenPush(p, parts), NEW xs, PartsOf(p, parts, xs),
           mem'.asset = mem.asset, mem'.permanent = mem.permanent \cup xs
    PROVE  QueueOK' /\ pc' \in {"pushing", "saving"} /\ (pc' = "saving" => queue' = {})
<1>0. /\ xs \subseteq p.plan
      /\ \A q \in parts : /\ q.asset = p.asset /\ q.first \in Nat /\ q.size \in Nat
                           /\ q.plan \subseteq p.plan \ xs
                           /\ \A r \in parts : r # q => q.plan \cap r.plan = {}
  BY DEF PartsOf
<1>1. /\ queue' = (queue \ {p}) \cup {q \in parts : q.plan # {}}
      /\ pc' = IF queue' = {} THEN "saving" ELSE "pushing"
  BY DEF ThenPush
<1>2. \A q \in queue \ {p} : PartOK(q) /\ q.plan \cap p.plan = {}
  BY DEF QueueOK
<1>3. PartOK(p)
  BY DEF QueueOK
<1>4. ASSUME NEW q \in queue'
      PROVE  PartOK(q)'
  <2>1. CASE q \in queue \ {p}
    <3>1. PartOK(q) /\ q.plan \cap p.plan = {}
      BY <1>2, <2>1
    <3>2. q.plan \cap mem'.permanent = {}
      BY <1>0, <3>1 DEF PartOK
    <3>3. QED
      BY <3>1, <3>2 DEF PartOK
  <2>2. CASE q \in parts /\ q.plan # {}
    <3>1. q.plan \cap mem'.permanent = {}
      BY <1>0, <1>3, <2>2 DEF PartOK
    <3>2. q.plan \subseteq LeavesOf(q.asset)
      BY <1>0, <1>3, <2>2 DEF PartOK
    <3>3. QED
      BY <1>0, <1>3, <2>2, <3>1, <3>2 DEF PartOK
  <2>3. QED
    BY <1>1, <2>1, <2>2
<1>5. ASSUME NEW q \in queue', NEW r \in queue', q # r
      PROVE  q.plan \cap r.plan = {}
  <2>1. CASE q \in queue \ {p} /\ r \in queue \ {p}
    BY <1>5, <2>1 DEF QueueOK
  <2>2. CASE q \in queue \ {p} /\ r \in parts
    BY <1>0, <1>2, <2>2
  <2>3. CASE q \in parts /\ r \in queue \ {p}
    BY <1>0, <1>2, <2>3
  <2>4. CASE q \in parts /\ r \in parts
    BY <1>0, <1>5, <2>4
  <2>5. QED
    BY <1>1, <2>1, <2>2, <2>3, <2>4
<1>6. QED
  BY <1>1, <1>4, <1>5 DEF QueueOK

----------------------------------------------------------------------------
(* The invariant: its start, and the steps nobody of the keeper takes. *)

(* It holds at the start. *)
LEMMA InitKeeps ==
    ASSUME PayoutAssumption, Init
    PROVE  IInv
<1>1. /\ keeperExpired = FALSE /\ chainExpired = FALSE /\ refusing \in SUBSET Unfundable
      /\ onchain = [i \in Assets |-> "none"] /\ funded = [i \in Assets |-> 0] /\ vault = [i \in Assets |-> 0]
      /\ wallet = [i \in Assets |-> Fund[i]]
      /\ claimed = {} /\ flying = {} /\ queue = {} /\ missed = {} /\ faults = 0 /\ pc = "idle" /\ disk = mem
  BY DEF Init
<1>2. /\ mem.status = "COMMITTED" /\ mem.asset = [i \in Assets |-> "pending"]
      /\ mem.attempts = [i \in Assets |-> 0] /\ mem.inventory = [i \in Assets |-> 0]
      /\ mem.failed = [x \in Leaves |-> 0] /\ mem.permanent = {} /\ mem.expiring = Assets
  BY DEF Init
<1>3. mem \in KeeperState
  <2>1. MaxActivationAttempts \in Nat /\ MaxPushAttempts \in Nat
    BY DEF PayoutAssumption
  <2>2. 0 \in 0 .. MaxActivationAttempts /\ 0 \in 0 .. MaxPushAttempts
    BY <2>1
  <2>3. mem.status \in {"COMMITTED", "ACTIVE", "complete", "expired"} /\ mem.resting = {}
    BY DEF Init
  <2>4. /\ mem.asset \in [Assets -> {"pending", "active", "abandoned", "released"}]
        /\ mem.attempts \in [Assets -> 0 .. MaxActivationAttempts] /\ mem.inventory \in [Assets -> Nat]
        /\ mem.failed \in [Leaves -> 0 .. MaxPushAttempts] /\ mem.permanent \subseteq Leaves
        /\ mem.resting \subseteq Rests /\ mem.expiring \subseteq Assets
    BY <1>2, <2>2, <2>3
  <2>5. mem = [status |-> mem.status, asset |-> mem.asset, attempts |-> mem.attempts, inventory |-> mem.inventory,
               failed |-> mem.failed, permanent |-> mem.permanent, resting |-> mem.resting, expiring |-> mem.expiring]
    BY DEF Init
  <2>6. QED
    BY ONLY <2>3, <2>4, <2>5 DEF KeeperState
<1>4. \A i \in Assets : Fund[i] \in Nat
  BY DEF PayoutAssumption
<1>5. WorldOK
  <2>1. clock \in BOOLEAN \X BOOLEAN \X SUBSET Unfundable
    BY <1>1 DEF clock
  <2>2. \A i \in Assets : ChainOK(i)
    BY <1>1 DEF ChainOK
  <2>3. QED
    BY <1>1, <1>4, <2>1, <2>2 DEF WorldOK
<1>6. ASSUME NEW i \in Assets
      PROVE  AssetOK(mem, i)
  <2>1. /\ mem.asset[i] = "pending" /\ mem.attempts[i] = 0 /\ mem.inventory[i] = 0
        /\ i \in mem.expiring /\ onchain[i] = "none"
    BY <1>1, <1>2
  <2>2. 0 < MaxActivationAttempts
    BY DEF PayoutAssumption
  <2>3. PendingOK(mem, i)
    BY <1>1, <1>2, <2>1, <2>2 DEF PendingOK
  <2>4. ActiveOK(mem, i) /\ GivenUpOK(mem, i) /\ ExpiringOK(mem, i)
    BY <2>1 DEF ActiveOK, GivenUpOK, ExpiringOK
  <2>5. QED
    BY <2>3, <2>4 DEF AssetOK
<1>7. FailuresOK(mem)
  <2>1. 0 < MaxPushAttempts
    BY DEF PayoutAssumption
  <2>2. QED
    BY <1>2, <2>1 DEF FailuresOK
<1>8. FileOK(mem) /\ FileOK(disk)
  BY <1>1, <1>3, <1>6, <1>7 DEF FileOK
<1>9. FilesAgree /\ QueueOK /\ StepOK
  <2>1. 0 \in 0 .. MaxFaults
    BY DEF PayoutAssumption
  <2>2. QED
    BY <1>1, <2>1 DEF FilesAgree, QueueOK, StepOK
<1>10. \A i \in Assets : CloseOK(i)
  BY <1>1 DEF CloseOK
<1>11. QED
  BY <1>5, <1>8, <1>9, <1>10 DEF IInv

(* The keeper and its file are where they were. *)
KeeperSame == UNCHANGED <<mem, disk, pc, queue, faults>>

(* Memory, disk and queue agree as before. *)
LEMMA KeeperSameKeeps ==
    ASSUME IInv, KeeperSame
    PROVE  FilesAgree' /\ QueueOK'
<1>1. mem' = mem /\ disk' = disk /\ pc' = pc /\ queue' = queue
  BY DEF KeeperSame
<1>2. FilesAgree'
  BY <1>1 DEF IInv, FilesAgree
<1>3. QueueOK'
  BY <1>1 DEF IInv, QueueOK, PartOK
<1>4. QED
  BY <1>2, <1>3

(* With the keeper where it was, a world that still agrees with any file is all there is to show. *)
LEMMA WorldMoves ==
    ASSUME IInv, KeeperSame, WorldOK', FileOK(mem)', FileOK(disk)',
           \A i \in Assets : onchain'[i] = "closed" => onchain[i] = "closed" /\ wallet'[i] = wallet[i],
           missed' = missed
    PROVE  IInv'
<1>1. mem' = mem /\ disk' = disk /\ pc' = pc /\ faults' = faults
  BY DEF KeeperSame
<1>2. StepOK'
  BY <1>1 DEF IInv, StepOK
<1>3. ASSUME NEW i \in Assets
      PROVE  CloseOK(i)'
  <2>1. CloseOK(i)
    BY DEF IInv
  <2>2. QED
    BY <1>1, <2>1 DEF CloseOK
<1>4. QED
  BY <1>2, <1>3, KeeperSameKeeps DEF IInv

(* A holder is paid without the keeper. *)
LEMMA SelfClaimKeeps ==
    ASSUME PayoutAssumption, IInv, NEW x \in Leaves, SelfClaim(x)
    PROVE  IInv'
<1>1. /\ onchain[x[1]] = "active" /\ Pay({x}) /\ UNCHANGED clock /\ KeeperSame /\ missed' = missed
  BY DEF SelfClaim, KeeperSame
<1>2. x[1] \in Assets /\ {x} \subseteq LeavesOf(x[1])
  BY LeafIs
<1>3. WorldOK /\ FileOK(mem) /\ FileOK(disk)
  BY DEF IInv
<1>4. WorldOK' /\ \A m : FileOK(m) => FileOK(m)'
  BY <1>1, <1>2, <1>3, PayKeeps
<1>5. FileOK(mem)' /\ FileOK(disk)'
  BY <1>1, <1>3, <1>4 DEF KeeperSame
<1>6. onchain' = onchain /\ wallet' = wallet
  BY <1>1 DEF Pay
<1>7. QED
  BY <1>1, <1>4, <1>5, <1>6, WorldMoves

(* An activation nobody waits for lands. *)
LEMMA LandLateKeeps ==
    ASSUME PayoutAssumption, TreeAssumption, IInv, NEW i \in Assets, LandLate(i)
    PROVE  IInv'
<1>1. /\ i \in flying /\ CanActivate(i) /\ ActivationLands(i) /\ UNCHANGED clock /\ KeeperSame /\ missed' = missed
  BY DEF LandLate, KeeperSame
<1>2. WorldOK /\ FileOK(mem) /\ FileOK(disk)
  BY DEF IInv
<1>3. /\ WorldOK' /\ \A m : FileOK(m) => FileOK(m)'
      /\ onchain' = [onchain EXCEPT ![i] = "active"]
      /\ wallet' = [wallet EXCEPT ![i] = Fund[i] - Sent(i)]
  BY <1>1, <1>2, LandingKeeps
<1>4. FileOK(mem)' /\ FileOK(disk)'
  BY <1>1, <1>2, <1>3 DEF KeeperSame
<1>5. \A j \in Assets : onchain'[j] = "closed" => onchain[j] = "closed" /\ wallet'[j] = wallet[j]
  BY <1>2, <1>3 DEF WorldOK
<1>6. QED
  BY <1>1, <1>3, <1>4, <1>5, WorldMoves

(* Somebody else closes an asset: the keeper will miss its leftovers. *)
LEMMA ForeignCloseKeeps ==
    ASSUME PayoutAssumption, IInv, NEW i \in Assets, ForeignClose(i)
    PROVE  IInv'
<1>1. /\ CloseLands(i) /\ UNCHANGED clock /\ KeeperSame
      /\ missed' = missed \cup (disk.expiring \cap {i})
  BY DEF ForeignClose, KeeperSame
<1>2. WorldOK /\ FileOK(mem) /\ FileOK(disk) /\ onchain[i] = "active"
  BY <1>1 DEF IInv, CloseLands
<1>3. /\ WorldOK' /\ \A m : FileOK(m) => FileOK(m)'
      /\ onchain' = [onchain EXCEPT ![i] = "closed"]
      /\ wallet' = [wallet EXCEPT ![i] = @ + NetAfterTransferFee(i, vault[i])]
  BY <1>1, <1>2, CloseKeeps
<1>4. FileOK(mem)' /\ FileOK(disk)'
  BY <1>1, <1>2, <1>3 DEF KeeperSame
<1>5. i \in disk.expiring
  BY <1>2 DEF FileOK, AssetOK, ExpiringOK
<1>6. ASSUME NEW j \in Assets
      PROVE  CloseOK(j)'
  <2>1. CloseOK(j)
    BY DEF IInv
  <2>2. CASE j = i
    BY <1>1, <1>5, <2>2 DEF CloseOK
  <2>3. CASE j # i
    <3>1. onchain'[j] = onchain[j] /\ wallet'[j] = wallet[j]
      BY <1>2, <1>3, <2>3 DEF WorldOK
    <3>2. QED
      BY <1>1, <2>1, <3>1 DEF CloseOK, KeeperSame
  <2>4. QED
    BY <2>2, <2>3
<1>7. StepOK'
  BY <1>1 DEF IInv, StepOK, KeeperSame
<1>8. QED
  BY <1>1, <1>3, <1>4, <1>6, <1>7, KeeperSameKeeps DEF IInv

(* Whether an activation is seen in time. *)
SeenInTime == SlowNearExpiry = FALSE

(* The chain's clock passes the expiry. *)
LEMMA ExpireChainStep ==
    ASSUME PayoutAssumption, SeenInTime, IInv, ExpireChain
    PROVE  IInv'
<1>1. /\ ~chainExpired /\ chainExpired' = TRUE /\ Unseen = {} /\ KeeperSame /\ missed' = missed
      /\ UNCHANGED <<keeperExpired, refusing, onchain, funded, vault, wallet, claimed, flying>>
  BY DEF ExpireChain, SeenInTime, KeeperSame, chain
<1>2. WorldOK /\ FileOK(mem) /\ FileOK(disk) /\ FilesAgree
  BY DEF IInv
<1>3. /\ WorldOK'
      /\ \A m : FileOK(m) /\ (\A i \in Assets : m.asset[i] = "pending" => onchain[i] # "active") => FileOK(m)'
  BY <1>1, <1>2, ExpireChainKeeps
<1>4. \A i \in Assets : disk.asset[i] = "pending" => onchain[i] # "active"
  BY <1>1 DEF Unseen
<1>5. \A i \in Assets : mem.asset[i] = "pending" => disk.asset[i] = "pending"
  BY <1>2 DEF FilesAgree
<1>6. FileOK(mem)' /\ FileOK(disk)'
  BY <1>1, <1>2, <1>3, <1>4, <1>5 DEF KeeperSame
<1>7. QED
  BY <1>1, <1>3, <1>6, WorldMoves

(* The keeper's clock passes it. *)
LEMMA ExpireKeeperStep ==
    ASSUME PayoutAssumption, TreeAssumption, SeenInTime, IInv, ExpireKeeper
    PROVE  IInv'
<1>1. /\ ~keeperExpired /\ keeperExpired' = TRUE /\ Unseen = {} /\ KeeperSame /\ missed' = missed
      /\ UNCHANGED <<chainExpired, refusing, onchain, funded, vault, wallet, claimed, flying>>
      /\ pc = "idle"
  BY DEF ExpireKeeper, SeenInTime, KeeperSame, chain
<1>2. WorldOK /\ FileOK(mem) /\ FileOK(disk) /\ mem = disk
  BY <1>1 DEF IInv, FilesAgree
<1>3. /\ WorldOK'
      /\ \A m : FileOK(m) /\ (\A i \in Assets : m.asset[i] = "pending" => onchain[i] # "active" /\ ~MayLand(i))
                   => FileOK(m)'
  BY <1>1, <1>2, ExpireKeeperKeeps
<1>4. ASSUME NEW i \in Assets, disk.asset[i] = "pending"
      PROVE  onchain[i] # "active" /\ ~MayLand(i)
  <2>1. onchain[i] # "active"
    BY <1>1, <1>4 DEF Unseen
  <2>2. AssetOK(disk, i)
    BY <1>2 DEF FileOK
  <2>3. onchain[i] = "none"
    BY <1>2, <1>4, <2>1, <2>2 DEF AssetOK, PendingOK, WorldOK
  <2>4. vault[i] = 0 /\ wallet[i] = Fund[i]
    BY <1>2, <2>3 DEF WorldOK, ChainOK
  <2>5. CanActivate(i) <=> CanLand(i)
    BY <2>3, <2>4, ActivatingEmpty
  <2>6. QED
    BY <1>1, <2>1, <2>5 DEF Unseen, MayLand
<1>5. FileOK(mem)' /\ FileOK(disk)'
  BY <1>1, <1>2, <1>3, <1>4 DEF KeeperSame
<1>6. QED
  BY <1>1, <1>3, <1>5, WorldMoves

----------------------------------------------------------------------------
(* Saving and failing. *)

(* With the chain where it was, so are its invariants and what any file says of it. *)
LEMMA ChainStays ==
    ASSUME WorldOK, UNCHANGED clock, UNCHANGED chain
    PROVE  /\ WorldOK' /\ \A m : FileOK(m) => FileOK(m)'
           /\ onchain' = onchain /\ wallet' = wallet /\ claimed' = claimed
<1>1. WorldSame
  <2>1. flying' \in SUBSET Assets
    BY DEF WorldOK, chain
  <2>2. QED
    BY <2>1 DEF WorldSame, chain
<1>2. QED
  BY <1>1, WorldSameKeeps DEF chain

(* Memory is saved. *)
LEMMA SaveKeeps ==
    ASSUME PayoutAssumption, IInv, Save
    PROVE  IInv'
<1>1. /\ disk' = mem /\ mem' = mem /\ pc = "saving" /\ pc' = "idle" /\ UNCHANGED clock /\ UNCHANGED chain
      /\ queue' = queue /\ missed' = missed /\ faults' = faults
  BY DEF Save
<1>2. WorldOK /\ FileOK(mem) /\ queue = {}
  BY <1>1 DEF IInv, FilesAgree
<1>3. WorldOK' /\ FileOK(mem)' /\ FileOK(disk)' /\ onchain' = onchain /\ wallet' = wallet
  BY <1>1, <1>2, ChainStays
<1>4. FilesAgree' /\ QueueOK' /\ StepOK'
  BY <1>1, <1>2 DEF IInv, FilesAgree, QueueOK, StepOK
<1>5. \A i \in Assets : CloseOK(i)'
  BY <1>1, <1>3 DEF IInv, CloseOK
<1>6. QED
  BY <1>3, <1>4, <1>5 DEF IInv

(* Faults are bounded. *)
LEMMA FaultCounts ==
    ASSUME PayoutAssumption, StepOK, Fault
    PROVE  faults' \in 0 .. MaxFaults
<1>1. faults \in 0 .. MaxFaults /\ MaxFaults \in Nat /\ faults < MaxFaults /\ faults' = faults + 1
  BY DEF PayoutAssumption, StepOK, Fault
<1>2. QED
  BY <1>1

(* Memory is lost. *)
LEMMA CrashKeeps ==
    ASSUME PayoutAssumption, IInv, Crash
    PROVE  IInv'
<1>1. /\ disk' = disk /\ mem' = disk /\ pc' = "idle" /\ UNCHANGED clock /\ UNCHANGED chain /\ Fault
      /\ queue' = {} /\ missed' = missed \cup {i \in disk.expiring : onchain[i] = "closed"}
  BY DEF Crash
<1>2. WorldOK /\ FileOK(disk) /\ StepOK
  BY DEF IInv
<1>3. WorldOK' /\ FileOK(mem)' /\ FileOK(disk)' /\ onchain' = onchain /\ wallet' = wallet
  BY <1>1, <1>2, ChainStays
<1>4. disk.expiring \subseteq Assets
  BY <1>2, FileTypes DEF FileOK
<1>5. StepOK'
  BY <1>1, <1>2, <1>4, FaultCounts DEF StepOK
<1>6. FilesAgree' /\ QueueOK'
  BY <1>1 DEF FilesAgree, QueueOK
<1>7. \A i \in Assets : CloseOK(i)'
  BY <1>1, <1>3 DEF IInv, CloseOK
<1>8. QED
  BY <1>3, <1>5, <1>6, <1>7 DEF IInv

(* A rest ends. *)
LEMMA RestEndsKeeps ==
    ASSUME PayoutAssumption, IInv, NEW x \in mem.resting, RestEnds(x)
    PROVE  IInv'
<1>1. /\ pc = "idle" /\ mem' = [mem EXCEPT !.resting = @ \ {x}] /\ disk' = mem'
      /\ UNCHANGED clock /\ UNCHANGED chain /\ pc' = pc /\ queue' = queue /\ missed' = missed /\ faults' = faults
  BY DEF RestEnds
<1>2. WorldOK /\ FileOK(mem) /\ mem \in KeeperState /\ mem = disk /\ queue = {}
  BY <1>1 DEF IInv, FilesAgree, FileOK
<1>3. WorldOK' /\ (\A m : FileOK(m) => FileOK(m)') /\ onchain' = onchain /\ wallet' = wallet
  BY <1>1, <1>2, ChainStays
<1>4. PICK m : m = mem
  OBVIOUS
<1>5. PICK n : n = mem'
  OBVIOUS
<1>6. n = [m EXCEPT !.resting = m.resting \ {x}] /\ m \in KeeperState
  BY <1>1, <1>2, <1>4, <1>5
<1>7. n \in KeeperState /\ SameButResting(m, n)
  BY ONLY <1>6 DEF KeeperState, SameButResting
<1>8. FileOK(m)'
  BY <1>2, <1>3, <1>4
<1>9. FileOK(n)'
  BY <1>7, <1>8, RestingKeeps
<1>10. FileOK(mem)' /\ FileOK(disk)'
  BY <1>1, <1>5, <1>9
<1>11. FilesAgree' /\ QueueOK' /\ StepOK'
  BY <1>1, <1>2 DEF IInv, FilesAgree, QueueOK, StepOK
<1>12. ASSUME NEW i \in Assets
       PROVE  CloseOK(i)'
  <2>1. CloseOK(i)
    BY DEF IInv
  <2>2. mem'.expiring = mem.expiring /\ mem'.inventory = mem.inventory
    BY <1>4, <1>5, <1>7 DEF SameButResting
  <2>3. QED
    BY <1>1, <1>2, <1>3, <2>1, <2>2 DEF CloseOK
<1>13. QED
  BY <1>3, <1>10, <1>11, <1>12 DEF IInv

----------------------------------------------------------------------------
(* Steps of the keeper that begin between two others. *)

(***************************************************************************)
(* The chain has moved or not, and what the step makes of its file in      *)
(* memory agrees with it; no asset was closed meanwhile, and none of those *)
(* closed before is touched.                                               *)
(***************************************************************************)
LEMMA IdleStep ==
    ASSUME IInv, pc = "idle", pc' = "saving", WorldOK', FileOK(mem)', FileOK(disk)',
           disk' = disk, queue' = queue, missed' = missed, faults' \in 0 .. MaxFaults,
           mem'.expiring = mem.expiring,
           \A i \in Assets : /\ mem'.asset[i] = mem.asset[i] \/ mem.asset[i] = "pending"
                             /\ mem.asset[i] = "active" => mem'.inventory[i] = mem.inventory[i]
                             /\ onchain'[i] = "closed" => onchain[i] = "closed" /\ wallet'[i] = wallet[i]
    PROVE  IInv'
<1>1. mem = disk /\ queue = {}
  BY DEF IInv, FilesAgree
<1>2. QueueOK' /\ StepOK'
  BY <1>1 DEF IInv, QueueOK, StepOK
<1>3. FilesAgree'
  BY <1>1 DEF FilesAgree
<1>4. ASSUME NEW i \in Assets
      PROVE  CloseOK(i)'
  <2>1. SUFFICES ASSUME onchain'[i] = "closed", i \notin missed
                 PROVE  CloseOK(i)'
    BY DEF CloseOK
  <2>2. CloseOK(i) /\ onchain[i] = "closed" /\ wallet'[i] = wallet[i]
    BY <2>1 DEF IInv
  <2>3. mem \in KeeperState /\ AssetOK(mem, i)
    BY DEF IInv, FileOK
  <2>4. mem.asset[i] = "active"
    BY <2>2, <2>3 DEF KeeperState, AssetOK, PendingOK, GivenUpOK
  <2>5. mem'.inventory[i] = mem.inventory[i]
    BY <2>4
  <2>6. QED
    BY <1>1, <2>1, <2>2, <2>5 DEF CloseOK
<1>5. QED
  BY <1>2, <1>3, <1>4 DEF IInv

(* The assets found active on the way to another can be booked, wherever the chain is. *)
LEMMA FoundAreBooked ==
    ASSUME PayoutAssumption, TreeAssumption, IInv, NEW i \in Int,
           WorldOK', \A j \in Unbooked : onchain'[j] = "active",
           NEW m, m = mem, FileOK(m)', NEW n, n = BookedBefore(i)
    PROVE  /\ FileOK(n)'
           /\ n.status = m.status /\ n.attempts = m.attempts /\ n.expiring = m.expiring
           /\ \A j \in Assets : n.asset[j] = IF j \in Unbooked /\ j < i THEN "active" ELSE m.asset[j]
           /\ \A j \in Assets : m.asset[j] # "pending" => n.asset[j] = m.asset[j] /\ n.inventory[j] = m.inventory[j]
<1> DEFINE found == {j \in Unbooked : j < i}
           used == [j \in found |-> GrossForNet(j, funded[j])]
<1>1. WorldOK /\ FileOK(mem)
  BY DEF IInv
<1>2. found \subseteq Assets /\ n = BookActive(m, found, used)
  BY DEF BookedBefore, Unbooked
<1>3. ASSUME NEW j \in found
      PROVE  m.asset[j] = "pending" /\ onchain'[j] = "active" /\ used[j] = Sent(j)
  <2>1. j \in Assets /\ mem.asset[j] = "pending" /\ onchain[j] = "active"
    BY DEF Unbooked
  <2>2. funded[j] = Allocated(j)
    BY <1>1, <2>1 DEF WorldOK, ChainOK
  <2>3. GrossForNet(j, Allocated(j)) = Sent(j)
    BY <2>1, SentIs
  <2>4. used[j] = GrossForNet(j, funded[j])
    OBVIOUS
  <2>5. QED
    BY <2>1, <2>2, <2>3, <2>4
<1>4. \A j \in found : m.asset[j] = "pending" /\ onchain'[j] = "active" /\ used[j] = Sent(j)
  BY <1>3
<1> HIDE DEF used
<1>5. FileOK(n)' /\ Books(m, n, found)
  <2> HIDE DEF found
  <2>1. PICK is, us : is = found /\ us = used
    OBVIOUS
  <2>2. Bookable(m, is, us)'
    BY <1>2, <1>4, <2>1 DEF Bookable
  <2>3. n = BookActive(m, is, us)
    BY <1>2, <2>1
  <2>4. QED
    BY <2>1, <2>2, <2>3, BookKeeps
<1>6. \A j \in Assets : m.asset[j] # "pending" => j \notin found
  BY <1>3
<1>7. QED
  BY <1>5, <1>6 DEF Books

(* An asset whose attempt fails for good is one the program would not activate. *)
LEMMA FailsForGood ==
    ASSUME PayoutAssumption, TreeAssumption, IInv, NEW i \in Ready, ~CanActivate(i) \/ Lacking(i) > Fund[i]
    PROVE  onchain[i] = "none" /\ ~CanLand(i)
<1>1. i \in Assets /\ mem.asset[i] = "pending" /\ onchain[i] # "active"
  BY DEF Ready, Unsent
<1>2. WorldOK /\ AssetOK(mem, i)
  BY <1>1 DEF IInv, FileOK
<1>3. onchain[i] = "none"
  BY <1>1, <1>2 DEF WorldOK, AssetOK, PendingOK
<1>4. vault[i] = 0 /\ wallet[i] = Fund[i]
  BY <1>1, <1>2, <1>3 DEF WorldOK, ChainOK
<1>5. Lacking(i) = Sent(i) /\ (CanActivate(i) <=> CanLand(i))
  BY <1>1, <1>3, <1>4, ActivatingEmpty
<1>6. ~(Lacking(i) > Fund[i])
  <2>1. Sent(i) \in 0 .. Fund[i] /\ Fund[i] \in Nat
    BY <1>1, SentIs
  <2>2. QED
    BY <1>5, <2>1
<1>7. QED
  BY <1>3, <1>5, <1>6

(* What the step did to the file, given what it had found before. *)
LEMMA TriedStep ==
    ASSUME PayoutAssumption, TreeAssumption, IInv, NEW i \in Ready, pc = "idle", pc' = "saving",
           WorldOK', FileOK(mem)', FileOK(disk)',
           disk' = disk, queue' = queue, missed' = missed, faults' \in 0 .. MaxFaults,
           \A j \in Assets \ {i} : onchain'[j] = onchain[j] /\ wallet'[j] = wallet[j],
           onchain'[i] # "closed",
           mem'.expiring = mem.expiring,
           \A j \in Assets \ {i} :
               mem.asset[j] # "pending" => mem'.asset[j] = mem.asset[j] /\ mem'.inventory[j] = mem.inventory[j]
    PROVE  IInv'
<1>1. mem.asset[i] = "pending"
  BY DEF Ready, Unsent
<1>2. ASSUME NEW j \in Assets
      PROVE  /\ mem'.asset[j] = mem.asset[j] \/ mem.asset[j] = "pending"
             /\ mem.asset[j] = "active" => mem'.inventory[j] = mem.inventory[j]
             /\ onchain'[j] = "closed" => onchain[j] = "closed" /\ wallet'[j] = wallet[j]
  <2>1. CASE j = i
    BY <1>1, <2>1
  <2>2. CASE j # i
    BY <2>2
  <2>3. QED
    BY <2>1, <2>2
<1>3. QED
  BY <1>2, IdleStep

(* An asset is tried, whatever becomes of it. *)
LEMMA ActivateTryKeeps ==
    ASSUME PayoutAssumption, TreeAssumption, IInv, NEW i \in Assets, ActivateTry(i)
    PROVE  IInv'
<1>1. /\ pc = "idle" /\ ~keeperExpired /\ i \in Ready /\ pc' = "saving"
      /\ UNCHANGED clock /\ disk' = disk /\ queue' = queue /\ missed' = missed
  BY DEF ActivateTry, PayingTurn, First
<1>2. mem.asset[i] = "pending" /\ onchain[i] # "active"
  BY <1>1 DEF Ready, Unsent
<1>3. WorldOK /\ FileOK(mem) /\ FileOK(disk) /\ StepOK /\ AssetOK(mem, i)
  BY DEF IInv, FileOK
<1>4. PICK m : m = mem
  OBVIOUS
<1>5. PICK n : n = BookedBefore(i)
  OBVIOUS
<1>6. i \in Int
  BY DEF Assets
<1>7. ASSUME WorldOK', FileOK(m)', \A j \in Unbooked : onchain'[j] = "active"
      PROVE  /\ FileOK(n)'
             /\ n.status = m.status /\ n.attempts = m.attempts /\ n.expiring = m.expiring
             /\ n.asset[i] = "pending"
             /\ \A j \in Assets : m.asset[j] # "pending" => n.asset[j] = m.asset[j] /\ n.inventory[j] = m.inventory[j]
  <2>1. /\ FileOK(n)'
        /\ n.status = m.status /\ n.attempts = m.attempts /\ n.expiring = m.expiring
        /\ \A j \in Assets : n.asset[j] = IF j \in Unbooked /\ j < i THEN "active" ELSE m.asset[j]
        /\ \A j \in Assets : m.asset[j] # "pending" => n.asset[j] = m.asset[j] /\ n.inventory[j] = m.inventory[j]
    BY ONLY PayoutAssumption, TreeAssumption, IInv, <1>4, <1>5, <1>6, <1>7, FoundAreBooked, SMTT(30)
  <2>2. i \notin Unbooked
    BY <1>2 DEF Unbooked
  <2>3. n.asset[i] = "pending"
    BY <1>2, <1>4, <2>1, <2>2
  <2>4. QED
    BY <2>1, <2>3
<1>8. Activating(i) \in Rests
  BY DEF Rests
<1>9. ASSUME WorldOK', FileOK(n)', FileOK(disk)', faults' \in 0 .. MaxFaults,
             n.expiring = m.expiring, n.asset[i] = "pending",
             \A j \in Assets : m.asset[j] # "pending" => n.asset[j] = m.asset[j] /\ n.inventory[j] = m.inventory[j],
             \A j \in Assets \ {i} : onchain'[j] = onchain[j] /\ wallet'[j] = wallet[j],
             onchain'[i] # "closed",
             mem' = RestActivation(n, i)
      PROVE  IInv'
  <2>1. PICK o : o = RestActivation(n, i)
    OBVIOUS
  <2>2. n \in KeeperState
    BY <1>9 DEF FileOK
  <2>3. o = [n EXCEPT !.resting = n.resting \cup {Activating(i)}] /\ n.resting \cup {Activating(i)} \in SUBSET Rests
    BY <1>8, <2>1, <2>2 DEF RestActivation, KeeperState
  <2>4. o \in KeeperState /\ SameButResting(n, o)
    BY ONLY <2>2, <2>3 DEF KeeperState, SameButResting
  <2>5. FileOK(o)'
    BY <1>9, <2>4, RestingKeeps
  <2>6. FileOK(mem)'
    BY <1>9, <2>1, <2>5
  <2>7. /\ mem'.expiring = mem.expiring
        /\ \A j \in Assets \ {i} :
               mem.asset[j] # "pending" => mem'.asset[j] = mem.asset[j] /\ mem'.inventory[j] = mem.inventory[j]
    BY <1>4, <1>9, <2>1, <2>4 DEF SameButResting
  <2>8. QED
    BY <1>1, <1>9, <2>6, <2>7, TriedStep
<1>10. ASSUME WorldOK', FileOK(n)', FileOK(disk)', faults' \in 0 .. MaxFaults,
             n.expiring = m.expiring, n.asset[i] = "pending",
             \A j \in Assets : m.asset[j] # "pending" => n.asset[j] = m.asset[j] /\ n.inventory[j] = m.inventory[j],
             \A j \in Assets \ {i} : onchain'[j] = onchain[j] /\ wallet'[j] = wallet[j],
             \/ onchain'[i] = "active" /\ n.attempts[i] = 0
             \/ onchain'[i] = "none" /\ ~CanLand(i)',
             mem' = CountActivation(n, i)
      PROVE  IInv'
  <2>1. PICK o : o = CountActivation(n, i)
    OBVIOUS
  <2>2. /\ FileOK(o)' /\ o.expiring = n.expiring
        /\ \A j \in Assets \ {i} : o.asset[j] = n.asset[j] /\ o.inventory[j] = n.inventory[j]
    BY <1>10, <2>1, CountKeeps
  <2>3. FileOK(mem)'
    BY <1>10, <2>1, <2>2
  <2>4. /\ mem'.expiring = mem.expiring
        /\ \A j \in Assets \ {i} :
               mem.asset[j] # "pending" => mem'.asset[j] = mem.asset[j] /\ mem'.inventory[j] = mem.inventory[j]
    BY <1>4, <1>10, <2>1, <2>2
  <2>5. onchain'[i] # "closed"
    BY <1>10
  <2>6. QED
    BY <1>1, <1>10, <2>3, <2>4, <2>5, TriedStep
<1>11. CASE /\ CanActivate(i) /\ ActivationLands(i)
            /\ \/ mem' = BookActive(n, {i}, [j \in {i} |-> Lacking(i)]) /\ UNCHANGED faults
               \/ mem' = RestActivation(n, i) /\ Fault
               \/ mem' = CountActivation(n, i) /\ Fault
  <2>1. /\ WorldOK' /\ \A f : FileOK(f) => FileOK(f)'
        /\ onchain[i] = "none" /\ CanLand(i) /\ Lacking(i) = Sent(i)
        /\ onchain' = [onchain EXCEPT ![i] = "active"]
        /\ wallet' = [wallet EXCEPT ![i] = Fund[i] - Sent(i)]
    BY <1>1, <1>3, <1>11, LandingKeeps
  <2>2. FileOK(m)' /\ FileOK(disk)'
    BY <1>1, <1>3, <1>4, <2>1
  <2>3. onchain'[i] = "active" /\ \A j \in Assets \ {i} : onchain'[j] = onchain[j] /\ wallet'[j] = wallet[j]
    BY <1>3, <2>1 DEF WorldOK
  <2>4. \A j \in Unbooked : onchain'[j] = "active"
    BY <1>2, <2>3 DEF Unbooked
  <2>5. /\ FileOK(n)'
        /\ n.status = m.status /\ n.attempts = m.attempts /\ n.expiring = m.expiring
        /\ n.asset[i] = "pending"
        /\ \A j \in Assets : m.asset[j] # "pending" => n.asset[j] = m.asset[j] /\ n.inventory[j] = m.inventory[j]
    BY <1>7, <2>1, <2>2, <2>4
  <2>6. faults' \in 0 .. MaxFaults
    BY <1>3, <1>11, FaultCounts DEF StepOK
  <2>7. CASE mem' = RestActivation(n, i)
    BY <1>9, <2>1, <2>2, <2>3, <2>5, <2>6, <2>7
  <2>8. CASE mem' = CountActivation(n, i)
    <3>1. n.attempts[i] = 0
      BY <1>2, <1>3, <1>4, <2>1, <2>5 DEF AssetOK, PendingOK
    <3>2. QED
      BY <1>10, <2>1, <2>2, <2>3, <2>5, <2>6, <2>8, <3>1
  <2>9. CASE mem' = BookActive(n, {i}, [j \in {i} |-> Lacking(i)])
    <3>1. PICK is, used : is = {i} /\ used = [j \in {i} |-> Lacking(i)]
      OBVIOUS
    <3>2. Bookable(n, is, used)'
      BY <2>1, <2>3, <2>5, <3>1 DEF Bookable
    <3>3. PICK o : o = BookActive(n, is, used)
      OBVIOUS
    <3>4. FileOK(o)' /\ Books(n, o, is)
      BY <2>1, <2>5, <3>2, <3>3, BookKeeps
    <3>5. mem' = o
      BY <2>9, <3>1, <3>3
    <3>6. FileOK(mem)'
      BY <3>4, <3>5
    <3>7. /\ mem'.expiring = mem.expiring
          /\ \A j \in Assets \ {i} :
                 mem.asset[j] # "pending" => mem'.asset[j] = mem.asset[j] /\ mem'.inventory[j] = mem.inventory[j]
      BY <1>4, <2>5, <3>1, <3>4, <3>5 DEF Books
    <3>8. onchain'[i] # "closed"
      BY <2>3
    <3>9. QED
      BY <1>1, <2>1, <2>2, <2>3, <2>6, <3>6, <3>7, <3>8, TriedStep
  <2>10. QED
    BY <1>11, <2>7, <2>8, <2>9
<1>12. CASE /\ mem' = RestActivation(n, i) /\ Fault
            /\ flying' \in {flying, flying \cup {i}}
            /\ UNCHANGED <<onchain, funded, vault, wallet, claimed>>
  <2>1. WorldSame
    BY <1>1, <1>3, <1>12 DEF WorldSame, WorldOK
  <2>2. WorldOK' /\ (\A f : FileOK(f) => FileOK(f)') /\ onchain' = onchain /\ wallet' = wallet
    BY <1>3, <1>12, <2>1, WorldSameKeeps
  <2>3. FileOK(m)' /\ FileOK(disk)'
    BY <1>1, <1>3, <1>4, <2>2
  <2>4. \A j \in Unbooked : onchain'[j] = "active"
    BY <2>2 DEF Unbooked
  <2>5. /\ FileOK(n)'
        /\ n.status = m.status /\ n.attempts = m.attempts /\ n.expiring = m.expiring
        /\ n.asset[i] = "pending"
        /\ \A j \in Assets : m.asset[j] # "pending" => n.asset[j] = m.asset[j] /\ n.inventory[j] = m.inventory[j]
    BY <1>7, <2>2, <2>3, <2>4
  <2>6. faults' \in 0 .. MaxFaults
    BY <1>3, <1>12, FaultCounts
  <2>7. onchain[i] # "closed"
    BY <1>2, <1>3 DEF AssetOK, PendingOK
  <2>8. QED
    BY <1>9, <1>12, <2>2, <2>3, <2>5, <2>6, <2>7
<1>13. CASE /\ ~CanActivate(i) \/ Lacking(i) > Fund[i]
            /\ mem' = CountActivation(n, i)
            /\ UNCHANGED <<chain, faults>>
  <2>1. onchain[i] = "none" /\ ~CanLand(i)
    BY <1>1, <1>13, FailsForGood
  <2>2. WorldOK' /\ (\A f : FileOK(f) => FileOK(f)') /\ onchain' = onchain /\ wallet' = wallet
    BY <1>1, <1>3, <1>13, ChainStays
  <2>3. FileOK(m)' /\ FileOK(disk)'
    BY <1>1, <1>3, <1>4, <2>2
  <2>4. \A j \in Unbooked : onchain'[j] = "active"
    BY <2>2 DEF Unbooked
  <2>5. /\ FileOK(n)'
        /\ n.status = m.status /\ n.attempts = m.attempts /\ n.expiring = m.expiring
        /\ n.asset[i] = "pending"
        /\ \A j \in Assets : m.asset[j] # "pending" => n.asset[j] = m.asset[j] /\ n.inventory[j] = m.inventory[j]
    BY <1>7, <2>2, <2>3, <2>4
  <2>6. faults' \in 0 .. MaxFaults
    BY <1>3, <1>13 DEF StepOK
  <2>7. onchain'[i] = "none" /\ ~CanLand(i)'
    BY <1>1, <2>1, <2>2 DEF CanLand, clock
  <2>8. QED
    BY <1>10, <1>13, <2>2, <2>3, <2>5, <2>6, <2>7
<1>14. QED
  <2>1. LET f == BookedBefore(i)
            tooMuch == Lacking(i) > Fund[i]
        IN \/ /\ CanActivate(i) /\ ~tooMuch
              /\ ActivationLands(i)
              /\ \/ mem' = BookActive(f, {i}, [j \in {i} |-> Lacking(i)]) /\ UNCHANGED faults
                 \/ mem' = RestActivation(f, i) /\ Fault
                 \/ mem' = CountActivation(f, i) /\ Fault
           \/ /\ ~tooMuch
              /\ mem' = RestActivation(f, i) /\ Fault
              /\ flying' \in {flying, flying \cup {i}}
              /\ UNCHANGED <<onchain, funded, vault, wallet, claimed>>
           \/ /\ ~CanActivate(i) \/ tooMuch
              /\ mem' = CountActivation(f, i)
              /\ UNCHANGED <<chain, faults>>
    BY DEF ActivateTry
  <2>2. QED
    BY <1>5, <1>11, <1>12, <1>13, <2>1

(* No asset is left to try. *)
LEMMA ActivateNoneKeeps ==
    ASSUME PayoutAssumption, TreeAssumption, IInv, ActivateNone
    PROVE  IInv'
<1>1. /\ pc = "idle" /\ pc' = "saving" /\ mem.status = "COMMITTED"
      /\ UNCHANGED clock /\ UNCHANGED chain /\ disk' = disk /\ queue' = queue /\ missed' = missed /\ faults' = faults
  BY DEF ActivateNone, PayingTurn
<1>2. PICK n : n = BookedBefore(AssetCount + 1)
  OBVIOUS
<1>3. mem' = IF Unsent = {} THEN [n EXCEPT !.status = "ACTIVE"] ELSE n
  BY <1>2 DEF ActivateNone
<1>4. WorldOK /\ FileOK(mem) /\ FileOK(disk) /\ StepOK
  BY DEF IInv
<1>5. WorldOK' /\ (\A f : FileOK(f) => FileOK(f)') /\ onchain' = onchain /\ wallet' = wallet
  BY <1>1, <1>4, ChainStays
<1>6. PICK m : m = mem
  OBVIOUS
<1>7. FileOK(m)' /\ FileOK(disk)'
  BY <1>1, <1>4, <1>5, <1>6
<1>8. AssetCount + 1 \in Int /\ \A j \in Assets : j < AssetCount + 1
  BY DEF PayoutAssumption, Assets
<1>9. \A j \in Unbooked : onchain'[j] = "active"
  BY <1>5 DEF Unbooked
<1>10. /\ FileOK(n)'
       /\ n.status = m.status /\ n.expiring = m.expiring
       /\ \A j \in Assets : n.asset[j] = IF j \in Unbooked /\ j < AssetCount + 1 THEN "active" ELSE m.asset[j]
       /\ \A j \in Assets : m.asset[j] # "pending" => n.asset[j] = m.asset[j] /\ n.inventory[j] = m.inventory[j]
  BY <1>2, <1>5, <1>6, <1>7, <1>8, <1>9, FoundAreBooked
<1>11. /\ FileOK(mem)' /\ mem'.expiring = mem.expiring
       /\ \A j \in Assets :
              mem.asset[j] # "pending" => mem'.asset[j] = mem.asset[j] /\ mem'.inventory[j] = mem.inventory[j]
  <2>1. CASE Unsent = {}
    <3>1. PICK o : o = [n EXCEPT !.status = "ACTIVE"]
      OBVIOUS
    <3>2. ASSUME NEW j \in Assets
          PROVE  n.asset[j] # "pending"
      <4>1. m.asset[j] = "pending" => j \in Unbooked
        BY <1>6, <2>1 DEF Unsent, Unbooked
      <4>2. QED
        BY <1>8, <1>10, <4>1
    <3>3. n.status = "COMMITTED"
      BY <1>1, <1>6, <1>10
    <3>4. FileOK(o)' /\ o.asset = n.asset /\ o.inventory = n.inventory /\ o.expiring = n.expiring
      BY <1>10, <3>1, <3>2, <3>3, GoOnKeeps
    <3>5. mem' = o
      BY <1>3, <2>1, <3>1
    <3>6. QED
      BY <1>6, <1>10, <3>4, <3>5
  <2>2. CASE Unsent # {}
    BY <1>3, <1>6, <1>10, <2>2
  <2>3. QED
    BY <2>1, <2>2
<1>12. faults' \in 0 .. MaxFaults
  BY <1>1, <1>4 DEF StepOK
<1>13. \A j \in Assets : /\ mem'.asset[j] = mem.asset[j] \/ mem.asset[j] = "pending"
                         /\ mem.asset[j] = "active" => mem'.inventory[j] = mem.inventory[j]
                         /\ onchain'[j] = "closed" => onchain[j] = "closed" /\ wallet'[j] = wallet[j]
  BY <1>5, <1>11
<1>14. QED
  BY <1>1, <1>5, <1>7, <1>11, <1>12, <1>13, IdleStep

(* The round ends, complete or expired. *)
LEMMA FinishStep ==
    ASSUME PayoutAssumption, IInv, NEW outcome, pc = "idle", pc' = "saving",
           UNCHANGED clock, UNCHANGED chain, disk' = disk, queue' = queue, missed' = missed, faults' = faults,
           \/ /\ outcome = "complete" /\ mem.status = "ACTIVE"
              /\ \A i \in Assets : mem.asset[i] = "active" => LeavesOf(i) \subseteq claimed \cup mem.permanent
           \/ outcome = "expired" /\ keeperExpired,
           mem' = Finished(mem, outcome)
    PROVE  IInv'
<1>1. WorldOK /\ FileOK(mem) /\ FileOK(disk) /\ StepOK
  BY DEF IInv
<1>2. WorldOK' /\ (\A f : FileOK(f) => FileOK(f)') /\ onchain' = onchain /\ wallet' = wallet /\ claimed' = claimed
  BY <1>1, ChainStays
<1>3. PICK m : m = mem
  OBVIOUS
<1>4. FileOK(m)' /\ FileOK(disk)'
  BY <1>1, <1>2, <1>3
<1>5. PICK n : n = Finished(m, outcome)
  OBVIOUS
<1>6. \/ /\ outcome = "complete" /\ m.status = "ACTIVE"
         /\ \A i \in Assets : m.asset[i] = "active" => LeavesOf(i) \subseteq claimed' \cup m.permanent
      \/ outcome = "expired" /\ keeperExpired'
  BY <1>2, <1>3 DEF clock
<1>7. /\ FileOK(n)' /\ n.expiring = m.expiring
      /\ \A i \in Assets : /\ n.asset[i] = m.asset[i] \/ m.asset[i] = "pending"
                           /\ m.asset[i] # "pending" => n.inventory[i] = m.inventory[i]
  BY <1>4, <1>5, <1>6, FinishKeeps
<1>8. mem' = n
  BY <1>3, <1>5
<1>9. FileOK(mem)' /\ mem'.expiring = mem.expiring
  BY <1>3, <1>7, <1>8
<1>10. faults' \in 0 .. MaxFaults
  BY <1>1 DEF StepOK
<1>11. \A j \in Assets : /\ mem'.asset[j] = mem.asset[j] \/ mem.asset[j] = "pending"
                         /\ mem.asset[j] = "active" => mem'.inventory[j] = mem.inventory[j]
                         /\ onchain'[j] = "closed" => onchain[j] = "closed" /\ wallet'[j] = wallet[j]
  BY <1>2, <1>3, <1>7, <1>8
<1>12. QED
  BY <1>2, <1>4, <1>9, <1>10, <1>11, IdleStep

(* The keeper finds the round expired. *)
LEMMA PayExpiredKeeps ==
    ASSUME PayoutAssumption, IInv, PayExpired
    PROVE  IInv'
<1>1. /\ pc = "idle" /\ keeperExpired /\ mem' = Finished(mem, "expired") /\ pc' = "saving"
      /\ UNCHANGED clock /\ UNCHANGED chain /\ disk' = disk /\ queue' = queue /\ missed' = missed /\ faults' = faults
  BY DEF PayExpired
<1>2. PICK outcome : outcome = "expired"
  OBVIOUS
<1>3. outcome = "expired" /\ keeperExpired /\ mem' = Finished(mem, outcome)
  BY <1>1, <1>2
<1>4. QED
  BY <1>1, <1>3, FinishStep

(* A step of pushing is planned, or the round found complete. *)
LEMMA PushStartKeeps ==
    ASSUME PayoutAssumption, IInv, PushStart
    PROVE  IInv'
<1>1. /\ pc = "idle" /\ mem.status = "ACTIVE"
      /\ UNCHANGED clock /\ UNCHANGED chain /\ disk' = disk /\ missed' = missed /\ faults' = faults
  BY DEF PushStart, PayingTurn
<1>2. WorldOK /\ FileOK(mem) /\ FileOK(disk) /\ StepOK /\ mem = disk
  BY <1>1 DEF IInv, FilesAgree
<1>3. WorldOK' /\ (\A f : FileOK(f) => FileOK(f)') /\ onchain' = onchain /\ wallet' = wallet
  BY <1>1, <1>2, ChainStays
<1>4. CASE /\ queue' = {Part(b[1], b[2], BlockSize, Candidates(b)) : b \in Chosen}
           /\ pc' = "pushing" /\ mem' = mem
  <2>1. FileOK(mem)' /\ FileOK(disk)'
    BY <1>1, <1>2, <1>3, <1>4
  <2>2. FilesAgree' /\ StepOK'
    BY <1>1, <1>2, <1>4 DEF FilesAgree, StepOK
  <2>3. \A i \in Assets : CloseOK(i)'
    BY <1>1, <1>2, <1>3, <1>4 DEF IInv, CloseOK
  <2>4. \A b \in Chosen : b \in Blocks /\ Candidates(b) # {}
    BY DEF Chosen
  <2>5. ASSUME NEW p \in queue'
        PROVE  PartOK(p)'
    <3>1. PICK b \in Chosen : p = Part(b[1], b[2], BlockSize, Candidates(b))
      BY <1>4
    <3>2. p.asset = b[1] /\ p.first = b[2] /\ p.size = BlockSize /\ p.plan = Candidates(b)
      BY <3>1 DEF Part
    <3>3. BlockSize \in Nat
      BY DEF PayoutAssumption
    <3>4. /\ b[1] \in Assets /\ b[2] \in Nat /\ Candidates(b) # {}
          /\ Candidates(b) \subseteq LeavesOf(b[1]) /\ Candidates(b) \cap mem.permanent = {}
          /\ mem.asset[b[1]] = "active"
      BY <2>4, BlocksAreParts
    <3>5. QED
      BY <1>4, <3>2, <3>3, <3>4 DEF PartOK
  <2>6. ASSUME NEW p \in queue', NEW q \in queue', p # q
        PROVE  p.plan \cap q.plan = {}
    <3>1. PICK b \in Chosen : p = Part(b[1], b[2], BlockSize, Candidates(b))
      BY <1>4
    <3>2. PICK c \in Chosen : q = Part(c[1], c[2], BlockSize, Candidates(c))
      BY <1>4
    <3>3. b # c /\ p.plan = Candidates(b) /\ q.plan = Candidates(c)
      BY <2>6, <3>1, <3>2 DEF Part
    <3>4. QED
      BY <2>4, <3>3, BlocksAreParts
  <2>7. QueueOK'
    BY <2>5, <2>6 DEF QueueOK
  <2>8. QED
    BY <1>3, <2>1, <2>2, <2>3, <2>7 DEF IInv
<1>5. CASE /\ Unpaid = {} /\ mem' = Finished(mem, "complete")
           /\ pc' = "saving" /\ queue' = queue
  <2>1. PICK outcome : outcome = "complete"
    OBVIOUS
  <2>2. ASSUME NEW i \in Assets, mem.asset[i] = "active"
        PROVE  LeavesOf(i) \subseteq claimed \cup mem.permanent
    BY <1>5, <2>2, LeavesAre DEF Unpaid
  <2>3. /\ outcome = "complete" /\ mem.status = "ACTIVE"
        /\ \A i \in Assets : mem.asset[i] = "active" => LeavesOf(i) \subseteq claimed \cup mem.permanent
        /\ mem' = Finished(mem, outcome)
    BY <1>1, <1>5, <2>1, <2>2
  <2>4. QED
    BY <1>1, <1>5, <2>3, FinishStep
<1>6. QED
  BY <1>4, <1>5 DEF PushStart

(* An asset is closed, or found closed, or left for later. *)
LEMMA CloseExpiredKeeps ==
    ASSUME PayoutAssumption, IInv, NEW i \in Assets, CloseExpired(i)
    PROVE  IInv'
<1>1. /\ pc = "idle" /\ pc' = "saving" /\ i \in mem.expiring /\ keeperExpired
      /\ UNCHANGED clock /\ disk' = disk /\ queue' = queue
  BY DEF CloseExpired, First, DueCloses
<1>2. WorldOK /\ FileOK(mem) /\ FileOK(disk) /\ StepOK /\ mem = disk /\ queue = {} /\ keeperExpired'
  BY <1>1 DEF IInv, FilesAgree, clock
<1>3. PICK m : m = mem
  OBVIOUS
<1>4. m \in KeeperState
  BY <1>2, <1>3 DEF FileOK
<1>5. PICK dropped : dropped = [m EXCEPT !.expiring = @ \ {i}]
  OBVIOUS
<1>6. PICK deferred : deferred = [m EXCEPT !.resting = m.resting \cup {Closing(i)}]
  OBVIOUS
<1>7. deferred \in KeeperState /\ SameButResting(m, deferred)
  <2>1. m.resting \cup {Closing(i)} \in SUBSET Rests
    BY <1>4 DEF KeeperState, Rests
  <2>2. QED
    BY ONLY <1>4, <1>6, <2>1 DEF KeeperState, SameButResting
<1>8. ASSUME missed' \subseteq Assets, faults' \in 0 .. MaxFaults, mem'.asset = mem.asset
      PROVE  FilesAgree' /\ QueueOK' /\ StepOK'
  BY <1>1, <1>2, <1>8 DEF FilesAgree, QueueOK, StepOK
<1>9. CASE CloseLands(i) /\ mem' = CreditLeftovers(dropped, i, vault[i]) /\ UNCHANGED <<missed, faults>>
  <2>1. PICK c \in Nat : c = NetAfterTransferFee(i, vault[i])
    BY <1>1, <1>2, <1>9, CloseKeeps
  <2>2. /\ WorldOK'
        /\ onchain' = [onchain EXCEPT ![i] = "closed"]
        /\ wallet' = [wallet EXCEPT ![i] = @ + c]
        /\ \A f : FileOK(f) => FileOK(f)' /\ f.asset[i] = "active" /\ f.inventory[i] = wallet[i]
    BY <1>1, <1>2, <1>9, <2>1, CloseKeeps
  <2>3. FileOK(m)' /\ FileOK(disk)' /\ m.asset[i] = "active" /\ m.inventory[i] = wallet[i]
    BY <1>1, <1>2, <1>3, <2>2
  <2>4. onchain'[i] = "closed" /\ wallet'[i] = wallet[i] + c
        /\ \A j \in Assets \ {i} : onchain'[j] = onchain[j] /\ wallet'[j] = wallet[j]
    BY <1>2, <2>2 DEF WorldOK
  <2>5. PICK n : n = Dropped(m, i, c)
    OBVIOUS
  <2>6. /\ FileOK(n)' /\ n.expiring = m.expiring \ {i} /\ n.asset = m.asset
        /\ n.inventory[i] = m.inventory[i] + c
        /\ \A j \in Assets \ {i} : n.inventory[j] = m.inventory[j]
    <3>1. c = 0 \/ (m.asset[i] = "active" /\ m.inventory[i] + c = wallet'[i])
      BY <2>3, <2>4
    <3>2. WorldOK' /\ FileOK(m)' /\ keeperExpired' /\ onchain'[i] # "active"
      BY <1>2, <2>2, <2>3, <2>4
    <3>3. QED
      BY ONLY PayoutAssumption, i \in Assets, c \in Nat, <2>5, <3>1, <3>2, DropKeeps
  <2>7. mem' = n
    BY <1>5, <1>9, <2>1, <2>5 DEF CreditLeftovers, Dropped
  <2>8. FileOK(mem)'
    BY <2>6, <2>7
  <2>9. FilesAgree' /\ QueueOK' /\ StepOK'
    <3>1. missed' \subseteq Assets /\ faults' \in 0 .. MaxFaults /\ mem'.asset = mem.asset
      BY <1>2, <1>3, <1>9, <2>6, <2>7 DEF StepOK
    <3>2. QED
      BY <1>8, <3>1
  <2>10. ASSUME NEW j \in Assets
         PROVE  CloseOK(j)'
    <3>1. CloseOK(j)
      BY DEF IInv
    <3>2. CASE j = i
      <4>1. i \notin mem'.expiring /\ mem'.inventory[i] = wallet'[i] /\ i \in disk'.expiring /\ pc' = "saving"
        BY <1>1, <1>2, <2>3, <2>4, <2>6, <2>7
      <4>2. QED
        BY <3>2, <4>1 DEF CloseOK
    <3>3. CASE j # i
      <4>1. /\ onchain'[j] = onchain[j] /\ wallet'[j] = wallet[j] /\ missed' = missed
            /\ mem'.inventory[j] = mem.inventory[j] /\ (j \in mem'.expiring => j \in mem.expiring)
        BY <1>3, <1>9, <2>4, <2>6, <2>7, <3>3
      <4>2. QED
        BY <1>1, <1>2, <3>1, <4>1 DEF CloseOK
    <3>4. QED
      BY <3>2, <3>3
  <2>11. QED
    BY <2>2, <2>3, <2>8, <2>9, <2>10 DEF IInv
<1>10. CASE CloseLands(i) /\ mem' = deferred /\ missed' = missed \cup {i} /\ Fault
  <2>1. /\ WorldOK'
        /\ onchain' = [onchain EXCEPT ![i] = "closed"]
        /\ wallet' = [wallet EXCEPT ![i] = @ + NetAfterTransferFee(i, vault[i])]
        /\ \A f : FileOK(f) => FileOK(f)' /\ f.asset[i] = "active" /\ f.inventory[i] = wallet[i]
    BY <1>1, <1>2, <1>10, CloseKeeps
  <2>2. FileOK(m)' /\ FileOK(disk)'
    BY <1>1, <1>2, <1>3, <2>1
  <2>3. FileOK(deferred)'
    BY <1>7, <2>2, RestingKeeps
  <2>4. FileOK(mem)'
    BY <1>10, <2>3
  <2>5. FilesAgree' /\ QueueOK' /\ StepOK'
    <3>1. missed' \subseteq Assets /\ mem'.asset = mem.asset
      BY <1>2, <1>3, <1>7, <1>10 DEF StepOK, SameButResting
    <3>2. faults' \in 0 .. MaxFaults
      BY <1>2, <1>10, FaultCounts
    <3>3. QED
      BY <1>8, <3>1, <3>2
  <2>6. ASSUME NEW j \in Assets
        PROVE  CloseOK(j)'
    <3>1. CloseOK(j)
      BY DEF IInv
    <3>2. CASE j = i
      BY <1>10, <3>2 DEF CloseOK
    <3>3. CASE j # i
      <4>1. /\ onchain'[j] = onchain[j] /\ wallet'[j] = wallet[j]
            /\ mem'.inventory = mem.inventory /\ mem'.expiring = mem.expiring
        BY <1>2, <1>3, <1>7, <1>10, <2>1, <3>3 DEF WorldOK, SameButResting
      <4>2. QED
        BY <1>1, <1>2, <1>10, <3>1, <4>1 DEF CloseOK
    <3>4. QED
      BY <3>2, <3>3
  <2>7. QED
    BY <2>1, <2>2, <2>4, <2>5, <2>6 DEF IInv
<1>11. CASE /\ UNCHANGED <<chain, missed>> /\ (UNCHANGED faults \/ Fault)
            /\ mem' = deferred \/ (onchain[i] # "active" /\ mem' = dropped)
  <2>1. WorldOK' /\ (\A f : FileOK(f) => FileOK(f)') /\ onchain' = onchain /\ wallet' = wallet
    BY <1>1, <1>2, <1>11, ChainStays
  <2>2. FileOK(m)' /\ FileOK(disk)'
    BY <1>1, <1>2, <1>3, <2>1
  <2>3. FileOK(deferred)'
    BY <1>7, <2>2, RestingKeeps
  <2>4. /\ dropped.expiring = m.expiring \ {i} /\ dropped.asset = m.asset /\ dropped.inventory = m.inventory
    BY <1>4, <1>5 DEF KeeperState
  <2>5. onchain[i] # "active" => FileOK(dropped)'
    <3>1. SUFFICES ASSUME onchain[i] # "active"
                   PROVE  FileOK(dropped)'
      OBVIOUS
    <3>2. PICK c \in Nat : c = 0
      OBVIOUS
    <3>3. PICK n : n = Dropped(m, i, c)
      OBVIOUS
    <3>4. FileOK(n)'
      BY <1>2, <2>1, <2>2, <3>1, <3>2, <3>3, DropKeeps
    <3>5. n = dropped
      <4>1. dropped \in KeeperState
        BY <1>4, <1>5 DEF KeeperState
      <4>2. n = [dropped EXCEPT !.inventory = [j \in Assets |-> dropped.inventory[j] + (IF j \in {i} THEN c ELSE 0)]]
        BY <1>5, <3>3 DEF Dropped, Credit
      <4>3. \A j \in Assets : dropped.inventory[j] \in Nat
        BY <4>1, FileTypes
      <4>4. \A j \in Assets : dropped.inventory[j] + (IF j \in {i} THEN c ELSE 0) = dropped.inventory[j]
        BY <3>2, <4>3
      <4>5. [j \in Assets |-> dropped.inventory[j] + (IF j \in {i} THEN c ELSE 0)] = dropped.inventory
        <5>1. dropped.inventory \in [Assets -> Nat]
          BY <4>1 DEF KeeperState
        <5>2. QED
          BY <4>4, <5>1
      <4>6. n = [dropped EXCEPT !.inventory = dropped.inventory]
        BY <4>2, <4>5
      <4>7. QED
        BY ONLY <4>1, <4>6 DEF KeeperState
    <3>6. QED
      BY <3>4, <3>5
  <2>6. FileOK(mem)'
    BY <1>11, <2>3, <2>5
  <2>7. mem'.asset = mem.asset /\ mem'.inventory = mem.inventory /\ mem'.expiring \subseteq mem.expiring
    BY <1>3, <1>7, <1>11, <2>4 DEF SameButResting
  <2>8. FilesAgree' /\ QueueOK' /\ StepOK'
    <3>1. missed' \subseteq Assets
      BY <1>2, <1>11 DEF StepOK
    <3>2. faults' \in 0 .. MaxFaults
      BY <1>2, <1>11, FaultCounts DEF StepOK
    <3>3. QED
      BY <1>8, <2>7, <3>1, <3>2
  <2>9. ASSUME NEW j \in Assets
        PROVE  CloseOK(j)'
    <3>1. CloseOK(j)
      BY DEF IInv
    <3>2. QED
      BY <1>1, <1>2, <1>11, <2>1, <2>7, <3>1 DEF CloseOK
  <2>10. QED
    BY <2>1, <2>2, <2>6, <2>8, <2>9 DEF IInv
<1>12. QED
  <2>1. LET d == [mem EXCEPT !.expiring = @ \ {i}]
            e == [mem EXCEPT !.resting = @ \cup {Closing(i)}]
        IN \/ /\ CloseLands(i)
              /\ \/ mem' = CreditLeftovers(d, i, vault[i]) /\ UNCHANGED <<missed, faults>>
                 \/ mem' = e /\ missed' = missed \cup {i} /\ Fault
           \/ /\ onchain[i] = "active"
              /\ (~chainExpired /\ UNCHANGED faults) \/ Fault
              /\ mem' = e
              /\ UNCHANGED <<chain, missed>>
           \/ /\ onchain[i] # "active"
              /\ mem' = d
              /\ UNCHANGED <<chain, missed, faults>>
    BY DEF CloseExpired
  <2>2. dropped = [mem EXCEPT !.expiring = @ \ {i}] /\ deferred = [mem EXCEPT !.resting = @ \cup {Closing(i)}]
    BY <1>3, <1>5, <1>6
  <2>3. QED
    BY <1>9, <1>10, <1>11, <2>1, <2>2

----------------------------------------------------------------------------
(* Pushing. *)

(* A part was pushed or given up on: only failures were written, and only of its leaves. *)
LEMMA PushStep ==
    ASSUME IInv, pc = "pushing", WorldOK', FileOK(mem)', FileOK(disk)',
           disk' = disk, missed' = missed, faults' \in 0 .. MaxFaults, onchain' = onchain, wallet' = wallet,
           mem'.asset = mem.asset, mem'.inventory = mem.inventory, mem'.expiring = mem.expiring,
           QueueOK', pc' \in {"pushing", "saving"}, pc' = "saving" => queue' = {}
    PROVE  IInv'
<1>1. FilesAgree'
  BY DEF IInv, FilesAgree
<1>2. StepOK'
  BY DEF IInv, StepOK
<1>3. ASSUME NEW i \in Assets
      PROVE  CloseOK(i)'
  <2>1. CloseOK(i)
    BY DEF IInv
  <2>2. QED
    BY <2>1 DEF CloseOK
<1>4. QED
  BY <1>1, <1>2, <1>3 DEF IInv

(* What the step holds of the file once the leaves not worth pushing are weeded out. *)
Weeds(p, w) ==
    /\ w.status = mem.status /\ w.asset = mem.asset /\ w.attempts = mem.attempts
    /\ w.inventory = mem.inventory /\ w.expiring = mem.expiring
    /\ w.permanent = mem.permanent \cup (p.plan \ Planned(p))
    /\ \A x \in Leaves : w.failed[x] = mem.failed[x]

(* Weeding gives up what is not worth pushing, and nothing else. *)
LEMMA WeededKeeps ==
    ASSUME PayoutAssumption, IInv, NEW p \in queue, NEW m, m = mem, FileOK(m)', NEW w, w = Weeded(p)
    PROVE  /\ FileOK(w)' /\ Weeds(p, w)
           /\ Planned(p) \subseteq LeavesOf(p.asset) /\ Planned(p) \subseteq p.plan
           /\ p.asset \in Assets /\ LeavesOf(p.asset) \subseteq Leaves
<1>1. PartOK(p)
  BY DEF IInv, QueueOK
<1>2. PICK xs : xs = p.plan \ Planned(p)
  OBVIOUS
<1>3. xs \subseteq Leaves /\ xs \subseteq Worthless
  BY <1>1, <1>2, LeavesAre DEF PartOK, Planned, Worthless
<1>4. w = RecordFailure(m, xs, 0, TRUE, FALSE)
  BY <1>2 DEF Weeded
<1>5. /\ FileOK(w)'
      /\ w.status = m.status /\ w.asset = m.asset /\ w.attempts = m.attempts /\ w.inventory = m.inventory
      /\ w.expiring = m.expiring /\ w.permanent = m.permanent \cup xs
      /\ \A x \in Leaves : w.failed[x] = m.failed[x]
  <2>1. PICK zero \in {0, 1}, yes \in BOOLEAN, no \in BOOLEAN : zero = 0 /\ yes = TRUE /\ no = FALSE
    OBVIOUS
  <2>2. w = RecordFailure(m, xs, zero, yes, no)
    BY <1>4, <2>1
  <2>3. MayFail(m, xs, zero, yes)'
    BY <1>3, <2>1 DEF MayFail
  <2>4. FileOK(w)' /\ Failed(m, w, xs, zero, yes)
    BY <2>2, <2>3, FailureKeeps
  <2>5. QED
    BY <2>1, <2>4 DEF Failed
<1>6. Weeds(p, w)
  BY <1>2, <1>5 DEF Weeds
<1>7. QED
  BY <1>1, <1>5, <1>6, LeavesAre DEF PartOK, Planned

(* A part is halved. *)
LEMMA HalveKeeps ==
    ASSUME PayoutAssumption, IInv, NEW p \in queue, Halve(p)
    PROVE  IInv'
<1>1. /\ pc = "pushing" /\ mem' = Weeded(p) /\ ~Sendable(p)
      /\ UNCHANGED clock /\ UNCHANGED chain /\ disk' = disk /\ missed' = missed /\ faults' = faults
  BY DEF Halve
<1>2. WorldOK /\ FileOK(mem) /\ FileOK(disk) /\ StepOK /\ QueueOK
  BY DEF IInv
<1>3. WorldOK' /\ (\A f : FileOK(f) => FileOK(f)') /\ onchain' = onchain /\ wallet' = wallet
  BY <1>1, <1>2, ChainStays
<1>4. PICK m : m = mem
  OBVIOUS
<1>5. PICK w : w = mem'
  OBVIOUS
<1>6. FileOK(m)' /\ FileOK(disk)'
  BY <1>1, <1>2, <1>3, <1>4
<1>7. /\ FileOK(w)' /\ Weeds(p, w)
      /\ Planned(p) \subseteq LeavesOf(p.asset) /\ Planned(p) \subseteq p.plan
  BY <1>1, <1>4, <1>5, <1>6, WeededKeeps
<1> DEFINE half == p.size \div 2
           part(first) == Part(p.asset, first, half, InPart(p.asset, first, half) \cap Planned(p))
           parts == {part(p.first), part(p.first + half)}
<1>8. ThenPush(p, parts)
  BY DEF Halve
<1>9. p.first \in Nat /\ half \in Nat /\ p.first + half \in Nat
  BY <1>2 DEF QueueOK, PartOK
<1>10. \A first : part(first).asset = p.asset /\ part(first).first = first /\ part(first).size = half
                  /\ part(first).plan = InPart(p.asset, first, half) \cap Planned(p)
  BY DEF Part
<1>11. InPart(p.asset, p.first, half) \cap InPart(p.asset, p.first + half, half) = {}
  <2>1. SUFFICES ASSUME NEW x \in LeavesOf(p.asset), x[2] < p.first + half, x[2] >= p.first + half
                 PROVE  FALSE
    BY DEF InPart
  <2>2. p.asset \in Assets
    BY <1>2 DEF QueueOK, PartOK
  <2>3. x[2] \in Nat
    BY <2>1, <2>2, LeavesAre
  <2> HIDE DEF half
  <2>4. QED
    BY <1>9, <2>1, <2>3
<1> HIDE DEF half
<1>12. ASSUME NEW q \in parts
       PROVE  /\ q.asset = p.asset /\ q.first \in Nat /\ q.size \in Nat
              /\ q.plan \subseteq p.plan \ (p.plan \ Planned(p))
              /\ \A r \in parts : r # q => q.plan \cap r.plan = {}
  <2> HIDE DEF part
  <2>1. q = part(p.first) \/ q = part(p.first + half)
    OBVIOUS
  <2>2. q.asset = p.asset /\ q.first \in Nat /\ q.size \in Nat /\ q.plan \subseteq Planned(p)
    BY <1>9, <1>10, <2>1
  <2>3. part(p.first).plan \cap part(p.first + half).plan = {}
    BY <1>10, <1>11
  <2>4. QED
    BY <1>7, <2>1, <2>2, <2>3
<1> HIDE DEF parts
<1>13. QueueOK' /\ pc' \in {"pushing", "saving"} /\ (pc' = "saving" => queue' = {})
  <2>1. mem'.asset = mem.asset /\ mem'.permanent = mem.permanent \cup (p.plan \ Planned(p))
    BY <1>5, <1>7 DEF Weeds
  <2>2. PICK xs : xs = p.plan \ Planned(p)
    OBVIOUS
  <2>3. PICK ps : ps = parts
    OBVIOUS
  <2>4. mem'.permanent = mem.permanent \cup xs /\ ThenPush(p, ps) /\ PartsOf(p, ps, xs)
    BY <1>8, <1>12, <2>1, <2>2, <2>3 DEF PartsOf
  <2>5. QED
    BY <1>2, <2>1, <2>4, PartsKeep
<1>14. FileOK(mem)' /\ faults' \in 0 .. MaxFaults
  BY <1>1, <1>2, <1>5, <1>7 DEF StepOK
<1>15. mem'.asset = mem.asset /\ mem'.inventory = mem.inventory /\ mem'.expiring = mem.expiring
  BY <1>5, <1>7 DEF Weeds
<1>16. QED
  BY <1>1, <1>3, <1>6, <1>13, <1>14, <1>15, PushStep

(* The same when nothing of the part is left to push. *)
LEMMA GoneKeeps ==
    ASSUME PayoutAssumption, IInv, NEW p \in queue, ThenPush(p, {}), NEW xs, xs \subseteq p.plan,
           mem'.asset = mem.asset, mem'.permanent = mem.permanent \cup xs
    PROVE  QueueOK' /\ pc' \in {"pushing", "saving"} /\ (pc' = "saving" => queue' = {})
<1>1. QueueOK
  BY DEF IInv
<1>2. PICK parts : parts = {}
  OBVIOUS
<1>3. ThenPush(p, parts) /\ PartsOf(p, parts, xs)
  BY <1>2 DEF PartsOf
<1>4. QED
  BY <1>1, <1>3, PartsKeep

(* A part is dropped. *)
LEMMA PushNothingKeeps ==
    ASSUME PayoutAssumption, IInv, NEW p \in queue, PushNothing(p)
    PROVE  IInv'
<1>1. /\ pc = "pushing" /\ mem' = Weeded(p) /\ ThenPush(p, {})
      /\ UNCHANGED clock /\ UNCHANGED chain /\ disk' = disk /\ missed' = missed /\ faults' = faults
  BY DEF PushNothing
<1>2. WorldOK /\ FileOK(mem) /\ FileOK(disk) /\ StepOK
  BY DEF IInv
<1>3. WorldOK' /\ (\A f : FileOK(f) => FileOK(f)') /\ onchain' = onchain /\ wallet' = wallet
  BY <1>1, <1>2, ChainStays
<1>4. PICK m : m = mem
  OBVIOUS
<1>5. PICK w : w = mem'
  OBVIOUS
<1>6. FileOK(m)' /\ FileOK(disk)'
  BY <1>1, <1>2, <1>3, <1>4
<1>7. FileOK(w)' /\ Weeds(p, w)
  BY <1>1, <1>4, <1>5, <1>6, WeededKeeps
<1>8. QueueOK' /\ pc' \in {"pushing", "saving"} /\ (pc' = "saving" => queue' = {})
  <2>1. PICK xs : xs = p.plan \ Planned(p)
    OBVIOUS
  <2>2. xs \subseteq p.plan /\ mem'.asset = mem.asset /\ mem'.permanent = mem.permanent \cup xs
    BY <1>5, <1>7, <2>1 DEF Weeds
  <2>3. QED
    BY ONLY PayoutAssumption, IInv, p \in queue, <1>1, <2>2, GoneKeeps
<1>9. FileOK(mem)' /\ faults' \in 0 .. MaxFaults
  BY <1>1, <1>2, <1>5, <1>7 DEF StepOK
<1>10. mem'.asset = mem.asset /\ mem'.inventory = mem.inventory /\ mem'.expiring = mem.expiring
  BY <1>5, <1>7 DEF Weeds
<1>11. QED
  <2>1. /\ pc = "pushing" /\ WorldOK' /\ FileOK(mem)' /\ FileOK(disk)'
        /\ disk' = disk /\ missed' = missed /\ faults' \in 0 .. MaxFaults
        /\ onchain' = onchain /\ wallet' = wallet
    BY <1>1, <1>3, <1>6, <1>9
  <2>2. QED
    BY ONLY IInv, <1>8, <1>10, <2>1, PushStep

(* A leaf the program refuses alone. *)
LEMMA RefusedIsFrozen ==
    ASSUME PayoutAssumption, IInv, NEW p \in queue, ~PushAccepted(p), NEW x, Planned(p) = {x}, ~chainExpired
    PROVE  x \in Frozen
<1>1. PartOK(p) /\ WorldOK /\ FileOK(mem)
  BY DEF IInv, QueueOK
<1>2. p.asset \in Assets /\ mem.asset[p.asset] = "active"
  BY <1>1 DEF PartOK
<1>3. onchain[p.asset] = "active"
  <2>1. ActiveOK(mem, p.asset) /\ ChainOK(p.asset) /\ onchain[p.asset] \in {"none", "active", "closed"}
    BY <1>1, <1>2 DEF WorldOK, FileOK, AssetOK
  <2>2. QED
    BY <1>2, <2>1 DEF ChainOK, ActiveOK
<1>4. QED
  BY <1>3 DEF PushAccepted

(* A part is refused. *)
LEMMA PushRefusedKeeps ==
    ASSUME PayoutAssumption, IInv, NEW p \in queue, PushRefused(p)
    PROVE  IInv'
<1>1. /\ pc = "pushing" /\ ~PushAccepted(p)
      /\ UNCHANGED clock /\ UNCHANGED chain /\ disk' = disk /\ missed' = missed /\ faults' = faults
  BY DEF PushRefused
<1>2. WorldOK /\ FileOK(mem) /\ FileOK(disk) /\ StepOK /\ QueueOK /\ PartOK(p)
  BY DEF IInv, QueueOK
<1>3. WorldOK' /\ (\A f : FileOK(f) => FileOK(f)') /\ onchain' = onchain /\ wallet' = wallet
  BY <1>1, <1>2, ChainStays
<1>4. PICK m : m = mem
  OBVIOUS
<1>5. PICK w : w = Weeded(p)
  OBVIOUS
<1>6. FileOK(m)' /\ FileOK(disk)'
  BY <1>1, <1>2, <1>3, <1>4
<1>7. /\ FileOK(w)' /\ Weeds(p, w)
      /\ Planned(p) \subseteq LeavesOf(p.asset) /\ Planned(p) \subseteq p.plan
      /\ LeavesOf(p.asset) \subseteq Leaves
  BY <1>1, <1>4, <1>5, <1>6, WeededKeeps
<1>8. faults' \in 0 .. MaxFaults
  BY <1>1, <1>2 DEF StepOK
<1>9. CASE /\ mem' = Weeded(p)
           /\ ThenPush(p, {Part(x[1], x[2], 1, {x}) : x \in Planned(p)})
  <2>1. PICK parts : parts = {Part(x[1], x[2], 1, {x}) : x \in Planned(p)}
    OBVIOUS
  <2>2. PICK xs : xs = p.plan \ Planned(p)
    OBVIOUS
  <2>3. ASSUME NEW q \in parts
        PROVE  \E x \in Planned(p) :
                   /\ q.asset = p.asset /\ q.first \in Nat /\ q.size \in Nat /\ q.plan = {x}
                   /\ q = Part(x[1], x[2], 1, {x})
    <3>1. PICK x \in Planned(p) : q = Part(x[1], x[2], 1, {x})
      BY <2>1
    <3>2. x[1] = p.asset /\ x[2] \in Nat
      BY <1>2, <1>7, LeavesAre DEF PartOK
    <3>3. QED
      BY <3>1, <3>2 DEF Part
  <2>4. ASSUME NEW q \in parts, NEW r \in parts, r # q
        PROVE  q.plan \cap r.plan = {}
    <3>1. PICK x \in Planned(p) : q.plan = {x} /\ q = Part(x[1], x[2], 1, {x})
      BY <2>3
    <3>2. PICK y \in Planned(p) : r.plan = {y} /\ r = Part(y[1], y[2], 1, {y})
      BY <2>3
    <3>3. x # y
      BY <2>4, <3>1, <3>2
    <3>4. QED
      BY <3>1, <3>2, <3>3
  <2>5. ASSUME NEW q \in parts
        PROVE  q.asset = p.asset /\ q.first \in Nat /\ q.size \in Nat /\ q.plan \subseteq p.plan \ xs
    <3>1. PICK x \in Planned(p) : q.asset = p.asset /\ q.first \in Nat /\ q.size \in Nat /\ q.plan = {x}
      BY <2>3
    <3>2. Planned(p) \subseteq p.plan \ xs
      BY <1>7, <2>2
    <3>3. QED
      BY ONLY <3>1, <3>2
  <2>6. PartsOf(p, parts, xs)
    BY <2>2, <2>4, <2>5 DEF PartsOf
  <2>7. mem'.asset = mem.asset /\ mem'.permanent = mem.permanent \cup xs /\ ThenPush(p, parts)
    BY <1>5, <1>7, <1>9, <2>1, <2>2 DEF Weeds
  <2>8. QueueOK' /\ pc' \in {"pushing", "saving"} /\ (pc' = "saving" => queue' = {})
    BY <1>2, <2>6, <2>7, PartsKeep
  <2>9. FileOK(mem)' /\ mem'.asset = mem.asset /\ mem'.inventory = mem.inventory /\ mem'.expiring = mem.expiring
    BY <1>5, <1>7, <1>9 DEF Weeds
  <2>10. QED
    BY <1>1, <1>3, <1>6, <1>8, <2>8, <2>9, PushStep
<1>10. ASSUME NEW x \in Planned(p), Planned(p) = {x}, ThenPush(p, {}),
              mem' = RecordFailure(Weeded(p), {x}, 1, x \in Fatal \/ mem.failed[x] + 1 >= MaxPushAttempts, TRUE)
       PROVE  IInv'
  <2>1. PICK xs : xs = {x}
    OBVIOUS
  <2>2. PICK gone \in BOOLEAN : gone <=> (x \in Fatal \/ mem.failed[x] + 1 >= MaxPushAttempts)
    BY Zenon
  <2>3. PICK one \in {0, 1}, later \in BOOLEAN : one = 1 /\ later = TRUE
    OBVIOUS
  <2>4. PICK n : n = RecordFailure(w, xs, one, gone, later)
    OBVIOUS
  <2>5. mem' = n
    <3>1. gone = (x \in Fatal \/ mem.failed[x] + 1 >= MaxPushAttempts)
      BY <2>2
    <3>2. QED
      BY <1>5, <1>10, <2>1, <2>3, <2>4, <3>1
  <2>6. x \in Leaves /\ x \in p.plan /\ x \notin mem.permanent
    BY <1>2, <1>7, <1>10 DEF PartOK
  <2>7. mem.failed[x] < MaxPushAttempts /\ mem.failed[x] \in Nat /\ MaxPushAttempts \in Nat
    BY <1>2, <2>6, FileTypes DEF FileOK, FailuresOK, PayoutAssumption
  <2>8. MayFail(w, xs, one, gone)'
    <3>1. gone /\ ~chainExpired' => x \in Frozen
      BY <1>1, <1>10, RefusedIsFrozen DEF clock
    <3>2. w.failed[x] = mem.failed[x]
      BY <1>7, <2>6 DEF Weeds
    <3>3. w.failed[x] < MaxPushAttempts /\ (gone \/ w.failed[x] + 1 < MaxPushAttempts)
      BY <2>2, <2>7, <3>2
    <3>4. QED
      BY <2>1, <2>3, <2>6, <3>1, <3>3 DEF MayFail
  <2>9. FileOK(n)' /\ Failed(w, n, xs, one, gone)
    BY <1>7, <2>4, <2>8, FailureKeeps
  <2>10. /\ mem'.asset = mem.asset /\ mem'.inventory = mem.inventory /\ mem'.expiring = mem.expiring
         /\ mem'.permanent = mem.permanent \cup (p.plan \ Planned(p)) \cup (IF gone THEN xs ELSE {})
    BY <1>7, <2>5, <2>9 DEF Failed, Weeds
  <2>11. QueueOK' /\ pc' \in {"pushing", "saving"} /\ (pc' = "saving" => queue' = {})
    <3>1. PICK ys : ys = (p.plan \ Planned(p)) \cup (IF gone THEN xs ELSE {})
      OBVIOUS
    <3>2. ys \subseteq p.plan /\ mem'.permanent = mem.permanent \cup ys
      BY <2>1, <2>6, <2>10, <3>1
    <3>3. QED
      BY <1>10, <2>10, <3>2, GoneKeeps
  <2>12. FileOK(mem)'
    BY <2>5, <2>9
  <2>13. QED
    BY <1>1, <1>3, <1>6, <1>8, <2>10, <2>11, <2>12, PushStep
<1>11. QED
  BY <1>9, <1>10 DEF PushRefused

(* A part is paid, or its fate unknown. *)
LEMMA PushSentKeeps ==
    ASSUME PayoutAssumption, IInv, NEW p \in queue, PushSent(p)
    PROVE  IInv'
<1>1. pc = "pushing" /\ UNCHANGED clock /\ disk' = disk /\ missed' = missed
  BY DEF PushSent
<1>2. WorldOK /\ FileOK(mem) /\ FileOK(disk) /\ StepOK /\ PartOK(p)
  BY DEF IInv, QueueOK
<1>3. Planned(p) \subseteq LeavesOf(p.asset) /\ p.asset \in Assets
  BY <1>2 DEF PartOK, Planned
<1>4. ASSUME (PushAccepted(p) /\ Pay(Planned(p))) \/ UNCHANGED chain
      PROVE  WorldOK' /\ (\A f : FileOK(f) => FileOK(f)') /\ onchain' = onchain /\ wallet' = wallet
  <2>1. CASE PushAccepted(p) /\ Pay(Planned(p))
    <3>1. onchain[p.asset] = "active"
      BY <2>1 DEF PushAccepted
    <3>2. PICK xs : xs = Planned(p)
      OBVIOUS
    <3>3. xs \subseteq LeavesOf(p.asset) /\ Pay(xs)
      BY <1>3, <2>1, <3>2
    <3>4. WorldOK' /\ \A f : FileOK(f) => FileOK(f)'
      BY <1>1, <1>2, <1>3, <3>1, <3>3, PayKeeps
    <3>5. QED
      BY <2>1, <3>4 DEF Pay
  <2>2. CASE UNCHANGED chain
    BY <1>1, <1>2, <2>2, ChainStays
  <2>3. QED
    BY <1>4, <2>1, <2>2
<1>5. PICK m : m = mem
  OBVIOUS
<1>6. PICK w : w = Weeded(p)
  OBVIOUS
<1>7. CASE /\ PushAccepted(p) /\ Pay(Planned(p))
           /\ mem' = [w EXCEPT !.failed = [x \in Leaves |-> IF x \in Planned(p) THEN 0 ELSE @[x]]]
           /\ ThenPush(p, {}) /\ UNCHANGED faults
  <2>1. WorldOK' /\ (\A f : FileOK(f) => FileOK(f)') /\ onchain' = onchain /\ wallet' = wallet
    BY <1>4, <1>7
  <2>2. FileOK(m)' /\ FileOK(disk)'
    BY <1>1, <1>2, <1>5, <2>1
  <2>3. FileOK(w)' /\ Weeds(p, w)
    BY <1>5, <1>6, <2>2, WeededKeeps
  <2>4. PICK xs : xs = Planned(p)
    OBVIOUS
  <2>5. PICK n : n = Forgiven(w, xs)
    OBVIOUS
  <2>6. mem' = n
    BY <1>7, <2>4, <2>5 DEF Forgiven
  <2>7. /\ FileOK(n)'
        /\ n.asset = w.asset /\ n.permanent = w.permanent /\ n.inventory = w.inventory /\ n.expiring = w.expiring
    BY <2>3, <2>5, ForgivenKeeps
  <2>8. FileOK(mem)' /\ mem'.asset = mem.asset /\ mem'.inventory = mem.inventory /\ mem'.expiring = mem.expiring
    BY <2>3, <2>6, <2>7 DEF Weeds
  <2>9. QueueOK' /\ pc' \in {"pushing", "saving"} /\ (pc' = "saving" => queue' = {})
    <3>1. PICK ys : ys = p.plan \ Planned(p)
      OBVIOUS
    <3>2. ys \subseteq p.plan /\ mem'.permanent = mem.permanent \cup ys
      BY <2>3, <2>6, <2>7, <3>1 DEF Weeds
    <3>3. QED
      BY <1>7, <2>8, <3>2, GoneKeeps
  <2>10. faults' \in 0 .. MaxFaults
    BY <1>2, <1>7 DEF StepOK
  <2>11. QED
    BY <1>1, <2>1, <2>2, <2>8, <2>9, <2>10, PushStep
<1>8. CASE /\ Fault /\ ((PushAccepted(p) /\ Pay(Planned(p))) \/ UNCHANGED chain)
           /\ mem' = RecordFailure(w, Planned(p), 0, FALSE, TRUE)
           /\ queue' = {} /\ pc' = "saving"
  <2>1. WorldOK' /\ (\A f : FileOK(f) => FileOK(f)') /\ onchain' = onchain /\ wallet' = wallet
    BY <1>4, <1>8
  <2>2. FileOK(m)' /\ FileOK(disk)'
    BY <1>1, <1>2, <1>5, <2>1
  <2>3. FileOK(w)' /\ Weeds(p, w)
    BY <1>5, <1>6, <2>2, WeededKeeps
  <2>4. PICK xs : xs = Planned(p)
    OBVIOUS
  <2>5. PICK zero \in {0, 1}, no \in BOOLEAN, later \in BOOLEAN : zero = 0 /\ no = FALSE /\ later = TRUE
    OBVIOUS
  <2>6. PICK n : n = RecordFailure(w, xs, zero, no, later)
    OBVIOUS
  <2>7. mem' = n
    BY <1>8, <2>4, <2>5, <2>6
  <2>8. MayFail(w, xs, zero, no)'
    BY <1>3, <2>4, <2>5, LeavesAre DEF MayFail
  <2>9. FileOK(n)' /\ Failed(w, n, xs, zero, no)
    BY <2>3, <2>6, <2>8, FailureKeeps
  <2>10. FileOK(mem)' /\ mem'.asset = mem.asset /\ mem'.inventory = mem.inventory /\ mem'.expiring = mem.expiring
    BY <2>3, <2>7, <2>9 DEF Weeds, Failed
  <2>11. QueueOK'
    BY <1>8 DEF QueueOK
  <2>12. faults' \in 0 .. MaxFaults
    BY <1>2, <1>8, FaultCounts
  <2>13. pc' \in {"pushing", "saving"} /\ (pc' = "saving" => queue' = {})
    BY <1>8
  <2>14. QED
    BY <1>1, <2>1, <2>2, <2>10, <2>11, <2>12, <2>13, PushStep
<1>9. QED
  <2>1. \/ /\ PushAccepted(p) /\ Pay(Planned(p))
           /\ mem' = [Weeded(p) EXCEPT !.failed = [x \in Leaves |-> IF x \in Planned(p) THEN 0 ELSE @[x]]]
           /\ ThenPush(p, {}) /\ UNCHANGED faults
        \/ /\ Fault
           /\ (PushAccepted(p) /\ Pay(Planned(p))) \/ UNCHANGED chain
           /\ mem' = RecordFailure(Weeded(p), Planned(p), 0, FALSE, TRUE)
           /\ queue' = {} /\ pc' = "saving"
    BY DEF PushSent
  <2>2. QED
    BY <1>6, <1>7, <1>8, <2>1

----------------------------------------------------------------------------
(* Theorems. *)

(* Every step keeps the invariant. *)
LEMMA NextKeeps ==
    ASSUME PayoutAssumption, TreeAssumption, SeenInTime, IInv, [Next]_vars
    PROVE  IInv'
<1>1. CASE Next
  <2>1. CASE \E i \in Assets : ActivateTry(i)
    BY <2>1, ActivateTryKeeps
  <2>2. CASE ActivateNone
    BY <2>2, ActivateNoneKeeps
  <2>3. CASE PushStart
    BY <2>3, PushStartKeeps
  <2>4. CASE \E p \in queue : Halve(p) \/ PushRefused(p) \/ PushNothing(p) \/ PushSent(p)
    BY <2>4, HalveKeeps, PushRefusedKeeps, PushNothingKeeps, PushSentKeeps
  <2>5. CASE PayExpired
    BY <2>5, PayExpiredKeeps
  <2>6. CASE \E i \in Assets : CloseExpired(i)
    BY <2>6, CloseExpiredKeeps
  <2>7. CASE Save
    BY <2>7, SaveKeeps
  <2>8. CASE Crash
    BY <2>8, CrashKeeps
  <2>9. CASE \E x \in Leaves : SelfClaim(x)
    BY <2>9, SelfClaimKeeps
  <2>10. CASE \E i \in Assets : LandLate(i) \/ ForeignClose(i)
    BY <2>10, LandLateKeeps, ForeignCloseKeeps
  <2>11. CASE ExpireChain
    BY <2>11, ExpireChainStep
  <2>12. CASE ExpireKeeper
    BY <2>12, ExpireKeeperStep
  <2>13. CASE \E x \in mem.resting : RestEnds(x)
    BY <2>13, RestEndsKeeps
  <2>14. QED
    BY <1>1, <2>1, <2>2, <2>3, <2>4, <2>5, <2>6, <2>7, <2>8, <2>9, <2>10, <2>11, <2>12, <2>13 DEF Next, Step
<1>2. CASE UNCHANGED vars
  <2>1. KeeperSame /\ UNCHANGED clock /\ UNCHANGED chain /\ missed' = missed
    BY <1>2 DEF vars, KeeperSame
  <2>2. WorldOK /\ FileOK(mem) /\ FileOK(disk)
    BY DEF IInv
  <2>3. WorldOK' /\ (\A f : FileOK(f) => FileOK(f)') /\ onchain' = onchain /\ wallet' = wallet
    BY <2>1, <2>2, ChainStays
  <2>4. FileOK(mem)' /\ FileOK(disk)'
    BY <2>1, <2>2, <2>3 DEF KeeperSame
  <2>5. QED
    BY <2>1, <2>3, <2>4, WorldMoves
<1>3. QED
  BY <1>1, <1>2

(***************************************************************************)
(* The inductive invariant holds of every round whose expiry does not come *)
(* between an activation and its being seen.                               *)
(***************************************************************************)
THEOREM PayingIsKept == SeenInTime => (Spec => []IInv)
<1> SUFFICES ASSUME SeenInTime
             PROVE  Spec => []IInv
  OBVIOUS
<1>1. Init => IInv
  BY InitKeeps, PayoutAssumption
<1>2. IInv /\ [Next]_vars => IInv'
  BY NextKeeps, PayoutAssumption, TreeAssumption
<1>3. QED
  BY <1>1, <1>2, PTL DEF Spec

(* What the files say of an asset is backed by the wallet. *)
LEMMA FileIsBacked ==
    ASSUME PayoutAssumption, WorldOK, NEW m, FileOK(m), NEW i \in Assets
    PROVE  m.inventory[i] <= wallet[i]
<1>1. AssetOK(m, i) /\ ChainOK(i) /\ wallet[i] \in Nat /\ m \in KeeperState
  BY DEF FileOK, WorldOK
<1>2. CASE m.asset[i] = "pending"
  BY <1>1, <1>2 DEF AssetOK, PendingOK
<1>3. CASE m.asset[i] = "active"
  BY <1>1, <1>3 DEF AssetOK, ActiveOK
<1>4. CASE m.asset[i] \in {"abandoned", "released"}
  <2>1. m.inventory[i] = wallet[i]
    BY <1>1, <1>4 DEF AssetOK, GivenUpOK, ChainOK
  <2>2. QED
    BY <1>1, <2>1
<1>5. QED
  BY <1>1, <1>2, <1>3, <1>4, FileTypes

(* In every round of which each activation is seen before it expires, the inventory is backed. *)
THEOREM PayoutsKeepInventoryBacked == SeenInTime => (Spec => []InventoryBacked)
<1> SUFFICES ASSUME SeenInTime
             PROVE  Spec => []InventoryBacked
  OBVIOUS
<1>1. IInv => InventoryBacked
  <2>1. SUFFICES ASSUME IInv
                 PROVE  InventoryBacked
    OBVIOUS
  <2>2. WorldOK /\ FileOK(mem) /\ FileOK(disk) /\ StepOK /\ QueueOK
    BY <2>1 DEF IInv
  <2>3. TypeOK
    BY <2>2 DEF WorldOK, FileOK, StepOK, QueueOK, PartOK, TypeOK
  <2>4. \A i \in Assets : mem.inventory[i] <= wallet[i] /\ disk.inventory[i] <= wallet[i]
    BY <2>2, FileIsBacked, PayoutAssumption
  <2>5. QED
    BY <2>3, <2>4 DEF InventoryBacked
<1>2. Spec => []IInv
  BY PayingIsKept
<1>3. QED
  BY <1>1, <1>2, PTL

(* And what is left of it is booked, but for the closes that escaped the keeper. *)
THEOREM PayoutsBookLeftovers == SeenInTime => (Spec => []LeftoversBooked)
<1> SUFFICES ASSUME SeenInTime
             PROVE  Spec => []LeftoversBooked
  OBVIOUS
<1>1. IInv => LeftoversBooked
  <2>1. SUFFICES ASSUME IInv, Over, NEW i \in Assets \ missed
                 PROVE  disk.inventory[i] = wallet[i]
    BY DEF LeftoversBooked, AllBooked
  <2>2. WorldOK /\ FileOK(disk) /\ CloseOK(i) /\ disk.expiring = {} /\ disk.status \in {"complete", "expired"}
    BY <2>1 DEF IInv, Over
  <2>3. AssetOK(disk, i) /\ ChainOK(i) /\ disk \in KeeperState
    BY <2>2 DEF FileOK, WorldOK
  <2>4. onchain[i] # "active" /\ onchain[i] \in {"none", "active", "closed"}
    BY <2>2, <2>3 DEF AssetOK, ExpiringOK, WorldOK
  <2>5. CASE onchain[i] = "closed"
    BY <2>2, <2>5 DEF CloseOK
  <2>6. CASE onchain[i] = "none"
    <3>1. disk.asset[i] \notin {"pending", "active"}
      BY <2>2, <2>3, <2>6 DEF AssetOK, PendingOK, ActiveOK
    <3>2. disk.asset[i] \in {"abandoned", "released"}
      BY <2>3, <3>1, FileTypes, PayoutAssumption
    <3>3. QED
      BY <2>3, <2>6, <3>2 DEF AssetOK, GivenUpOK, ChainOK
  <2>7. QED
    BY <2>4, <2>5, <2>6
<1>2. Spec => []IInv
  BY PayingIsKept
<1>3. QED
  BY <1>1, <1>2, PTL

(* grossForNet's corrections are enough of them for every asset. *)
GrossConverges == \A i \in Assets : NetAfterTransferFee(i, GrossForNet(i, Allocated(i))) >= Allocated(i)

(***************************************************************************)
(* A round is complete only once everyone it could reach was paid, if what *)
(* is sent for an asset always brings what its tree allocates.             *)
(***************************************************************************)
THEOREM CompleteRoundsServed == SeenInTime /\ GrossConverges => (Spec => []CompleteMeansServed)
<1> SUFFICES ASSUME SeenInTime, GrossConverges
             PROVE  Spec => []CompleteMeansServed
  OBVIOUS
<1>1. IInv => CompleteMeansServed
  <2>1. SUFFICES ASSUME IInv, disk.status = "complete", ~chainExpired, NEW i \in Assets \ refusing
                 PROVE  LeavesOf(i) \subseteq claimed \cup Frozen \cup Worthless
    BY DEF CompleteMeansServed, Worthless
  <2>2. WorldOK /\ FileOK(disk)
    BY <2>1 DEF IInv
  <2>3. AssetOK(disk, i) /\ FailuresOK(disk) /\ disk \in KeeperState
    BY <2>2 DEF FileOK
  <2>4. CanLand(i)
    <3>1. NetAfterTransferFee(i, Sent(i)) >= Allocated(i)
      BY SentIs, PayoutAssumption, TreeAssumption DEF GrossConverges
    <3>2. QED
      BY <2>1, <3>1 DEF CanLand
  <2>5. disk.asset[i] \notin {"pending", "abandoned", "released"}
    BY <2>1, <2>3, <2>4 DEF AssetOK, PendingOK, GivenUpOK
  <2>6. disk.asset[i] = "active"
    BY <2>3, <2>5, FileTypes, PayoutAssumption
  <2>7. LeavesOf(i) \subseteq claimed \cup disk.permanent
    BY <2>1, <2>3, <2>6 DEF AssetOK, ActiveOK
  <2>8. disk.permanent \subseteq Frozen \cup Worthless
    BY <2>1, <2>3 DEF FailuresOK
  <2>9. QED
    BY <2>7, <2>8
<1>2. Spec => []IInv
  BY PayingIsKept
<1>3. QED
  BY <1>1, <1>2, PTL
=============================================================================
