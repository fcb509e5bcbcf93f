----------------------- MODULE KeeperPurchase_proofs -----------------------
(***************************************************************************)
(* Proofs about buying a basket (KeeperPurchase), for any number of coins, *)
(* attempts, lost answers and crashes.                                     *)
(*                                                                         *)
(* The argument.  IInv says what a record is worth between any two steps:  *)
(* memory is the disk but for a sweep being planned, whatever is in flight *)
(* is on the record of the one coin at hand, and what landed and is not    *)
(* booked is still on it.  It needs no assumption, and gives               *)
(* InventoryMatches.                                                       *)
(*                                                                         *)
(* WInv says what each wallet can hold: nothing before its key is saved,   *)
(* nothing once its key is dropped, and in between what one funding, one   *)
(* swap and the sweep on record leave there.  The code drops a key when a  *)
(* read finds the wallet empty, so a wallet is only safe from reads that   *)
(* lag: WInv is kept under NothingLost, that no read but the tokens' lags  *)
(* and fewer of those do than a pass looks again.  The run                 *)
(* keeper_purchase_lag shows that it fails without.                        *)
(*                                                                         *)
(* BInv balances the books in SOL, and again needs no assumption.  Only    *)
(* the open record, that of the wallet at hand, can owe anything (Due), so *)
(* the sum over the basket is that one record's debt (OnRecordIsDue); what *)
(* left the pot is then the gap between the buckets, plus Due, plus the    *)
(* fee of each sweep that failed.  A landing moves both sides by the same  *)
(* amount because a record refers to transactions that exist               *)
(* (ReferencesOK) and a wallet swaps once (SwapsOnce).                     *)
(***************************************************************************)
EXTENDS KeeperPurchase, Sums, FiniteSetTheorems, WellFoundedInduction, TLAPS

Kinds == {"fund", "swap", "sweep"}
TxStatuses == {"sent", "landed", "failed", "expired"}
Transaction ==
    [kind : Kinds, wallet : Wallets, tokens : Nat, lamports : Nat, status : TxStatuses]

PurchaseRecord ==
    [status : Statuses, wallet : Wallets \cup {NoWallet}, funding : Nat, sweep : Nat, swap : Nat,
     sweeps : SUBSET Nat, reason : BOOLEAN, attempts : Nat, checks : Nat]

SavedState ==
    [round : {"SEEDED", "FUNDED"}, selected : BOOLEAN,
     purchases : {NoBasket} \cup [Coins -> PurchaseRecord],
     budget : Nat, basket : Int, operations : Int, unbooked : Int,
     inventory : [Coins -> Nat], reserved : [Coins -> Nat]]

Waits == {"idle", "signing", "funding", "swapping", "settling", "readNone", "readTokens", "sweeping"}
Reading == {"readNone", "readTokens"}

Types ==
    /\ txs \in Seq(Transaction)
    /\ sol \in [Wallets -> Nat]
    /\ tok \in [Wallets -> Nat]
    /\ keeperTok \in [Coins -> Nat]
    /\ disk \in SavedState
    /\ mem \in SavedState
    /\ pc \in Waits
    /\ lags \in Nat

(* The coin being bought. *)
Now == Min(Pending(disk))
Record == disk.purchases[Now]

(* Memory runs ahead of the disk only while a sweep is planned. *)
MemoryAgrees ==
    /\ pc \notin Reading => mem = disk
    /\ pc \in Reading => mem = [disk EXCEPT !.purchases[Now].sweep = NoTx]
    /\ pc # "idle" => disk.round = "SEEDED" /\ Pending(disk) # {} /\ Record.wallet # NoWallet

Is(t, kind, w) == t \in DOMAIN txs /\ txs[t].kind = kind /\ txs[t].wallet = w

RecordOK(c, p) ==
    /\ p.wallet # NoWallet => p.wallet = <<c, p.attempts>> /\ p.status = "pending" /\ c = Now
    /\ p.status = "pending" => p.attempts < MaxBuyAttempts
    /\ p.wallet = NoWallet => p.funding = NoTx /\ p.sweep = NoTx
    /\ p.funding # NoTx => Is(p.funding, "fund", p.wallet)
    /\ p.sweep # NoTx => Is(p.sweep, "sweep", p.wallet)

RecordsOK ==
    /\ \A c \in DOMAIN disk.purchases : RecordOK(c, disk.purchases[c])
    /\ ~disk.selected => disk.purchases = NoBasket
    /\ disk.round = "SEEDED" => \A c \in Coins : disk.reserved[c] = 0

(* What is in flight is on record. *)
InFlightOnRecord ==
    \A t \in DOMAIN txs : txs[t].status = "sent" =>
        LET c == txs[t].wallet[1]
        IN /\ txs[t].kind = "sweep" => c \in DOMAIN disk.purchases /\ t = disk.purchases[c].sweep
           /\ txs[t].kind = "fund" => c \in DOMAIN disk.purchases /\ t = disk.purchases[c].funding

StepsOK ==
    /\ pc = "signing" => Record.funding = NoTx
    /\ pc \in {"signing", "funding", "swapping"} => Record.sweep = NoTx
    /\ pc \in Reading => Outcome(Record.sweep) \notin {"sent", "landed"}
    /\ pc \in Reading \cup {"sweeping"} => Outcome(Record.funding) # "sent"

IInv == Types /\ MemoryAgrees /\ RecordsOK /\ InFlightOnRecord /\ StepsOK /\ InventoryMatches

----------------------------------------------------------------------------
(* Sets of numbers have a least element: the next coin exists. *)
LEMMA LeastElement ==
    ASSUME NEW S \in SUBSET Nat, S # {}
    PROVE  Min(S) \in S
<1> DEFINE R == OpToRel(<, Nat)
<1>1. IsWellFoundedOn(R, Nat)
  BY NatLessThanWellFounded
<1>2. \E x \in S : \A y \in S : ~ (<<y, x>> \in R)
  <2> HIDE DEF R
  <2>1. QED
    BY <1>1, WFMin
<1>3. \A x, y \in S : ~ (<<y, x>> \in R) => x <= y
  BY DEF OpToRel
<1>4. \E x \in S : \A y \in S : x <= y
  <2> HIDE DEF R
  <2>1. QED
    BY <1>2, <1>3
<1>5. QED
  BY <1>4 DEF Min

(* A wallet is a coin and an attempt, and none is NoWallet. *)
LEMMA WalletParts ==
    ASSUME PurchaseAssumption, NEW w \in Wallets
    PROVE  /\ w # NoWallet /\ w[1] \in Coins /\ w[2] \in Nat /\ w[2] < MaxBuyAttempts
           /\ w = <<w[1], w[2]>>
<1>1. MaxBuyAttempts \in Nat
  BY DEF PurchaseAssumption
<1>2. PICK c \in Coins, a \in 0 .. MaxBuyAttempts - 1 : w = <<c, a>>
  BY DEF Wallets
<1>3. w[1] = c /\ w[2] = a /\ w = <<w[1], w[2]>>
  BY <1>2
<1>4. \A x, y : <<x, y>> # << >>
  OBVIOUS
<1>5. w # NoWallet
  BY <1>2, <1>4 DEF NoWallet
<1>6. QED
  BY <1>1, <1>3, <1>5

(* Signing adds one transaction and leaves the others alone. *)
LEMMA Signed ==
    ASSUME NEW s \in Seq(Transaction), NEW x \in Transaction
    PROVE  LET u == Append(s, x)
           IN /\ u \in Seq(Transaction) /\ Len(u) = Len(s) + 1
              /\ DOMAIN u = DOMAIN s \cup {Len(s) + 1} /\ Len(s) + 1 \notin DOMAIN s
              /\ Len(s) + 1 \in Nat /\ Len(s) + 1 # NoTx
              /\ u[Len(s) + 1] = x
              /\ \A t \in DOMAIN s : u[t] = s[t]
BY DEF NoTx

(* A balance changes. *)
LEMMA Adjusted ==
    ASSUME NEW S, NEW f \in [S -> Nat], NEW w \in S, NEW n \in Nat, NEW g, g = [f EXCEPT ![w] = n]
    PROVE  g \in [S -> Nat] /\ g[w] = n /\ \A y \in S \ {w} : g[y] = f[y]
OBVIOUS

(* Replacing one transaction leaves the others alone. *)
LEMMA Replaced ==
    ASSUME NEW s \in Seq(Transaction), NEW t \in DOMAIN s, NEW x \in Transaction,
           NEW u, u = [s EXCEPT ![t] = x]
    PROVE  /\ u \in Seq(Transaction) /\ Len(u) = Len(s) /\ DOMAIN u = DOMAIN s
           /\ \A y \in DOMAIN s \ {t} : u[y] = s[y]
           /\ u[t] = x
OBVIOUS

(* What becomes of a transaction changes its status, and what a swap delivered, only. *)
LEMMA Resolved ==
    ASSUME NEW s \in Seq(Transaction), NEW t \in DOMAIN s, NEW status \in TxStatuses,
           NEW u, u = [s EXCEPT ![t].status = status]
    PROVE  /\ u \in Seq(Transaction) /\ Len(u) = Len(s) /\ DOMAIN u = DOMAIN s
           /\ \A y \in DOMAIN s \ {t} : u[y] = s[y]
           /\ u[t].status = status /\ u[t].kind = s[t].kind /\ u[t].wallet = s[t].wallet
           /\ u[t].tokens = s[t].tokens /\ u[t].lamports = s[t].lamports
<1> DEFINE x == [s[t] EXCEPT !.status = status]
<1>1. s[t] \in Transaction
  OBVIOUS
<1>2. x \in Transaction
  BY <1>1 DEF Transaction
<1>3. u = [s EXCEPT ![t] = x]
  OBVIOUS
<1>4. /\ x.status = status /\ x.kind = s[t].kind /\ x.wallet = s[t].wallet
      /\ x.tokens = s[t].tokens /\ x.lamports = s[t].lamports
  BY <1>1 DEF Transaction
<1> HIDE DEF x
<1>5. /\ u \in Seq(Transaction) /\ Len(u) = Len(s) /\ DOMAIN u = DOMAIN s
      /\ \A y \in DOMAIN s \ {t} : u[y] = s[y]
      /\ u[t] = x
  BY ONLY <1>2, <1>3, Replaced
<1>6. QED
  BY <1>4, <1>5


----------------------------------------------------------------------------
(* The records, while a coin is being bought. *)
LEMMA BasketShape ==
    ASSUME Types, NEW c \in DOMAIN disk.purchases
    PROVE  /\ disk.purchases \in [Coins -> PurchaseRecord] /\ DOMAIN disk.purchases = Coins
           /\ c \in Coins /\ disk.purchases[c] \in PurchaseRecord
<1>1. disk.purchases \in {NoBasket} \cup [Coins -> PurchaseRecord]
  BY DEF Types, SavedState
<1>2. DOMAIN NoBasket = {}
  BY DEF NoBasket
<1>3. QED
  BY <1>1, <1>2

(* While a coin is left to buy, its record is a pending purchase. *)
LEMMA NextCoin ==
    ASSUME PurchaseAssumption, Types, Pending(disk) # {}
    PROVE  /\ disk.purchases \in [Coins -> PurchaseRecord] /\ DOMAIN disk.purchases = Coins
           /\ Now \in Coins /\ Record \in PurchaseRecord /\ Record.status = "pending"
<1>1. PICK c \in DOMAIN disk.purchases : TRUE
  BY DEF Pending
<1>2. disk.purchases \in [Coins -> PurchaseRecord] /\ DOMAIN disk.purchases = Coins
  BY <1>1, BasketShape
<1>3. Pending(disk) \subseteq Coins /\ Coins \subseteq Nat
  BY <1>2 DEF Pending, Coins
<1>4. Now \in Pending(disk)
  BY <1>3, LeastElement DEF Now
<1>5. QED
  BY <1>2, <1>3, <1>4 DEF Pending, Record

(* A step is at work on the purchase of the next coin. *)
AtWork == pc # "idle" \/ Buying

(* d's books are those on disk. *)
Unspent(d) ==
    d.basket = disk.basket /\ d.operations = disk.operations /\ d.unbooked = disk.unbooked

(* What the running step has in memory. *)
LEMMA InMemory ==
    ASSUME PurchaseAssumption, Types, MemoryAgrees, AtWork
    PROVE  /\ Pending(disk) # {} /\ Current = Now
           /\ pc \notin Reading => Purchase = Record
           /\ pc \in Reading => Purchase = [Record EXCEPT !.sweep = NoTx]
           /\ mem.purchases = [disk.purchases EXCEPT ![Now] = Purchase]
           /\ mem.round = disk.round /\ mem.selected = disk.selected /\ mem.budget = disk.budget
           /\ mem.inventory = disk.inventory /\ mem.reserved = disk.reserved
           /\ Unspent(mem)
           /\ Purchase \in PurchaseRecord
           /\ disk.round = "SEEDED"
<1> USE DEF Types
<1>1. CASE pc \notin Reading
  <2>1. mem = disk /\ Pending(disk) # {} /\ disk.round = "SEEDED"
    BY <1>1 DEF MemoryAgrees, AtWork, Buying
  <2>2. Current = Now /\ Purchase = Record
    BY <2>1 DEF Current, Now, Purchase, Record
  <2>3. Record \in PurchaseRecord /\ disk.purchases \in [Coins -> PurchaseRecord] /\ Now \in Coins
    BY <2>1, NextCoin
  <2>4. disk.purchases = [disk.purchases EXCEPT ![Now] = Record]
    BY <2>3 DEF Record
  <2>5. QED
    BY <1>1, <2>1, <2>2, <2>3, <2>4 DEF Unspent
<1>2. CASE pc \in Reading
  <2>1. mem = [disk EXCEPT !.purchases[Now].sweep = NoTx] /\ Pending(disk) # {} /\ disk.round = "SEEDED"
    BY <1>2 DEF MemoryAgrees, Reading
  <2>2. Record \in PurchaseRecord /\ disk.purchases \in [Coins -> PurchaseRecord] /\ Now \in Coins
    BY <2>1, NextCoin
  <2> DEFINE q == [Record EXCEPT !.sweep = NoTx]
  <2>3. q \in PurchaseRecord /\ q.status = Record.status
    BY <2>2 DEF PurchaseRecord, NoTx
  <2>4. mem.purchases = [disk.purchases EXCEPT ![Now] = q]
    BY <2>1, <2>2 DEF Record, SavedState
  <2>5. /\ mem.round = disk.round /\ mem.selected = disk.selected /\ mem.budget = disk.budget
        /\ mem.inventory = disk.inventory /\ mem.reserved = disk.reserved /\ Unspent(mem)
    BY <2>1 DEF SavedState, Unspent
  <2> HIDE DEF q
  <2>6. mem.purchases[Now] = q
    BY <2>2, <2>4
  <2>7. Pending(mem) = Pending(disk)
    BY <2>2, <2>3, <2>4 DEF Pending, Record
  <2>8. Current = Now /\ Purchase = q
    BY <2>6, <2>7 DEF Current, Now, Purchase
  <2>9. QED
    BY <1>2, <2>1, <2>3, <2>4, <2>5, <2>8 DEF q
<1>3. QED
  BY <1>1, <1>2

(* d is the saved state with the coin's record rewritten to q. *)
Rewritten(d, q) ==
    /\ d \in SavedState
    /\ d.purchases = [disk.purchases EXCEPT ![Now] = q]
    /\ d.round = disk.round /\ d.selected = disk.selected /\ d.budget = disk.budget
    /\ d.reserved = disk.reserved

(* What a step saves differs from the disk in the record of the coin at hand. *)
LEMMA WithRewrites ==
    ASSUME PurchaseAssumption, Types, MemoryAgrees, AtWork, NEW q \in PurchaseRecord
    PROVE  Rewritten(With(q), q) /\ With(q).inventory = disk.inventory /\ Unspent(With(q))
<1>1. /\ Current = Now /\ Pending(disk) # {}
      /\ mem.purchases = [disk.purchases EXCEPT ![Now] = Purchase]
      /\ mem.round = disk.round /\ mem.selected = disk.selected /\ mem.budget = disk.budget
      /\ mem.inventory = disk.inventory /\ mem.reserved = disk.reserved /\ Unspent(mem)
      /\ Purchase \in PurchaseRecord
  BY InMemory
<1>2. disk.purchases \in [Coins -> PurchaseRecord] /\ Now \in Coins
  BY <1>1, NextCoin
<1> DEFINE f == [mem.purchases EXCEPT ![Current] = q]
<1>3. f = [disk.purchases EXCEPT ![Now] = q] /\ f \in [Coins -> PurchaseRecord]
  BY <1>1, <1>2
<1>4. With(q) = [mem EXCEPT !.purchases = f]
  BY DEF With
<1>5. mem \in SavedState
  BY DEF Types
<1> HIDE DEF f
<1>6. With(q) \in SavedState /\ With(q).purchases = f
  BY <1>3, <1>4, <1>5 DEF SavedState
<1>7. /\ With(q).round = mem.round /\ With(q).selected = mem.selected /\ With(q).budget = mem.budget
      /\ With(q).inventory = mem.inventory /\ With(q).reserved = mem.reserved
      /\ With(q).basket = mem.basket /\ With(q).operations = mem.operations
      /\ With(q).unbooked = mem.unbooked
  BY <1>4, <1>5 DEF SavedState
<1>8. QED
  BY <1>1, <1>3, <1>6, <1>7 DEF Rewritten, Unspent

----------------------------------------------------------------------------
(* The chain resolves a transaction. *)

(* Transaction t became final, and the keeper did nothing. *)
Finalised(t) ==
    /\ txs' \in Seq(Transaction) /\ DOMAIN txs' = DOMAIN txs /\ Len(txs') = Len(txs)
    /\ \A y \in DOMAIN txs \ {t} : txs'[y] = txs[y]
    /\ txs'[t].status \in TxStatuses \ {"sent"}
    /\ txs'[t].kind = txs[t].kind /\ txs'[t].wallet = txs[t].wallet
    /\ txs'[t].lamports = txs[t].lamports
    /\ disk' = disk /\ mem' = mem /\ pc' = pc

(* A transaction that becomes final leaves the records and the waits right. *)
LEMMA FinalisedKeepsRecords ==
    ASSUME PurchaseAssumption, Types, MemoryAgrees, RecordsOK, InFlightOnRecord, StepsOK,
           NEW t \in DOMAIN txs, InFlight(t), Finalised(t)
    PROVE  MemoryAgrees' /\ RecordsOK' /\ InFlightOnRecord' /\ StepsOK'
<1> USE DEF Finalised
<1>1. MemoryAgrees'
  BY DEF MemoryAgrees, Now, Pending, Record
<1>2. RecordsOK'
  <2>1. \A x, kind, w : Is(x, kind, w) => Is(x, kind, w)'
    BY DEF Is
  <2>2. ASSUME NEW c \in DOMAIN disk.purchases
        PROVE  RecordOK(c, disk.purchases[c])'
    <3>1. RecordOK(c, disk.purchases[c])
      BY DEF RecordsOK
    <3>2. QED
      BY <2>1, <3>1 DEF RecordOK, Now, Pending
  <2>3. QED
    BY <2>2 DEF RecordsOK
<1>3. InFlightOnRecord'
  <2>1. ASSUME NEW x \in DOMAIN txs, txs'[x].status = "sent"
        PROVE  txs[x].status = "sent" /\ txs'[x].kind = txs[x].kind /\ txs'[x].wallet = txs[x].wallet
    BY <2>1
  <2>2. QED
    BY <2>1 DEF InFlightOnRecord
<1>4. StepsOK'
  <2>1. Record' = Record
    BY DEF Record, Now, Pending
  <2>2. ASSUME pc \in Reading \cup {"sweeping"}
        PROVE  /\ pc \in Reading => Outcome(Record.sweep)' = Outcome(Record.sweep)
               /\ Outcome(Record.funding)' # "sent"
    <3>1. Now \in DOMAIN disk.purchases
      BY <2>2, NextCoin DEF MemoryAgrees, Reading
    <3>2. RecordOK(Now, Record)
      BY <3>1 DEF RecordsOK, Record
    <3>3. Outcome(Record.funding) # "sent" /\ (pc \in Reading => Outcome(Record.sweep) # "sent")
      BY <2>2 DEF StepsOK
    <3>4. \A x : Outcome(x) # "sent" /\ (x # NoTx => x \in DOMAIN txs) => Outcome(x)' = Outcome(x)
      BY DEF Outcome, InFlight
    <3>5. QED
      BY <2>1, <3>2, <3>3, <3>4 DEF RecordOK, Is
  <2>3. QED
    BY <2>1, <2>2 DEF StepsOK
<1>5. QED
  BY <1>1, <1>2, <1>3, <1>4

(* Landing, failing and expiring keep the types. *)
LEMMA ChainTypes ==
    ASSUME PurchaseAssumption, Types, NEW t \in DOMAIN txs,
           LandFunding(t) \/ LandSwap(t) \/ LandSweep(t) \/ Expire(t)
    PROVE  Types' /\ Finalised(t)
<1> DEFINE w == txs[t].wallet
<1>1. txs \in Seq(Transaction) /\ txs[t] \in Transaction
  BY DEF Types
<1>2. w \in Wallets /\ txs[t].tokens \in Nat /\ txs[t].lamports \in Nat
  BY <1>1 DEF Transaction
<1>3. disk.budget \in Nat /\ Overhead \in Nat /\ Funding \in Nat
  BY DEF Types, SavedState, PurchaseAssumption, Funding
<1>4. ASSUME NEW s \in TxStatuses \ {"sent"}, SetStatus(t, s), disk' = disk, mem' = mem, pc' = pc
      PROVE  Finalised(t)
  <2>1. txs' = [txs EXCEPT ![t].status = s]
    BY <1>4 DEF SetStatus
  <2>2. /\ txs' \in Seq(Transaction) /\ Len(txs') = Len(txs) /\ DOMAIN txs' = DOMAIN txs
        /\ \A y \in DOMAIN txs \ {t} : txs'[y] = txs[y]
        /\ txs'[t].status = s /\ txs'[t].kind = txs[t].kind /\ txs'[t].wallet = txs[t].wallet
        /\ txs'[t].tokens = txs[t].tokens /\ txs'[t].lamports = txs[t].lamports
    BY ONLY <1>1, <2>1, s \in TxStatuses, t \in DOMAIN txs, Resolved
  <2>3. QED
    BY <1>4, <2>2 DEF Finalised
<1>5. ASSUME Finalised(t), sol' \in [Wallets -> Nat], tok' \in [Wallets -> Nat],
             keeperTok' \in [Coins -> Nat], lags' = lags
      PROVE  Types'
  BY <1>5 DEF Types, Finalised
<1>6. "landed" \in TxStatuses \ {"sent"} /\ "failed" \in TxStatuses \ {"sent"}
      /\ "expired" \in TxStatuses \ {"sent"}
  BY DEF TxStatuses
<1>7. sol \in [Wallets -> Nat] /\ tok \in [Wallets -> Nat] /\ keeperTok \in [Coins -> Nat]
  BY DEF Types
<1>8. CASE LandFunding(t)
  <2>1. SetStatus(t, "landed") /\ disk' = disk /\ mem' = mem /\ pc' = pc /\ lags' = lags
        /\ tok' = tok /\ keeperTok' = keeperTok
        /\ sol' = [sol EXCEPT ![w] = sol[w] + Funding]
    BY <1>8 DEF LandFunding, history
  <2>2. sol[w] + Funding \in Nat
    BY <1>2, <1>3, <1>7
  <2>3. sol' \in [Wallets -> Nat]
    BY ONLY <1>2, <1>7, <2>1, <2>2, Adjusted
  <2>4. Finalised(t)
    BY <1>4, <1>6, <2>1
  <2>5. QED
    BY <1>5, <1>7, <2>1, <2>3, <2>4
<1>9. CASE LandSwap(t)
  <2>1. disk' = disk /\ mem' = mem /\ pc' = pc /\ lags' = lags /\ keeperTok' = keeperTok
    BY <1>9 DEF LandSwap, history
  <2>2. CASE /\ sol[w] >= disk.budget + Fee
             /\ \E delivered \in {0, 1} :
                   /\ txs' = [txs EXCEPT ![t] = [@ EXCEPT !.status = "landed", !.tokens = delivered]]
                   /\ tok' = [tok EXCEPT ![w] = @ + delivered]
             /\ sol' = [sol EXCEPT ![w] = @ - disk.budget - Fee]
    <3>1. PICK delivered \in {0, 1} :
                   /\ txs' = [txs EXCEPT ![t] = [@ EXCEPT !.status = "landed", !.tokens = delivered]]
                   /\ tok' = [tok EXCEPT ![w] = @ + delivered]
      BY <2>2
    <3>2. delivered \in Nat /\ tok[w] + delivered \in Nat /\ sol[w] - disk.budget - Fee \in Nat
      BY <1>2, <1>3, <1>7, <2>2 DEF Fee
    <3>3. tok' \in [Wallets -> Nat]
      <4>1. tok' = [tok EXCEPT ![w] = tok[w] + delivered]
        BY <3>1
      <4>2. QED
        BY ONLY <1>2, <1>7, <3>2, <4>1, Adjusted
    <3>4. sol' \in [Wallets -> Nat]
      <4>1. sol' = [sol EXCEPT ![w] = sol[w] - disk.budget - Fee]
        BY <2>2
      <4>2. QED
        BY ONLY <1>2, <1>7, <3>2, <4>1, Adjusted
    <3>5. /\ txs' \in Seq(Transaction) /\ DOMAIN txs' = DOMAIN txs /\ Len(txs') = Len(txs)
          /\ \A y \in DOMAIN txs \ {t} : txs'[y] = txs[y]
          /\ txs'[t].status = "landed"
          /\ txs'[t].kind = txs[t].kind /\ txs'[t].wallet = txs[t].wallet
          /\ txs'[t].lamports = txs[t].lamports
      <4> DEFINE x == [txs[t] EXCEPT !.status = "landed", !.tokens = delivered]
      <4>1. /\ x \in Transaction /\ x.status = "landed" /\ x.kind = txs[t].kind
            /\ x.wallet = txs[t].wallet /\ x.lamports = txs[t].lamports
        BY <1>1, <3>2 DEF Transaction, TxStatuses
      <4>2. txs' = [txs EXCEPT ![t] = x]
        BY <3>1
      <4> HIDE DEF x
      <4>3. /\ txs' \in Seq(Transaction) /\ DOMAIN txs' = DOMAIN txs /\ Len(txs') = Len(txs)
            /\ (\A y \in DOMAIN txs \ {t} : txs'[y] = txs[y]) /\ txs'[t] = x
        BY ONLY <1>1, <4>1, <4>2, t \in DOMAIN txs, Replaced
      <4>4. QED
        BY <4>1, <4>3
    <3>6. Finalised(t)
      BY <1>6, <2>1, <3>5 DEF Finalised
    <3>7. QED
      BY <1>5, <1>7, <2>1, <3>3, <3>4, <3>6
  <2>3. CASE /\ sol[w] >= Fee
             /\ SetStatus(t, "failed")
             /\ sol' = [sol EXCEPT ![w] = @ - Fee]
             /\ UNCHANGED tok
    <3>1. sol[w] - Fee \in Nat
      BY <1>2, <1>7, <2>3 DEF Fee
    <3>2. sol' = [sol EXCEPT ![w] = sol[w] - Fee]
      BY <2>3
    <3>3. sol' \in [Wallets -> Nat]
      BY ONLY <1>2, <1>7, <3>1, <3>2, Adjusted
    <3>4. Finalised(t)
      BY <1>4, <1>6, <2>1, <2>3
    <3>5. QED
      BY <1>5, <1>7, <2>1, <2>3, <3>3, <3>4
  <2>4. QED
    BY <1>9, <2>2, <2>3 DEF LandSwap
<1>10. CASE LandSweep(t)
  <2>1. disk' = disk /\ mem' = mem /\ pc' = pc /\ lags' = lags
    BY <1>10 DEF LandSweep, history
  <2>2. w[1] \in Coins
    BY <1>2, WalletParts
  <2>3. CASE tok[w] >= txs[t].tokens /\ sol[w] >= txs[t].lamports
    <3>1. /\ SetStatus(t, "landed")
          /\ sol' = [sol EXCEPT ![w] = sol[w] - txs[t].lamports]
          /\ tok' = [tok EXCEPT ![w] = tok[w] - txs[t].tokens]
          /\ keeperTok' = [keeperTok EXCEPT ![w[1]] = keeperTok[w[1]] + txs[t].tokens]
      BY <1>10, <2>3 DEF LandSweep
    <3>2. /\ sol[w] - txs[t].lamports \in Nat /\ tok[w] - txs[t].tokens \in Nat
          /\ keeperTok[w[1]] + txs[t].tokens \in Nat
      BY <1>2, <1>7, <2>2, <2>3
    <3>3. sol' \in [Wallets -> Nat] /\ tok' \in [Wallets -> Nat]
      BY ONLY <1>2, <1>7, <3>1, <3>2, Adjusted
    <3>4. keeperTok' \in [Coins -> Nat]
      BY ONLY <1>2, <1>7, <2>2, <3>1, <3>2, Adjusted
    <3>5. Finalised(t)
      BY <1>4, <1>6, <2>1, <3>1
    <3>6. QED
      BY <1>5, <2>1, <3>3, <3>4, <3>5
  <2>4. CASE ~ (tok[w] >= txs[t].tokens /\ sol[w] >= txs[t].lamports)
    <3>1. SetStatus(t, "failed") /\ UNCHANGED <<sol, tok, keeperTok>>
      BY <1>10, <2>4 DEF LandSweep
    <3>2. Finalised(t)
      BY <1>4, <1>6, <2>1, <3>1
    <3>3. QED
      BY <1>5, <1>7, <2>1, <3>1, <3>2
  <2>5. QED
    BY <2>3, <2>4
<1>11. CASE Expire(t)
  <2>1. /\ SetStatus(t, "expired") /\ disk' = disk /\ mem' = mem /\ pc' = pc /\ lags' = lags
        /\ sol' = sol /\ tok' = tok /\ keeperTok' = keeperTok
    BY <1>11 DEF Expire
  <2>2. Finalised(t)
    BY <1>4, <1>6, <2>1
  <2>3. QED
    BY <1>5, <1>7, <2>1, <2>2
<1>12. QED
  BY <1>8, <1>9, <1>10, <1>11

----------------------------------------------------------------------------
(* The keeper rewrites the record of the coin at hand. *)

(* What a rewritten record must say, whichever coin is next afterwards. *)
RecordSound(q) ==
    /\ q.wallet # NoWallet => q.wallet = <<Now, q.attempts>> /\ q.status = "pending"
    /\ q.status = "pending" => q.attempts < MaxBuyAttempts
    /\ q.wallet = NoWallet => q.funding = NoTx /\ q.sweep = NoTx
    /\ q.funding # NoTx => Is(q.funding, "fund", q.wallet)'
    /\ q.sweep # NoTx => Is(q.sweep, "sweep", q.wallet)'

(* Transactions are only added. *)
OnlySigned ==
    /\ txs' \in Seq(Transaction) /\ DOMAIN txs \subseteq DOMAIN txs'
    /\ \A y \in DOMAIN txs : txs'[y] = txs[y]

(* Rewriting the record at hand leaves the others right, and the coin at hand the same. *)
LEMMA RewriteKeepsRecords ==
    ASSUME PurchaseAssumption, Types, RecordsOK, Pending(disk) # {}, OnlySigned,
           NEW q \in PurchaseRecord, Rewritten(disk', q), RecordSound(q)
    PROVE  /\ RecordsOK'
           /\ disk'.purchases \in [Coins -> PurchaseRecord] /\ disk'.purchases[Now] = q
           /\ \A c \in Coins \ {Now} : disk'.purchases[c] = disk.purchases[c]
           /\ q.status = "pending" => Now' = Now /\ Pending(disk') = Pending(disk) /\ Record' = q
<1>1. /\ disk.purchases \in [Coins -> PurchaseRecord] /\ DOMAIN disk.purchases = Coins
      /\ Now \in Coins /\ Record \in PurchaseRecord /\ Record.status = "pending"
  BY NextCoin
<1>2. disk'.purchases = [disk.purchases EXCEPT ![Now] = q] /\ disk'.selected = disk.selected
  BY DEF Rewritten
<1>3. /\ disk'.purchases \in [Coins -> PurchaseRecord] /\ disk'.purchases[Now] = q
      /\ \A c \in Coins \ {Now} : disk'.purchases[c] = disk.purchases[c]
  BY <1>1, <1>2
<1>4. q.status = "pending" => Pending(disk') = Pending(disk)
  BY <1>1, <1>3 DEF Pending, Record
<1>5. q.status = "pending" => Now' = Now /\ Record' = q
  BY <1>3, <1>4 DEF Now, Record
<1>6. ASSUME NEW c \in Coins
      PROVE  RecordOK(c, disk.purchases[c])'
  <2>1. CASE c = Now
    BY <1>3, <1>5, <2>1 DEF RecordOK, RecordSound
  <2>2. CASE c # Now
    <3>1. RecordOK(c, disk.purchases[c]) /\ disk'.purchases[c] = disk.purchases[c]
      BY <1>1, <1>3, <2>2 DEF RecordsOK
    <3>2. disk.purchases[c].wallet = NoWallet
      BY <2>2, <3>1 DEF RecordOK
    <3>3. QED
      BY <3>1, <3>2 DEF RecordOK
  <2>3. QED
    BY <2>1, <2>2
<1>7. disk.selected
  <2>1. DOMAIN NoBasket = {}
    BY DEF NoBasket
  <2>2. QED
    BY <1>1, <2>1 DEF RecordsOK, SavedState, Types
<1>8. DOMAIN disk'.purchases = Coins
  BY <1>3
<1>9. RecordsOK'
  <2>1. disk'.round = disk.round /\ disk'.reserved = disk.reserved
    BY DEF Rewritten
  <2>2. QED
    BY <1>2, <1>6, <1>7, <1>8, <2>1 DEF RecordsOK
<1>10. QED
  BY <1>3, <1>4, <1>5, <1>9

(* A rewritten record keeps what is in flight, and a new transaction is on it. *)
LEMMA RewriteKeepsFlight ==
    ASSUME PurchaseAssumption, Types, RecordsOK, InFlightOnRecord, Pending(disk) # {}, OnlySigned,
           NEW q \in PurchaseRecord, Rewritten(disk', q), RecordSound(q),
           Outcome(Record.sweep) = "sent" => q.sweep = Record.sweep,
           Outcome(Record.funding) = "sent" => q.funding = Record.funding,
           \A t \in DOMAIN txs' \ DOMAIN txs :
               /\ txs'[t].kind = "sweep" => txs'[t].wallet[1] = Now /\ t = q.sweep
               /\ txs'[t].kind = "fund" => txs'[t].wallet[1] = Now /\ t = q.funding
    PROVE  InFlightOnRecord'
<1>1. /\ disk'.purchases \in [Coins -> PurchaseRecord] /\ disk'.purchases[Now] = q
      /\ \A c \in Coins \ {Now} : disk'.purchases[c] = disk.purchases[c]
  BY RewriteKeepsRecords
<1>2. disk.purchases \in [Coins -> PurchaseRecord] /\ Now \in Coins /\ DOMAIN disk'.purchases = Coins
  BY <1>1, NextCoin
<1>3. SUFFICES ASSUME NEW t \in DOMAIN txs', txs'[t].status = "sent"
               PROVE  LET c == txs'[t].wallet[1]
                      IN /\ txs'[t].kind = "sweep" => c \in Coins /\ t = disk'.purchases[c].sweep
                         /\ txs'[t].kind = "fund" => c \in Coins /\ t = disk'.purchases[c].funding
  BY <1>2 DEF InFlightOnRecord
<1>4. CASE t \notin DOMAIN txs
  BY <1>1, <1>2, <1>4
<1>5. CASE t \in DOMAIN txs
  <2> DEFINE c == txs[t].wallet[1]
  <2>1. txs'[t] = txs[t] /\ t # NoTx
    BY <1>5 DEF OnlySigned, NoTx, Types
  <2>2. /\ txs[t].kind = "sweep" => c \in Coins /\ t = disk.purchases[c].sweep
        /\ txs[t].kind = "fund" => c \in Coins /\ t = disk.purchases[c].funding
    BY <1>2, <1>3, <1>5, <2>1 DEF InFlightOnRecord
  <2>3. c = Now => /\ txs[t].kind = "sweep" => q.sweep = t
                   /\ txs[t].kind = "fund" => q.funding = t
    BY <1>3, <2>1, <2>2 DEF Record, Outcome
  <2>4. QED
    BY <1>1, <2>1, <2>2, <2>3
<1>6. QED
  BY <1>4, <1>5

(* Tokens a recorded sweep has brought in and that are not booked yet. *)
Arrived(c) ==
    IF c \in DOMAIN disk.purchases /\ Outcome(disk.purchases[c].sweep) = "landed"
      THEN txs[disk.purchases[c].sweep].tokens ELSE 0

(* Tokens leave the record for the inventory in one save (engine.ts 607-622). *)
LEMMA RewriteKeepsInventory ==
    ASSUME PurchaseAssumption, Types, RecordsOK, InventoryMatches, Pending(disk) # {}, OnlySigned,
           NEW q \in PurchaseRecord, Rewritten(disk', q), RecordSound(q),
           keeperTok' = keeperTok,
           \A c \in Coins \ {Now} : disk'.inventory[c] = disk.inventory[c],
           \A c \in Coins : c = Now => disk'.inventory[c] + Arrived(c)' = disk.inventory[c] + Arrived(c)
    PROVE  InventoryMatches'
<1>1. /\ disk'.purchases \in [Coins -> PurchaseRecord]
      /\ \A c \in Coins \ {Now} : disk'.purchases[c] = disk.purchases[c]
  BY RewriteKeepsRecords
<1>2. disk.purchases \in [Coins -> PurchaseRecord] /\ DOMAIN disk.purchases = Coins /\ Now \in Coins
  BY NextCoin
<1>3. \A c \in Coins : keeperTok[c] = disk.inventory[c] + disk.reserved[c] + Arrived(c)
  BY DEF InventoryMatches, Arrived
<1>4. SUFFICES \A c \in Coins : keeperTok[c] = disk'.inventory[c] + disk.reserved[c] + Arrived(c)'
  BY DEF InventoryMatches, Arrived, Rewritten
<1>5. ASSUME NEW c \in Coins \ {Now}
      PROVE  Arrived(c)' = Arrived(c)
  <2>1. RecordOK(c, disk.purchases[c])
    BY <1>2 DEF RecordsOK
  <2>2. disk.purchases[c].sweep = NoTx
    BY <2>1 DEF RecordOK
  <2>3. QED
    BY <1>1, <1>2, <2>2 DEF Arrived, Outcome
<1>6. ASSUME NEW c \in Coins, c = Now
      PROVE  keeperTok[c] = disk'.inventory[c] + disk.reserved[c] + Arrived(c)'
  <2>1. disk.reserved[c] \in Nat /\ disk.inventory[c] \in Nat /\ disk'.inventory[c] \in Nat
    BY DEF Types, SavedState, Rewritten
  <2>2. \A x \in DOMAIN txs : txs[x].tokens \in Nat
    <3>1. \A x \in DOMAIN txs : txs[x] \in Transaction
      BY DEF Types
    <3>2. QED
      BY <3>1 DEF Transaction
  <2>3. \A x \in DOMAIN txs' : txs'[x].tokens \in Nat
    <3>1. \A x \in DOMAIN txs' : txs'[x] \in Transaction
      BY DEF OnlySigned
    <3>2. QED
      BY <3>1 DEF Transaction
  <2>4. Arrived(c) \in Nat
    <3>1. RecordOK(c, disk.purchases[c])
      BY <1>2 DEF RecordsOK
    <3>2. QED
      BY <2>2, <3>1 DEF Arrived, RecordOK, Is, Outcome
  <2>5. Arrived(c)' \in Nat
    <3>1. disk'.purchases[c] = q
      BY <1>6, RewriteKeepsRecords
    <3>2. QED
      BY <2>3, <3>1 DEF Arrived, RecordSound, Is, Outcome
  <2>6. disk'.inventory[c] + Arrived(c)' = disk.inventory[c] + Arrived(c)
    BY <1>6
  <2>7. keeperTok[c] = disk.inventory[c] + disk.reserved[c] + Arrived(c)
    BY <1>3
  <2>8. QED
    BY ONLY <2>1, <2>4, <2>5, <2>6, <2>7
<1>7. QED
  BY <1>3, <1>5, <1>6

----------------------------------------------------------------------------
(* An attempt is booked. *)

Swept(sweep) == IF sweep = NoTx THEN {} ELSE {sweep}
Moved(sweep) == IF sweep = NoTx THEN 0 ELSE txs[sweep].tokens

(* The swaps found in the history of the wallet at hand. *)
Found(sweep, blind) ==
    IF Record.swap # NoTx THEN {Record.swap}
    ELSE IF blind THEN {}
    ELSE {t \in DOMAIN txs : /\ txs[t].wallet = Record.wallet
                             /\ txs[t].kind # "fund"
                             /\ txs[t].status = "landed"
                             /\ t \notin Record.sweeps \cup Swept(sweep)}

Again(swaps) == ~Record.reason /\ swaps # {} /\ Record.checks < MaxChecks

(* What becomes of the record of a booked attempt. *)
Decided(q, sweep, swaps) ==
    \/ /\ Moved(sweep) > 0
       /\ q.status = "bought" /\ q.wallet = NoWallet /\ q.attempts = Record.attempts
       /\ q.swap = IF Record.swap = NoTx /\ swaps # {} THEN Min(swaps) ELSE Record.swap
       /\ q.checks = Record.checks
    \/ /\ Moved(sweep) = 0 /\ Again(swaps)
       /\ q.status = Record.status /\ q.wallet = Record.wallet /\ q.attempts = Record.attempts
       /\ q.swap = Min(swaps) /\ q.checks = Record.checks + 1
    \/ /\ Moved(sweep) = 0 /\ ~Again(swaps)
       /\ q.wallet = NoWallet /\ q.swap = NoTx /\ q.checks = Record.checks
       /\ \/ q.status = "skipped" /\ q.attempts \in {Record.attempts, Record.attempts + 1}
          \/ q.status = "pending" /\ q.attempts = Record.attempts + 1 /\ q.attempts < MaxBuyAttempts

BookedAs(q, sweep, swaps) ==
    /\ q \in PurchaseRecord
    /\ q.funding = NoTx /\ q.sweep = NoTx
    /\ q.sweeps = Record.sweeps \cup Swept(sweep) /\ q.reason = Record.reason
    /\ Decided(q, sweep, swaps)

(* What the attempt cost is taken from the basket; the rest of the state stays. *)
LEMMA TakeLeaves ==
    ASSUME NEW d \in SavedState, NEW cost \in Int
    PROVE  LET r == Take(d, cost)
           IN /\ r \in SavedState /\ r.purchases = d.purchases /\ r.inventory = d.inventory
              /\ r.reserved = d.reserved /\ r.round = d.round /\ r.selected = d.selected
              /\ r.budget = d.budget /\ r.operations = d.operations
              /\ r.unbooked - r.basket = d.unbooked - d.basket + cost
              /\ d.basket >= 0 => r.basket >= 0
              /\ d.unbooked >= 0 => r.unbooked >= 0
<1> DEFINE taken == IF cost > d.basket THEN d.basket ELSE cost
           b == d.basket - taken
           u == d.unbooked + (cost - taken)
<1>1. d.basket \in Int /\ d.unbooked \in Int
  BY DEF SavedState
<1>2. /\ taken \in Int /\ b \in Int /\ u \in Int
      /\ u - b = d.unbooked - d.basket + cost
      /\ d.basket >= 0 => b >= 0
      /\ d.unbooked >= 0 => u >= 0
  BY <1>1
<1>3. Take(d, cost) = [d EXCEPT !.basket = b, !.unbooked = u]
  BY DEF Take
<1> HIDE DEF b, u, taken
<1>4. QED
  BY <1>2, <1>3 DEF SavedState

(* What the attempt cost left the books: from the basket, or unbooked beyond it. *)
Debited(cost) ==
    /\ disk'.operations = disk.operations
    /\ disk'.unbooked - disk'.basket = disk.unbooked - disk.basket + cost
    /\ disk.basket >= 0 => disk'.basket >= 0
    /\ disk.unbooked >= 0 => disk'.unbooked >= 0

(* Booking rewrites the record once and credits what the sweep moved (settlePurchase). *)
LEMMA BookDecides ==
    ASSUME PurchaseAssumption, Types, MemoryAgrees, AtWork, RecordsOK,
           NEW sweep \in {NoTx} \cup DOMAIN txs, NEW blind \in BOOLEAN, Book(sweep, blind)
    PROVE  \E q \in PurchaseRecord :
               /\ BookedAs(q, sweep, Found(sweep, blind))
               /\ Rewritten(disk', q)
               /\ disk'.inventory = [disk.inventory EXCEPT ![Now] = disk.inventory[Now] + Moved(sweep)]
               /\ Debited(Cost(Purchase, sweep))
               /\ mem' = disk' /\ pc' = "idle"
<1>1. /\ Pending(disk) # {} /\ Current = Now
      /\ mem.purchases = [disk.purchases EXCEPT ![Now] = Purchase]
      /\ mem.round = disk.round /\ mem.selected = disk.selected /\ mem.budget = disk.budget
      /\ mem.inventory = disk.inventory /\ mem.reserved = disk.reserved /\ Unspent(mem)
      /\ Purchase \in PurchaseRecord
      /\ Purchase = Record \/ Purchase = [Record EXCEPT !.sweep = NoTx]
  BY InMemory
<1>2. /\ disk.purchases \in [Coins -> PurchaseRecord] /\ DOMAIN disk.purchases = Coins
      /\ Now \in Coins /\ Record \in PurchaseRecord /\ Record.status = "pending"
  BY <1>1, NextCoin
<1>3. /\ Purchase.status = "pending" /\ Purchase.wallet = Record.wallet /\ Purchase.swap = Record.swap
      /\ Purchase.sweeps = Record.sweeps /\ Purchase.reason = Record.reason
      /\ Purchase.attempts = Record.attempts /\ Purchase.checks = Record.checks
      /\ Purchase.funding = Record.funding
  BY <1>1, <1>2 DEF PurchaseRecord
<1> DEFINE booked == Booked(Purchase, sweep)
           swaps == IF booked.swap # NoTx THEN {booked.swap}
                    ELSE IF blind THEN {} ELSE WalletSwaps(booked)
<1>4. /\ booked \in PurchaseRecord
      /\ booked.status = "pending" /\ booked.wallet = Record.wallet /\ booked.swap = Record.swap
      /\ booked.sweeps = Record.sweeps \cup Swept(sweep) /\ booked.reason = Record.reason
      /\ booked.attempts = Record.attempts /\ booked.checks = Record.checks
      /\ booked.funding = NoTx /\ booked.sweep = NoTx
  <2> DEFINE ss == IF sweep = NoTx THEN Purchase.sweeps ELSE Purchase.sweeps \cup {sweep}
  <2>1. sweep \in Nat
    BY DEF NoTx, Types
  <2>2. ss \in SUBSET Nat /\ ss = Record.sweeps \cup Swept(sweep)
    BY <1>1, <1>3, <2>1 DEF Swept, PurchaseRecord
  <2>3. booked = [Purchase EXCEPT !.funding = NoTx, !.sweep = NoTx, !.sweeps = ss]
    BY DEF Booked
  <2>4. Purchase \in PurchaseRecord /\ NoTx \in Nat
    BY <1>1 DEF NoTx
  <2> HIDE DEF ss, booked
  <2>5. booked \in PurchaseRecord
    BY <2>2, <2>3, <2>4 DEF PurchaseRecord
  <2>6. /\ booked.status = Purchase.status /\ booked.wallet = Purchase.wallet
        /\ booked.swap = Purchase.swap /\ booked.reason = Purchase.reason
        /\ booked.attempts = Purchase.attempts /\ booked.checks = Purchase.checks
    BY <2>3, <2>4 DEF PurchaseRecord
  <2>7. booked.sweeps = ss /\ booked.funding = NoTx /\ booked.sweep = NoTx
    BY <2>3, <2>4 DEF PurchaseRecord
  <2>8. QED
    BY <1>3, <2>2, <2>5, <2>6, <2>7
<1>5. swaps = Found(sweep, blind)
  BY <1>4 DEF Found, WalletSwaps
<1>6. LooksAgain(booked, swaps) <=> Again(swaps)
  BY <1>4 DEF LooksAgain, Again
<1>7. (swaps # {} => Min(swaps) \in Nat)
  <2>1. swaps \subseteq Nat
    <3>1. booked.swap \in Nat
      BY <1>4 DEF PurchaseRecord
    <3>2. DOMAIN txs \subseteq Nat
      BY DEF Types
    <3>3. WalletSwaps(booked) \subseteq DOMAIN txs
      BY DEF WalletSwaps
    <3> HIDE DEF booked
    <3>4. QED
      BY <3>1, <3>2, <3>3
  <2> HIDE DEF swaps
  <2>2. QED
    BY <2>1, LeastElement
<1> DEFINE tokens == IF sweep = NoTx THEN 0 ELSE txs[sweep].tokens
           cost == Cost(Purchase, sweep)
           paid == Take(mem, cost)
           settled == [paid EXCEPT !.inventory[Current] = @ + tokens]
           p == IF tokens > 0 THEN Bought(booked, swaps)
                ELSE IF LooksAgain(booked, swaps)
                  THEN [booked EXCEPT !.swap = Min(swaps), !.checks = @ + 1]
                ELSE NotBought(booked)
           final == [settled EXCEPT !.purchases[Current] = p]
<1>8. disk' = final /\ mem' = final /\ pc' = "idle"
  BY DEF Book, Return, Save
<1>9. tokens \in Nat /\ cost \in Int /\ tokens = Moved(sweep)
  <2>1. \A x \in DOMAIN txs : txs[x] \in Transaction
    BY DEF Types
  <2>2. \A x \in DOMAIN txs : txs[x].tokens \in Nat /\ txs[x].lamports \in Nat
    BY <2>1 DEF Transaction
  <2>3. Funding \in Nat
    BY DEF Funding, Types, SavedState, PurchaseAssumption
  <2>4. cost \in Int
    BY <2>2, <2>3 DEF Cost, Fee
  <2>5. QED
    BY <2>2, <2>4 DEF Moved
<1>10. /\ paid \in SavedState /\ paid.purchases = mem.purchases /\ paid.inventory = mem.inventory
       /\ paid.reserved = mem.reserved /\ paid.round = mem.round /\ paid.selected = mem.selected
       /\ paid.budget = mem.budget /\ paid.operations = disk.operations
       /\ paid.unbooked - paid.basket = disk.unbooked - disk.basket + cost
       /\ disk.basket >= 0 => paid.basket >= 0
       /\ disk.unbooked >= 0 => paid.unbooked >= 0
  <2>1. mem \in SavedState
    BY DEF Types
  <2> HIDE DEF cost
  <2>2. /\ paid \in SavedState /\ paid.purchases = mem.purchases /\ paid.inventory = mem.inventory
        /\ paid.reserved = mem.reserved /\ paid.round = mem.round /\ paid.selected = mem.selected
        /\ paid.budget = mem.budget /\ paid.operations = mem.operations
        /\ paid.unbooked - paid.basket = mem.unbooked - mem.basket + cost
        /\ mem.basket >= 0 => paid.basket >= 0
        /\ mem.unbooked >= 0 => paid.unbooked >= 0
    BY ONLY <1>9, <2>1, TakeLeaves DEF paid
  <2> HIDE DEF paid
  <2>3. QED
    BY <1>1, <2>2 DEF Unspent
<1> HIDE DEF booked, swaps, cost, paid
<1>11. /\ settled \in SavedState /\ settled.purchases = mem.purchases
       /\ settled.inventory = [disk.inventory EXCEPT ![Now] = disk.inventory[Now] + Moved(sweep)]
       /\ settled.reserved = disk.reserved /\ settled.round = disk.round
       /\ settled.selected = disk.selected /\ settled.budget = disk.budget
       /\ settled.basket = paid.basket /\ settled.operations = paid.operations
       /\ settled.unbooked = paid.unbooked
  <2> DEFINE inv == [disk.inventory EXCEPT ![Now] = disk.inventory[Now] + Moved(sweep)]
  <2>1. disk.inventory \in [Coins -> Nat]
    BY DEF Types, SavedState
  <2>2. inv \in [Coins -> Nat]
    BY <1>2, <1>9, <2>1
  <2>3. settled = [paid EXCEPT !.inventory = inv]
    BY <1>1, <1>9, <1>10
  <2> HIDE DEF inv
  <2>4. settled \in SavedState /\ settled.inventory = inv
    BY <1>10, <2>2, <2>3 DEF SavedState
  <2>5. /\ settled.purchases = paid.purchases
        /\ settled.reserved = paid.reserved /\ settled.round = paid.round
        /\ settled.selected = paid.selected /\ settled.budget = paid.budget
        /\ settled.basket = paid.basket /\ settled.operations = paid.operations
        /\ settled.unbooked = paid.unbooked
    BY <1>10, <2>3 DEF SavedState
  <2>6. QED
    BY <1>1, <1>10, <2>4, <2>5 DEF inv
<1> HIDE DEF settled
<1>12. BookedAs(p, sweep, swaps)
  <2>1. CASE tokens > 0
    <3>1. p = Bought(booked, swaps)
      BY <2>1
    <3> DEFINE n == IF booked.swap = NoTx /\ swaps # {} THEN Min(swaps) ELSE booked.swap
    <3>2. p = [booked EXCEPT !.status = "bought", !.wallet = NoWallet, !.swap = n]
      BY <3>1 DEF Bought
    <3>3. n \in Nat
      BY <1>4, <1>7 DEF PurchaseRecord
    <3>4. n = IF Record.swap = NoTx /\ swaps # {} THEN Min(swaps) ELSE Record.swap
      BY <1>4
    <3> HIDE DEF p, n
    <3>5. p \in PurchaseRecord
      BY <1>4, <3>2, <3>3 DEF PurchaseRecord, Statuses
    <3>6. /\ p.status = "bought" /\ p.wallet = NoWallet /\ p.swap = n
          /\ p.funding = booked.funding /\ p.sweep = booked.sweep /\ p.sweeps = booked.sweeps
          /\ p.reason = booked.reason /\ p.attempts = booked.attempts /\ p.checks = booked.checks
      BY <1>4, <3>2 DEF PurchaseRecord
    <3>7. QED
      BY <1>4, <1>9, <2>1, <3>4, <3>5, <3>6 DEF BookedAs, Decided
  <2>2. CASE ~ (tokens > 0) /\ LooksAgain(booked, swaps)
    <3>1. p = [booked EXCEPT !.swap = Min(swaps), !.checks = booked.checks + 1]
      BY <2>2
    <3>2. Min(swaps) \in Nat /\ booked.checks + 1 \in Nat
      BY <1>4, <1>7, <2>2 DEF LooksAgain, PurchaseRecord
    <3> HIDE DEF p
    <3>3. p \in PurchaseRecord
      BY <1>4, <3>1, <3>2 DEF PurchaseRecord
    <3>4. /\ p.status = booked.status /\ p.wallet = booked.wallet /\ p.swap = Min(swaps)
          /\ p.funding = booked.funding /\ p.sweep = booked.sweep /\ p.sweeps = booked.sweeps
          /\ p.reason = booked.reason /\ p.attempts = booked.attempts /\ p.checks = booked.checks + 1
      BY <1>4, <3>1 DEF PurchaseRecord
    <3>5. Moved(sweep) = 0 /\ Again(swaps)
      BY <1>6, <1>9, <2>2
    <3>6. QED
      BY <1>2, <1>4, <3>3, <3>4, <3>5 DEF BookedAs, Decided
  <2>3. CASE ~ (tokens > 0) /\ ~LooksAgain(booked, swaps)
    <3> DEFINE k == booked.attempts + (IF booked.reason THEN 0 ELSE 1)
               st == IF booked.reason \/ k >= MaxBuyAttempts THEN "skipped" ELSE "pending"
    <3>1. p = [booked EXCEPT !.wallet = NoWallet, !.swap = NoTx, !.attempts = k, !.status = st]
      BY <2>3 DEF NotBought
    <3>2. k \in Nat /\ st \in Statuses
      BY <1>4 DEF PurchaseRecord, Statuses
    <3>3. \/ st = "skipped" /\ k \in {Record.attempts, Record.attempts + 1}
          \/ st = "pending" /\ k = Record.attempts + 1 /\ k < MaxBuyAttempts
      BY <1>4, <3>2 DEF PurchaseRecord, PurchaseAssumption
    <3> HIDE DEF p, k, st
    <3>4. p \in PurchaseRecord
      BY <1>4, <3>1, <3>2 DEF PurchaseRecord, NoTx
    <3>5. /\ p.status = st /\ p.wallet = NoWallet /\ p.swap = NoTx
          /\ p.funding = booked.funding /\ p.sweep = booked.sweep /\ p.sweeps = booked.sweeps
          /\ p.reason = booked.reason /\ p.attempts = k /\ p.checks = booked.checks
      BY <1>4, <3>1 DEF PurchaseRecord
    <3>6. Moved(sweep) = 0 /\ ~Again(swaps)
      BY <1>6, <1>9, <2>3
    <3>7. QED
      BY <1>4, <3>3, <3>4, <3>5, <3>6 DEF BookedAs, Decided
  <2>4. QED
    BY <2>1, <2>2, <2>3
<1> HIDE DEF p
<1>13. /\ p \in PurchaseRecord /\ p.sweep = NoTx
  BY <1>12 DEF BookedAs
<1>14. /\ Rewritten(final, p) /\ final.inventory = settled.inventory
       /\ final.basket = settled.basket /\ final.operations = settled.operations
       /\ final.unbooked = settled.unbooked
  <2> DEFINE f == [mem.purchases EXCEPT ![Current] = p]
  <2>1. f = [disk.purchases EXCEPT ![Now] = p] /\ f \in [Coins -> PurchaseRecord]
    BY <1>1, <1>2, <1>13
  <2>2. final = [settled EXCEPT !.purchases = f]
    BY <1>11
  <2> HIDE DEF f, final
  <2>3. final \in SavedState /\ final.purchases = f
    BY <1>11, <2>1, <2>2 DEF SavedState
  <2>4. /\ final.round = settled.round /\ final.selected = settled.selected
        /\ final.budget = settled.budget /\ final.inventory = settled.inventory
        /\ final.reserved = settled.reserved /\ final.basket = settled.basket
        /\ final.operations = settled.operations /\ final.unbooked = settled.unbooked
    BY <1>11, <2>2 DEF SavedState
  <2>5. QED
    BY <1>11, <2>1, <2>3, <2>4 DEF Rewritten
<1>15. BookedAs(p, sweep, Found(sweep, blind))
  BY <1>5, <1>12
<1> HIDE DEF final
<1>16. Debited(cost)
  BY <1>8, <1>10, <1>11, <1>14 DEF Debited
<1>17. QED
  BY <1>8, <1>11, <1>13, <1>14, <1>15, <1>16 DEF cost

----------------------------------------------------------------------------
(* The first invariant is kept. *)

(* A round that has just been seeded. *)
LEMMA InitIInv ==
    ASSUME PurchaseAssumption, Init
    PROVE  IInv
<1>1. disk \in SavedState
  <2>1. pot0 \in Nat
    BY DEF Init, PurchaseAssumption
  <2>2. [c \in Coins |-> 0] \in [Coins -> Nat]
    OBVIOUS
  <2>3. QED
    BY <2>1, <2>2 DEF Init, SavedState
<1>2. /\ disk.round = "SEEDED" /\ disk.selected = FALSE /\ disk.purchases = NoBasket
      /\ disk.inventory = [c \in Coins |-> 0] /\ disk.reserved = [c \in Coins |-> 0]
  BY DEF Init
<1>3. DOMAIN NoBasket = {}
  BY DEF NoBasket
<1>4. txs \in Seq(Transaction) /\ DOMAIN txs = {}
  BY DEF Init
<1>5. Types
  BY <1>1, <1>4 DEF Init, Types, Waits
<1>6. MemoryAgrees /\ StepsOK
  BY DEF Init, MemoryAgrees, StepsOK, Reading
<1>7. RecordsOK /\ InFlightOnRecord
  BY <1>2, <1>3, <1>4 DEF RecordsOK, InFlightOnRecord
<1>8. InventoryMatches
  BY <1>2, <1>3 DEF InventoryMatches, Init
<1>9. QED
  BY <1>5, <1>6, <1>7, <1>8 DEF IInv

(* A sweep that lands brings in what it was signed for; nothing else arrives. *)
LEMMA ChainKeepsIInv ==
    ASSUME PurchaseAssumption, IInv, NEW t \in DOMAIN txs,
           LandFunding(t) \/ LandSwap(t) \/ LandSweep(t) \/ Expire(t)
    PROVE  IInv'
<1>1. Types' /\ Finalised(t)
  BY ChainTypes DEF IInv
<1>2. InFlight(t)
  BY DEF LandFunding, LandSwap, LandSweep, Expire
<1>3. MemoryAgrees' /\ RecordsOK' /\ InFlightOnRecord' /\ StepsOK'
  BY <1>1, <1>2, FinalisedKeepsRecords DEF IInv
<1>4. \A c \in Coins : keeperTok[c] = disk.inventory[c] + disk.reserved[c] + Arrived(c)
  BY DEF IInv, InventoryMatches, Arrived
<1>5. txs[t] \in Transaction /\ txs[t].wallet \in Wallets /\ txs[t].tokens \in Nat
  <2>1. txs[t] \in Transaction
    BY DEF IInv, Types
  <2>2. QED
    BY <2>1 DEF Transaction
<1>6. ASSUME NEW c \in Coins, c \in DOMAIN disk.purchases => disk.purchases[c].sweep # t
      PROVE  Arrived(c)' = Arrived(c)
  <2>1. CASE c \notin DOMAIN disk.purchases
    BY <1>1, <2>1 DEF Arrived, Finalised
  <2>2. CASE c \in DOMAIN disk.purchases
    <3> DEFINE x == disk.purchases[c].sweep
    <3>1. RecordOK(c, disk.purchases[c])
      BY <2>2 DEF IInv, RecordsOK
    <3>2. x # t /\ (x = NoTx \/ x \in DOMAIN txs)
      BY <1>6, <2>2, <3>1 DEF RecordOK, Is
    <3>3. x' = x /\ (x # NoTx => txs'[x] = txs[x])
      BY <1>1, <3>2 DEF Finalised
    <3>4. QED
      BY <1>1, <2>2, <3>2, <3>3 DEF Arrived, Outcome, Finalised
  <2>3. QED
    BY <2>1, <2>2
<1>7. ASSUME NEW c \in Coins, c \in DOMAIN disk.purchases, disk.purchases[c].sweep = t
      PROVE  /\ txs[t].kind = "sweep" /\ txs[t].wallet[1] = c
             /\ Arrived(c) = 0
             /\ Arrived(c)' = IF txs'[t].status = "landed" THEN txs'[t].tokens ELSE 0
  <2>1. t # NoTx
    BY DEF IInv, Types, NoTx
  <2>2. RecordOK(c, disk.purchases[c])
    BY <1>7 DEF IInv, RecordsOK
  <2>3. Is(t, "sweep", disk.purchases[c].wallet)
    BY <1>7, <2>1, <2>2 DEF RecordOK
  <2>4. disk.purchases[c].wallet = <<c, disk.purchases[c].attempts>>
    BY <1>7, <2>1, <2>2 DEF RecordOK
  <2>5. Arrived(c) = 0
    BY <1>2, <1>7, <2>1 DEF Arrived, Outcome, InFlight
  <2>6. Arrived(c)' = IF txs'[t].status = "landed" THEN txs'[t].tokens ELSE 0
    BY <1>1, <1>7, <2>1 DEF Arrived, Outcome, Finalised
  <2>7. QED
    BY <2>3, <2>4, <2>5, <2>6 DEF Is
<1>8. SUFFICES \A c \in Coins : keeperTok'[c] = disk.inventory[c] + disk.reserved[c] + Arrived(c)'
  BY <1>1, <1>3 DEF IInv, InventoryMatches, Arrived, Finalised
<1>9. CASE keeperTok' = keeperTok /\ (txs[t].kind = "sweep" => txs'[t].status # "landed")
  BY <1>4, <1>6, <1>7, <1>9
<1>10. CASE LandSweep(t) /\ txs'[t].status = "landed"
  <2>1. PICK c \in Coins : c = txs[t].wallet[1]
    BY <1>5, WalletParts
  <2>2. txs[t].kind = "sweep" /\ c \in DOMAIN disk.purchases /\ disk.purchases[c].sweep = t
    BY <1>2, <1>10, <2>1 DEF IInv, InFlightOnRecord, InFlight, LandSweep
  <2>3. txs \in Seq(Transaction) /\ "landed" \in TxStatuses /\ "failed" \in TxStatuses
    BY DEF IInv, Types, TxStatuses
  <2>4. ~ SetStatus(t, "failed")
    <3>1. SUFFICES ASSUME SetStatus(t, "failed") PROVE FALSE
      OBVIOUS
    <3>2. txs' = [txs EXCEPT ![t].status = "failed"]
      BY <3>1 DEF SetStatus
    <3>3. txs'[t].status = "failed"
      BY ONLY <2>3, <3>2, t \in DOMAIN txs, Resolved
    <3>4. QED
      BY <1>10, <3>3
  <2>5. /\ keeperTok' = [keeperTok EXCEPT ![c] = keeperTok[c] + txs[t].tokens]
        /\ txs' = [txs EXCEPT ![t].status = "landed"]
    BY <1>10, <2>1, <2>4 DEF LandSweep, SetStatus
  <2>6. txs'[t].tokens = txs[t].tokens
    BY ONLY <2>3, <2>5, t \in DOMAIN txs, Resolved
  <2>7. Arrived(c) = 0 /\ Arrived(c)' = txs[t].tokens
    BY <1>7, <1>10, <2>2, <2>6
  <2>8. keeperTok[c] = disk.inventory[c] + disk.reserved[c]
    BY <1>4, <2>7 DEF IInv, Types, SavedState
  <2>9. /\ keeperTok'[c] = keeperTok[c] + txs[t].tokens
        /\ \A y \in Coins \ {c} : keeperTok'[y] = keeperTok[y]
    BY <2>5 DEF IInv, Types
  <2>10. \A y \in Coins \ {c} : Arrived(y)' = Arrived(y)
    <3>1. ASSUME NEW y \in Coins \ {c}
          PROVE  ~ (y \in DOMAIN disk.purchases /\ disk.purchases[y].sweep = t)
      BY <1>7, <2>1
    <3>2. QED
      BY <1>6, <3>1
  <2>11. QED
    BY <1>4, <2>7, <2>8, <2>9, <2>10
<1>11. LandSweep(t) \/ (keeperTok' = keeperTok /\ txs[t].kind # "sweep") \/ Expire(t)
  BY DEF LandFunding, LandSwap
<1>12. CASE Expire(t)
  <2>1. txs' = [txs EXCEPT ![t].status = "expired"] /\ keeperTok' = keeperTok
    BY <1>12 DEF Expire, SetStatus
  <2>2. txs \in Seq(Transaction) /\ "expired" \in TxStatuses
    BY DEF IInv, Types, TxStatuses
  <2>3. txs'[t].status = "expired"
    BY ONLY <2>1, <2>2, t \in DOMAIN txs, Resolved
  <2>4. QED
    BY <1>9, <2>1, <2>3
<1>13. CASE LandSweep(t) /\ txs'[t].status # "landed"
  <2>1. txs \in Seq(Transaction) /\ "landed" \in TxStatuses
    BY DEF IInv, Types, TxStatuses
  <2>2. ~ SetStatus(t, "landed")
    <3>1. SUFFICES ASSUME SetStatus(t, "landed") PROVE FALSE
      OBVIOUS
    <3>2. txs' = [txs EXCEPT ![t].status = "landed"]
      BY <3>1 DEF SetStatus
    <3>3. txs'[t].status = "landed"
      BY ONLY <2>1, <3>2, t \in DOMAIN txs, Resolved
    <3>4. QED
      BY <1>13, <3>3
  <2>3. keeperTok' = keeperTok
    BY <1>13, <2>2 DEF LandSweep
  <2>4. QED
    BY <1>9, <1>13, <2>3
<1>14. QED
  BY <1>9, <1>10, <1>11, <1>12, <1>13

(* A step of the keeper that rewrites the record at hand and saves it. *)
LEMMA SavedStepKeepsIInv ==
    ASSUME PurchaseAssumption, IInv, Pending(disk) # {}, disk.round = "SEEDED",
           OnlySigned, NEW q \in PurchaseRecord, Rewritten(disk', q), RecordSound(q),
           mem' = disk', pc' \in Waits \ Reading,
           sol' = sol, tok' = tok, keeperTok' = keeperTok, lags' \in Nat,
           Outcome(Record.sweep) = "sent" => q.sweep = Record.sweep,
           Outcome(Record.funding) = "sent" => q.funding = Record.funding,
           \A t \in DOMAIN txs' \ DOMAIN txs :
               /\ txs'[t].kind = "sweep" => txs'[t].wallet[1] = Now /\ t = q.sweep
               /\ txs'[t].kind = "fund" => txs'[t].wallet[1] = Now /\ t = q.funding,
           \A c \in Coins \ {Now} : disk'.inventory[c] = disk.inventory[c],
           \A c \in Coins : c = Now => disk'.inventory[c] + Arrived(c)' = disk.inventory[c] + Arrived(c),
           pc' # "idle" => q.status = "pending" /\ q.wallet # NoWallet,
           pc' = "signing" => q.funding = NoTx,
           pc' \in {"signing", "funding", "swapping"} => q.sweep = NoTx,
           pc' = "sweeping" => Outcome(q.funding)' # "sent"
    PROVE  IInv'
<1>1. Types /\ RecordsOK /\ InFlightOnRecord /\ InventoryMatches
  BY DEF IInv
<1>2. Types'
  BY <1>1 DEF Types, OnlySigned, Rewritten
<1>3. /\ RecordsOK'
      /\ q.status = "pending" => Now' = Now /\ Pending(disk') = Pending(disk) /\ Record' = q
  BY <1>1, RewriteKeepsRecords
<1>4. InFlightOnRecord'
  BY <1>1, RewriteKeepsFlight
<1>5. InventoryMatches'
  BY <1>1, RewriteKeepsInventory
<1>6. MemoryAgrees'
  BY <1>3 DEF MemoryAgrees, Rewritten
<1>7. StepsOK'
  BY <1>3 DEF StepsOK, Reading
<1>8. QED
  BY <1>2, <1>3, <1>4, <1>5, <1>6, <1>7 DEF IInv

(* A step of the keeper that leaves the disk and the chain alone. *)
LEMMA QuietStepKeepsIInv ==
    ASSUME PurchaseAssumption, IInv, UNCHANGED <<chain, disk>>, lags' \in Nat,
           \/ mem' = disk /\ pc' = "idle"
           \/ mem' = mem /\ pc' = "settling" /\ pc # "idle" /\ pc \notin Reading
    PROVE  IInv'
<1> USE DEF IInv
<1>1. txs' = txs /\ sol' = sol /\ tok' = tok /\ keeperTok' = keeperTok /\ disk' = disk
  BY DEF chain
<1>2. Types'
  BY <1>1 DEF Types, Waits
<1>3. Pending(disk') = Pending(disk) /\ Record' = Record /\ Now' = Now
  BY <1>1 DEF Record, Now
<1>4. MemoryAgrees'
  BY <1>1, <1>3 DEF MemoryAgrees, Reading
<1>5. RecordsOK'
  <2>1. \A c \in DOMAIN disk.purchases : RecordOK(c, disk.purchases[c])' = RecordOK(c, disk.purchases[c])
    BY <1>1 DEF RecordOK, Now, Is
  <2>2. QED
    BY <1>1, <2>1 DEF RecordsOK
<1>6. InFlightOnRecord' /\ InventoryMatches'
  BY <1>1 DEF InFlightOnRecord, InventoryMatches, Outcome
<1>7. StepsOK'
  BY <1>1, <1>3 DEF StepsOK, Reading, Outcome
<1>8. QED
  BY <1>2, <1>4, <1>5, <1>6, <1>7

(* The record at hand. *)
LEMMA AtHand ==
    ASSUME PurchaseAssumption, IInv, AtWork
    PROVE  /\ Pending(disk) # {} /\ disk.round = "SEEDED" /\ Current = Now
           /\ Now \in Coins /\ Now \in DOMAIN disk.purchases
           /\ Record \in PurchaseRecord /\ RecordOK(Now, Record)
           /\ Record.status = "pending" /\ Record.attempts < MaxBuyAttempts
           /\ pc # "idle" => Record.wallet # NoWallet
           /\ Record.wallet # NoWallet => Record.wallet = <<Now, Record.attempts>>
                                          /\ Record.wallet \in Wallets /\ Record.wallet[1] = Now
           /\ Purchase \in PurchaseRecord
           /\ pc \notin Reading => Purchase = Record /\ mem = disk
           /\ pc \in Reading => Purchase = [Record EXCEPT !.sweep = NoTx] /\ Purchase.sweep = NoTx
           /\ Purchase.status = Record.status /\ Purchase.wallet = Record.wallet
           /\ Purchase.funding = Record.funding /\ Purchase.swap = Record.swap
           /\ Purchase.sweeps = Record.sweeps /\ Purchase.reason = Record.reason
           /\ Purchase.attempts = Record.attempts /\ Purchase.checks = Record.checks
<1>1. Types /\ MemoryAgrees /\ RecordsOK
  BY DEF IInv
<1>2. /\ Pending(disk) # {} /\ Current = Now
      /\ pc \notin Reading => Purchase = Record
      /\ pc \in Reading => Purchase = [Record EXCEPT !.sweep = NoTx]
      /\ Purchase \in PurchaseRecord
      /\ disk.round = "SEEDED"
  BY <1>1, InMemory
<1>3. /\ DOMAIN disk.purchases = Coins
      /\ Now \in Coins /\ Record \in PurchaseRecord /\ Record.status = "pending"
  BY <1>1, <1>2, NextCoin
<1>4. RecordOK(Now, Record)
  BY <1>1, <1>3 DEF RecordsOK, Record
<1>5. pc # "idle" => Record.wallet # NoWallet
  BY <1>1 DEF MemoryAgrees
<1>6. Record.attempts < MaxBuyAttempts /\ (Record.wallet # NoWallet => Record.wallet = <<Now, Record.attempts>>)
  BY <1>3, <1>4 DEF RecordOK
<1>7. <<Now, Record.attempts>> \in Wallets /\ <<Now, Record.attempts>>[1] = Now
  <2>1. Record.attempts \in 0 .. MaxBuyAttempts - 1
    BY <1>3, <1>6 DEF PurchaseRecord, PurchaseAssumption
  <2>2. QED
    BY <1>3, <2>1 DEF Wallets
<1>8. /\ Purchase.status = Record.status /\ Purchase.wallet = Record.wallet
      /\ Purchase.funding = Record.funding /\ Purchase.swap = Record.swap
      /\ Purchase.sweeps = Record.sweeps /\ Purchase.reason = Record.reason
      /\ Purchase.attempts = Record.attempts /\ Purchase.checks = Record.checks
      /\ pc \in Reading => Purchase.sweep = NoTx
  BY <1>2, <1>3 DEF PurchaseRecord
<1>9. pc \notin Reading => mem = disk
  BY <1>1 DEF MemoryAgrees
<1>10. QED
  BY <1>2, <1>3, <1>4, <1>5, <1>6, <1>7, <1>8, <1>9

(* A record is rewritten to q and saved, and no balance changes. *)
Rewrites(q) ==
    /\ q \in PurchaseRecord /\ Rewritten(disk', q) /\ disk'.inventory = disk.inventory /\ mem' = disk'
    /\ sol' = sol /\ tok' = tok /\ keeperTok' = keeperTok

(* The transaction signed in this step. *)
Signs(kind, tokens, lamports) ==
    /\ txs' \in Seq(Transaction) /\ Len(txs) + 1 \notin DOMAIN txs /\ Len(txs) + 1 # NoTx
    /\ DOMAIN txs' = DOMAIN txs \cup {Len(txs) + 1} /\ Len(txs') = Len(txs) + 1
    /\ \A t \in DOMAIN txs : txs'[t] = txs[t]
    /\ txs'[Len(txs) + 1] = Sent(kind, Record.wallet, tokens, lamports)

(* The keeper signs for the wallet at hand. *)
LEMMA SigningAdds ==
    ASSUME Types, Record.wallet \in Wallets,
           NEW kind \in Kinds, NEW tokens \in Nat, NEW lamports \in Nat,
           txs' = Append(txs, Sent(kind, Record.wallet, tokens, lamports))
    PROVE  Signs(kind, tokens, lamports) /\ OnlySigned
<1> DEFINE x == Sent(kind, Record.wallet, tokens, lamports)
<1>1. x \in Transaction
  BY DEF Sent, Transaction, TxStatuses
<1>2. txs \in Seq(Transaction)
  BY DEF Types
<1> HIDE DEF x
<1>3. txs' = Append(txs, x)
  BY DEF x
<1>4. /\ txs' \in Seq(Transaction) /\ Len(txs') = Len(txs) + 1
      /\ DOMAIN txs' = DOMAIN txs \cup {Len(txs) + 1} /\ Len(txs) + 1 \notin DOMAIN txs
      /\ Len(txs) + 1 # NoTx
      /\ txs'[Len(txs) + 1] = x
      /\ \A t \in DOMAIN txs : txs'[t] = txs[t]
  BY ONLY <1>1, <1>2, <1>3, Signed
<1>5. QED
  BY <1>4 DEF Signs, OnlySigned, x

(* The key of a new wallet is saved. *)
LEMMA NewSwapWalletDoes ==
    ASSUME PurchaseAssumption, IInv, NewSwapWallet
    PROVE  /\ Unspent(disk')
           /\ AtWork /\ pc = "idle" /\ Record.wallet = NoWallet
           /\ <<Now, Record.attempts>> \in Wallets
           /\ txs' = txs /\ lags' = lags /\ pc' = "signing"
           /\ \E q : /\ Rewrites(q)
                    /\ q.wallet = <<Now, Record.attempts>>
                    /\ q.reason = FALSE /\ q.sweeps = {} /\ q.checks = 0
                    /\ q.status = Record.status /\ q.funding = Record.funding
                    /\ q.sweep = Record.sweep /\ q.swap = Record.swap
                    /\ q.attempts = Record.attempts
<1>1. AtWork /\ pc = "idle" /\ pc \notin Reading
  BY DEF NewSwapWallet, AtWork, Reading
<1>2. /\ Current = Now /\ Now \in Coins /\ Record \in PurchaseRecord
      /\ Record.attempts < MaxBuyAttempts /\ Purchase = Record
  BY <1>1, AtHand
<1> DEFINE w == <<Now, Record.attempts>>
<1>3. w \in Wallets
  <2>1. Record.attempts \in 0 .. MaxBuyAttempts - 1
    BY <1>2 DEF PurchaseRecord, PurchaseAssumption
  <2>2. QED
    BY <1>2, <2>1 DEF Wallets
<1>4. PICK v \in BOOLEAN : v = FALSE
  OBVIOUS
<1> DEFINE q == [Record EXCEPT !.wallet = w, !.reason = v, !.sweeps = {}, !.checks = 0]
<1>5. /\ Save(With(q)) /\ UNCHANGED <<chain, history>> /\ pc' = "signing"
      /\ Record.wallet = NoWallet
  BY <1>2, <1>4 DEF NewSwapWallet
<1> HIDE DEF w, q
<1>6. q \in PurchaseRecord
      /\ q.wallet = w /\ q.reason = v /\ q.sweeps = {} /\ q.checks = 0
      /\ q.status = Record.status /\ q.funding = Record.funding /\ q.sweep = Record.sweep
      /\ q.swap = Record.swap /\ q.attempts = Record.attempts
  <2>1. q = [Record EXCEPT !.wallet = w, !.reason = v, !.sweeps = {}, !.checks = 0]
    BY DEF q
  <2>2. Record \in PurchaseRecord /\ w \in Wallets /\ v \in BOOLEAN
    BY <1>2, <1>3
  <2>3. q \in PurchaseRecord
    BY ONLY <2>1, <2>2 DEF PurchaseRecord
  <2>4. /\ q.wallet = w /\ q.reason = v /\ q.sweeps = {} /\ q.checks = 0
        /\ q.status = Record.status /\ q.funding = Record.funding /\ q.sweep = Record.sweep
        /\ q.swap = Record.swap /\ q.attempts = Record.attempts
    BY ONLY <2>1, <2>2 DEF PurchaseRecord
  <2>5. QED
    BY <2>3, <2>4
<1>7. Rewritten(With(q), q) /\ With(q).inventory = disk.inventory /\ Unspent(With(q))
  BY <1>1, <1>6, WithRewrites DEF IInv
<1>8. Rewrites(q) /\ Unspent(disk')
  BY <1>5, <1>6, <1>7 DEF Unspent, Rewrites, Save, chain
<1>9. QED
  BY <1>1, <1>3, <1>4, <1>5, <1>6, <1>8 DEF w, chain, history

(* The signature of the funding is saved before it is sent. *)
LEMMA FundWalletDoes ==
    ASSUME PurchaseAssumption, IInv, FundWallet
    PROVE  /\ Unspent(disk')
           /\ AtWork /\ pc = "signing"
           /\ Signs("fund", 0, Funding) /\ OnlySigned /\ lags' = lags /\ pc' = "funding"
           /\ \E q : /\ Rewrites(q)
                    /\ q.funding = Len(txs) + 1
                    /\ q.wallet = Record.wallet /\ q.reason = Record.reason
                    /\ q.sweeps = Record.sweeps /\ q.checks = Record.checks
                    /\ q.status = Record.status /\ q.sweep = Record.sweep
                    /\ q.swap = Record.swap /\ q.attempts = Record.attempts
<1>1. AtWork /\ pc = "signing" /\ pc \notin Reading
  BY DEF FundWallet, AtWork, Reading
<1>2. /\ Current = Now /\ Record \in PurchaseRecord /\ Record.wallet \in Wallets /\ Purchase = Record
  BY <1>1, AtHand
<1> DEFINE n == Len(txs) + 1
           q == [Record EXCEPT !.funding = n]
<1>3. n \in Nat
  BY DEF IInv, Types
<1>4. /\ Save(With(q)) /\ pc' = "funding"
      /\ txs' = Append(txs, Sent("fund", Record.wallet, 0, Funding))
      /\ UNCHANGED <<sol, tok, outflow, keeperTok, history>>
  BY <1>2 DEF FundWallet, NextSignature
<1> HIDE DEF n, q
<1>5. /\ q \in PurchaseRecord
      /\ q.funding = n /\ q.wallet = Record.wallet /\ q.reason = Record.reason
      /\ q.sweeps = Record.sweeps /\ q.checks = Record.checks
      /\ q.status = Record.status /\ q.sweep = Record.sweep
      /\ q.swap = Record.swap /\ q.attempts = Record.attempts
  BY <1>2, <1>3 DEF PurchaseRecord, q
<1>6. Rewritten(With(q), q) /\ With(q).inventory = disk.inventory /\ Unspent(With(q))
  BY <1>1, <1>5, WithRewrites DEF IInv
<1>7. Rewrites(q) /\ Unspent(disk')
  BY <1>4, <1>5, <1>6 DEF Unspent, Rewrites, Save
<1>8. Funding \in Nat /\ "fund" \in Kinds
  BY DEF Funding, IInv, Types, SavedState, PurchaseAssumption, Kinds
<1>9. Signs("fund", 0, Funding) /\ OnlySigned
  BY <1>2, <1>4, <1>8, SigningAdds DEF IInv
<1>10. QED
  BY <1>1, <1>4, <1>5, <1>7, <1>9 DEF n, history

(* A refused quote is kept as the reason, before the wallet is swept. *)
LEMMA QuoteRefusedDoes ==
    ASSUME PurchaseAssumption, IInv, QuoteRefused
    PROVE  /\ Unspent(disk')
           /\ AtWork /\ pc = "funding"
           /\ txs' = txs /\ lags' = lags /\ pc' = "settling"
           /\ \E q : /\ Rewrites(q)
                    /\ q.reason = TRUE
                    /\ q.wallet = Record.wallet /\ q.funding = Record.funding
                    /\ q.sweeps = Record.sweeps /\ q.checks = Record.checks
                    /\ q.status = Record.status /\ q.sweep = Record.sweep
                    /\ q.swap = Record.swap /\ q.attempts = Record.attempts
<1>1. AtWork /\ pc = "funding" /\ pc \notin Reading
  BY DEF QuoteRefused, AtWork, Reading
<1>2. /\ Current = Now /\ Record \in PurchaseRecord /\ Purchase = Record
  BY <1>1, AtHand
<1>3. PICK v \in BOOLEAN : v = TRUE
  OBVIOUS
<1> DEFINE q == [Record EXCEPT !.reason = v]
<1>4. /\ Save(With(q)) /\ pc' = "settling" /\ UNCHANGED <<chain, history>>
  BY <1>2, <1>3 DEF QuoteRefused
<1> HIDE DEF q
<1>5. /\ q \in PurchaseRecord
      /\ q.reason = v /\ q.wallet = Record.wallet /\ q.funding = Record.funding
      /\ q.sweeps = Record.sweeps /\ q.checks = Record.checks
      /\ q.status = Record.status /\ q.sweep = Record.sweep
      /\ q.swap = Record.swap /\ q.attempts = Record.attempts
  BY <1>2, <1>3 DEF PurchaseRecord, q
<1>6. Rewritten(With(q), q) /\ With(q).inventory = disk.inventory /\ Unspent(With(q))
  BY <1>1, <1>5, WithRewrites DEF IInv
<1>7. Rewrites(q) /\ Unspent(disk')
  BY <1>4, <1>5, <1>6 DEF Unspent, Rewrites, Save, chain
<1>8. txs' = txs /\ lags' = lags
  BY <1>4 DEF chain, history
<1>9. QED
  BY <1>1, <1>3, <1>4, <1>5, <1>7, <1>8

(* The signature of an answered swap is saved. *)
LEMMA SwapAnsweredDoes ==
    ASSUME PurchaseAssumption, IInv, SwapAnswered
    PROVE  /\ Unspent(disk')
           /\ AtWork /\ pc = "swapping" /\ txs[Len(txs)].status = "landed"
           /\ txs' = txs /\ lags' = lags /\ pc' = "settling"
           /\ \E q : /\ Rewrites(q)
                    /\ q.swap = Len(txs)
                    /\ q.wallet = Record.wallet /\ q.funding = Record.funding
                    /\ q.sweeps = Record.sweeps /\ q.checks = Record.checks
                    /\ q.status = Record.status /\ q.sweep = Record.sweep
                    /\ q.reason = Record.reason /\ q.attempts = Record.attempts
<1>1. AtWork /\ pc = "swapping" /\ pc \notin Reading
  BY DEF SwapAnswered, AtWork, Reading
<1>2. /\ Current = Now /\ Record \in PurchaseRecord /\ Purchase = Record
  BY <1>1, AtHand
<1> DEFINE n == Len(txs)
           q == [Record EXCEPT !.swap = n]
<1>3. n \in Nat
  BY DEF IInv, Types
<1>4. /\ Save(With(q)) /\ pc' = "settling" /\ UNCHANGED <<chain, history>>
      /\ txs[n].status = "landed"
  BY <1>2 DEF SwapAnswered
<1> HIDE DEF n, q
<1>5. /\ q \in PurchaseRecord
      /\ q.swap = n /\ q.wallet = Record.wallet /\ q.funding = Record.funding
      /\ q.sweeps = Record.sweeps /\ q.checks = Record.checks
      /\ q.status = Record.status /\ q.sweep = Record.sweep
      /\ q.reason = Record.reason /\ q.attempts = Record.attempts
  BY <1>2, <1>3 DEF PurchaseRecord, q
<1>6. Rewritten(With(q), q) /\ With(q).inventory = disk.inventory /\ Unspent(With(q))
  BY <1>1, <1>5, WithRewrites DEF IInv
<1>7. Rewrites(q) /\ Unspent(disk')
  BY <1>4, <1>5, <1>6 DEF Unspent, Rewrites, Save, chain
<1>8. txs' = txs /\ lags' = lags
  BY <1>4 DEF chain, history
<1>9. QED
  BY <1>1, <1>4, <1>5, <1>7, <1>8 DEF n

(* The swap is sent without being journaled: the wallet's history tells of it. *)
LEMMA SendSwapDoes ==
    ASSUME PurchaseAssumption, IInv, SendSwap
    PROVE  /\ AtWork /\ pc = "funding"
           /\ Signs("swap", 0, 0) /\ OnlySigned /\ lags' = lags /\ pc' = "swapping"
           /\ Rewrites(Record) /\ disk' = disk
<1>1. AtWork /\ pc = "funding" /\ pc \notin Reading
  BY DEF SendSwap, AtWork, Reading
<1>2. /\ Current = Now /\ Record \in PurchaseRecord /\ Record.wallet \in Wallets /\ Purchase = Record
      /\ mem = disk /\ Now \in Coins /\ Pending(disk) # {}
  BY <1>1, AtHand
<1>3. /\ txs' = Append(txs, Sent("swap", Record.wallet, 0, 0)) /\ pc' = "swapping"
      /\ UNCHANGED <<sol, tok, outflow, keeperTok, disk, mem, history>>
  BY <1>2 DEF SendSwap
<1>4. Signs("swap", 0, 0) /\ OnlySigned
  BY <1>2, <1>3, SigningAdds DEF IInv, Kinds
<1>5. Rewrites(Record)
  <2>1. disk.purchases \in [Coins -> PurchaseRecord]
    BY <1>2, NextCoin DEF IInv
  <2>2. disk.purchases = [disk.purchases EXCEPT ![Now] = Record]
    BY <1>2, <2>1 DEF Record
  <2>3. QED
    BY <1>2, <1>3, <2>2 DEF Rewrites, Rewritten, IInv, Types
<1>6. QED
  BY <1>1, <1>3, <1>4, <1>5 DEF history

(* Planning a sweep forgets, in memory only, a sweep that did not land. *)
LEMMA ReadTokensDoes ==
    ASSUME PurchaseAssumption, IInv, ReadTokens
    PROVE  /\ AtWork /\ pc \notin Reading /\ Record.wallet # NoWallet
           /\ txs' = txs /\ sol' = sol /\ tok' = tok /\ keeperTok' = keeperTok /\ disk' = disk
           /\ pc' \in Reading
           /\ mem' = [disk EXCEPT !.purchases[Now].sweep = NoTx] /\ mem' \in SavedState
           /\ Outcome(Record.sweep) \notin {"sent", "landed"} /\ Outcome(Record.funding) # "sent"
           /\ lags' \in Nat /\ lags' >= lags
           /\ pc' = "readTokens" => tok[Record.wallet] > 0
           /\ pc' = "readNone" => \/ tok[Record.wallet] = 0 /\ lags' = lags
                                  \/ lags' = lags + 1 /\ "tokens" \in Lagging /\ lags < MaxLags
           /\ lags' = lags \/ (lags' = lags + 1 /\ lags < MaxLags)
<1>1. AtWork /\ pc \notin Reading
  BY DEF ReadTokens, Settling, AtWork, Reading
<1>2. /\ Current = Now /\ Record \in PurchaseRecord /\ Purchase = Record /\ mem = disk
      /\ Pending(disk) # {} /\ Now \in Coins /\ (pc # "idle" => Record.wallet # NoWallet)
      /\ disk.purchases \in [Coins -> PurchaseRecord]
  BY <1>1, AtHand, NextCoin DEF IInv
<1>3. Record.wallet # NoWallet
  BY <1>2 DEF ReadTokens, Settling
<1>4. /\ txs' = txs /\ sol' = sol /\ tok' = tok /\ keeperTok' = keeperTok /\ disk' = disk
      /\ Outcome(Record.sweep) \notin {"sent", "landed"} /\ Outcome(Record.funding) # "sent"
  BY <1>2 DEF ReadTokens, chain, Unresolved
<1>5. PICK lagging \in BOOLEAN :
          /\ lagging => MayLag("tokens") /\ tok[Record.wallet] > 0
          /\ Lagged(lagging)
          /\ pc' = IF lagging \/ tok[Record.wallet] = 0 THEN "readNone" ELSE "readTokens"
  BY <1>2 DEF ReadTokens
<1>6. lags \in Nat /\ tok[Record.wallet] \in Nat
  BY <1>1, <1>3, AtHand DEF IInv, Types
<1>7. lags' = IF lagging THEN lags + 1 ELSE lags
  BY <1>5 DEF Lagged
<1>8. mem' = [disk EXCEPT !.purchases[Now].sweep = NoTx] /\ mem' \in SavedState
  <2> DEFINE q == [Record EXCEPT !.sweep = NoTx]
  <2>1. q \in PurchaseRecord
    BY <1>2 DEF PurchaseRecord, NoTx
  <2>2. mem' = With(q)
    BY <1>2 DEF ReadTokens
  <2>3. With(q) = [disk EXCEPT !.purchases[Now] = q]
    BY <1>2 DEF With
  <2>4. [disk EXCEPT !.purchases[Now] = q] = [disk EXCEPT !.purchases[Now].sweep = NoTx]
    BY <1>2 DEF Record
  <2>5. Rewritten(With(q), q)
    <3> HIDE DEF q
    <3>1. QED
      BY <1>1, <2>1, WithRewrites DEF IInv
  <2>6. QED
    BY <2>2, <2>3, <2>4, <2>5 DEF Rewritten
<1>9. QED
  BY <1>1, <1>3, <1>4, <1>5, <1>6, <1>7, <1>8 DEF MayLag, Reading

(* The sweep is signed for what was read, and saved before it is sent. *)
LEMMA SignSweepDoes ==
    ASSUME PurchaseAssumption, IInv, SignSweep
    PROVE  /\ Unspent(disk')
           /\ AtWork /\ pc \in Reading
           /\ \E tokens, lamports \in Nat :
                 /\ Signs("sweep", tokens, lamports) /\ OnlySigned
                 /\ tokens = IF pc = "readTokens" THEN tok[Record.wallet] ELSE 0
                 /\ "balance" \notin Lagging => lamports = sol[Record.wallet]
           /\ lags' \in Nat /\ (lags' = lags \/ (lags' = lags + 1 /\ lags < MaxLags))
           /\ pc' = "sweeping"
           /\ \E q : /\ Rewrites(q)
                    /\ q.sweep = Len(txs) + 1
                    /\ q.wallet = Record.wallet /\ q.funding = Record.funding
                    /\ q.sweeps = Record.sweeps /\ q.checks = Record.checks
                    /\ q.status = Record.status /\ q.swap = Record.swap
                    /\ q.reason = Record.reason /\ q.attempts = Record.attempts
<1>1. AtWork /\ pc \in Reading /\ pc # "idle"
  BY DEF SignSweep, SendSweep, AtWork, Reading
<1>2. /\ Current = Now /\ Record \in PurchaseRecord /\ Record.wallet \in Wallets
      /\ Purchase \in PurchaseRecord
      /\ Purchase.status = Record.status /\ Purchase.wallet = Record.wallet
      /\ Purchase.funding = Record.funding /\ Purchase.swap = Record.swap
      /\ Purchase.sweeps = Record.sweeps /\ Purchase.reason = Record.reason
      /\ Purchase.attempts = Record.attempts /\ Purchase.checks = Record.checks
  BY <1>1, AtHand
<1> DEFINE n == Len(txs) + 1
           q == [Purchase EXCEPT !.sweep = n]
<1>3. n \in Nat
  BY DEF IInv, Types
<1>4. /\ Save(With(q)) /\ pc' = "sweeping"
      /\ UNCHANGED <<sol, tok, outflow, keeperTok, pot0, aborts>>
  BY DEF SignSweep, SendSweep, NextSignature
<1>5. PICK blind \in BOOLEAN :
          /\ blind => MayLag("balance")
          /\ Lagged(blind)
          /\ txs' = Append(txs, SweepPlan(blind))
  BY DEF SignSweep, SendSweep
<1> HIDE DEF n, q
<1>6. /\ q \in PurchaseRecord
      /\ q.sweep = n /\ q.wallet = Purchase.wallet /\ q.funding = Purchase.funding
      /\ q.sweeps = Purchase.sweeps /\ q.checks = Purchase.checks
      /\ q.status = Purchase.status /\ q.swap = Purchase.swap
      /\ q.reason = Purchase.reason /\ q.attempts = Purchase.attempts
  BY <1>2, <1>3 DEF PurchaseRecord, q
<1>7. Rewritten(With(q), q) /\ With(q).inventory = disk.inventory /\ Unspent(With(q))
  BY <1>1, <1>6, WithRewrites DEF IInv
<1>8. Rewrites(q) /\ Unspent(disk')
  BY <1>4, <1>6, <1>7 DEF Unspent, Rewrites, Save
<1> DEFINE tokens == IF pc = "readTokens" THEN tok[Record.wallet] ELSE 0
           lamports == IF blind THEN 0 ELSE sol[Record.wallet]
<1>9. tokens \in Nat /\ lamports \in Nat /\ ("balance" \notin Lagging => lamports = sol[Record.wallet])
  BY <1>2, <1>5 DEF IInv, Types, MayLag
<1>10. txs' = Append(txs, Sent("sweep", Record.wallet, tokens, lamports))
  BY <1>2, <1>5 DEF SweepPlan
<1> HIDE DEF lamports
<1>11. Signs("sweep", tokens, lamports) /\ OnlySigned
  <2> HIDE DEF tokens
  <2>1. QED
    BY <1>2, <1>9, <1>10, SigningAdds DEF IInv, Kinds
<1>12. lags' \in Nat /\ (lags' = lags \/ (lags' = lags + 1 /\ lags < MaxLags))
  BY <1>5 DEF Lagged, MayLag, IInv, Types
<1>13. \E k, l \in Nat : /\ Signs("sweep", k, l)
                         /\ k = IF pc = "readTokens" THEN tok[Record.wallet] ELSE 0
                         /\ "balance" \notin Lagging => l = sol[Record.wallet]
  BY <1>9, <1>11
<1>14. QED
  BY <1>1, <1>2, <1>4, <1>6, <1>8, <1>11, <1>12, <1>13 DEF n

(* A record that stays open: what is in flight stays on it. *)
LEMMA OpenStepKeepsIInv ==
    ASSUME PurchaseAssumption, IInv, AtWork, OnlySigned, NEW q, Rewrites(q), lags' \in Nat,
           q.status = Record.status, q.attempts = Record.attempts,
           q.wallet = <<Now, Record.attempts>>, q.wallet \in Wallets,
           q.funding = Record.funding
             \/ (Record.funding = NoTx /\ Is(q.funding, "fund", q.wallet)'),
           q.sweep = Record.sweep
             \/ /\ Outcome(Record.sweep) \notin {"sent", "landed"}
                /\ Is(q.sweep, "sweep", q.wallet)' /\ txs'[q.sweep].status = "sent",
           \A t \in DOMAIN txs' \ DOMAIN txs :
               /\ txs'[t].kind = "sweep" => txs'[t].wallet[1] = Now /\ t = q.sweep
               /\ txs'[t].kind = "fund" => txs'[t].wallet[1] = Now /\ t = q.funding,
           pc' \in Waits \ (Reading \cup {"idle"}),
           pc' = "signing" => q.funding = NoTx,
           pc' \in {"signing", "funding", "swapping"} => q.sweep = NoTx,
           pc' = "sweeping" => Outcome(q.funding)' # "sent"
    PROVE  IInv'
<1>1. /\ Pending(disk) # {} /\ disk.round = "SEEDED"
      /\ Now \in Coins /\ Record \in PurchaseRecord /\ RecordOK(Now, Record)
      /\ Record.status = "pending" /\ Record.attempts < MaxBuyAttempts
      /\ Record.wallet # NoWallet => Record.wallet = <<Now, Record.attempts>>
  BY AtHand
<1>2. q \in PurchaseRecord /\ q.wallet # NoWallet /\ Rewritten(disk', q) /\ disk'.inventory = disk.inventory
      /\ mem' = disk' /\ sol' = sol /\ tok' = tok /\ keeperTok' = keeperTok
  BY WalletParts DEF Rewrites
<1>3. NoTx \notin DOMAIN txs'
  BY DEF OnlySigned, NoTx
<1>4. \A x, k, w : Is(x, k, w) => Is(x, k, w)'
  BY DEF Is, OnlySigned
<1>5. /\ Record.funding # NoTx => Is(Record.funding, "fund", q.wallet)
      /\ Record.sweep # NoTx => Is(Record.sweep, "sweep", q.wallet)
  BY <1>1 DEF RecordOK
<1>6. /\ q.funding # NoTx => Is(q.funding, "fund", q.wallet)'
      /\ q.sweep # NoTx => Is(q.sweep, "sweep", q.wallet)'
  BY <1>4, <1>5
<1>7. RecordSound(q)
  BY <1>1, <1>2, <1>6 DEF RecordSound
<1>8. /\ Outcome(Record.sweep) = "sent" => q.sweep = Record.sweep
      /\ Outcome(Record.funding) = "sent" => q.funding = Record.funding
  BY DEF Outcome
<1>9. \A c \in Coins : c = Now => disk'.inventory[c] + Arrived(c)' = disk.inventory[c] + Arrived(c)
  <2>1. disk'.purchases[Now] = q /\ DOMAIN disk'.purchases = Coins /\ DOMAIN disk.purchases = Coins
    BY <1>1, <1>2, NextCoin DEF Rewritten, IInv
  <2>2. CASE q.sweep = Record.sweep
    <3>1. Record.sweep # NoTx => txs'[Record.sweep] = txs[Record.sweep]
      BY <1>5 DEF Is, OnlySigned
    <3>2. \A c \in Coins : c = Now => Arrived(c)' = Arrived(c)
      BY <2>1, <2>2, <3>1 DEF Arrived, Outcome, Record
    <3>3. QED
      BY <1>2, <3>2
  <2>3. CASE /\ Outcome(Record.sweep) \notin {"sent", "landed"}
             /\ Is(q.sweep, "sweep", q.wallet)' /\ txs'[q.sweep].status = "sent"
    <3>1. \A c \in Coins : c = Now => Arrived(c) = 0 /\ Arrived(c)' = 0
      BY <1>3, <2>1, <2>3 DEF Arrived, Outcome, Record, Is
    <3>2. QED
      BY <1>2, <3>1
  <2>4. QED
    BY <2>2, <2>3
<1>10. \A c \in Coins \ {Now} : disk'.inventory[c] = disk.inventory[c]
  BY <1>2
<1>11. pc' \in Waits \ Reading
  OBVIOUS
<1>12. QED
  BY <1>1, <1>2, <1>7, <1>8, <1>9, <1>10, <1>11, SavedStepKeepsIInv

(* The steps of one attempt, from its key to its sweep. *)
LEMMA RecordStepsKeepIInv ==
    ASSUME PurchaseAssumption, IInv,
           \/ NewSwapWallet \/ FundWallet \/ QuoteRefused \/ SendSwap \/ SwapAnswered \/ SignSweep
    PROVE  IInv'
<1> USE DEF Waits, Reading
<1>1. ASSUME txs' = txs
      PROVE  OnlySigned /\ DOMAIN txs' \ DOMAIN txs = {}
  BY <1>1 DEF OnlySigned, IInv, Types
<1>2. AtWork => /\ pc # "idle" => Record.wallet = <<Now, Record.attempts>> /\ Record.wallet \in Wallets
                                  /\ Record.wallet[1] = Now
                /\ RecordOK(Now, Record) /\ Record.status = "pending"
  BY AtHand
<1>3. lags \in Nat
  BY DEF IInv, Types
<1>4. CASE NewSwapWallet
  <2>1. /\ AtWork /\ Record.wallet = NoWallet
        /\ <<Now, Record.attempts>> \in Wallets
        /\ txs' = txs /\ lags' = lags /\ pc' = "signing"
    BY <1>4, NewSwapWalletDoes
  <2>2. PICK q : /\ Rewrites(q)
                 /\ q.wallet = <<Now, Record.attempts>>
                 /\ q.status = Record.status /\ q.funding = Record.funding
                 /\ q.sweep = Record.sweep /\ q.attempts = Record.attempts
    BY <1>4, NewSwapWalletDoes
  <2>3. Record.funding = NoTx /\ Record.sweep = NoTx
    BY <1>2, <2>1 DEF RecordOK
  <2>4. QED
    BY <1>1, <1>3, <2>1, <2>2, <2>3, OpenStepKeepsIInv
<1>5. CASE FundWallet
  <2>1. /\ AtWork /\ pc = "signing"
        /\ Signs("fund", 0, Funding) /\ OnlySigned /\ lags' = lags /\ pc' = "funding"
    BY <1>5, FundWalletDoes
  <2>2. PICK q : /\ Rewrites(q)
                 /\ q.funding = Len(txs) + 1
                 /\ q.wallet = Record.wallet
                 /\ q.status = Record.status /\ q.sweep = Record.sweep
                 /\ q.attempts = Record.attempts
    BY <1>5, FundWalletDoes
  <2>3. Record.funding = NoTx /\ Record.sweep = NoTx
    BY <2>1 DEF IInv, StepsOK
  <2>4. Is(q.funding, "fund", q.wallet)'
    BY <2>1, <2>2 DEF Signs, Sent, Is
  <2>5. \A t \in DOMAIN txs' \ DOMAIN txs : txs'[t].kind = "fund" /\ txs'[t].wallet[1] = Now /\ t = q.funding
    BY <1>2, <2>1, <2>2 DEF Signs, Sent
  <2>6. QED
    BY <1>2, <1>3, <2>1, <2>2, <2>3, <2>4, <2>5, OpenStepKeepsIInv
<1>6. CASE QuoteRefused
  <2>1. AtWork /\ pc = "funding" /\ txs' = txs /\ lags' = lags /\ pc' = "settling"
    BY <1>6, QuoteRefusedDoes
  <2>2. PICK q : /\ Rewrites(q)
                 /\ q.wallet = Record.wallet /\ q.funding = Record.funding
                 /\ q.status = Record.status /\ q.sweep = Record.sweep
                 /\ q.attempts = Record.attempts
    BY <1>6, QuoteRefusedDoes
  <2>3. QED
    BY <1>1, <1>2, <1>3, <2>1, <2>2, OpenStepKeepsIInv
<1>7. CASE SwapAnswered
  <2>1. AtWork /\ pc = "swapping" /\ txs' = txs /\ lags' = lags /\ pc' = "settling"
    BY <1>7, SwapAnsweredDoes
  <2>2. PICK q : /\ Rewrites(q)
                 /\ q.wallet = Record.wallet /\ q.funding = Record.funding
                 /\ q.status = Record.status /\ q.sweep = Record.sweep
                 /\ q.attempts = Record.attempts
    BY <1>7, SwapAnsweredDoes
  <2>3. QED
    BY <1>1, <1>2, <1>3, <2>1, <2>2, OpenStepKeepsIInv
<1>8. CASE SendSwap
  <2>1. /\ AtWork /\ pc = "funding" /\ Signs("swap", 0, 0) /\ OnlySigned /\ lags' = lags
        /\ pc' = "swapping" /\ Rewrites(Record)
    BY <1>8, SendSwapDoes
  <2>2. Record.sweep = NoTx
    BY <2>1 DEF IInv, StepsOK
  <2>3. \A t \in DOMAIN txs' \ DOMAIN txs : txs'[t].kind = "swap"
    BY <2>1 DEF Signs, Sent
  <2>4. PICK q : q = Record
    OBVIOUS
  <2>5. Rewrites(q)
    BY <2>1, <2>4
  <2>6. QED
    BY <1>2, <1>3, <2>1, <2>2, <2>3, <2>4, <2>5, OpenStepKeepsIInv
<1>9. CASE SignSweep
  <2>1. AtWork /\ pc \in Reading /\ lags' \in Nat /\ pc' = "sweeping" /\ OnlySigned
    BY <1>9, SignSweepDoes
  <2>2. PICK tokens \in Nat, lamports \in Nat : Signs("sweep", tokens, lamports)
    BY <1>9, SignSweepDoes
  <2>3. PICK q : /\ Rewrites(q)
                 /\ q.sweep = Len(txs) + 1
                 /\ q.wallet = Record.wallet /\ q.funding = Record.funding
                 /\ q.status = Record.status /\ q.attempts = Record.attempts
    BY <1>9, SignSweepDoes
  <2>4. Outcome(Record.sweep) \notin {"sent", "landed"}
    BY <2>1 DEF IInv, StepsOK
  <2>5. Is(q.sweep, "sweep", q.wallet)' /\ txs'[q.sweep].status = "sent"
    BY <2>2, <2>3 DEF Signs, Sent, Is
  <2>6. \A t \in DOMAIN txs' \ DOMAIN txs : txs'[t].kind = "sweep" /\ txs'[t].wallet[1] = Now /\ t = q.sweep
    BY <1>2, <2>1, <2>2, <2>3 DEF Signs, Sent
  <2>7. Outcome(q.funding)' # "sent"
    <3>1. Outcome(Record.funding) # "sent"
      BY <2>1 DEF IInv, StepsOK
    <3>2. Record.funding # NoTx => Record.funding \in DOMAIN txs
      BY <1>2, <2>1 DEF RecordOK, Is
    <3>3. QED
      BY <2>1, <2>3, <3>1, <3>2 DEF Outcome, OnlySigned
  <2>8. QED
    BY <1>2, <2>1, <2>3, <2>4, <2>5, <2>6, <2>7, OpenStepKeepsIInv
<1>10. QED
  BY <1>4, <1>5, <1>6, <1>7, <1>8, <1>9

(* The attempt is booked only once its transactions are resolved. *)
LEMMA BookStepDoes ==
    ASSUME PurchaseAssumption, IInv, SettleFromRecord \/ SweepAnswered \/ NothingToSweep
    PROVE  /\ AtWork /\ Record.wallet # NoWallet /\ Outcome(Record.funding) # "sent"
           /\ txs' = txs /\ sol' = sol /\ tok' = tok /\ keeperTok' = keeperTok
           /\ lags' \in Nat /\ lags' >= lags /\ (lags' = lags \/ (lags' = lags + 1 /\ lags < MaxLags))
           /\ \E sweep \in {NoTx} \cup DOMAIN txs, blind \in BOOLEAN :
                 /\ Book(sweep, blind)
                 /\ blind => "history" \in Lagging
                 /\ \/ sweep # NoTx /\ sweep = Record.sweep /\ txs[sweep].status = "landed"
                    \/ /\ pc = "readNone" /\ sweep = NoTx
                       /\ "balance" \notin Lagging => sol[Record.wallet] = 0
<1>1. AtWork
  BY DEF SettleFromRecord, SweepAnswered, NothingToSweep, Settling, AtWork
<1>2. /\ RecordOK(Now, Record) /\ (pc # "idle" => Record.wallet # NoWallet)
      /\ Purchase.wallet = Record.wallet /\ Purchase.funding = Record.funding
      /\ pc \notin Reading => Purchase = Record
  BY <1>1, AtHand
<1>3. lags \in Nat
  BY DEF IInv, Types
<1>4. txs' = txs /\ sol' = sol /\ tok' = tok /\ keeperTok' = keeperTok
  BY DEF SettleFromRecord, SweepAnswered, NothingToSweep, chain
<1>5. CASE SettleFromRecord
  <2>1. pc \notin Reading /\ Record.wallet # NoWallet
    BY <1>2, <1>5 DEF SettleFromRecord, Settling, Reading
  <2>2. Outcome(Record.funding) # "sent" /\ Outcome(Record.sweep) = "landed"
    BY <1>2, <1>5, <2>1 DEF SettleFromRecord, Unresolved
  <2>3. PICK lagging \in BOOLEAN :
          /\ lagging => MayLag("history")
          /\ Lagged(lagging)
          /\ Book(Record.sweep, lagging)
    BY <1>2, <1>5, <2>1 DEF SettleFromRecord
  <2>4. Record.sweep # NoTx /\ Record.sweep \in DOMAIN txs /\ txs[Record.sweep].status = "landed"
    BY <1>2, <2>2 DEF Outcome, RecordOK, Is
  <2>5. QED
    BY <1>1, <1>3, <1>4, <2>1, <2>2, <2>3, <2>4 DEF MayLag, Lagged
<1>6. CASE SweepAnswered
  <2>1. pc \notin Reading /\ Record.wallet # NoWallet
    BY <1>2, <1>6 DEF SweepAnswered, Reading
  <2>2. Outcome(Record.funding) # "sent" /\ Outcome(Record.sweep) = "landed"
    BY <1>2, <1>6, <2>1 DEF SweepAnswered, IInv, StepsOK
  <2>3. PICK lagging \in BOOLEAN :
          /\ lagging => MayLag("history")
          /\ Lagged(lagging)
          /\ Book(Record.sweep, lagging)
    BY <1>2, <1>6, <2>1 DEF SweepAnswered
  <2>4. Record.sweep # NoTx /\ Record.sweep \in DOMAIN txs /\ txs[Record.sweep].status = "landed"
    BY <1>2, <2>2 DEF Outcome, RecordOK, Is
  <2>5. QED
    BY <1>1, <1>3, <1>4, <2>1, <2>2, <2>3, <2>4 DEF MayLag, Lagged
<1>7. CASE NothingToSweep
  <2>1. pc = "readNone" /\ pc \in Reading /\ Record.wallet # NoWallet /\ Outcome(Record.funding) # "sent"
    BY <1>2, <1>7 DEF NothingToSweep, Reading, IInv, StepsOK
  <2>2. PICK blind \in BOOLEAN, lagging \in BOOLEAN :
          /\ blind => MayLag("balance")
          /\ ~blind => sol[Purchase.wallet] = 0
          /\ lagging => MayLag("history") /\ ~blind
          /\ Lagged(blind \/ lagging)
          /\ Book(NoTx, lagging)
    BY <1>7 DEF NothingToSweep
  <2>3. QED
    BY <1>1, <1>2, <1>3, <1>4, <2>1, <2>2 DEF MayLag, Lagged
<1>8. QED
  BY <1>5, <1>6, <1>7

(* A booked attempt has nothing in flight, and its tokens are counted once. *)
LEMMA BookStepsKeepIInv ==
    ASSUME PurchaseAssumption, IInv, SettleFromRecord \/ SweepAnswered \/ NothingToSweep
    PROVE  IInv'
<1>1. /\ AtWork /\ Record.wallet # NoWallet /\ Outcome(Record.funding) # "sent"
      /\ txs' = txs /\ sol' = sol /\ tok' = tok /\ keeperTok' = keeperTok /\ lags' \in Nat
  BY BookStepDoes
<1>2. PICK sweep \in {NoTx} \cup DOMAIN txs, blind \in BOOLEAN :
                 /\ Book(sweep, blind)
                 /\ \/ sweep # NoTx /\ sweep = Record.sweep /\ txs[sweep].status = "landed"
                    \/ pc = "readNone" /\ sweep = NoTx
  BY BookStepDoes
<1>3. PICK q \in PurchaseRecord :
               /\ BookedAs(q, sweep, Found(sweep, blind))
               /\ Rewritten(disk', q)
               /\ disk'.inventory = [disk.inventory EXCEPT ![Now] = disk.inventory[Now] + Moved(sweep)]
               /\ mem' = disk' /\ pc' = "idle"
  BY <1>1, <1>2, BookDecides DEF IInv
<1>4. /\ Pending(disk) # {} /\ disk.round = "SEEDED"
      /\ Now \in Coins /\ Record \in PurchaseRecord /\ RecordOK(Now, Record)
      /\ Record.status = "pending" /\ Record.attempts < MaxBuyAttempts
      /\ Record.wallet = <<Now, Record.attempts>>
  BY <1>1, AtHand
<1>5. OnlySigned /\ DOMAIN txs' \ DOMAIN txs = {}
  BY <1>1 DEF OnlySigned, IInv, Types
<1>6. q.funding = NoTx /\ q.sweep = NoTx /\ Decided(q, sweep, Found(sweep, blind))
  BY <1>3 DEF BookedAs
<1>7. RecordSound(q)
  BY <1>4, <1>6 DEF RecordSound, Decided
<1>8. Outcome(Record.sweep) # "sent"
  BY <1>2 DEF Outcome, Reading, IInv, StepsOK
<1>9. disk.inventory \in [Coins -> Nat]
  BY DEF IInv, Types, SavedState
<1>10. \A c \in Coins \ {Now} : disk'.inventory[c] = disk.inventory[c]
  BY <1>3, <1>9
<1>11. \A c \in Coins : c = Now => disk'.inventory[c] + Arrived(c)' = disk.inventory[c] + Arrived(c)
  <2>1. disk'.purchases[Now] = q /\ DOMAIN disk'.purchases = Coins /\ DOMAIN disk.purchases = Coins
    BY <1>3, <1>4, NextCoin DEF Rewritten, IInv
  <2>2. Moved(sweep) \in Nat
    <3>1. \A x \in DOMAIN txs : txs[x] \in Transaction
      BY DEF IInv, Types
    <3>2. QED
      BY <3>1 DEF Moved, Transaction
  <2>3. \A c \in Coins : c = Now => Arrived(c)' = 0
    BY <1>6, <2>1 DEF Arrived, Outcome
  <2>4. \A c \in Coins : c = Now => Arrived(c) = Moved(sweep)
    <3>1. CASE sweep # NoTx /\ sweep = Record.sweep /\ txs[sweep].status = "landed"
      BY <2>1, <3>1 DEF Arrived, Outcome, Record, Moved
    <3>2. CASE pc = "readNone" /\ sweep = NoTx
      <4>1. Outcome(Record.sweep) # "landed"
        BY <3>2 DEF Reading, IInv, StepsOK
      <4>2. QED
        BY <2>1, <3>2, <4>1 DEF Arrived, Record, Moved
    <3>3. QED
      BY <1>2, <3>1, <3>2
  <2>5. QED
    BY <1>3, <1>9, <2>2, <2>3, <2>4
<1>12. pc' \in Waits \ Reading
  BY <1>3 DEF Waits, Reading
<1>13. QED
  BY <1>1, <1>3, <1>4, <1>5, <1>6, <1>7, <1>8, <1>10, <1>11, <1>12, SavedStepKeepsIInv

(* Losing memory, or giving up on an answer, changes nothing that counts. *)
LEMMA QuietStepsKeepIInv ==
    ASSUME PurchaseAssumption, IInv, SwapThrew \/ SendThrew \/ SweepRefused \/ Abort
    PROVE  IInv'
<1>1. UNCHANGED <<chain, disk>> /\ lags' \in Nat
  BY DEF SwapThrew, SendThrew, SweepRefused, Abort, history, IInv, Types
<1>2. \/ mem' = disk /\ pc' = "idle"
      \/ mem' = mem /\ pc' = "settling" /\ pc # "idle" /\ pc \notin Reading
  BY DEF SwapThrew, SendThrew, SweepRefused, Abort, Lose, Reading
<1>3. QED
  BY <1>1, <1>2, QuietStepKeepsIInv

(* Reading the wallet changes memory only. *)
LEMMA ReadTokensKeepsIInv ==
    ASSUME PurchaseAssumption, IInv, ReadTokens
    PROVE  IInv'
<1>1. /\ AtWork /\ Record.wallet # NoWallet
      /\ txs' = txs /\ sol' = sol /\ tok' = tok /\ keeperTok' = keeperTok /\ disk' = disk
      /\ pc' \in Reading
      /\ mem' = [disk EXCEPT !.purchases[Now].sweep = NoTx] /\ mem' \in SavedState
      /\ Outcome(Record.sweep) \notin {"sent", "landed"} /\ Outcome(Record.funding) # "sent"
      /\ lags' \in Nat
  BY ReadTokensDoes
<1>2. Types' 
  BY <1>1 DEF IInv, Types, Reading, Waits
<1>3. Pending(disk') = Pending(disk) /\ Record' = Record /\ Now' = Now
  BY <1>1 DEF Record, Now
<1>4. MemoryAgrees'
  <2>1. disk.round = "SEEDED" /\ Pending(disk) # {}
    BY <1>1, AtHand
  <2>2. QED
    BY <1>1, <1>3, <2>1 DEF MemoryAgrees
<1>5. RecordsOK'
  <2>1. \A c \in DOMAIN disk.purchases : RecordOK(c, disk.purchases[c])' = RecordOK(c, disk.purchases[c])
    BY <1>1 DEF RecordOK, Now, Is
  <2>2. QED
    BY <1>1, <2>1 DEF RecordsOK, IInv
<1>6. InFlightOnRecord' /\ InventoryMatches'
  BY <1>1 DEF IInv, InFlightOnRecord, InventoryMatches, Outcome
<1>7. StepsOK'
  BY <1>1, <1>3 DEF StepsOK, Reading, Outcome
<1>8. QED
  BY <1>2, <1>4, <1>5, <1>6, <1>7 DEF IInv

(* A basket is selected once, when nothing was bought yet. *)
LEMMA SelectDoes ==
    ASSUME PurchaseAssumption, IInv, Select
    PROVE  /\ pc = "idle" /\ pc' = "idle" /\ disk.purchases = NoBasket
           /\ txs' = txs /\ sol' = sol /\ tok' = tok /\ keeperTok' = keeperTok /\ lags' = lags
           /\ mem' = disk' /\ disk' \in SavedState
           /\ disk'.selected /\ disk'.round = disk.round
           /\ disk'.inventory = disk.inventory /\ disk'.reserved = disk.reserved
           /\ \/ disk'.purchases = disk.purchases /\ Unspent(disk')
              \/ /\ disk'.purchases = [c \in Coins |-> NewPurchase]
                 /\ disk.basket > Reserve /\ disk'.basket = disk.basket - Reserve
                 /\ disk'.operations = disk.operations + Reserve /\ disk'.unbooked = disk.unbooked
<1>1. pc = "idle" /\ mem = disk /\ ~disk.selected /\ disk.purchases = NoBasket
  BY DEF Select, IInv, MemoryAgrees, Reading, RecordsOK
<1>2. txs' = txs /\ sol' = sol /\ tok' = tok /\ keeperTok' = keeperTok /\ lags' = lags
  BY DEF Select, chain, history
<1> DEFINE share == IF disk.basket > Reserve THEN (disk.basket - Reserve) \div CoinCount ELSE 0
           none == [disk EXCEPT !.selected = TRUE]
           basket == [c \in Coins |-> NewPurchase]
           some == [disk EXCEPT !.selected = TRUE,
                                !.basket = disk.basket - Reserve,
                                !.operations = disk.operations + Reserve,
                                !.budget = share,
                                !.purchases = basket]
<1>3. disk \in SavedState
  BY DEF IInv, Types
<1>4. disk' = (IF share <= Overhead THEN none ELSE some) /\ mem' = disk' /\ pc' = "idle"
  BY <1>1 DEF Select, Return, Save
<1>5. basket \in [Coins -> PurchaseRecord]
  <2>1. NewPurchase \in PurchaseRecord
    BY DEF NewPurchase, PurchaseRecord, Statuses, NoTx
  <2>2. QED
    BY <2>1
<1>6. share \in Nat /\ disk.basket - Reserve \in Int /\ disk.operations + Reserve \in Int
  <2>1. disk.basket \in Int /\ disk.operations \in Int /\ Reserve \in Nat
    BY <1>3 DEF SavedState, PurchaseAssumption
  <2>2. CoinCount \in Nat \ {0}
    BY DEF PurchaseAssumption
  <2>3. \A n \in Nat, m \in Nat \ {0} : n \div m \in Nat
    OBVIOUS
  <2>4. QED
    BY <2>1, <2>2, <2>3
<1>11. share > Overhead => disk.basket > Reserve
  BY DEF PurchaseAssumption
<1> HIDE DEF share, basket
<1>7. PICK v \in BOOLEAN : v = TRUE
  OBVIOUS
<1>8. CASE disk' = none /\ share <= Overhead
  <2>1. disk' = [disk EXCEPT !.selected = v]
    BY <1>7, <1>8
  <2>2. /\ disk' \in SavedState /\ disk'.selected = v /\ disk'.round = disk.round
        /\ disk'.inventory = disk.inventory /\ disk'.reserved = disk.reserved
        /\ disk'.purchases = disk.purchases /\ Unspent(disk')
    BY ONLY <1>3, <1>7, <2>1 DEF SavedState, Unspent
  <2>3. QED
    BY <1>1, <1>2, <1>4, <1>7, <2>2
<1>9. CASE disk' = some /\ share > Overhead
  <2>1. disk' = [disk EXCEPT !.selected = v, !.basket = disk.basket - Reserve,
                             !.operations = disk.operations + Reserve, !.budget = share,
                             !.purchases = basket]
    BY <1>7, <1>9
  <2>2. disk' \in SavedState
    BY ONLY <1>3, <1>5, <1>6, v \in BOOLEAN, <2>1 DEF SavedState
  <2>3. /\ disk'.selected = v /\ disk'.round = disk.round
        /\ disk'.inventory = disk.inventory /\ disk'.reserved = disk.reserved
        /\ disk'.purchases = basket /\ disk'.basket = disk.basket - Reserve
        /\ disk'.operations = disk.operations + Reserve /\ disk'.unbooked = disk.unbooked
    BY ONLY <1>3, <2>1 DEF SavedState
  <2>4. QED
    BY <1>1, <1>2, <1>4, <1>7, <1>9, <1>11, <2>2, <2>3 DEF basket
<1>12. Overhead \in Nat
  BY DEF PurchaseAssumption
<1>13. QED
  BY <1>4, <1>6, <1>8, <1>9, <1>12

(* A selected basket is all new purchases. *)
LEMMA SelectKeepsIInv ==
    ASSUME PurchaseAssumption, IInv, Select
    PROVE  IInv'
<1>1. /\ pc' = "idle" /\ disk.purchases = NoBasket
      /\ txs' = txs /\ sol' = sol /\ tok' = tok /\ keeperTok' = keeperTok /\ lags' = lags
      /\ mem' = disk' /\ disk' \in SavedState
      /\ disk'.selected /\ disk'.round = disk.round
      /\ disk'.inventory = disk.inventory /\ disk'.reserved = disk.reserved
  BY SelectDoes
<1>2. disk'.purchases = disk.purchases \/ disk'.purchases = [c \in Coins |-> NewPurchase]
  BY SelectDoes
<1>3. DOMAIN disk.purchases = {}
  BY <1>1 DEF NoBasket
<1>4. Types'
  BY <1>1 DEF IInv, Types, Waits
<1>5. MemoryAgrees' /\ StepsOK'
  BY <1>1 DEF MemoryAgrees, StepsOK, Reading
<1>6. \A c \in DOMAIN disk'.purchases : c \in Coins /\ disk'.purchases[c] = NewPurchase
  BY <1>2, <1>3
<1>7. RecordsOK'
  <2>1. ASSUME NEW c \in DOMAIN disk'.purchases
        PROVE  RecordOK(c, disk.purchases[c])'
    <3>1. disk'.purchases[c] = NewPurchase
      BY <1>6
    <3>2. /\ NewPurchase.wallet = NoWallet /\ NewPurchase.attempts = 0 /\ NewPurchase.funding = NoTx
          /\ NewPurchase.sweep = NoTx
      BY DEF NewPurchase
    <3>3. 0 < MaxBuyAttempts
      BY DEF PurchaseAssumption
    <3>4. QED
      BY <3>1, <3>2, <3>3 DEF RecordOK
  <2>2. QED
    BY <1>1, <2>1 DEF RecordsOK, IInv
<1>8. InFlightOnRecord'
  BY <1>1, <1>3 DEF IInv, InFlightOnRecord
<1>9. InventoryMatches'
  <2>1. \A c \in Coins : Arrived(c) = 0
    BY <1>3 DEF Arrived
  <2>2. \A c \in Coins : Arrived(c)' = 0
    <3>1. NewPurchase.sweep = NoTx
      BY DEF NewPurchase
    <3>2. QED
      BY <1>6, <3>1 DEF Arrived, Outcome
  <2>3. QED
    BY <1>1, <2>1, <2>2 DEF IInv, InventoryMatches, Arrived
<1>10. QED
  BY <1>4, <1>5, <1>7, <1>8, <1>9 DEF IInv

(* The coins that are left are skipped only while no attempt is open. *)
LEMMA SkipRestDoes ==
    ASSUME PurchaseAssumption, IInv, SkipRest
    PROVE  /\ pc = "idle" /\ pc' = "idle"
           /\ txs' = txs /\ sol' = sol /\ tok' = tok /\ keeperTok' = keeperTok /\ lags' = lags
           /\ mem' = disk' /\ disk' \in SavedState
           /\ disk'.selected = disk.selected /\ disk'.round = disk.round
           /\ disk'.inventory = disk.inventory /\ disk'.reserved = disk.reserved
           /\ Unspent(disk') /\ disk'.budget = disk.budget
           /\ DOMAIN disk.purchases = Coins /\ disk'.purchases \in [Coins -> PurchaseRecord]
           /\ \A c \in Coins :
                 LET p == disk.purchases[c]
                     r == disk'.purchases[c]
                 IN /\ p.wallet = NoWallet /\ r.wallet = NoWallet
                    /\ r.status = IF p.status = "pending" THEN "skipped" ELSE p.status
                    /\ r.funding = p.funding /\ r.sweep = p.sweep /\ r.swap = p.swap
                    /\ r.attempts = p.attempts /\ r.sweeps = p.sweeps /\ r.checks = p.checks
<1>1. AtWork /\ pc = "idle" /\ pc \notin Reading
  BY DEF SkipRest, AtWork, Reading
<1>2. /\ mem = disk /\ Record.wallet = NoWallet /\ Pending(disk) # {}
      /\ disk.purchases \in [Coins -> PurchaseRecord] /\ DOMAIN disk.purchases = Coins
  BY <1>1, AtHand, NextCoin DEF SkipRest, IInv
<1>3. txs' = txs /\ sol' = sol /\ tok' = tok /\ keeperTok' = keeperTok /\ lags' = lags
  BY DEF SkipRest, chain, history
<1> DEFINE f == [i \in DOMAIN disk.purchases |->
                     IF i \in Pending(disk) THEN [disk.purchases[i] EXCEPT !.status = "skipped"]
                                            ELSE disk.purchases[i]]
<1>4. disk' = [disk EXCEPT !.purchases = f] /\ mem' = disk' /\ pc' = "idle"
  BY <1>2 DEF SkipRest, Return, Save
<1>5. ASSUME NEW c \in Coins
      PROVE  /\ f[c] \in PurchaseRecord
             /\ f[c].wallet = disk.purchases[c].wallet
             /\ f[c].status = IF disk.purchases[c].status = "pending" THEN "skipped"
                                                                      ELSE disk.purchases[c].status
             /\ f[c].funding = disk.purchases[c].funding /\ f[c].sweep = disk.purchases[c].sweep
             /\ f[c].swap = disk.purchases[c].swap /\ f[c].attempts = disk.purchases[c].attempts
             /\ f[c].sweeps = disk.purchases[c].sweeps /\ f[c].checks = disk.purchases[c].checks
  <2> DEFINE p == disk.purchases[c]
             q == [p EXCEPT !.status = "skipped"]
  <2>1. p \in PurchaseRecord
    BY <1>2
  <2>2. f[c] = IF p.status = "pending" THEN q ELSE p
    BY <1>2 DEF Pending
  <2> HIDE DEF f, p
  <2>3. /\ q \in PurchaseRecord /\ q.wallet = p.wallet /\ q.status = "skipped"
        /\ q.funding = p.funding /\ q.sweep = p.sweep /\ q.swap = p.swap /\ q.attempts = p.attempts
        /\ q.sweeps = p.sweeps /\ q.checks = p.checks
    BY <2>1 DEF PurchaseRecord, Statuses
  <2> HIDE DEF q
  <2>4. /\ f[c] \in PurchaseRecord /\ f[c].wallet = p.wallet
        /\ f[c].status = IF p.status = "pending" THEN "skipped" ELSE p.status
        /\ f[c].funding = p.funding /\ f[c].sweep = p.sweep
        /\ f[c].swap = p.swap /\ f[c].attempts = p.attempts
        /\ f[c].sweeps = p.sweeps /\ f[c].checks = p.checks
    BY <2>1, <2>2, <2>3
  <2>5. QED
    BY <2>4 DEF p
<1>6. DOMAIN f = Coins
  BY <1>2
<1>7. \A c \in Coins : disk.purchases[c].wallet = NoWallet
  BY <1>2 DEF IInv, RecordsOK, RecordOK, Record
<1>8. f \in [Coins -> PurchaseRecord]
  <2>1. f = [i \in Coins |-> f[i]]
    BY <1>2
  <2> HIDE DEF f
  <2>2. QED
    BY <1>5, <2>1
<1>9. disk \in SavedState
  BY DEF IInv, Types
<1> HIDE DEF f
<1>10. /\ disk' \in SavedState /\ disk'.purchases = f
       /\ disk'.selected = disk.selected /\ disk'.round = disk.round
       /\ disk'.inventory = disk.inventory /\ disk'.reserved = disk.reserved
       /\ Unspent(disk') /\ disk'.budget = disk.budget
  BY ONLY <1>4, <1>8, <1>9 DEF SavedState, Unspent
<1>11. QED
  BY <1>1, <1>2, <1>3, <1>4, <1>5, <1>7, <1>8, <1>10

(* Skipping what is left drops no wallet and no tokens. *)
LEMMA SkipRestKeepsIInv ==
    ASSUME PurchaseAssumption, IInv, SkipRest
    PROVE  IInv'
<1>1. /\ pc' = "idle"
      /\ txs' = txs /\ sol' = sol /\ tok' = tok /\ keeperTok' = keeperTok /\ lags' = lags
      /\ mem' = disk' /\ disk' \in SavedState
      /\ disk'.selected = disk.selected /\ disk'.round = disk.round
      /\ disk'.inventory = disk.inventory /\ disk'.reserved = disk.reserved
      /\ DOMAIN disk.purchases = Coins /\ disk'.purchases \in [Coins -> PurchaseRecord]
  BY SkipRestDoes
<1>2. \A c \in Coins :
                 LET p == disk.purchases[c]
                     r == disk'.purchases[c]
                 IN /\ p.wallet = NoWallet /\ r.wallet = NoWallet
                    /\ r.status = IF p.status = "pending" THEN "skipped" ELSE p.status
                    /\ r.funding = p.funding /\ r.sweep = p.sweep /\ r.swap = p.swap
                    /\ r.attempts = p.attempts
  BY SkipRestDoes
<1>3. DOMAIN disk'.purchases = Coins
  BY <1>1
<1>4. Types'
  BY <1>1 DEF IInv, Types, Waits
<1>5. MemoryAgrees' /\ StepsOK'
  BY <1>1 DEF MemoryAgrees, StepsOK, Reading
<1>6. \A c \in Coins : RecordOK(c, disk.purchases[c])
  BY <1>1 DEF IInv, RecordsOK
<1>7. disk.selected
  <2>1. DOMAIN NoBasket = {} /\ Coins # {}
    BY DEF NoBasket, Coins, PurchaseAssumption
  <2>2. QED
    BY <1>1, <2>1 DEF IInv, RecordsOK
<1>8. RecordsOK'
  <2>1. ASSUME NEW c \in Coins
        PROVE  RecordOK(c, disk.purchases[c])'
    BY <1>2, <1>6 DEF RecordOK
  <2>2. QED
    BY <1>1, <1>3, <1>7, <2>1 DEF RecordsOK, IInv
<1>9. InFlightOnRecord'
  BY <1>1, <1>2, <1>3 DEF IInv, InFlightOnRecord
<1>10. InventoryMatches'
  <2>1. \A c \in Coins : Arrived(c)' = Arrived(c)
    BY <1>1, <1>2, <1>3 DEF Arrived, Outcome
  <2>2. QED
    BY <1>1, <2>1 DEF IInv, InventoryMatches, Arrived
<1>11. QED
  BY <1>4, <1>5, <1>8, <1>9, <1>10 DEF IInv

(* Reserving moves what was bought from the inventory to the round. *)
LEMMA ReserveAssetsDoes ==
    ASSUME PurchaseAssumption, IInv, ReserveAssets
    PROVE  /\ pc = "idle" /\ pc' = "idle"
           /\ txs' = txs /\ sol' = sol /\ tok' = tok /\ keeperTok' = keeperTok /\ lags' = lags
           /\ mem' = disk' /\ disk' \in SavedState
           /\ disk'.selected = disk.selected /\ disk.selected /\ disk'.round = "FUNDED"
           /\ disk'.purchases = disk.purchases /\ Unspent(disk') /\ disk'.budget = disk.budget
           /\ \A c \in Coins : disk'.inventory[c] + disk'.reserved[c]
                                 = disk.inventory[c] + disk.reserved[c]
<1>1. pc = "idle" /\ mem = disk /\ disk.round = "SEEDED" /\ disk.selected
  BY DEF ReserveAssets, IInv, MemoryAgrees, Reading
<1>2. txs' = txs /\ sol' = sol /\ tok' = tok /\ keeperTok' = keeperTok /\ lags' = lags
  BY DEF ReserveAssets, chain, history
<1>3. PICK vetted \in SUBSET Coins :
          Return([mem EXCEPT !.round = "FUNDED",
                             !.reserved = [c \in Coins |-> IF c \in vetted THEN mem.inventory[c] ELSE 0],
                             !.inventory = [c \in Coins |-> IF c \in vetted THEN 0 ELSE mem.inventory[c]]])
  BY DEF ReserveAssets
<1> DEFINE res == [c \in Coins |-> IF c \in vetted THEN disk.inventory[c] ELSE 0]
           inv == [c \in Coins |-> IF c \in vetted THEN 0 ELSE disk.inventory[c]]
<1>4. disk' = [disk EXCEPT !.round = "FUNDED", !.reserved = res, !.inventory = inv]
      /\ mem' = disk' /\ pc' = "idle"
  BY <1>1, <1>3 DEF Return, Save
<1>5. disk \in SavedState
  BY DEF IInv, Types
<1>6. disk.inventory \in [Coins -> Nat] /\ disk.reserved \in [Coins -> Nat]
  BY <1>5 DEF SavedState
<1>7. res \in [Coins -> Nat] /\ inv \in [Coins -> Nat]
  BY <1>6
<1>8. \A c \in Coins : inv[c] + res[c] = disk.inventory[c]
  BY <1>6
<1>9. \A c \in Coins : disk.reserved[c] = 0
  BY <1>1 DEF IInv, RecordsOK
<1> HIDE DEF inv, res
<1>10. disk' \in SavedState
  BY ONLY <1>4, <1>5, <1>7 DEF SavedState
<1>11. /\ disk'.selected = disk.selected /\ disk'.round = "FUNDED" /\ disk'.purchases = disk.purchases
       /\ disk'.inventory = inv /\ disk'.reserved = res
       /\ Unspent(disk') /\ disk'.budget = disk.budget
  BY ONLY <1>4, <1>5 DEF SavedState, Unspent
<1>12. \A c \in Coins : disk'.inventory[c] + disk'.reserved[c] = disk.inventory[c] + disk.reserved[c]
  BY <1>6, <1>8, <1>9, <1>11
<1>13. QED
  BY <1>1, <1>2, <1>4, <1>10, <1>11, <1>12

(* Reserving keeps the sum of inventory and reserved coins. *)
LEMMA ReserveAssetsKeepsIInv ==
    ASSUME PurchaseAssumption, IInv, ReserveAssets
    PROVE  IInv'
<1>1. /\ pc' = "idle"
      /\ txs' = txs /\ sol' = sol /\ tok' = tok /\ keeperTok' = keeperTok /\ lags' = lags
      /\ mem' = disk' /\ disk' \in SavedState
      /\ disk'.selected /\ disk'.round = "FUNDED" /\ disk'.purchases = disk.purchases
      /\ \A c \in Coins : disk'.inventory[c] + disk'.reserved[c]
                            = disk.inventory[c] + disk.reserved[c]
  BY ReserveAssetsDoes
<1>2. Types'
  BY <1>1 DEF IInv, Types, Waits
<1>3. MemoryAgrees' /\ StepsOK'
  BY <1>1 DEF MemoryAgrees, StepsOK, Reading
<1>4. RecordsOK'
  <2>1. Now' = Now
    BY <1>1 DEF Now, Pending
  <2>2. \A c \in DOMAIN disk.purchases : RecordOK(c, disk.purchases[c])' = RecordOK(c, disk.purchases[c])
    BY <1>1, <2>1 DEF RecordOK, Is
  <2>3. QED
    BY <1>1, <2>2 DEF RecordsOK, IInv
<1>5. InFlightOnRecord'
  BY <1>1 DEF IInv, InFlightOnRecord
<1>6. InventoryMatches'
  <2>1. \A c \in Coins : Arrived(c)' = Arrived(c)
    BY <1>1 DEF Arrived, Outcome
  <2>2. QED
    BY <1>1, <2>1 DEF IInv, InventoryMatches, Arrived
<1>7. QED
  BY <1>2, <1>3, <1>4, <1>5, <1>6 DEF IInv

(* Every step of the keeper and of the chain. *)
LEMMA StepKeepsIInv ==
    ASSUME PurchaseAssumption, IInv, [Next]_vars
    PROVE  IInv'
<1>1. CASE Chain
  BY <1>1, ChainKeepsIInv DEF Chain
<1>2. CASE Select
  BY <1>2, SelectKeepsIInv
<1>3. CASE SkipRest
  BY <1>3, SkipRestKeepsIInv
<1>4. CASE NewSwapWallet \/ FundWallet \/ QuoteRefused \/ SendSwap \/ SwapAnswered \/ SignSweep
  BY <1>4, RecordStepsKeepIInv
<1>5. CASE SettleFromRecord \/ SweepAnswered \/ NothingToSweep
  BY <1>5, BookStepsKeepIInv
<1>6. CASE ReadTokens
  BY <1>6, ReadTokensKeepsIInv
<1>7. CASE SwapThrew \/ SendThrew \/ SweepRefused \/ Abort
  BY <1>7, QuietStepsKeepIInv
<1>8. CASE ReserveAssets
  BY <1>8, ReserveAssetsKeepsIInv
<1>9. CASE UNCHANGED vars
  <2>1. /\ txs' = txs /\ sol' = sol /\ tok' = tok /\ keeperTok' = keeperTok /\ disk' = disk
        /\ mem' = mem /\ pc' = pc /\ lags' = lags
    BY <1>9 DEF vars, chain, history
  <2>2. Types'
    BY <2>1 DEF IInv, Types
  <2>3. Now' = Now /\ Pending(disk') = Pending(disk) /\ Record' = Record
    BY <2>1 DEF Now, Record
  <2>4. MemoryAgrees'
    BY <2>1, <2>3 DEF IInv, MemoryAgrees
  <2>5. RecordsOK'
    <3>1. \A c \in DOMAIN disk.purchases : RecordOK(c, disk.purchases[c])' = RecordOK(c, disk.purchases[c])
      BY <2>1, <2>3 DEF RecordOK, Is
    <3>2. QED
      BY <2>1, <3>1 DEF RecordsOK, IInv
  <2>6. StepsOK'
    BY <2>1, <2>3 DEF IInv, StepsOK, Outcome
  <2>7. InFlightOnRecord' /\ InventoryMatches'
    BY <2>1 DEF IInv, InFlightOnRecord, InventoryMatches, Outcome
  <2>8. QED
    BY <2>2, <2>4, <2>5, <2>6, <2>7 DEF IInv
<1>10. QED
  BY <1>1, <1>2, <1>3, <1>4, <1>5, <1>6, <1>7, <1>8, <1>9 DEF Next, Step

(***************************************************************************)
(* Between any two steps, and whatever crashed, expired or went            *)
(* unanswered: memory is the disk, what is in flight is on record, and     *)
(* only the coin at hand has an open wallet.                               *)
(***************************************************************************)
THEOREM RecordsAreKept == Spec => []IInv
<1>1. Init => IInv
  BY PurchaseAssumption, InitIInv
<1>2. IInv /\ [Next]_vars => IInv'
  BY PurchaseAssumption, StepKeepsIInv
<1>3. QED
  BY <1>1, <1>2, PTL DEF Spec

(***************************************************************************)
(* engine.ts 591-592, for every number of coins, attempts, lost answers    *)
(* and crashes: the tokens in the keeper's wallet are the inventory and    *)
(* the reserved coins, plus what a landed sweep still on record brought.   *)
(***************************************************************************)
THEOREM InventoryIsBooked == Spec => []InventoryMatches
<1>1. IInv => InventoryMatches
  BY DEF IInv
<1>2. QED
  BY <1>1, RecordsAreKept, PTL

----------------------------------------------------------------------------
(* The wallets, while no answer but a token read is lost. *)

NothingLost == Lagging \subseteq {"tokens"} /\ MaxLags < MaxChecks

Untouched(w) == sol[w] = 0 /\ tok[w] = 0 /\ \A t \in DOMAIN txs : txs[t].wallet # w

(* No key was ever made for w. *)
Unused(w) ==
    \/ w[1] \notin DOMAIN disk.purchases
    \/ w[2] > disk.purchases[w[1]].attempts
    \/ /\ w[2] = disk.purchases[w[1]].attempts
       /\ disk.purchases[w[1]].status = "pending" /\ disk.purchases[w[1]].wallet = NoWallet

UnusedUntouched == \A w \in Wallets : Unused(w) => Untouched(w)

DroppedEmpty == \A w \in Wallets : ~OnDisk(w) => sol[w] = 0 /\ tok[w] = 0

OneSwap ==
    \A t, u \in DOMAIN txs :
        txs[t].kind = "swap" /\ txs[u].kind = "swap" /\ txs[t].wallet = txs[u].wallet => t = u

Delivers(t, w) == Is(t, "swap", w) /\ txs[t].status = "landed" /\ txs[t].tokens > 0

DroppedDelivered ==
    \A w \in Wallets : \A t \in DOMAIN txs :
        ~OnDisk(w) /\ Delivers(t, w) =>
            LET p == disk.purchases[w[1]]
            IN w[1] \in DOMAIN disk.purchases /\ p.status = "bought" /\ t = p.swap

BoughtDelivered ==
    \A c \in DOMAIN disk.purchases :
        disk.purchases[c].status = "bought" =>
            \E w \in Wallets : w[1] = c /\ Delivers(disk.purchases[c].swap, w)

(* An attempt that is not open has no swap on record unless it bought. *)
ClosedSwaps ==
    \A c \in DOMAIN disk.purchases :
        LET p == disk.purchases[c]
        IN p.wallet = NoWallet /\ p.status = "pending" => p.swap = NoTx

Pays(t) == t # NoTx /\ txs[t].status \in {"sent", "landed"}
HasDelivered(w) == \E t \in DOMAIN txs : Delivers(t, w)
Swaps(w) == {t \in DOMAIN txs : Is(t, "swap", w)}

(* Of the swap of the open wallet w, whose record is p. *)
SwapOK(p, w) ==
    /\ tok[w] <= 1
    /\ p.reason \/ pc \in {"signing", "funding"} => Swaps(w) = {}
    /\ pc \in {"signing", "funding"} => ~p.reason
    /\ pc = "signing" => Untouched(w)
    /\ pc = "swapping" => Is(Len(txs), "swap", w)
    /\ p.swap # NoTx => Is(p.swap, "swap", w) /\ txs[p.swap].status = "landed"
    /\ p.checks > 0 => \E t \in Swaps(w) : txs[t].status = "landed"
    /\ tok[w] > 0 => HasDelivered(w)
    /\ HasDelivered(w) => \/ tok[w] = 1
                          \/ Outcome(p.sweep) = "landed" /\ txs[p.sweep].tokens > 0

(* Of the sweeps of the open wallet w: the one on record empties it. *)
SweepOK(p, w) ==
    /\ Pays(p.sweep) => /\ Outcome(p.funding) # "sent"
                        /\ txs[p.sweep].tokens > 0 => HasDelivered(w)
    /\ Outcome(p.sweep) = "sent" => txs[p.sweep].lamports >= sol[w]
    /\ Outcome(p.sweep) = "landed" => sol[w] = 0 /\ (txs[p.sweep].tokens > 0 => tok[w] = 0)
    /\ \A t \in DOMAIN txs : Is(t, "sweep", w) /\ txs[t].status = "landed"
                              => t = p.sweep \/ t \in p.sweeps
    /\ \A t \in p.sweeps : Is(t, "sweep", w)

(* Tokens are overlooked at most once more than reads lagged. *)
ChecksOK(p, w) ==
    /\ tok[w] > 0 => p.checks <= lags + 1
    /\ tok[w] > 0 /\ (pc = "readNone" \/ (Pays(p.sweep) /\ txs[p.sweep].tokens = 0)) => p.checks <= lags
    /\ pc = "readTokens" => tok[w] > 0

OpenOK(p, w) == SwapOK(p, w) /\ SweepOK(p, w) /\ ChecksOK(p, w)

Open == Pending(disk) # {} /\ Record.wallet # NoWallet

WInv ==
    /\ lags <= MaxLags
    /\ UnusedUntouched /\ DroppedEmpty /\ OneSwap
    /\ DroppedDelivered /\ BoughtDelivered /\ ClosedSwaps
    /\ Open => OpenOK(Record, Record.wallet)

(* Only the wallet at hand has its key on disk. *)
LEMMA OpenWallet ==
    Types /\ RecordsOK =>
        /\ \A w \in Wallets : OnDisk(w) <=> Open /\ w = Record.wallet
        /\ Open => Record.wallet \in Wallets /\ Now \in DOMAIN disk.purchases
                   /\ Record.wallet = <<Now, Record.attempts>> /\ Record.wallet[1] = Now
                   /\ Record.status = "pending" /\ Record \in PurchaseRecord
                   /\ DOMAIN disk.purchases = Coins /\ RecordOK(Now, Record)
<1> SUFFICES ASSUME Types, RecordsOK
             PROVE  /\ \A w \in Wallets : OnDisk(w) <=> Open /\ w = Record.wallet
                    /\ Open => Record.wallet \in Wallets /\ Now \in DOMAIN disk.purchases
                               /\ Record.wallet = <<Now, Record.attempts>> /\ Record.wallet[1] = Now
                               /\ Record.status = "pending" /\ Record \in PurchaseRecord
                               /\ DOMAIN disk.purchases = Coins /\ RecordOK(Now, Record)
  OBVIOUS
<1>1. ASSUME Open
      PROVE  /\ Record.wallet \in Wallets /\ Now \in DOMAIN disk.purchases
             /\ Record.wallet = <<Now, Record.attempts>>
             /\ Record.status = "pending" /\ Record \in PurchaseRecord
             /\ DOMAIN disk.purchases = Coins /\ RecordOK(Now, Record)
  <2>1. /\ DOMAIN disk.purchases = Coins /\ Now \in Coins
        /\ Record \in PurchaseRecord /\ Record.status = "pending"
    BY <1>1, NextCoin, PurchaseAssumption DEF Open
  <2>2. RecordOK(Now, Record)
    BY <2>1 DEF RecordsOK, Record
  <2>3. Record.wallet \in Wallets
    BY <1>1, <2>1 DEF Open, PurchaseRecord
  <2>4. QED
    BY <1>1, <2>1, <2>2, <2>3 DEF Open, RecordOK
<1>2. ASSUME NEW w \in Wallets, OnDisk(w)
      PROVE  Open /\ w = Record.wallet
  <2>1. PICK c \in DOMAIN disk.purchases : disk.purchases[c].wallet = w
    BY <1>2 DEF OnDisk
  <2>2. RecordOK(c, disk.purchases[c]) /\ w # NoWallet
    BY <2>1, WalletParts, PurchaseAssumption DEF RecordsOK
  <2>3. c = Now /\ disk.purchases[c].status = "pending"
    BY <2>1, <2>2 DEF RecordOK
  <2>4. QED
    BY <2>1, <2>2, <2>3 DEF Open, Record, Pending
<1>3. ASSUME NEW w \in Wallets, Open, w = Record.wallet
      PROVE  OnDisk(w)
  BY <1>1, <1>3 DEF OnDisk, Record
<1>4. Open => Record.wallet[1] = Now
  BY <1>1
<1>5. QED
  BY <1>1, <1>2, <1>3, <1>4

(* The same, after a step. *)
LEMMA OpenWalletNext ==
    (Types /\ RecordsOK)' =>
        (/\ \A w \in Wallets : OnDisk(w) <=> Open /\ w = Record.wallet
         /\ Open => Record.wallet \in Wallets /\ Now \in DOMAIN disk.purchases
                    /\ Record.wallet = <<Now, Record.attempts>> /\ Record.wallet[1] = Now
                    /\ Record.status = "pending" /\ Record \in PurchaseRecord
                    /\ DOMAIN disk.purchases = Coins /\ RecordOK(Now, Record))'
BY OpenWallet, PTL

(* Every transaction is some wallet's. *)
LEMMA Transactions ==
    ASSUME Types, NEW t \in DOMAIN txs
    PROVE  /\ txs[t].kind \in Kinds /\ txs[t].wallet \in Wallets
           /\ txs[t].tokens \in Nat /\ txs[t].lamports \in Nat /\ txs[t].status \in TxStatuses
           /\ t # NoTx
<1>1. txs[t] \in Transaction /\ t # NoTx
  BY DEF Types, NoTx
<1>2. QED
  BY <1>1 DEF Transaction

(* Nothing on the wallets' side changes but what the step waits for. *)
LEMMA QuietKeepsWallets ==
    ASSUME PurchaseAssumption, IInv, WInv,
           txs' = txs, sol' = sol, tok' = tok, disk'.purchases = disk.purchases,
           lags' \in Nat, lags' >= lags, lags' <= MaxLags,
           \/ pc' = pc \/ pc' \in {"idle", "settling"}
           \/ pc' = "readTokens" /\ tok[Record.wallet] > 0
           \/ pc' = "readNone" /\ (tok[Record.wallet] > 0 => lags' = lags + 1)
    PROVE  WInv'
<1>1. Pending(disk') = Pending(disk) /\ Now' = Now /\ Record' = Record /\ Open' = Open
  BY DEF Pending, Now, Record, Open
<1>2. /\ \A w : OnDisk(w)' = OnDisk(w) /\ Unused(w)' = Unused(w) /\ Untouched(w)' = Untouched(w)
      /\ \A t, w : Delivers(t, w)' = Delivers(t, w)
      /\ \A t, k, w : Is(t, k, w)' = Is(t, k, w)
      /\ \A t : Outcome(t)' = Outcome(t) /\ Pays(t)' = Pays(t)
  BY DEF OnDisk, Unused, Untouched, Delivers, Is, Outcome, Pays
<1>3. \A w : HasDelivered(w)' = HasDelivered(w) /\ Swaps(w)' = Swaps(w)
  BY <1>2 DEF HasDelivered, Swaps
<1>4. UnusedUntouched' /\ DroppedEmpty'
  BY <1>2 DEF WInv, UnusedUntouched, DroppedEmpty
<1>5. OneSwap' /\ DroppedDelivered' /\ BoughtDelivered' /\ ClosedSwaps'
  BY <1>2 DEF WInv, OneSwap, DroppedDelivered, BoughtDelivered, ClosedSwaps
<1>6. ASSUME Open
      PROVE  OpenOK(Record, Record.wallet)'
  <2> DEFINE p == Record
             w == Record.wallet
  <2>1. OpenOK(p, w)
    BY <1>6 DEF WInv
  <2>2. p' = p /\ w' = w
    BY <1>1
  <2>3. lags \in Nat /\ tok[w] \in Nat /\ p.checks \in Nat
    BY <1>6, OpenWallet DEF IInv, Types, PurchaseRecord
  <2> HIDE DEF p, w
  <2>4. SwapOK(p, w)'
    <3>1. SwapOK(p, w)
      BY <2>1 DEF OpenOK
    <3>2. QED
      BY <1>2, <1>3, <2>2, <3>1 DEF SwapOK
  <2>5. SweepOK(p, w)'
    <3>1. SweepOK(p, w)
      BY <2>1 DEF OpenOK
    <3>2. QED
      BY <1>2, <1>3, <2>2, <3>1 DEF SweepOK
  <2>6. ChecksOK(p, w)'
    <3>1. ChecksOK(p, w)
      BY <2>1 DEF OpenOK
    <3>2. pc' = pc \/ pc' \in {"idle", "settling"} \/ (pc' = "readTokens" /\ tok[w] > 0)
            \/ (pc' = "readNone" /\ (tok[w] > 0 => lags' = lags + 1))
      BY DEF w
    <3>3. QED
      BY <1>2, <2>2, <2>3, <3>1, <3>2 DEF ChecksOK
  <2>7. QED
    BY <2>4, <2>5, <2>6 DEF OpenOK, p, w
<1>7. QED
  BY <1>1, <1>4, <1>5, <1>6 DEF WInv

(* A transaction of another wallet changes nothing of the wallet at hand. *)
LEMMA OthersKeepOpen ==
    ASSUME PurchaseAssumption, IInv, WInv, Open, NEW t \in DOMAIN txs, Finalised(t), lags' = lags,
           txs[t].wallet # Record.wallet,
           sol'[Record.wallet] = sol[Record.wallet], tok'[Record.wallet] = tok[Record.wallet]
    PROVE  OpenOK(Record, Record.wallet)'
<1> DEFINE p == Record
           w == Record.wallet
<1>1. /\ p' = p /\ w' = w /\ pc' = pc
  BY DEF Finalised, Record, Now, Pending
<1>2. /\ OpenOK(p, w) /\ w # NoWallet
      /\ p.sweep # NoTx => Is(p.sweep, "sweep", w)
      /\ p.funding # NoTx => Is(p.funding, "fund", w)
  BY OpenWallet DEF WInv, IInv, RecordOK, Open
<1>3. txs[t].wallet # w /\ sol'[w] = sol[w] /\ tok'[w] = tok[w]
  OBVIOUS
<1> HIDE DEF p, w
<1>4. \A u, k : Is(u, k, w)' = Is(u, k, w) /\ (Is(u, k, w) => txs'[u] = txs[u])
  BY <1>1, <1>3 DEF Is, Finalised
<1>5. \A u : Delivers(u, w)' = Delivers(u, w)
  BY <1>1, <1>4 DEF Delivers
<1>6. HasDelivered(w)' = HasDelivered(w) /\ Swaps(w)' = Swaps(w) /\ Untouched(w)' = Untouched(w)
  BY <1>1, <1>3, <1>4, <1>5 DEF HasDelivered, Swaps, Untouched, Finalised, Is
<1>7. /\ Outcome(p.sweep)' = Outcome(p.sweep) /\ Outcome(p.funding)' = Outcome(p.funding)
      /\ Pays(p.sweep)' = Pays(p.sweep)
      /\ p.sweep # NoTx => txs'[p.sweep] = txs[p.sweep]
  BY <1>1, <1>2, <1>4 DEF Outcome, Pays
<1>8. Len(txs') = Len(txs) /\ DOMAIN txs' = DOMAIN txs
  BY DEF Finalised
<1>9. SwapOK(p, w)'
  <2>1. SwapOK(p, w)
    BY <1>2 DEF OpenOK
  <2>2. \A u \in Swaps(w) : txs'[u] = txs[u]
    BY <1>4 DEF Swaps
  <2>3. Outcome(p.sweep) = "landed" => txs'[p.sweep] = txs[p.sweep]
    BY <1>7 DEF Outcome
  <2>4. p.swap # NoTx => txs'[p.swap] = txs[p.swap]
    BY <1>4, <2>1 DEF SwapOK
  <2>5. QED
    BY <1>1, <1>3, <1>4, <1>6, <1>7, <1>8, <2>1, <2>2, <2>3, <2>4 DEF SwapOK
<1>10. SweepOK(p, w)'
  <2>1. SweepOK(p, w)
    BY <1>2 DEF OpenOK
  <2>2. Outcome(p.sweep) \in {"sent", "landed"} \/ Pays(p.sweep) => txs'[p.sweep] = txs[p.sweep]
    BY <1>7 DEF Outcome, Pays
  <2>3. \A u \in DOMAIN txs : Is(u, "sweep", w) => txs'[u] = txs[u]
    BY <1>4
  <2>4. QED
    BY <1>1, <1>3, <1>4, <1>6, <1>7, <1>8, <2>1, <2>2, <2>3 DEF SweepOK
<1>11. ChecksOK(p, w)'
  <2>1. ChecksOK(p, w)
    BY <1>2 DEF OpenOK
  <2>2. Pays(p.sweep) => txs'[p.sweep] = txs[p.sweep]
    BY <1>7 DEF Pays
  <2>3. QED
    BY <1>1, <1>3, <1>7, <2>1, <2>2 DEF ChecksOK
<1>12. QED
  BY <1>9, <1>10, <1>11 DEF OpenOK, p, w

(* Only an open wallet's balance changes, and only its swap delivers. *)
LEMMA ChainFrame ==
    ASSUME PurchaseAssumption, IInv, WInv, NEW t \in DOMAIN txs, InFlight(t), Finalised(t), lags' = lags,
           \A y \in Wallets \ {txs[t].wallet} : sol'[y] = sol[y] /\ tok'[y] = tok[y],
           OnDisk(txs[t].wallet)
             \/ /\ txs'[t].status # "landed"
                /\ sol'[txs[t].wallet] = sol[txs[t].wallet] /\ tok'[txs[t].wallet] = tok[txs[t].wallet],
           Open /\ txs[t].wallet = Record.wallet => OpenOK(Record, Record.wallet)'
    PROVE  WInv'
<1> DEFINE v == txs[t].wallet
<1>1. v \in Wallets /\ Types /\ RecordsOK
  BY Transactions DEF IInv
<1>2. Pending(disk') = Pending(disk) /\ Now' = Now /\ Record' = Record /\ Open' = Open
  BY DEF Finalised, Pending, Now, Record, Open
<1>3. \A w : OnDisk(w)' = OnDisk(w) /\ Unused(w)' = Unused(w)
  BY DEF OnDisk, Unused, Finalised
<1>4. /\ DOMAIN txs' = DOMAIN txs
      /\ \A u \in DOMAIN txs : /\ u # t => txs'[u] = txs[u]
                               /\ txs'[u].kind = txs[u].kind /\ txs'[u].wallet = txs[u].wallet
  BY DEF Finalised
<1>5. \A u, w : Delivers(u, w) => u # t /\ Delivers(u, w)'
  BY <1>4 DEF Delivers, Is, InFlight
<1>6. ASSUME NEW u, NEW w, Delivers(u, w)', ~OnDisk(w)
      PROVE  Delivers(u, w)
  <2>1. u # t
    BY <1>6 DEF Delivers, Is, Finalised
  <2>2. QED
    BY <1>4, <1>6, <2>1 DEF Delivers, Is
<1>7. UnusedUntouched'
  <2>1. ASSUME NEW w \in Wallets, Unused(w)
        PROVE  Untouched(w)'
    <3>1. Untouched(w)
      BY <2>1 DEF WInv, UnusedUntouched
    <3>2. w # v
      BY <3>1 DEF Untouched
    <3>3. QED
      BY <1>4, <3>1, <3>2 DEF Untouched
  <2>2. QED
    BY <1>3, <2>1 DEF UnusedUntouched
<1>8. DroppedEmpty'
  <2>1. ASSUME NEW w \in Wallets, ~OnDisk(w)
        PROVE  sol'[w] = 0 /\ tok'[w] = 0
    <3>1. sol[w] = 0 /\ tok[w] = 0
      BY <2>1 DEF WInv, DroppedEmpty
    <3>2. QED
      BY <2>1, <3>1
  <2>2. QED
    BY <1>3, <2>1 DEF DroppedEmpty
<1>9. OneSwap'
  BY <1>4 DEF WInv, OneSwap
<1>10. DroppedDelivered'
  <2>1. DroppedDelivered
    BY DEF WInv
  <2>2. QED
    BY <1>3, <1>4, <1>6, <2>1 DEF DroppedDelivered, Finalised
<1>11. BoughtDelivered' /\ ClosedSwaps'
  <2>1. BoughtDelivered /\ ClosedSwaps
    BY DEF WInv
  <2>2. disk' = disk
    BY DEF Finalised
  <2>3. BoughtDelivered'
    BY <1>5, <2>1, <2>2 DEF BoughtDelivered
  <2>4. QED
    BY <2>1, <2>2, <2>3 DEF ClosedSwaps
<1>12. Open => OpenOK(Record, Record.wallet)'
  <2>1. ASSUME Open, v # Record.wallet
        PROVE  OpenOK(Record, Record.wallet)'
    <3>1. Record.wallet \in Wallets
      BY <1>1, <2>1, OpenWallet
    <3>2. QED
      BY <2>1, <3>1, OthersKeepOpen
  <2>2. QED
    BY <2>1
<1>13. lags' <= MaxLags
  BY DEF WInv
<1>14. QED
  BY <1>2, <1>7, <1>8, <1>9, <1>10, <1>11, <1>12, <1>13 DEF WInv

(* A funding or a sweep in flight is the wallet at hand's, and is on its record. *)
LEMMA InFlightIsOpen ==
    ASSUME PurchaseAssumption, IInv, NEW t \in DOMAIN txs, InFlight(t), txs[t].kind # "swap"
    PROVE  /\ OnDisk(txs[t].wallet) /\ Open /\ txs[t].wallet = Record.wallet
           /\ txs[t].kind = "sweep" => t = Record.sweep
           /\ txs[t].kind = "fund" => t = Record.funding
<1>1. Types /\ RecordsOK /\ InFlightOnRecord
  BY DEF IInv
<1>2. txs[t].kind \in Kinds /\ txs[t].wallet \in Wallets /\ t # NoTx
  BY <1>1, Transactions
<1> DEFINE c == txs[t].wallet[1]
           p == disk.purchases[c]
<1>3. /\ c \in DOMAIN disk.purchases
      /\ txs[t].kind = "sweep" => t = p.sweep
      /\ txs[t].kind = "fund" => t = p.funding
      /\ txs[t].kind \in {"sweep", "fund"}
  BY <1>1, <1>2 DEF InFlightOnRecord, InFlight, Kinds
<1>4. RecordOK(c, p)
  BY <1>1, <1>3 DEF RecordsOK
<1>5. p.wallet = txs[t].wallet
  BY <1>2, <1>3, <1>4 DEF RecordOK, Is
<1>6. OnDisk(txs[t].wallet)
  BY <1>3, <1>5 DEF OnDisk
<1>7. c = Now
  BY <1>2, <1>4, <1>5, WalletParts DEF RecordOK
<1>8. QED
  BY <1>1, <1>2, <1>3, <1>6, <1>7, OpenWallet DEF Record

(* A transaction of the wallet at hand that fails or never lands. *)
LEMMA FailedKeepsOpen ==
    ASSUME PurchaseAssumption, IInv, WInv, Open, NEW t \in DOMAIN txs, InFlight(t), Finalised(t), lags' = lags,
           txs[t].wallet = Record.wallet, txs'[t].status \in {"failed", "expired"},
           sol'[Record.wallet] <= sol[Record.wallet], sol' \in [Wallets -> Nat], tok' = tok
    PROVE  OpenOK(Record, Record.wallet)'
<1> DEFINE p == Record
           w == Record.wallet
<1>1. /\ p' = p /\ w' = w /\ pc' = pc
  BY DEF Finalised, Record, Now, Pending
<1>2. /\ OpenOK(p, w) /\ w # NoWallet /\ w \in Wallets
      /\ p.sweep # NoTx => Is(p.sweep, "sweep", w)
      /\ p.funding # NoTx => Is(p.funding, "fund", w)
  BY OpenWallet DEF WInv, IInv, RecordOK, Open
<1>3. txs[t].wallet = w /\ sol'[w] <= sol[w] /\ sol'[w] \in Nat /\ sol[w] \in Nat /\ tok'[w] = tok[w]
  BY <1>2 DEF IInv, Types
<1> HIDE DEF p, w
<1>4. /\ DOMAIN txs' = DOMAIN txs /\ Len(txs') = Len(txs)
      /\ \A u \in DOMAIN txs : /\ u # t => txs'[u] = txs[u]
                               /\ txs'[u].kind = txs[u].kind /\ txs'[u].wallet = txs[u].wallet
  BY DEF Finalised
<1>5. /\ \A u, k : Is(u, k, w)' = Is(u, k, w)
      /\ Swaps(w)' = Swaps(w) /\ ~Untouched(w)
  BY <1>1, <1>3, <1>4 DEF Is, Swaps, Untouched
<1>6. \A u \in DOMAIN txs : txs[u].status = "landed" => txs'[u] = txs[u]
  BY <1>4 DEF InFlight
<1>7. \A u \in DOMAIN txs : txs'[u].status = "landed" => txs'[u] = txs[u]
  BY <1>4
<1>8. \A u : Delivers(u, w)' = Delivers(u, w)
  BY <1>1, <1>4, <1>5, <1>6, <1>7 DEF Delivers, Is
<1>9. HasDelivered(w)' = HasDelivered(w)
  BY <1>1, <1>4, <1>8 DEF HasDelivered
<1>10. /\ Pays(p.sweep)' => Pays(p.sweep) /\ txs'[p.sweep] = txs[p.sweep]
       /\ Outcome(p.sweep)' = "sent" => Outcome(p.sweep) = "sent" /\ txs'[p.sweep] = txs[p.sweep]
       /\ Outcome(p.sweep)' = "landed" <=> Outcome(p.sweep) = "landed"
       /\ Outcome(p.sweep) = "landed" => txs'[p.sweep] = txs[p.sweep]
       /\ Outcome(p.funding) # "sent" => Outcome(p.funding)' # "sent"
  BY <1>1, <1>2, <1>4, <1>6, <1>7 DEF Outcome, Pays, Is, InFlight
<1>11. SwapOK(p, w)'
  <2>1. SwapOK(p, w)
    BY <1>2 DEF OpenOK
  <2>2. \A u \in Swaps(w) : u \in DOMAIN txs
    BY DEF Swaps
  <2>3. p.swap # NoTx => p.swap \in DOMAIN txs
    BY <2>1 DEF SwapOK, Is
  <2>4. QED
    BY <1>1, <1>3, <1>4, <1>5, <1>6, <1>9, <1>10, <2>1, <2>2, <2>3 DEF SwapOK
<1>12. SweepOK(p, w)'
  <2>1. SweepOK(p, w)
    BY <1>2 DEF OpenOK
  <2>2. Outcome(p.sweep) = "sent" => txs[p.sweep].lamports \in Nat
    BY <1>2, Transactions DEF Outcome, Is, IInv
  <2>3. Pays(p.sweep)' => /\ Outcome(p.funding)' # "sent"
                          /\ txs'[p.sweep].tokens > 0 => HasDelivered(w)'
    BY <1>9, <1>10, <2>1 DEF SweepOK
  <2>4. Outcome(p.sweep)' = "sent" => txs'[p.sweep].lamports >= sol'[w]
    <3>1. ASSUME Outcome(p.sweep)' = "sent"
          PROVE  txs'[p.sweep].lamports >= sol'[w]
      <4>1. txs'[p.sweep].lamports \in Nat /\ txs'[p.sweep].lamports >= sol[w]
        BY <1>10, <2>1, <2>2, <3>1 DEF SweepOK
      <4>2. QED
        BY <1>3, <4>1
    <3>2. QED
      BY <3>1
  <2>5. Outcome(p.sweep)' = "landed" => sol'[w] = 0 /\ (txs'[p.sweep].tokens > 0 => tok'[w] = 0)
    BY <1>3, <1>10, <2>1 DEF SweepOK
  <2>6. \A u \in DOMAIN txs' : Is(u, "sweep", w)' /\ txs'[u].status = "landed" => u = p.sweep \/ u \in p.sweeps
    BY <1>4, <1>5, <1>7, <2>1 DEF SweepOK
  <2>7. \A u \in p.sweeps : Is(u, "sweep", w)'
    BY <1>5, <2>1 DEF SweepOK
  <2>8. QED
    BY <1>1, <2>3, <2>4, <2>5, <2>6, <2>7 DEF SweepOK
<1>13. ChecksOK(p, w)'
  <2>1. ChecksOK(p, w)
    BY <1>2 DEF OpenOK
  <2>2. QED
    BY <1>1, <1>3, <1>10, <2>1 DEF ChecksOK
<1>14. QED
  BY <1>11, <1>12, <1>13 DEF OpenOK, p, w

(* The funding arrives before any sweep of the wallet is signed. *)
LEMMA FundingKeepsOpen ==
    ASSUME PurchaseAssumption, IInv, WInv, Open, NEW t \in DOMAIN txs, InFlight(t), Finalised(t), lags' = lags,
           txs[t].wallet = Record.wallet, txs[t].kind = "fund", tok' = tok
    PROVE  OpenOK(Record, Record.wallet)'
<1> DEFINE p == Record
           w == Record.wallet
<1>1. /\ p' = p /\ w' = w /\ pc' = pc
  BY DEF Finalised, Record, Now, Pending
<1>2. /\ OpenOK(p, w) /\ w # NoWallet
      /\ p.sweep # NoTx => Is(p.sweep, "sweep", w)
      /\ t = p.funding /\ t # NoTx
  BY OpenWallet, InFlightIsOpen, Transactions DEF WInv, IInv, RecordOK, Open
<1>3. txs[t].wallet = w /\ tok'[w] = tok[w] /\ txs[t].kind = "fund"
  OBVIOUS
<1> HIDE DEF p, w
<1>4. /\ DOMAIN txs' = DOMAIN txs /\ Len(txs') = Len(txs)
      /\ \A u \in DOMAIN txs : /\ u # t => txs'[u] = txs[u]
                               /\ txs'[u].kind = txs[u].kind /\ txs'[u].wallet = txs[u].wallet
  BY DEF Finalised
<1>5. /\ \A u, k : Is(u, k, w)' = Is(u, k, w)
      /\ \A u, k : Is(u, k, w) /\ k # "fund" => txs'[u] = txs[u]
      /\ Swaps(w)' = Swaps(w) /\ ~Untouched(w)
  BY <1>1, <1>3, <1>4 DEF Is, Swaps, Untouched
<1>6. \A u : Delivers(u, w)' = Delivers(u, w)
  BY <1>1, <1>5 DEF Delivers
<1>7. HasDelivered(w)' = HasDelivered(w)
  BY <1>1, <1>4, <1>6 DEF HasDelivered
<1>8. ~Pays(p.sweep) /\ Outcome(p.sweep) \notin {"sent", "landed"}
  <2>1. SweepOK(p, w) /\ Outcome(p.funding) = "sent"
    BY <1>2 DEF OpenOK, Outcome, InFlight
  <2>2. QED
    BY <2>1 DEF SweepOK, Outcome, Pays
<1>9. ~Pays(p.sweep)' /\ Outcome(p.sweep)' \notin {"sent", "landed"}
  BY <1>1, <1>2, <1>5, <1>8 DEF Pays, Outcome
<1>10. SwapOK(p, w)'
  <2>1. SwapOK(p, w)
    BY <1>2 DEF OpenOK
  <2>2. \A u \in Swaps(w) : txs'[u] = txs[u]
    BY <1>5 DEF Swaps
  <2>3. p.swap # NoTx => txs'[p.swap] = txs[p.swap]
    BY <1>5, <2>1 DEF SwapOK
  <2>4. QED
    BY <1>1, <1>3, <1>4, <1>5, <1>7, <1>8, <2>1, <2>2, <2>3 DEF SwapOK
<1>11. SweepOK(p, w)'
  <2>1. SweepOK(p, w)
    BY <1>2 DEF OpenOK
  <2>2. QED
    BY <1>1, <1>4, <1>5, <1>9, <2>1 DEF SweepOK
<1>12. ChecksOK(p, w)'
  <2>1. ChecksOK(p, w)
    BY <1>2 DEF OpenOK
  <2>2. QED
    BY <1>1, <1>3, <1>9, <2>1 DEF ChecksOK
<1>13. QED
  BY <1>10, <1>11, <1>12 DEF OpenOK, p, w

(* The one swap lands, with or without an output in the wallet. *)
LEMMA SwapKeepsOpen ==
    ASSUME PurchaseAssumption, NothingLost, IInv, WInv, Open,
           NEW t \in DOMAIN txs, InFlight(t), Finalised(t), lags' = lags,
           txs[t].wallet = Record.wallet, txs[t].kind = "swap",
           txs'[t].status = "landed", txs'[t].tokens \in {0, 1},
           tok'[Record.wallet] = tok[Record.wallet] + txs'[t].tokens,
           sol[Record.wallet] > 0, sol'[Record.wallet] \in Nat, sol'[Record.wallet] <= sol[Record.wallet]
    PROVE  OpenOK(Record, Record.wallet)'
<1> DEFINE p == Record
           w == Record.wallet
           d == txs'[t].tokens
<1>1. /\ p' = p /\ w' = w /\ pc' = pc
  BY DEF Finalised, Record, Now, Pending
<1>2. /\ OpenOK(p, w) /\ w # NoWallet /\ w \in Wallets
      /\ p.sweep # NoTx => Is(p.sweep, "sweep", w)
      /\ p.funding # NoTx => Is(p.funding, "fund", w)
      /\ p.checks \in Nat /\ p \in PurchaseRecord
  BY OpenWallet DEF WInv, IInv, RecordOK, Open, PurchaseRecord
<1>3. /\ txs[t].wallet = w /\ tok'[w] = tok[w] + d /\ txs[t].kind = "swap" /\ d \in {0, 1}
      /\ sol[w] > 0 /\ sol'[w] \in Nat /\ sol'[w] <= sol[w] /\ sol[w] \in Nat /\ tok[w] \in Nat /\ lags \in Nat
  BY <1>2 DEF IInv, Types
<1> HIDE DEF p, w
<1>4. /\ DOMAIN txs' = DOMAIN txs /\ Len(txs') = Len(txs)
      /\ \A u \in DOMAIN txs : /\ u # t => txs'[u] = txs[u]
                               /\ txs'[u].kind = txs[u].kind /\ txs'[u].wallet = txs[u].wallet
  BY DEF Finalised
<1>5. /\ \A u, k : Is(u, k, w)' = Is(u, k, w)
      /\ \A u, k : Is(u, k, w) /\ k # "swap" => txs'[u] = txs[u]
      /\ Swaps(w)' = Swaps(w) /\ ~Untouched(w) /\ t \in Swaps(w)
  BY <1>1, <1>3, <1>4 DEF Is, Swaps, Untouched
<1>6. \A u \in Swaps(w) : u = t
  BY <1>3 DEF WInv, OneSwap, Swaps, Is
<1>7. ~HasDelivered(w) /\ \A u \in Swaps(w) : txs[u].status # "landed"
  BY <1>6 DEF HasDelivered, Delivers, Swaps, InFlight
<1>8. (HasDelivered(w)' <=> d > 0) /\ (d > 0 => HasDelivered(w)')
  <2>1. Is(t, "swap", w)' /\ txs'[t].status = "landed"
    BY <1>3, <1>5 DEF Swaps
  <2>2. d > 0 => HasDelivered(w)'
    BY <1>1, <1>4, <2>1 DEF HasDelivered, Delivers
  <2>3. \A u : Is(u, "swap", w)' => u = t
    BY <1>5, <1>6 DEF Swaps, Is
  <2>4. HasDelivered(w)' => d > 0
    BY <1>1, <2>3 DEF HasDelivered, Delivers
  <2>5. QED
    BY <2>2, <2>4
<1> HIDE DEF d
<1>9. SwapOK(p, w)
  BY <1>2 DEF OpenOK
<1>10. tok[w] = 0 /\ p.checks = 0 /\ p.swap = NoTx /\ ~p.reason /\ pc \notin {"signing", "funding"}
  <2>1. \A u : Is(u, "swap", w) => u \in Swaps(w)
    BY DEF Swaps, Is
  <2>2. p.swap = NoTx
    BY <1>7, <1>9, <2>1 DEF SwapOK
  <2>3. ~p.reason /\ pc \notin {"signing", "funding"}
    BY <1>5, <1>9 DEF SwapOK
  <2>4. ~(tok[w] > 0) /\ ~(p.checks > 0)
    BY <1>7, <1>9 DEF SwapOK
  <2>5. QED
    BY <1>2, <1>3, <2>2, <2>3, <2>4
<1>11. /\ Outcome(p.sweep)' = Outcome(p.sweep) /\ Outcome(p.funding)' = Outcome(p.funding)
       /\ Pays(p.sweep)' = Pays(p.sweep)
       /\ p.sweep # NoTx => txs'[p.sweep] = txs[p.sweep]
  BY <1>1, <1>2, <1>5 DEF Outcome, Pays
<1>12. SweepOK(p, w)
  BY <1>2 DEF OpenOK
<1>13. Outcome(p.sweep) # "landed" /\ tok'[w] = d
  BY <1>3, <1>10, <1>12 DEF SweepOK
<1>14. SwapOK(p, w)'
  BY <1>1, <1>3, <1>4, <1>5, <1>8, <1>9, <1>10, <1>13 DEF SwapOK
<1>15. SweepOK(p, w)'
  <2>1. Pays(p.sweep)' => Outcome(p.funding)' # "sent" /\ ~(txs'[p.sweep].tokens > 0)
    <3>1. Pays(p.sweep) => p.sweep # NoTx
      BY DEF Pays
    <3>2. QED
      BY <1>7, <1>11, <1>12, <3>1 DEF SweepOK
  <2>2. Outcome(p.sweep)' = "sent" => txs'[p.sweep].lamports >= sol'[w]
    <3>1. ASSUME Outcome(p.sweep) = "sent"
          PROVE  txs'[p.sweep].lamports >= sol'[w]
      <4>1. p.sweep # NoTx
        BY <3>1 DEF Outcome
      <4>2. txs[p.sweep].lamports \in Nat /\ txs[p.sweep].lamports >= sol[w]
        BY <1>2, <1>12, <3>1, <4>1, Transactions DEF SweepOK, Is, IInv
      <4>3. QED
        BY <1>3, <1>11, <4>1, <4>2
    <3>2. QED
      BY <1>11, <3>1
  <2>3. \A u \in DOMAIN txs' : Is(u, "sweep", w)' /\ txs'[u].status = "landed" => u = p.sweep \/ u \in p.sweeps
    BY <1>4, <1>5, <1>12 DEF SweepOK
  <2>4. \A u \in p.sweeps : Is(u, "sweep", w)'
    BY <1>5, <1>12 DEF SweepOK
  <2>5. QED
    BY <1>1, <1>11, <1>13, <2>1, <2>2, <2>3, <2>4 DEF SweepOK
<1>16. ChecksOK(p, w)'
  <2>1. ChecksOK(p, w)
    BY <1>2 DEF OpenOK
  <2>2. pc # "readTokens"
    BY <1>10, <2>1 DEF ChecksOK
  <2>3. QED
    BY <1>1, <1>3, <1>10, <2>2 DEF ChecksOK
<1>17. QED
  BY <1>14, <1>15, <1>16 DEF OpenOK, p, w

(* A sweep that lands leaves the wallet without SOL, and without the tokens it saw. *)
LEMMA SweepKeepsOpen ==
    ASSUME PurchaseAssumption, IInv, WInv, Open,
           NEW t \in DOMAIN txs, InFlight(t), Finalised(t), lags' = lags,
           txs[t].wallet = Record.wallet, txs[t].kind = "sweep",
           txs'[t].status = "landed", txs'[t].tokens = txs[t].tokens,
           sol[Record.wallet] >= txs[t].lamports, tok[Record.wallet] >= txs[t].tokens,
           sol'[Record.wallet] = sol[Record.wallet] - txs[t].lamports,
           tok'[Record.wallet] = tok[Record.wallet] - txs[t].tokens
    PROVE  OpenOK(Record, Record.wallet)'
<1> DEFINE p == Record
           w == Record.wallet
           k == txs[t].tokens
           l == txs[t].lamports
<1>1. /\ p' = p /\ w' = w /\ pc' = pc
  BY DEF Finalised, Record, Now, Pending
<1>2. /\ OpenOK(p, w) /\ w # NoWallet /\ w \in Wallets
      /\ p.funding # NoTx => Is(p.funding, "fund", w)
      /\ t = p.sweep /\ t # NoTx
  BY OpenWallet, InFlightIsOpen, Transactions DEF WInv, IInv, RecordOK, Open
<1>3. /\ txs[t].wallet = w /\ txs[t].kind = "sweep" /\ txs'[t].status = "landed" /\ txs'[t].tokens = k
      /\ sol[w] >= l /\ tok[w] >= k /\ sol'[w] = sol[w] - l /\ tok'[w] = tok[w] - k
      /\ sol[w] \in Nat /\ tok[w] \in Nat /\ k \in Nat /\ l \in Nat
  BY <1>2, Transactions DEF IInv, Types
<1>4. txs[t].tokens = k /\ txs[t].lamports = l
  OBVIOUS
<1> HIDE DEF p, w, k, l
<1>5. /\ DOMAIN txs' = DOMAIN txs /\ Len(txs') = Len(txs)
      /\ \A u \in DOMAIN txs : /\ u # t => txs'[u] = txs[u]
                               /\ txs'[u].kind = txs[u].kind /\ txs'[u].wallet = txs[u].wallet
  BY DEF Finalised
<1>6. /\ \A u, i : Is(u, i, w)' = Is(u, i, w)
      /\ \A u, i : Is(u, i, w) /\ i # "sweep" => txs'[u] = txs[u]
      /\ Swaps(w)' = Swaps(w) /\ ~Untouched(w)
  BY <1>1, <1>3, <1>5 DEF Is, Swaps, Untouched
<1>7. \A u : Delivers(u, w)' = Delivers(u, w)
  BY <1>1, <1>6 DEF Delivers
<1>8. HasDelivered(w)' = HasDelivered(w)
  BY <1>1, <1>5, <1>7 DEF HasDelivered
<1>9. SwapOK(p, w) /\ SweepOK(p, w) /\ ChecksOK(p, w)
  BY <1>2 DEF OpenOK
<1>10. Outcome(p.sweep) = "sent" /\ Pays(p.sweep)
  BY <1>2 DEF Outcome, Pays, InFlight
<1>11. l >= sol[w] /\ Outcome(p.funding) # "sent" /\ (k > 0 => HasDelivered(w))
  BY <1>2, <1>4, <1>9, <1>10 DEF SweepOK
<1>12. HasDelivered(w) => tok[w] = 1
  BY <1>9, <1>10 DEF SwapOK
<1>13. sol'[w] = 0 /\ tok'[w] \in Nat /\ tok'[w] <= tok[w] /\ (k > 0 => tok'[w] = 0)
  BY <1>3, <1>11, <1>12
<1>14. Outcome(p.sweep)' = "landed" /\ Outcome(p.funding)' # "sent" /\ txs'[p.sweep].tokens = k
  BY <1>1, <1>2, <1>3, <1>6, <1>11 DEF Outcome
<1>15. SwapOK(p, w)'
  <2>1. \A u \in Swaps(w) : txs'[u] = txs[u]
    BY <1>6 DEF Swaps
  <2>2. p.swap # NoTx => txs'[p.swap] = txs[p.swap]
    BY <1>6, <1>9 DEF SwapOK
  <2>3. tok'[w] <= 1 /\ (tok'[w] > 0 => HasDelivered(w)')
    BY <1>3, <1>8, <1>9, <1>13 DEF SwapOK
  <2>4. HasDelivered(w)' => tok'[w] = 1 \/ k > 0
    BY <1>3, <1>8, <1>12
  <2>5. QED
    BY <1>1, <1>5, <1>6, <1>9, <1>14, <2>1, <2>2, <2>3, <2>4 DEF SwapOK
<1>16. SweepOK(p, w)'
  <2>1. \A u \in DOMAIN txs' : Is(u, "sweep", w)' /\ txs'[u].status = "landed" => u = p.sweep \/ u \in p.sweeps
    BY <1>2, <1>5, <1>6, <1>9 DEF SweepOK
  <2>2. \A u \in p.sweeps : Is(u, "sweep", w)'
    BY <1>6, <1>9 DEF SweepOK
  <2>3. QED
    BY <1>1, <1>8, <1>11, <1>13, <1>14, <2>1, <2>2 DEF SweepOK
<1>17. ChecksOK(p, w)'
  <2>1. pc # "readTokens"
    BY <1>10 DEF IInv, StepsOK, Reading, p
  <2>2. tok'[w] > 0 => tok[w] > 0
    BY <1>3, <1>13
  <2>3. tok'[w] > 0 /\ pc = "readNone" => p.checks <= lags
    BY <1>9, <2>2 DEF ChecksOK
  <2>4. tok'[w] > 0 /\ k = 0 => p.checks <= lags
    BY <1>2, <1>4, <1>9, <1>10, <2>2 DEF ChecksOK
  <2>5. tok'[w] > 0 => p.checks <= lags + 1
    BY <1>9, <2>2 DEF ChecksOK
  <2>6. QED
    BY <1>1, <1>14, <2>1, <2>3, <2>4, <2>5 DEF ChecksOK
<1>18. QED
  BY <1>15, <1>16, <1>17 DEF OpenOK, p, w

(* Whatever becomes of a transaction. *)
LEMMA ChainKeepsWallets ==
    ASSUME PurchaseAssumption, NothingLost, IInv, WInv, NEW t \in DOMAIN txs,
           LandFunding(t) \/ LandSwap(t) \/ LandSweep(t) \/ Expire(t)
    PROVE  WInv'
<1> DEFINE v == txs[t].wallet
<1>1. Types' /\ Finalised(t) /\ InFlight(t)
  <2>1. InFlight(t)
    BY DEF LandFunding, LandSwap, LandSweep, Expire
  <2>2. QED
    BY <2>1, ChainTypes DEF IInv
<1>2. v \in Wallets /\ txs[t].tokens \in Nat /\ txs[t].lamports \in Nat
  BY Transactions DEF IInv
<1>3. /\ sol \in [Wallets -> Nat] /\ tok \in [Wallets -> Nat]
      /\ sol' \in [Wallets -> Nat] /\ tok' \in [Wallets -> Nat]
  BY <1>1 DEF IInv, Types
<1>4. txs \in Seq(Transaction) /\ {"landed", "failed", "expired"} \subseteq TxStatuses
  BY DEF IInv, Types, TxStatuses
<1>5. ASSUME NEW s \in {"landed", "failed", "expired"}, SetStatus(t, s)
      PROVE  txs'[t].status = s /\ txs'[t].tokens = txs[t].tokens
  <2>1. txs' = [txs EXCEPT ![t].status = s] /\ s \in TxStatuses
    BY <1>4, <1>5 DEF SetStatus
  <2>2. QED
    BY ONLY <1>4, <2>1, t \in DOMAIN txs, Resolved
<1>6. OnDisk(v) => Open /\ v = Record.wallet
  BY <1>2, OpenWallet DEF IInv
<1> HIDE DEF v
<1>7. ASSUME txs'[t].status \in {"failed", "expired"}, tok' = tok, lags' = lags,
             sol'[v] <= sol[v], OnDisk(v) \/ sol'[v] = sol[v],
             \A y \in Wallets \ {v} : sol'[y] = sol[y]
      PROVE  WInv'
  <2>1. ASSUME Open, v = Record.wallet
        PROVE  OpenOK(Record, Record.wallet)'
    BY <1>1, <1>3, <1>7, <2>1, FailedKeepsOpen DEF v
  <2>2. QED
    BY <1>1, <1>7, <2>1, ChainFrame DEF v
<1>8. CASE LandFunding(t)
  <2>1. /\ SetStatus(t, "landed") /\ txs[t].kind = "fund" /\ tok' = tok /\ lags' = lags
        /\ sol' = [sol EXCEPT ![v] = @ + Funding]
    BY <1>8 DEF LandFunding, history, v
  <2>2. \A y \in Wallets \ {v} : sol'[y] = sol[y]
    BY <1>3, <2>1
  <2>3. OnDisk(v)
    BY <1>1, <2>1, InFlightIsOpen DEF v
  <2>4. ASSUME Open, v = Record.wallet
        PROVE  OpenOK(Record, Record.wallet)'
    BY <1>1, <2>1, <2>4, FundingKeepsOpen DEF v
  <2>5. QED
    BY <1>1, <2>1, <2>2, <2>3, <2>4, ChainFrame DEF v
<1>9. CASE LandSwap(t)
  <2>1. lags' = lags /\ txs[t].kind = "swap"
    BY <1>9 DEF LandSwap, history
  <2>2. ASSUME sol[v] > 0
        PROVE  OnDisk(v)
    BY <1>2, <2>2 DEF WInv, DroppedEmpty, v
  <2>3. disk.budget \in Nat
    BY DEF IInv, Types, SavedState
  <2>4. CASE /\ sol[v] >= disk.budget + Fee
             /\ \E delivered \in {0, 1} :
                   /\ txs' = [txs EXCEPT ![t] = [@ EXCEPT !.status = "landed", !.tokens = delivered]]
                   /\ tok' = [tok EXCEPT ![v] = @ + delivered]
             /\ sol' = [sol EXCEPT ![v] = @ - disk.budget - Fee]
    <3>1. PICK d \in {0, 1} :
                   /\ txs' = [txs EXCEPT ![t] = [@ EXCEPT !.status = "landed", !.tokens = d]]
                   /\ tok' = [tok EXCEPT ![v] = @ + d]
      BY <2>4
    <3>2. txs'[t].status = "landed" /\ txs'[t].tokens = d
      <4> DEFINE x == [txs[t] EXCEPT !.status = "landed", !.tokens = d]
      <4>1. txs[t] \in Transaction
        BY <1>4
      <4>2. x.status = "landed" /\ x.tokens = d
        BY <4>1 DEF Transaction
      <4>3. txs' = [txs EXCEPT ![t] = x]
        BY <3>1
      <4> HIDE DEF x
      <4>4. txs'[t] = x
        BY <1>4, <4>3
      <4>5. QED
        BY <4>2, <4>4
    <3>3. /\ \A y \in Wallets \ {v} : sol'[y] = sol[y] /\ tok'[y] = tok[y]
          /\ tok'[v] = tok[v] + d /\ sol'[v] = sol[v] - disk.budget - Fee
      BY <1>2, <1>3, <2>4, <3>1 DEF v
    <3>4. sol[v] > 0 /\ sol'[v] \in Nat /\ sol'[v] <= sol[v]
      BY <1>2, <1>3, <2>3, <2>4, <3>3 DEF v, Fee
    <3>5. ASSUME Open, v = Record.wallet
          PROVE  OpenOK(Record, Record.wallet)'
      BY <1>1, <2>1, <3>2, <3>3, <3>4, <3>5, SwapKeepsOpen DEF v
    <3>6. QED
      BY <1>1, <2>1, <2>2, <3>3, <3>4, <3>5, ChainFrame DEF v
  <2>5. CASE /\ sol[v] >= Fee
             /\ SetStatus(t, "failed")
             /\ sol' = [sol EXCEPT ![v] = @ - Fee]
             /\ UNCHANGED tok
    <3>1. /\ \A y \in Wallets \ {v} : sol'[y] = sol[y]
          /\ sol'[v] <= sol[v] /\ sol[v] > 0
      BY <1>2, <1>3, <2>5 DEF Fee, v
    <3>2. QED
      BY <1>5, <1>7, <2>1, <2>2, <2>5, <3>1
  <2>6. QED
    BY <1>9, <2>4, <2>5 DEF LandSwap, v
<1>10. CASE LandSweep(t)
  <2>1. lags' = lags /\ txs[t].kind = "sweep"
    BY <1>10 DEF LandSweep, history
  <2>2. OnDisk(v)
    BY <1>1, <2>1, InFlightIsOpen DEF v
  <2>3. CASE tok[v] >= txs[t].tokens /\ sol[v] >= txs[t].lamports
    <3>1. /\ SetStatus(t, "landed")
          /\ sol' = [sol EXCEPT ![v] = @ - txs[t].lamports]
          /\ tok' = [tok EXCEPT ![v] = @ - txs[t].tokens]
      BY <1>10, <2>3 DEF LandSweep, v
    <3>2. /\ \A y \in Wallets \ {v} : sol'[y] = sol[y] /\ tok'[y] = tok[y]
          /\ sol'[v] = sol[v] - txs[t].lamports /\ tok'[v] = tok[v] - txs[t].tokens
      BY <1>2, <1>3, <3>1 DEF v
    <3>3. txs'[t].status = "landed" /\ txs'[t].tokens = txs[t].tokens
      BY <1>5, <3>1
    <3>4. ASSUME Open, v = Record.wallet
          PROVE  OpenOK(Record, Record.wallet)'
      BY <1>1, <2>1, <2>3, <3>2, <3>3, <3>4, SweepKeepsOpen DEF v
    <3>5. QED
      BY <1>1, <2>1, <2>2, <3>2, <3>4, ChainFrame DEF v
  <2>4. CASE ~ (tok[v] >= txs[t].tokens /\ sol[v] >= txs[t].lamports)
    <3>1. SetStatus(t, "failed") /\ sol' = sol /\ tok' = tok
      BY <1>10, <2>4 DEF LandSweep, v
    <3>2. sol'[v] <= sol[v]
      BY <1>2, <1>3, <3>1 DEF v
    <3>3. QED
      BY <1>5, <1>7, <2>1, <2>2, <3>1, <3>2
  <2>5. QED
    BY <2>3, <2>4
<1>11. CASE Expire(t)
  <2>1. SetStatus(t, "expired") /\ sol' = sol /\ tok' = tok /\ lags' = lags
    BY <1>11 DEF Expire
  <2>2. sol'[v] <= sol[v]
    BY <1>2, <1>3, <2>1 DEF v
  <2>3. QED
    BY <1>5, <1>7, <2>1, <2>2
<1>12. QED
  BY <1>8, <1>9, <1>10, <1>11

(* A record that stays open is rewritten to q: the other wallets are as they were. *)
LEMMA OpenStepKeepsWallets ==
    ASSUME PurchaseAssumption, IInv, IInv', WInv, AtWork, OnlySigned, NEW q, Rewrites(q),
           lags' \in Nat, lags' <= MaxLags,
           q.status = Record.status, q.attempts = Record.attempts,
           q.wallet = <<Now, Record.attempts>>, q.wallet \in Wallets,
           \A t \in DOMAIN txs' \ DOMAIN txs :
               /\ txs'[t].wallet = q.wallet /\ txs'[t].status = "sent" /\ t = Len(txs) + 1
               /\ txs'[t].kind = "swap" => Swaps(q.wallet) = {},
           OpenOK(q, q.wallet)'
    PROVE  WInv'
<1>1. /\ Pending(disk) # {} /\ Now \in Coins /\ Record.status = "pending"
      /\ Record.wallet # NoWallet => Record.wallet = q.wallet
  BY AtHand
<1>2. /\ disk.purchases \in [Coins -> PurchaseRecord] /\ DOMAIN disk.purchases = Coins
      /\ Types /\ RecordsOK /\ (Types /\ RecordsOK)'
  BY <1>1, NextCoin DEF IInv
<1>3. /\ disk'.purchases = [disk.purchases EXCEPT ![Now] = q] /\ sol' = sol /\ tok' = tok
  BY DEF Rewrites, Rewritten
<1>4. /\ DOMAIN disk'.purchases = Coins /\ disk'.purchases[Now] = q
      /\ \A c \in Coins \ {Now} : disk'.purchases[c] = disk.purchases[c]
  BY <1>1, <1>2, <1>3
<1>5. q.wallet # NoWallet /\ q.wallet[1] = Now /\ q.wallet[2] = Record.attempts
  BY WalletParts
<1>6. /\ Pending(disk') = Pending(disk) /\ Now' = Now /\ Record' = q
  <2>1. Pending(disk') = Pending(disk)
    BY <1>1, <1>2, <1>4 DEF Pending, Record
  <2>2. QED
    BY <1>4, <2>1 DEF Now, Record
<1>7. ASSUME NEW w \in Wallets
      PROVE  OnDisk(w)' <=> w = q.wallet
  BY <1>1, <1>2, <1>5, <1>6, OpenWalletNext DEF Open
<1>8. ASSUME NEW w \in Wallets, w # q.wallet
      PROVE  ~OnDisk(w)
  BY <1>1, <1>2, <1>8, OpenWallet DEF Open
<1>9. /\ DOMAIN txs \subseteq DOMAIN txs' /\ \A y \in DOMAIN txs : txs'[y] = txs[y]
  BY DEF OnlySigned
<1>10. \A t, w : Delivers(t, w)' <=> Delivers(t, w)
  BY <1>9 DEF Delivers, Is
<1>11. UnusedUntouched'
  <2>1. ASSUME NEW w \in Wallets, Unused(w)'
        PROVE  Untouched(w)'
    <3>1. Unused(w) /\ w # q.wallet
      <4>1. CASE w[1] = Now
        <5>1. w[2] > q.attempts
          BY <1>1, <1>4, <1>5, <2>1, <4>1 DEF Unused
        <5>2. w # q.wallet
          BY <1>5, <5>1, WalletParts
        <5>3. QED
          BY <4>1, <5>1, <5>2 DEF Unused, Record
      <4>2. CASE w[1] # Now
        BY <1>2, <1>4, <1>5, <2>1, <4>2 DEF Unused
      <4>3. QED
        BY <4>1, <4>2
    <3>2. Untouched(w)
      BY <3>1 DEF WInv, UnusedUntouched
    <3>3. QED
      BY <1>3, <1>9, <3>1, <3>2 DEF Untouched
  <2>2. QED
    BY <2>1 DEF UnusedUntouched
<1>12. DroppedEmpty'
  BY <1>3, <1>7, <1>8 DEF WInv, DroppedEmpty
<1>13. OneSwap'
  <2>1. ASSUME NEW t \in DOMAIN txs', NEW u \in DOMAIN txs', t \notin DOMAIN txs,
               txs'[t].kind = "swap", txs'[u].kind = "swap", txs'[t].wallet = txs'[u].wallet
        PROVE  t = u
    <3>1. Swaps(q.wallet) = {} /\ txs'[u].wallet = q.wallet
      BY <2>1
    <3>2. u \notin DOMAIN txs
      BY <1>9, <2>1, <3>1 DEF Swaps, Is
    <3>3. QED
      BY <2>1, <3>2
  <2>2. QED
    BY <1>9, <2>1 DEF WInv, OneSwap
<1>14. DroppedDelivered'
  <2>1. ASSUME NEW w \in Wallets, NEW t \in DOMAIN txs', ~OnDisk(w)', Delivers(t, w)'
        PROVE  w[1] \in DOMAIN disk'.purchases /\ disk'.purchases[w[1]].status = "bought"
               /\ t = disk'.purchases[w[1]].swap
    <3>1. ~OnDisk(w) /\ Delivers(t, w) /\ t \in DOMAIN txs
      BY <1>7, <1>8, <1>10, <2>1 DEF Delivers, Is
    <3>2. w[1] \in DOMAIN disk.purchases /\ disk.purchases[w[1]].status = "bought"
          /\ t = disk.purchases[w[1]].swap
      BY <3>1 DEF WInv, DroppedDelivered
    <3>3. w[1] # Now
      BY <1>1, <3>2 DEF Record
    <3>4. QED
      BY <1>2, <1>4, <3>2, <3>3
  <2>2. QED
    BY <2>1 DEF DroppedDelivered
<1>15. BoughtDelivered'
  <2>1. ASSUME NEW c \in DOMAIN disk'.purchases, disk'.purchases[c].status = "bought"
        PROVE  \E w \in Wallets : w[1] = c /\ Delivers(disk.purchases[c].swap, w)'
    <3>1. c # Now /\ c \in DOMAIN disk.purchases /\ disk'.purchases[c] = disk.purchases[c]
      BY <1>1, <1>2, <1>4, <2>1
    <3>2. \E w \in Wallets : w[1] = c /\ Delivers(disk.purchases[c].swap, w)
      BY <2>1, <3>1 DEF WInv, BoughtDelivered
    <3>3. QED
      BY <1>10, <3>1, <3>2
  <2>2. QED
    BY <2>1 DEF BoughtDelivered
<1>16. ClosedSwaps'
  BY <1>2, <1>4, <1>5 DEF WInv, ClosedSwaps
<1>17. QED
  BY <1>6, <1>11, <1>12, <1>13, <1>14, <1>15, <1>16 DEF WInv

(* The steps of one attempt, from the key to the sweep. *)
LEMMA RecordStepsKeepWallets ==
    ASSUME PurchaseAssumption, NothingLost, IInv, IInv', WInv,
           \/ NewSwapWallet \/ FundWallet \/ QuoteRefused \/ SendSwap \/ SwapAnswered \/ SignSweep
    PROVE  WInv'
<1>1. ASSUME txs' = txs
      PROVE  OnlySigned /\ DOMAIN txs' \ DOMAIN txs = {}
  BY <1>1 DEF OnlySigned, IInv, Types
<1>2. AtWork => /\ RecordOK(Now, Record) /\ Record.status = "pending" /\ Now \in DOMAIN disk.purchases
                /\ Pending(disk) # {} /\ Record \in PurchaseRecord
                /\ pc # "idle" => /\ Record.wallet = <<Now, Record.attempts>> /\ Record.wallet \in Wallets
                                  /\ Open
  BY AtHand DEF Open
<1>3. lags \in Nat /\ lags <= MaxLags /\ MaxLags \in Nat
  BY DEF IInv, Types, WInv, PurchaseAssumption
<1>4. AtWork /\ pc # "idle" => /\ SwapOK(Record, Record.wallet) /\ SweepOK(Record, Record.wallet)
                               /\ ChecksOK(Record, Record.wallet)
  BY <1>2 DEF WInv, OpenOK
<1>5. \A u, k, w : OnlySigned /\ Is(u, k, w) => Is(u, k, w)' /\ txs'[u] = txs[u] /\ u # NoTx
  BY DEF OnlySigned, Is, IInv, Types, NoTx
<1>6. ASSUME NEW w, OnlySigned,
             \A t \in DOMAIN txs' \ DOMAIN txs : txs'[t].status = "sent"
      PROVE  HasDelivered(w)' = HasDelivered(w)
  BY <1>6 DEF HasDelivered, Delivers, Is, OnlySigned
<1>7. CASE NewSwapWallet
  <2>1. /\ AtWork /\ pc = "idle" /\ Record.wallet = NoWallet
        /\ <<Now, Record.attempts>> \in Wallets
        /\ txs' = txs /\ lags' = lags /\ pc' = "signing"
    BY <1>7, NewSwapWalletDoes
  <2>2. PICK q : /\ Rewrites(q)
                 /\ q.wallet = <<Now, Record.attempts>>
                 /\ q.reason = FALSE /\ q.sweeps = {} /\ q.checks = 0
                 /\ q.status = Record.status /\ q.funding = Record.funding
                 /\ q.sweep = Record.sweep /\ q.swap = Record.swap
                 /\ q.attempts = Record.attempts
    BY <1>7, NewSwapWalletDoes
  <2> DEFINE w == q.wallet
  <2>3. w \in Wallets /\ w[1] = Now /\ w[2] = Record.attempts
    BY <2>1, <2>2
  <2>4. q.sweep = NoTx /\ q.funding = NoTx /\ q.swap = NoTx
    <3>1. Record.sweep = NoTx /\ Record.funding = NoTx
      BY <1>2, <2>1 DEF RecordOK
    <3>2. Record.swap = NoTx
      BY <1>2, <2>1 DEF WInv, ClosedSwaps, Record
    <3>3. QED
      BY <2>2, <3>1, <3>2
  <2>5. Untouched(w)
    BY <1>2, <2>1, <2>3 DEF WInv, UnusedUntouched, Unused, Record
  <2>6. sol' = sol /\ tok' = tok /\ txs' = txs
    BY <2>1, <2>2 DEF Rewrites
  <2>7. Untouched(w)' /\ Swaps(w)' = {} /\ ~HasDelivered(w)'
    BY <2>5, <2>6 DEF Untouched, Swaps, HasDelivered, Delivers, Is
  <2>8. SwapOK(q, w)'
    BY <2>1, <2>2, <2>4, <2>7 DEF SwapOK, Untouched
  <2>9. SweepOK(q, w)'
    BY <2>2, <2>4, <2>7 DEF SweepOK, Outcome, Pays, Untouched, Is
  <2>10. ChecksOK(q, w)'
    BY <2>1, <2>7 DEF ChecksOK, Untouched
  <2>11. OpenOK(q, w)'
    BY <2>8, <2>9, <2>10 DEF OpenOK
  <2> HIDE DEF w
  <2>12. QED
    BY <1>1, <1>3, <2>1, <2>2, <2>3, <2>11, OpenStepKeepsWallets DEF w
<1>8. CASE FundWallet
  <2>1. /\ AtWork /\ pc = "signing"
        /\ Signs("fund", 0, Funding) /\ OnlySigned /\ lags' = lags /\ pc' = "funding"
    BY <1>8, FundWalletDoes
  <2>2. PICK q : /\ Rewrites(q)
                 /\ q.funding = Len(txs) + 1
                 /\ q.wallet = Record.wallet /\ q.reason = Record.reason
                 /\ q.sweeps = Record.sweeps /\ q.checks = Record.checks
                 /\ q.status = Record.status /\ q.sweep = Record.sweep
                 /\ q.swap = Record.swap /\ q.attempts = Record.attempts
    BY <1>8, FundWalletDoes
  <2> DEFINE w == q.wallet
  <2>3. w = Record.wallet /\ w \in Wallets /\ w = <<Now, Record.attempts>>
    BY <1>2, <2>1, <2>2
  <2>4. q.sweep = NoTx
    BY <2>1, <2>2 DEF IInv, StepsOK
  <2>5. SwapOK(Record, w) /\ SweepOK(Record, w) /\ ChecksOK(Record, w)
    BY <1>4, <2>1, <2>3
  <2> HIDE DEF w
  <2>6. Untouched(w) /\ ~q.reason
    BY <2>1, <2>2, <2>5 DEF SwapOK
  <2>7. sol' = sol /\ tok' = tok
    BY <2>2 DEF Rewrites
  <2>8. \A t \in DOMAIN txs' : txs'[t].wallet = w => t = Len(txs) + 1 /\ txs'[t].kind = "fund"
                                                       /\ txs'[t].status = "sent"
    BY <2>1, <2>6 DEF Untouched, Signs, Sent
  <2>9. Swaps(w)' = {} /\ ~HasDelivered(w)' /\ tok'[w] = 0
    BY <2>6, <2>7, <2>8 DEF Untouched, Swaps, HasDelivered, Delivers, Is
  <2>10. q.swap = NoTx /\ q.sweeps = {} /\ ~(q.checks > 0)
    BY <2>2, <2>5, <2>6 DEF SwapOK, SweepOK, Untouched, Is, Swaps
  <2>11. SwapOK(q, w)'
    BY <2>1, <2>6, <2>9, <2>10 DEF SwapOK
  <2>12. SweepOK(q, w)'
    BY <2>4, <2>8, <2>10 DEF SweepOK, Outcome, Pays, Is
  <2>13. ChecksOK(q, w)'
    BY <2>1, <2>9 DEF ChecksOK
  <2>14. OpenOK(q, q.wallet)'
    BY <2>11, <2>12, <2>13 DEF OpenOK, w
  <2>15. \A t \in DOMAIN txs' \ DOMAIN txs :
             /\ txs'[t].wallet = q.wallet /\ txs'[t].status = "sent" /\ t = Len(txs) + 1
             /\ txs'[t].kind = "fund"
    BY <2>1, <2>3 DEF Signs, Sent, w
  <2>16. QED
    BY <1>3, <2>1, <2>2, <2>3, <2>14, <2>15, OpenStepKeepsWallets DEF w
<1>9. CASE QuoteRefused
  <2>1. AtWork /\ pc = "funding" /\ txs' = txs /\ lags' = lags /\ pc' = "settling"
    BY <1>9, QuoteRefusedDoes
  <2>2. PICK q : /\ Rewrites(q)
                 /\ q.reason = TRUE
                 /\ q.wallet = Record.wallet /\ q.funding = Record.funding
                 /\ q.sweeps = Record.sweeps /\ q.checks = Record.checks
                 /\ q.status = Record.status /\ q.sweep = Record.sweep
                 /\ q.swap = Record.swap /\ q.attempts = Record.attempts
    BY <1>9, QuoteRefusedDoes
  <2> DEFINE w == q.wallet
  <2>3. w = Record.wallet /\ w \in Wallets /\ w = <<Now, Record.attempts>>
    BY <1>2, <2>1, <2>2
  <2>4. q.sweep = NoTx
    BY <2>1, <2>2 DEF IInv, StepsOK
  <2>5. SwapOK(Record, w) /\ SweepOK(Record, w) /\ ChecksOK(Record, w)
    BY <1>4, <2>1, <2>3
  <2> HIDE DEF w
  <2>6. OnlySigned /\ sol' = sol /\ tok' = tok /\ txs' = txs
    BY <1>1, <2>1, <2>2 DEF Rewrites
  <2>7. Swaps(w)' = Swaps(w) /\ HasDelivered(w)' = HasDelivered(w) /\ \A u, k : Is(u, k, w)' = Is(u, k, w)
    BY <2>6 DEF Swaps, HasDelivered, Delivers, Is
  <2>8. SwapOK(q, w)'
    BY <2>1, <2>2, <2>4, <2>5, <2>6, <2>7 DEF SwapOK, Outcome
  <2>9. SweepOK(q, w)'
    BY <2>1, <2>2, <2>4, <2>5, <2>6, <2>7 DEF SweepOK, Outcome, Pays
  <2>10. ChecksOK(q, w)'
    BY <2>1, <2>2, <2>4, <2>5, <2>6 DEF ChecksOK, Pays
  <2>11. OpenOK(q, q.wallet)'
    BY <2>8, <2>9, <2>10 DEF OpenOK, w
  <2>12. QED
    BY <1>1, <1>3, <2>1, <2>2, <2>3, <2>11, OpenStepKeepsWallets DEF w
<1>10. CASE SendSwap
  <2>1. /\ AtWork /\ pc = "funding" /\ Signs("swap", 0, 0) /\ OnlySigned /\ lags' = lags
        /\ pc' = "swapping" /\ Rewrites(Record)
    BY <1>10, SendSwapDoes
  <2>2. PICK q : q = Record
    OBVIOUS
  <2> DEFINE w == q.wallet
  <2>3. w = Record.wallet /\ w \in Wallets /\ w = <<Now, Record.attempts>>
    BY <1>2, <2>1, <2>2
  <2>4. q.sweep = NoTx /\ Rewrites(q)
    BY <2>1, <2>2 DEF IInv, StepsOK
  <2>5. SwapOK(q, w) /\ SweepOK(q, w) /\ ChecksOK(q, w)
    BY <1>4, <2>1, <2>2, <2>3
  <2> HIDE DEF w
  <2>6. sol' = sol /\ tok' = tok
    BY <2>4 DEF Rewrites
  <2>7. \A t \in DOMAIN txs' \ DOMAIN txs :
             /\ txs'[t].wallet = w /\ txs'[t].status = "sent" /\ t = Len(txs) + 1
             /\ txs'[t].kind = "swap"
    BY <2>1, <2>3 DEF Signs, Sent
  <2>8. Swaps(w) = {} /\ ~q.reason
    BY <2>1, <2>5 DEF SwapOK
  <2>9. HasDelivered(w)' = HasDelivered(w)
    BY <1>6, <2>1, <2>7
  <2>10. Is(Len(txs), "swap", w)'
    BY <2>1, <2>3 DEF Signs, Sent, Is
  <2>11. SwapOK(q, w)'
    BY <1>5, <2>1, <2>4, <2>5, <2>6, <2>8, <2>9, <2>10 DEF SwapOK, Outcome, Swaps
  <2>12. SweepOK(q, w)'
    <3>1. \A t \in DOMAIN txs' : Is(t, "sweep", w)' /\ txs'[t].status = "landed"
                                  => Is(t, "sweep", w) /\ t \in DOMAIN txs /\ txs[t].status = "landed"
      BY <2>1, <2>7 DEF Is, OnlySigned
    <3>2. QED
      BY <1>5, <2>1, <2>4, <2>5, <3>1 DEF SweepOK, Outcome, Pays
  <2>13. ChecksOK(q, w)'
    BY <2>1, <2>4, <2>5, <2>6 DEF ChecksOK, Pays
  <2>14. OpenOK(q, q.wallet)'
    BY <2>11, <2>12, <2>13 DEF OpenOK, w
  <2>15. QED
    BY <1>3, <2>1, <2>2, <2>3, <2>4, <2>7, <2>8, <2>14, OpenStepKeepsWallets DEF w
<1>11. CASE SwapAnswered
  <2>1. /\ AtWork /\ pc = "swapping" /\ txs' = txs /\ lags' = lags /\ pc' = "settling"
        /\ txs[Len(txs)].status = "landed"
    BY <1>11, SwapAnsweredDoes
  <2>2. PICK q : /\ Rewrites(q)
                 /\ q.swap = Len(txs)
                 /\ q.wallet = Record.wallet /\ q.funding = Record.funding
                 /\ q.sweeps = Record.sweeps /\ q.checks = Record.checks
                 /\ q.status = Record.status /\ q.sweep = Record.sweep
                 /\ q.reason = Record.reason /\ q.attempts = Record.attempts
    BY <1>11, SwapAnsweredDoes
  <2> DEFINE w == q.wallet
  <2>3. w = Record.wallet /\ w \in Wallets /\ w = <<Now, Record.attempts>>
    BY <1>2, <2>1, <2>2
  <2>4. q.sweep = NoTx
    BY <2>1, <2>2 DEF IInv, StepsOK
  <2>5. SwapOK(Record, w) /\ SweepOK(Record, w) /\ ChecksOK(Record, w)
    BY <1>4, <2>1, <2>3
  <2> HIDE DEF w
  <2>6. sol' = sol /\ tok' = tok /\ txs' = txs
    BY <2>1, <2>2 DEF Rewrites
  <2>7. Swaps(w)' = Swaps(w) /\ HasDelivered(w)' = HasDelivered(w) /\ \A u, k : Is(u, k, w)' = Is(u, k, w)
    BY <2>6 DEF Swaps, HasDelivered, Delivers, Is
  <2>8. Is(q.swap, "swap", w)' /\ txs'[q.swap].status = "landed"
    BY <2>1, <2>2, <2>5, <2>6, <2>7 DEF SwapOK
  <2>9. SwapOK(q, w)'
    BY <2>1, <2>2, <2>4, <2>5, <2>6, <2>7, <2>8 DEF SwapOK, Outcome
  <2>10. SweepOK(q, w)'
    BY <2>1, <2>2, <2>4, <2>5, <2>6, <2>7 DEF SweepOK, Outcome, Pays
  <2>11. ChecksOK(q, w)'
    BY <2>1, <2>2, <2>4, <2>5, <2>6 DEF ChecksOK, Pays
  <2>12. OpenOK(q, q.wallet)'
    BY <2>9, <2>10, <2>11 DEF OpenOK, w
  <2>13. QED
    BY <1>1, <1>3, <2>1, <2>2, <2>3, <2>12, OpenStepKeepsWallets DEF w
<1>12. CASE SignSweep
  <2>1. /\ AtWork /\ pc \in Reading /\ lags' \in Nat /\ pc' = "sweeping" /\ OnlySigned
        /\ lags' = lags \/ (lags' = lags + 1 /\ lags < MaxLags)
    BY <1>12, SignSweepDoes
  <2>2. PICK k \in Nat, l \in Nat : /\ Signs("sweep", k, l)
                                    /\ k = IF pc = "readTokens" THEN tok[Record.wallet] ELSE 0
                                    /\ l = sol[Record.wallet]
    BY <1>12, SignSweepDoes DEF NothingLost
  <2>3. PICK q : /\ Rewrites(q)
                 /\ q.sweep = Len(txs) + 1
                 /\ q.wallet = Record.wallet /\ q.funding = Record.funding
                 /\ q.sweeps = Record.sweeps /\ q.checks = Record.checks
                 /\ q.status = Record.status /\ q.swap = Record.swap
                 /\ q.reason = Record.reason /\ q.attempts = Record.attempts
    BY <1>12, SignSweepDoes
  <2> DEFINE w == q.wallet
  <2>4. w = Record.wallet /\ w \in Wallets /\ w = <<Now, Record.attempts>> /\ pc # "idle"
    BY <1>2, <2>1, <2>3 DEF Reading
  <2>5. SwapOK(Record, w) /\ SweepOK(Record, w) /\ ChecksOK(Record, w)
    BY <1>4, <2>1, <2>4
  <2>6. k = (IF pc = "readTokens" THEN tok[w] ELSE 0) /\ l = sol[w] /\ tok[w] \in Nat /\ sol[w] \in Nat
    BY <2>2, <2>4 DEF IInv, Types
  <2>7. /\ Outcome(Record.sweep) \notin {"sent", "landed"} /\ Outcome(Record.funding) # "sent"
        /\ Record.funding # NoTx => Is(Record.funding, "fund", w)
    BY <1>2, <2>1, <2>4 DEF IInv, StepsOK, RecordOK
  <2>8. /\ txs'[q.sweep].tokens = k /\ txs'[q.sweep].lamports = l /\ txs'[q.sweep].status = "sent"
        /\ Is(q.sweep, "sweep", w)' /\ q.sweep # NoTx
    BY <2>2, <2>3, <2>4 DEF Signs, Sent, Is
  <2>9. \A t \in DOMAIN txs' \ DOMAIN txs :
             /\ txs'[t].wallet = w /\ txs'[t].status = "sent" /\ t = Len(txs) + 1
             /\ txs'[t].kind = "sweep"
    BY <2>2, <2>4 DEF Signs, Sent
  <2> HIDE DEF w
  <2>10. sol' = sol /\ tok' = tok /\ lags' >= lags /\ lags' <= MaxLags
    BY <1>3, <2>1, <2>3 DEF Rewrites
  <2>11. HasDelivered(w)' = HasDelivered(w)
    BY <1>6, <2>1, <2>9
  <2>12. Swaps(w)' = Swaps(w)
    BY <2>1, <2>9 DEF Swaps, Is, OnlySigned
  <2>13. HasDelivered(w) => tok[w] = 1
    BY <2>5, <2>7 DEF SwapOK
  <2>14. SwapOK(q, w)'
    <3>1. \A t \in Swaps(w) : txs'[t] = txs[t]
      BY <1>5, <2>1 DEF Swaps
    <3>2. q.swap # NoTx => Is(q.swap, "swap", w)' /\ txs'[q.swap].status = "landed"
      BY <1>5, <2>1, <2>3, <2>5 DEF SwapOK
    <3>3. pc \notin {"signing", "funding"} /\ pc' \notin {"signing", "funding", "swapping"}
      BY <2>1 DEF Reading
    <3>4. QED
      BY <2>3, <2>5, <2>10, <2>11, <2>12, <2>13, <3>1, <3>2, <3>3 DEF SwapOK
  <2>15. SweepOK(q, w)'
    <3>1. Outcome(q.funding)' # "sent"
      BY <1>5, <2>1, <2>3, <2>7 DEF Outcome
    <3>2. k > 0 => HasDelivered(w)
      BY <2>5, <2>6 DEF SwapOK
    <3>3. Outcome(q.sweep)' = "sent" /\ txs'[q.sweep].lamports >= sol'[w]
      BY <2>6, <2>8, <2>10 DEF Outcome
    <3>4. \A t \in DOMAIN txs' : Is(t, "sweep", w)' /\ txs'[t].status = "landed" => t \in q.sweeps
      <4>1. ASSUME NEW t \in DOMAIN txs', Is(t, "sweep", w)', txs'[t].status = "landed"
            PROVE  t \in Record.sweeps
        <5>1. t \in DOMAIN txs /\ Is(t, "sweep", w) /\ txs[t].status = "landed"
          BY <2>1, <2>9, <4>1 DEF Is, OnlySigned
        <5>2. t # Record.sweep
          BY <1>5, <2>1, <2>7, <5>1 DEF Outcome
        <5>3. QED
          BY <2>5, <5>1, <5>2 DEF SweepOK
      <4>2. QED
        BY <2>3, <4>1
    <3>5. \A t \in q.sweeps : Is(t, "sweep", w)'
      BY <1>5, <2>1, <2>3, <2>5 DEF SweepOK
    <3>6. QED
      BY <2>8, <2>11, <3>1, <3>2, <3>3, <3>4, <3>5 DEF SweepOK
  <2>16. ChecksOK(q, w)'
    <3>1. q.checks \in Nat /\ q.checks = Record.checks
      BY <2>3 DEF Rewrites, PurchaseRecord
    <3>2. tok[w] > 0 /\ k = 0 => pc = "readNone"
      BY <2>1, <2>6 DEF Reading
    <3>3. /\ tok[w] > 0 => Record.checks <= lags + 1
          /\ tok[w] > 0 /\ pc = "readNone" => Record.checks <= lags
      BY <2>5 DEF ChecksOK
    <3>4. /\ tok[w] > 0 => q.checks <= lags' + 1
          /\ tok[w] > 0 /\ k = 0 => q.checks <= lags'
      BY <1>3, <2>1, <2>10, <3>1, <3>2, <3>3
    <3>5. QED
      BY <2>1, <2>8, <2>10, <3>4 DEF ChecksOK
  <2>17. OpenOK(q, q.wallet)'
    BY <2>14, <2>15, <2>16 DEF OpenOK, w
  <2>18. QED
    BY <2>1, <2>3, <2>4, <2>9, <2>10, <2>17, OpenStepKeepsWallets DEF w
<1>13. QED
  BY <1>7, <1>8, <1>9, <1>10, <1>11, <1>12

(* What a pass that books knows of the wallet at hand: it holds no SOL, the swaps found are the
   one that landed, and the sweep brought the tokens in or they are still there. *)
BookFinds(sweep, swaps, w) ==
    /\ sol[w] = 0
    /\ \A u \in swaps : Is(u, "swap", w) /\ txs[u].status = "landed" /\ Min(swaps) \in swaps
    /\ \A u : Delivers(u, w) => swaps = {u}
    /\ Moved(sweep) > 0 => tok[w] = 0 /\ HasDelivered(w)
    /\ Moved(sweep) = 0 => /\ HasDelivered(w) => tok[w] = 1
                           /\ tok[w] > 0 => Record.checks <= lags

(* settlePurchase books only what the sweep or an empty wallet confirms. *)
LEMMA BookedWallet ==
    ASSUME PurchaseAssumption, NothingLost, IInv, WInv, AtWork, Record.wallet # NoWallet,
           NEW sweep, NEW blind, blind = FALSE,
           \/ sweep # NoTx /\ sweep = Record.sweep /\ txs[sweep].status = "landed"
           \/ pc = "readNone" /\ sweep = NoTx /\ sol[Record.wallet] = 0
    PROVE  BookFinds(sweep, Found(sweep, blind), Record.wallet)
<1> DEFINE w == Record.wallet
           p == Record
           swaps == Found(sweep, blind)
<1>1. /\ w \in Wallets /\ RecordOK(Now, p) /\ Open
      /\ p.sweep # NoTx => Is(p.sweep, "sweep", w)
  BY AtHand DEF Open, RecordOK
<1>2. SwapOK(p, w) /\ SweepOK(p, w) /\ ChecksOK(p, w)
  BY <1>1 DEF WInv, OpenOK
<1>3. ASSUME sweep # NoTx, sweep = p.sweep, txs[sweep].status = "landed"
      PROVE  /\ sol[w] = 0
             /\ Moved(sweep) > 0 => tok[w] = 0 /\ HasDelivered(w)
             /\ Moved(sweep) = 0 => (HasDelivered(w) => tok[w] = 1) /\ (tok[w] > 0 => p.checks <= lags)
             /\ \A t \in DOMAIN txs : Is(t, "sweep", w) /\ txs[t].status = "landed"
                                        => t \in p.sweeps \cup Swept(sweep)
  <2>1. Outcome(p.sweep) = "landed" /\ Pays(p.sweep) /\ Moved(sweep) = txs[p.sweep].tokens
    BY <1>3 DEF Outcome, Pays, Moved
  <2>2. sol[w] = 0 /\ (Moved(sweep) > 0 => tok[w] = 0 /\ HasDelivered(w))
    BY <1>2, <2>1 DEF SweepOK
  <2>3. Moved(sweep) = 0 => (HasDelivered(w) => tok[w] = 1) /\ (tok[w] > 0 => p.checks <= lags)
    BY <1>2, <2>1 DEF SwapOK, ChecksOK
  <2>4. \A t \in DOMAIN txs : Is(t, "sweep", w) /\ txs[t].status = "landed"
                                => t \in p.sweeps \cup Swept(sweep)
    BY <1>2, <1>3 DEF SweepOK, Swept
  <2> HIDE DEF w, p
  <2>5. QED
    BY <2>2, <2>3, <2>4
<1>4. ASSUME pc = "readNone", sweep = NoTx, sol[w] = 0
      PROVE  /\ sol[w] = 0
             /\ Moved(sweep) > 0 => tok[w] = 0 /\ HasDelivered(w)
             /\ Moved(sweep) = 0 => (HasDelivered(w) => tok[w] = 1) /\ (tok[w] > 0 => p.checks <= lags)
             /\ \A t \in DOMAIN txs : Is(t, "sweep", w) /\ txs[t].status = "landed"
                                        => t \in p.sweeps \cup Swept(sweep)
  <2>1. Outcome(p.sweep) \notin {"sent", "landed"} /\ Moved(sweep) = 0
    BY <1>4 DEF Moved, Reading, IInv, StepsOK
  <2>2. (HasDelivered(w) => tok[w] = 1) /\ (tok[w] > 0 => p.checks <= lags)
    BY <1>2, <1>4, <2>1 DEF SwapOK, ChecksOK
  <2>3. \A t \in DOMAIN txs : Is(t, "sweep", w) /\ txs[t].status = "landed"
                                => t \in p.sweeps \cup Swept(sweep)
    <3>1. ASSUME NEW t \in DOMAIN txs, Is(t, "sweep", w), txs[t].status = "landed"
          PROVE  t # p.sweep
      BY <2>1, <3>1, Transactions DEF Outcome, IInv
    <3>2. QED
      BY <1>2, <3>1 DEF SweepOK
  <2>4. QED
    BY <1>4, <2>1, <2>2, <2>3
<1>5. /\ sol[w] = 0
      /\ Moved(sweep) > 0 => tok[w] = 0 /\ HasDelivered(w)
      /\ Moved(sweep) = 0 => (HasDelivered(w) => tok[w] = 1) /\ (tok[w] > 0 => p.checks <= lags)
      /\ \A t \in DOMAIN txs : Is(t, "sweep", w) /\ txs[t].status = "landed"
                                 => t \in p.sweeps \cup Swept(sweep)
  BY <1>3, <1>4
<1>6. \A u \in swaps : u \in DOMAIN txs /\ Is(u, "swap", w) /\ txs[u].status = "landed"
  <2>1. CASE p.swap # NoTx
    BY <1>2, <2>1 DEF SwapOK, Found, Is
  <2>2. CASE p.swap = NoTx
    <3>1. swaps = {t \in DOMAIN txs : /\ txs[t].wallet = w /\ txs[t].kind # "fund"
                                      /\ txs[t].status = "landed"
                                      /\ t \notin p.sweeps \cup Swept(sweep)}
      BY <2>2 DEF Found
    <3>2. \A t \in DOMAIN txs : txs[t].kind \in Kinds
      BY Transactions DEF IInv
    <3> HIDE DEF w, p, swaps
    <3>3. QED
      BY <1>5, <3>1, <3>2 DEF Is, Kinds
  <2>3. QED
    BY <2>1, <2>2
<1>7. swaps # {} => Min(swaps) \in swaps
  <2>1. swaps \subseteq Nat
    BY <1>6 DEF IInv, Types
  <2> HIDE DEF swaps
  <2>2. QED
    BY <2>1, LeastElement
<1>8. ASSUME NEW u, Delivers(u, w)
      PROVE  swaps = {u}
  <2>1. u \in DOMAIN txs /\ Is(u, "swap", w) /\ txs[u].status = "landed"
    BY <1>8 DEF Delivers, Is
  <2>2. \A y \in swaps : y = u
    BY <1>6, <2>1 DEF WInv, OneSwap, Is
  <2>3. u \in swaps
    <3>1. CASE p.swap # NoTx
      <4>1. swaps = {p.swap}
        BY <3>1 DEF Found
      <4>2. QED
        BY <2>2, <4>1
    <3>2. CASE p.swap = NoTx
      <4>1. u \notin p.sweeps
        BY <1>2, <2>1 DEF SweepOK, Is
      <4>2. u \notin Swept(sweep)
        BY <1>1, <2>1 DEF Swept, Is
      <4>3. QED
        BY <2>1, <3>2, <4>1, <4>2 DEF Found, Is
    <3>3. QED
      BY <3>1, <3>2
  <2>4. QED
    BY <2>2, <2>3
<1> HIDE DEF w, p, swaps
<1>9. QED
  BY <1>5, <1>6, <1>7, <1>8 DEF BookFinds, w, p, swaps

(* A record is closed: the wallet is empty, and what its swap delivered is on record. *)
LEMMA CloseKeepsWallets ==
    ASSUME PurchaseAssumption, IInv, IInv', WInv, Open, NEW q \in PurchaseRecord, Rewritten(disk', q),
           txs' = txs, sol' = sol, tok' = tok, lags' <= MaxLags,
           q.wallet = NoWallet, q.attempts >= Record.attempts,
           q.status = "pending" => q.attempts > Record.attempts /\ q.swap = NoTx,
           sol[Record.wallet] = 0, tok[Record.wallet] = 0,
           \A t : Delivers(t, Record.wallet) => q.status = "bought" /\ t = q.swap,
           q.status = "bought" => Delivers(q.swap, Record.wallet)
    PROVE  WInv'
<1> DEFINE v == Record.wallet
<1>1. /\ v \in Wallets /\ Record.status = "pending" /\ Now \in DOMAIN disk.purchases
      /\ v = <<Now, Record.attempts>> /\ v[1] = Now
      /\ Types /\ RecordsOK /\ (Types /\ RecordsOK)' /\ Record \in PurchaseRecord
  BY OpenWallet DEF IInv
<1>2. /\ disk.purchases \in [Coins -> PurchaseRecord] /\ DOMAIN disk.purchases = Coins /\ Now \in Coins
      /\ disk'.purchases = [disk.purchases EXCEPT ![Now] = q]
  BY <1>1, NextCoin DEF Open, Rewritten
<1>3. /\ DOMAIN disk'.purchases = Coins /\ disk'.purchases[Now] = q
      /\ \A c \in Coins \ {Now} : disk'.purchases[c] = disk.purchases[c]
  BY <1>2
<1>4. ASSUME NEW c \in Coins
      PROVE  disk'.purchases[c].wallet = NoWallet
  <2>1. RecordOK(c, disk.purchases[c])
    BY <1>1, <1>2 DEF RecordsOK
  <2>2. QED
    BY <1>3, <2>1 DEF RecordOK
<1>5. ~Open' /\ \A w \in Wallets : ~OnDisk(w)'
  <2>1. \A w \in Wallets : ~OnDisk(w)'
    BY <1>3, <1>4, WalletParts DEF OnDisk
  <2>2. QED
    BY <1>1, <2>1, OpenWalletNext
<1>6. ASSUME NEW w \in Wallets, w # v
      PROVE  ~OnDisk(w)
  BY <1>1, <1>6, OpenWallet
<1>7. /\ \A w : Untouched(w)' = Untouched(w)
      /\ \A t, w : Delivers(t, w)' = Delivers(t, w)
  BY DEF Untouched, Delivers, Is
<1>8. UnusedUntouched'
  <2>1. ASSUME NEW w \in Wallets, Unused(w)'
        PROVE  Unused(w)
    <3>1. CASE w[1] = Now
      <4>1. w[2] \in Nat /\ q.attempts \in Nat /\ Record.attempts \in Nat
        BY <1>1, WalletParts DEF PurchaseRecord
      <4>2. w[2] > q.attempts \/ (w[2] = q.attempts /\ q.status = "pending")
        BY <1>3, <1>2, <2>1, <3>1 DEF Unused
      <4>3. w[2] > Record.attempts
        BY <4>1, <4>2
      <4>4. QED
        BY <3>1, <4>3 DEF Unused, Record
    <3>2. CASE w[1] # Now
      BY <1>2, <1>3, <2>1, <3>2 DEF Unused
    <3>3. QED
      BY <3>1, <3>2
  <2>2. QED
    BY <1>7, <2>1 DEF WInv, UnusedUntouched
<1>9. DroppedEmpty'
  BY <1>6 DEF WInv, DroppedEmpty
<1>10. OneSwap'
  BY DEF WInv, OneSwap
<1>11. DroppedDelivered'
  <2>1. ASSUME NEW w \in Wallets, NEW t \in DOMAIN txs', Delivers(t, w)
        PROVE  w[1] \in DOMAIN disk'.purchases /\ disk'.purchases[w[1]].status = "bought"
               /\ t = disk'.purchases[w[1]].swap
    <3>1. CASE w = v
      BY <1>1, <1>2, <1>3, <2>1, <3>1
    <3>2. CASE w # v
      <4>1. w[1] \in DOMAIN disk.purchases /\ disk.purchases[w[1]].status = "bought"
            /\ t = disk.purchases[w[1]].swap
        BY <1>6, <2>1, <3>2 DEF WInv, DroppedDelivered
      <4>2. w[1] # Now
        BY <1>1, <4>1 DEF Record
      <4>3. QED
        BY <1>2, <1>3, <4>1, <4>2
    <3>3. QED
      BY <3>1, <3>2
  <2>2. QED
    BY <1>7, <2>1 DEF DroppedDelivered
<1>12. BoughtDelivered'
  <2>1. ASSUME NEW c \in DOMAIN disk'.purchases, disk'.purchases[c].status = "bought"
        PROVE  (\E w \in Wallets : w[1] = c /\ Delivers(disk.purchases[c].swap, w))'
    <3>1. CASE c = Now
      BY <1>1, <1>3, <1>7, <2>1, <3>1
    <3>2. CASE c # Now
      <4>1. \E w \in Wallets : w[1] = c /\ Delivers(disk.purchases[c].swap, w)
        BY <1>2, <1>3, <2>1, <3>2 DEF WInv, BoughtDelivered
      <4>2. QED
        BY <1>2, <1>3, <1>7, <2>1, <3>2, <4>1
    <3>3. QED
      BY <3>1, <3>2
  <2>2. QED
    BY <2>1 DEF BoughtDelivered
<1>13. ClosedSwaps'
  BY <1>2, <1>3 DEF WInv, ClosedSwaps
<1>14. QED
  BY <1>5, <1>8, <1>9, <1>10, <1>11, <1>12, <1>13 DEF WInv

(* A pass that books closes the attempt with an empty wallet, or looks again. *)
LEMMA BookStepsKeepWallets ==
    ASSUME PurchaseAssumption, NothingLost, IInv, IInv', WInv,
           SettleFromRecord \/ SweepAnswered \/ NothingToSweep
    PROVE  WInv'
<1>1. /\ AtWork /\ Record.wallet # NoWallet /\ Outcome(Record.funding) # "sent"
      /\ txs' = txs /\ sol' = sol /\ tok' = tok /\ keeperTok' = keeperTok
      /\ lags' \in Nat /\ lags' >= lags /\ (lags' = lags \/ (lags' = lags + 1 /\ lags < MaxLags))
  BY BookStepDoes
<1>2. PICK sweep \in {NoTx} \cup DOMAIN txs, blind \in BOOLEAN :
                 /\ Book(sweep, blind)
                 /\ blind = FALSE
                 /\ \/ sweep # NoTx /\ sweep = Record.sweep /\ txs[sweep].status = "landed"
                    \/ pc = "readNone" /\ sweep = NoTx /\ sol[Record.wallet] = 0
  BY BookStepDoes DEF NothingLost
<1> DEFINE w == Record.wallet
           swaps == Found(sweep, blind)
<1>3. PICK q \in PurchaseRecord :
               /\ BookedAs(q, sweep, swaps)
               /\ Rewritten(disk', q)
               /\ disk'.inventory = [disk.inventory EXCEPT ![Now] = disk.inventory[Now] + Moved(sweep)]
               /\ mem' = disk' /\ pc' = "idle"
  BY <1>1, <1>2, BookDecides DEF IInv
<1>4. BookFinds(sweep, swaps, w)
  BY <1>1, <1>2, BookedWallet
<1>5. /\ Now \in Coins /\ Record \in PurchaseRecord /\ RecordOK(Now, Record)
      /\ Record.status = "pending" /\ Open
      /\ w = <<Now, Record.attempts>> /\ w \in Wallets
      /\ Record.attempts \in Nat /\ Record.checks \in Nat
  BY <1>1, AtHand DEF Open, PurchaseRecord
<1>6. /\ SwapOK(Record, w) /\ SweepOK(Record, w)
      /\ lags \in Nat /\ lags <= MaxLags /\ MaxLags \in Nat /\ MaxLags < MaxChecks /\ MaxChecks \in Nat
      /\ lags' <= MaxLags /\ tok[w] \in Nat
  BY <1>1, <1>5 DEF WInv, OpenOK, IInv, Types, PurchaseAssumption, NothingLost
<1>7. /\ q.funding = NoTx /\ q.sweep = NoTx /\ Decided(q, sweep, swaps)
      /\ q.sweeps = Record.sweeps \cup Swept(sweep) /\ q.reason = Record.reason
  BY <1>3 DEF BookedAs
<1> HIDE DEF swaps
<1>8. CASE /\ Moved(sweep) > 0
           /\ q.status = "bought" /\ q.wallet = NoWallet /\ q.attempts = Record.attempts
           /\ q.swap = IF Record.swap = NoTx /\ swaps # {} THEN Min(swaps) ELSE Record.swap
  <2>1. sol[w] = 0 /\ tok[w] = 0
    BY <1>4, <1>8 DEF BookFinds
  <2>2. PICK x \in DOMAIN txs : Delivers(x, w)
    BY <1>4, <1>8 DEF BookFinds, HasDelivered
  <2>3. swaps = {x} /\ Min(swaps) = x
    BY <1>4, <2>2 DEF BookFinds
  <2>4. q.swap = x
    <3>1. Record.swap # NoTx => swaps = {Record.swap}
      BY DEF swaps, Found
    <3>2. QED
      BY <1>8, <2>3, <3>1
  <2>5. \A t : Delivers(t, w) => t = x
    BY <1>4, <2>3 DEF BookFinds
  <2>6. QED
    BY <1>1, <1>3, <1>5, <1>6, <1>8, <2>1, <2>2, <2>4, <2>5, CloseKeepsWallets
<1>9. CASE /\ Moved(sweep) = 0 /\ Again(swaps)
           /\ q.status = Record.status /\ q.wallet = Record.wallet /\ q.attempts = Record.attempts
           /\ q.swap = Min(swaps) /\ q.checks = Record.checks + 1
  <2>1. Rewrites(q)
    <3>1. disk.inventory \in [Coins -> Nat]
      BY DEF IInv, Types, SavedState
    <3>2. disk.inventory[Now] + Moved(sweep) = disk.inventory[Now]
      BY <1>5, <1>9, <3>1
    <3>3. disk'.inventory = disk.inventory
      BY <1>3, <1>5, <3>1, <3>2
    <3>4. QED
      BY <1>1, <1>3, <3>3 DEF Rewrites
  <2>2. Is(q.swap, "swap", w) /\ txs[q.swap].status = "landed" /\ q.swap \in Swaps(w) /\ ~q.reason
    BY <1>4, <1>7, <1>9 DEF BookFinds, Again, Swaps, Is
  <2>3. /\ HasDelivered(w) => tok[w] = 1
        /\ tok[w] > 0 => Record.checks <= lags
    BY <1>4, <1>9 DEF BookFinds
  <2>4. PICK v : v = w
    OBVIOUS
  <2>5. /\ v = q.wallet /\ v \in Wallets /\ SwapOK(Record, v) /\ SweepOK(Record, v)
        /\ Is(q.swap, "swap", v) /\ q.swap \in Swaps(v)
        /\ HasDelivered(v) => tok[v] = 1
        /\ tok[v] > 0 => Record.checks <= lags
    BY <1>5, <1>6, <1>9, <2>2, <2>3, <2>4
  <2>6. /\ Swaps(v)' = Swaps(v) /\ HasDelivered(v)' = HasDelivered(v)
        /\ \A u, k : Is(u, k, v)' = Is(u, k, v)
    BY <1>1 DEF Swaps, HasDelivered, Delivers, Is
  <2>7. SwapOK(q, v)'
    <3>1. /\ tok[v] <= 1 /\ (tok[v] > 0 => HasDelivered(v))
          /\ \E t \in Swaps(v) : txs[t].status = "landed"
      BY <2>2, <2>4, <2>5 DEF SwapOK
    <3>2. pc' \notin {"signing", "funding", "swapping"} /\ ~q.reason
      BY <1>3, <2>2
    <3>3. q.swap # NoTx => Is(q.swap, "swap", v)' /\ txs'[q.swap].status = "landed"
      BY <1>1, <2>2, <2>5, <2>6
    <3>4. QED
      BY <1>1, <2>5, <2>6, <3>1, <3>2, <3>3 DEF SwapOK
  <2>8. SweepOK(q, v)'
    <3>1. \A t \in q.sweeps : Is(t, "sweep", v)
      <4>1. \A t \in Record.sweeps : Is(t, "sweep", v)
        BY <2>5 DEF SweepOK
      <4>2. \A t \in Swept(sweep) : Is(t, "sweep", v)
        BY <1>2, <1>5, <2>4 DEF RecordOK, Swept
      <4>3. QED
        BY <1>7, <4>1, <4>2
    <3>2. \A t \in DOMAIN txs : Is(t, "sweep", v) /\ txs[t].status = "landed" => t \in q.sweeps
      <4>1. ASSUME NEW t \in DOMAIN txs, Is(t, "sweep", v), txs[t].status = "landed"
            PROVE  t \in q.sweeps
        <5>1. t = Record.sweep \/ t \in Record.sweeps
          BY <2>5, <4>1 DEF SweepOK
        <5>2. t = Record.sweep => sweep = Record.sweep /\ sweep # NoTx
          <6>1. t # NoTx
            BY Transactions DEF IInv
          <6>2. pc = "readNone" => Outcome(Record.sweep) # "landed"
            BY DEF IInv, StepsOK, Reading
          <6>3. QED
            BY <1>2, <4>1, <6>1, <6>2 DEF Outcome
        <5>3. QED
          BY <1>7, <5>1, <5>2 DEF Swept
      <4>2. QED
        BY <4>1
    <3>3. q.sweep = NoTx
      BY <1>7
    <3>4. QED
      BY <1>1, <2>6, <3>1, <3>2, <3>3 DEF SweepOK, Outcome, Pays
  <2>9. ChecksOK(q, v)'
    <3>1. tok[v] > 0 => q.checks <= lags' + 1
      BY <1>1, <1>5, <1>6, <1>9, <2>5
    <3>2. QED
      BY <1>1, <1>3, <1>7, <3>1 DEF ChecksOK, Pays
  <2>10. OpenOK(q, q.wallet)'
    BY <2>5, <2>7, <2>8, <2>9 DEF OpenOK
  <2>11. OnlySigned /\ DOMAIN txs' \ DOMAIN txs = {}
    BY <1>1 DEF OnlySigned, IInv, Types
  <2>12. q.wallet = <<Now, Record.attempts>> /\ q.wallet \in Wallets
    BY <1>5, <1>9
  <2>13. QED
    BY <1>1, <1>6, <1>9, <2>1, <2>10, <2>11, <2>12, OpenStepKeepsWallets
<1>10. CASE /\ Moved(sweep) = 0 /\ ~Again(swaps)
            /\ q.wallet = NoWallet /\ q.swap = NoTx
            /\ \/ q.status = "skipped" /\ q.attempts \in {Record.attempts, Record.attempts + 1}
               \/ q.status = "pending" /\ q.attempts = Record.attempts + 1
  <2>1. ~HasDelivered(w)
    <3>1. SUFFICES ASSUME HasDelivered(w)
                   PROVE  FALSE
      OBVIOUS
    <3>2. tok[w] = 1 /\ Record.checks <= lags
      BY <1>4, <1>10, <3>1 DEF BookFinds
    <3>3. PICK x \in DOMAIN txs : Delivers(x, w)
      BY <3>1 DEF HasDelivered
    <3>4. swaps # {} /\ x \in Swaps(w)
      BY <1>4, <3>3 DEF BookFinds, Delivers, Swaps
    <3>5. ~Record.reason
      BY <1>6, <3>4 DEF SwapOK
    <3>6. Record.checks < MaxChecks
      BY <1>5, <1>6, <3>2
    <3>7. QED
      BY <1>10, <3>4, <3>5, <3>6 DEF Again
  <2>2. tok[w] = 0
    <3>1. ~(tok[w] > 0)
      BY <1>6, <2>1 DEF SwapOK
    <3>2. QED
      BY <1>6, <3>1
  <2>3. sol[w] = 0
    BY <1>4 DEF BookFinds
  <2>4. \A t : ~Delivers(t, w)
    BY <2>1 DEF HasDelivered, Delivers, Is
  <2>5. q.attempts >= Record.attempts /\ (q.status = "pending" => q.attempts > Record.attempts)
        /\ q.status # "bought"
    BY <1>5, <1>10
  <2>6. QED
    BY <1>1, <1>3, <1>5, <1>6, <1>10, <2>2, <2>3, <2>4, <2>5, CloseKeepsWallets
<1>11. QED
  BY <1>7, <1>8, <1>9, <1>10 DEF Decided

(* Before the basket is selected there are no wallets. *)
LEMMA SelectKeepsWallets ==
    ASSUME PurchaseAssumption, IInv, IInv', WInv, Select
    PROVE  WInv'
<1>1. /\ pc' = "idle" /\ disk.purchases = NoBasket
      /\ txs' = txs /\ sol' = sol /\ tok' = tok /\ lags' = lags
  BY SelectDoes
<1>2. lags \in Nat /\ lags <= MaxLags
  BY DEF IInv, Types, WInv
<1>3. CASE disk'.purchases = disk.purchases
  BY <1>1, <1>2, <1>3, QuietKeepsWallets
<1>4. CASE disk'.purchases = [c \in Coins |-> NewPurchase]
  <2>1. DOMAIN disk.purchases = {}
    BY <1>1 DEF NoBasket
  <2>2. \A w \in Wallets : Untouched(w)
    BY <2>1 DEF WInv, UnusedUntouched, Unused
  <2>3. DOMAIN txs = {}
    BY <2>2, Transactions DEF Untouched, IInv
  <2>4. /\ DOMAIN disk'.purchases = Coins
        /\ \A c \in Coins : /\ disk'.purchases[c].wallet = NoWallet
                            /\ disk'.purchases[c].status = "pending"
                            /\ disk'.purchases[c].swap = NoTx
    BY <1>4 DEF NewPurchase
  <2>5. \A w \in Wallets : Untouched(w)'
    BY <1>1, <2>2 DEF Untouched
  <2>6. UnusedUntouched' /\ DroppedEmpty'
    BY <2>5 DEF UnusedUntouched, DroppedEmpty, Untouched
  <2>7. OneSwap' /\ DroppedDelivered'
    BY <1>1, <2>3 DEF OneSwap, DroppedDelivered
  <2>8. BoughtDelivered' /\ ClosedSwaps'
    BY <2>4 DEF BoughtDelivered, ClosedSwaps
  <2>9. ~Open'
    BY <2>4, OpenWalletNext DEF IInv, Open, Record
  <2>10. QED
    BY <1>1, <1>2, <2>6, <2>7, <2>8, <2>9 DEF WInv
<1>5. QED
  BY <1>3, <1>4, SelectDoes

(* Coins that are skipped have no wallet open. *)
LEMMA SkipRestKeepsWallets ==
    ASSUME PurchaseAssumption, IInv, IInv', WInv, SkipRest
    PROVE  WInv'
<1>1. /\ txs' = txs /\ sol' = sol /\ tok' = tok /\ lags' = lags
      /\ DOMAIN disk.purchases = Coins /\ disk'.purchases \in [Coins -> PurchaseRecord]
  BY SkipRestDoes
<1>2. \A c \in Coins :
          LET p == disk.purchases[c]
              r == disk'.purchases[c]
          IN /\ p.wallet = NoWallet /\ r.wallet = NoWallet
             /\ r.status = IF p.status = "pending" THEN "skipped" ELSE p.status
             /\ r.swap = p.swap /\ r.attempts = p.attempts
  BY SkipRestDoes
<1>3. DOMAIN disk'.purchases = Coins
  BY <1>1
<1>4. /\ \A w : Untouched(w)' = Untouched(w)
      /\ \A t, w : Delivers(t, w)' = Delivers(t, w)
  BY <1>1 DEF Untouched, Delivers, Is
<1>5. \A w \in Wallets : ~OnDisk(w) /\ ~OnDisk(w)'
  BY <1>1, <1>2, <1>3, WalletParts DEF OnDisk
<1>6. UnusedUntouched'
  <2>1. \A w \in Wallets : Unused(w)' => Unused(w)
    BY <1>1, <1>2, <1>3 DEF Unused
  <2>2. QED
    BY <1>4, <2>1 DEF WInv, UnusedUntouched
<1>7. DroppedEmpty' /\ OneSwap'
  BY <1>1, <1>5 DEF WInv, DroppedEmpty, OneSwap
<1>8. DroppedDelivered'
  <2>1. DroppedDelivered
    BY DEF WInv
  <2>2. QED
    BY <1>1, <1>2, <1>3, <1>4, <1>5, <2>1 DEF DroppedDelivered
<1>9. BoughtDelivered'
  <2>1. ASSUME NEW c \in Coins, disk'.purchases[c].status = "bought"
        PROVE  (\E w \in Wallets : w[1] = c /\ Delivers(disk.purchases[c].swap, w))'
    <3>1. disk.purchases[c].status = "bought" /\ disk'.purchases[c].swap = disk.purchases[c].swap
      BY <1>2, <2>1
    <3>2. \E w \in Wallets : w[1] = c /\ Delivers(disk.purchases[c].swap, w)
      BY <1>1, <3>1 DEF WInv, BoughtDelivered
    <3>3. QED
      BY <1>4, <3>1, <3>2
  <2>2. QED
    BY <1>3, <2>1 DEF BoughtDelivered
<1>10. ClosedSwaps'
  BY <1>2, <1>3 DEF ClosedSwaps
<1>11. ~Open'
  BY <1>2, <1>3, OpenWalletNext DEF IInv, Open, Record
<1>12. lags' <= MaxLags
  BY <1>1 DEF WInv
<1>13. QED
  BY <1>6, <1>7, <1>8, <1>9, <1>10, <1>11, <1>12 DEF WInv

(* Every step. *)
LEMMA StepKeepsWallets ==
    ASSUME PurchaseAssumption, NothingLost, IInv, IInv', WInv, [Next]_vars
    PROVE  WInv'
<1>1. lags \in Nat /\ lags <= MaxLags /\ MaxLags \in Nat
  BY DEF IInv, Types, WInv, PurchaseAssumption
<1>2. CASE Chain
  BY <1>2, ChainKeepsWallets DEF Chain
<1>3. CASE NewSwapWallet \/ FundWallet \/ QuoteRefused \/ SendSwap \/ SwapAnswered \/ SignSweep
  BY <1>3, RecordStepsKeepWallets
<1>4. CASE SettleFromRecord \/ SweepAnswered \/ NothingToSweep
  BY <1>4, BookStepsKeepWallets
<1>5. CASE Select
  BY <1>5, SelectKeepsWallets
<1>6. CASE SkipRest
  BY <1>6, SkipRestKeepsWallets
<1>7. CASE ReadTokens
  <2>1. /\ txs' = txs /\ sol' = sol /\ tok' = tok /\ disk' = disk
        /\ pc' \in Reading /\ Record.wallet # NoWallet /\ AtWork
        /\ lags' \in Nat /\ lags' >= lags
        /\ pc' = "readTokens" => tok[Record.wallet] > 0
        /\ pc' = "readNone" => \/ tok[Record.wallet] = 0 /\ lags' = lags
                               \/ lags' = lags + 1 /\ "tokens" \in Lagging /\ lags < MaxLags
        /\ lags' = lags \/ (lags' = lags + 1 /\ lags < MaxLags)
    BY <1>7, ReadTokensDoes
  <2>2. lags' <= MaxLags
    BY <1>1, <2>1
  <2>3. \/ pc' = "readTokens" /\ tok[Record.wallet] > 0
        \/ pc' = "readNone" /\ (tok[Record.wallet] > 0 => lags' = lags + 1)
    BY <2>1 DEF Reading
  <2>4. QED
    BY <2>1, <2>2, <2>3, QuietKeepsWallets
<1>8. CASE SwapThrew \/ SendThrew \/ SweepRefused \/ Abort \/ ReserveAssets \/ UNCHANGED vars
  <2>1. txs' = txs /\ sol' = sol /\ tok' = tok /\ lags' = lags
    BY <1>8 DEF SwapThrew, SendThrew, SweepRefused, Abort, ReserveAssets, chain, history, vars
  <2>2. pc' = pc \/ pc' \in {"idle", "settling"}
    BY <1>8 DEF SwapThrew, SendThrew, SweepRefused, Abort, Lose, ReserveAssets, Return, vars
  <2>3. disk'.purchases = disk.purchases
    <3>1. CASE ReserveAssets
      BY <3>1, ReserveAssetsDoes
    <3>2. CASE SwapThrew \/ SendThrew \/ SweepRefused \/ Abort \/ UNCHANGED vars
      BY <3>2 DEF SwapThrew, SendThrew, SweepRefused, Abort, vars
    <3>3. QED
      BY <1>8, <3>1, <3>2
  <2>4. lags' \in Nat /\ lags' >= lags /\ lags' <= MaxLags
    BY <1>1, <2>1
  <2>5. QED
    BY <2>1, <2>2, <2>3, <2>4, QuietKeepsWallets
<1>9. QED
  BY <1>2, <1>3, <1>4, <1>5, <1>6, <1>7, <1>8 DEF Next, Step

(* Before the first step no wallet exists. *)
LEMMA InitWallets ==
    ASSUME PurchaseAssumption, Init
    PROVE  WInv
<1>1. DOMAIN disk.purchases = {} /\ DOMAIN txs = {}
  BY DEF Init, NoBasket
<1>2. /\ lags <= MaxLags /\ \A w \in Wallets : sol[w] = 0 /\ tok[w] = 0
  BY DEF Init, PurchaseAssumption
<1>3. UnusedUntouched /\ DroppedEmpty
  BY <1>1, <1>2 DEF UnusedUntouched, Untouched, DroppedEmpty
<1>4. OneSwap /\ DroppedDelivered /\ BoughtDelivered /\ ClosedSwaps
  BY <1>1 DEF OneSwap, DroppedDelivered, BoughtDelivered, ClosedSwaps
<1>5. ~Open
  BY <1>1 DEF Open, Pending
<1>6. QED
  BY <1>2, <1>3, <1>4, <1>5 DEF WInv

(***************************************************************************)
(* As long as no read but that of the tokens lags, and fewer of those lag  *)
(* than a pass looks again (engine.ts 640-650): the wallets are as WInv    *)
(* says between any two steps.                                             *)
(***************************************************************************)
THEOREM WalletsAreKept == NothingLost => (Spec => []WInv)
<1> SUFFICES ASSUME NothingLost PROVE Spec => []WInv
  OBVIOUS
<1>1. Init => WInv
  BY PurchaseAssumption, InitWallets
<1>2. WInv /\ IInv /\ IInv' /\ [Next]_vars => WInv'
  BY PurchaseAssumption, StepKeepsWallets
<1>3. QED
  BY <1>1, <1>2, RecordsAreKept, PTL DEF Spec

(***************************************************************************)
(* swapWallet.ts 4, "Afterwards everything in the wallet comes back to the *)
(* keeper", for every number of coins, attempts, crashes and expired       *)
(* transactions: no wallet whose key is off the disk holds anything or has *)
(* a funding in flight.                                                    *)
(***************************************************************************)
THEOREM NothingIsStranded == NothingLost => (Spec => []NothingStranded)
<1> SUFFICES ASSUME NothingLost PROVE Spec => []NothingStranded
  OBVIOUS
<1>1. IInv /\ WInv => NothingStranded
  <2> SUFFICES ASSUME IInv, WInv, NEW w \in Wallets,
                      \/ sol[w] > 0 \/ tok[w] > 0
                      \/ \E t \in DOMAIN txs : txs[t].wallet = w /\ txs[t].kind = "fund" /\ InFlight(t)
               PROVE  OnDisk(w)
    BY DEF NothingStranded
  <2>1. CASE sol[w] > 0 \/ tok[w] > 0
    BY <2>1 DEF WInv, DroppedEmpty
  <2>2. CASE \E t \in DOMAIN txs : txs[t].wallet = w /\ txs[t].kind = "fund" /\ InFlight(t)
    BY <2>2, InFlightIsOpen, PurchaseAssumption
  <2>3. QED
    BY <2>1, <2>2
<1>2. QED
  BY <1>1, RecordsAreKept, WalletsAreKept, PTL

(* Two swaps that delivered the same coin are the same. *)
LEMMA OneDelivery ==
    ASSUME PurchaseAssumption, IInv, WInv, NEW c \in DOMAIN disk.purchases,
           NEW t \in Delivered(c), NEW u \in Delivered(c)
    PROVE  t = u
<1>1. /\ t \in DOMAIN txs /\ u \in DOMAIN txs
      /\ Delivers(t, txs[t].wallet) /\ Delivers(u, txs[u].wallet)
      /\ txs[t].wallet[1] = c /\ txs[u].wallet[1] = c
      /\ txs[t].wallet \in Wallets /\ txs[u].wallet \in Wallets
  BY Transactions DEF Delivered, Delivers, Is, IInv
<1>2. ASSUME NEW x \in {t, u}, ~OnDisk(txs[x].wallet)
      PROVE  disk.purchases[c].status = "bought" /\ x = disk.purchases[c].swap
  BY <1>1, <1>2 DEF WInv, DroppedDelivered
<1>3. ASSUME NEW x \in {t, u}, OnDisk(txs[x].wallet)
      PROVE  txs[x].wallet = Record.wallet /\ disk.purchases[c].status = "pending"
  BY <1>1, <1>3, OpenWallet DEF IInv, Record
<1>4. QED
  BY <1>1, <1>2, <1>3 DEF WInv, OneSwap, Delivers, Is

(***************************************************************************)
(* engine.ts 640-641, for every number of coins, attempts, crashes and     *)
(* expired transactions: a coin is bought once, and its purchase names the *)
(* swap that delivered it.                                                 *)
(***************************************************************************)
THEOREM CoinsAreBoughtOnce == NothingLost => (Spec => []BoughtOnce)
<1> SUFFICES ASSUME NothingLost PROVE Spec => []BoughtOnce
  OBVIOUS
<1>1. IInv /\ WInv => BoughtOnce
  <2> SUFFICES ASSUME IInv, WInv, NEW c \in DOMAIN disk.purchases
               PROVE  /\ Cardinality(Delivered(c)) <= 1
                      /\ disk.purchases[c].status = "bought" => Delivered(c) = {disk.purchases[c].swap}
    BY DEF BoughtOnce
  <2>1. \A t, u \in Delivered(c) : t = u
    BY OneDelivery, PurchaseAssumption
  <2>2. Cardinality(Delivered(c)) <= 1
    <3>1. CASE Delivered(c) = {}
      BY <3>1, FS_EmptySet
    <3>2. CASE Delivered(c) # {}
      <4>1. PICK x : Delivered(c) = {x}
        BY <2>1, <3>2
      <4>2. Cardinality({x}) = 1
        BY FS_Singleton, Zenon
      <4>3. QED
        BY <4>1, <4>2
    <3>3. QED
      BY <3>1, <3>2
  <2>3. ASSUME disk.purchases[c].status = "bought"
        PROVE  disk.purchases[c].swap \in Delivered(c)
    BY <2>3 DEF WInv, BoughtDelivered, Delivers, Is, Delivered
  <2>4. QED
    BY <2>1, <2>2, <2>3
<1>2. QED
  BY <1>1, RecordsAreKept, WalletsAreKept, PTL

----------------------------------------------------------------------------
(* The books, in SOL. *)

(* A purchase names transactions that were sent, and counts no further than it may. *)
RefersOK(p) ==
    /\ p.swap = NoTx \/ p.swap \in DOMAIN txs
    /\ p.sweeps \subseteq DOMAIN txs
    /\ p.attempts <= MaxBuyAttempts /\ p.checks <= MaxChecks

ReferencesOK == \A c \in DOMAIN disk.purchases : RefersOK(disk.purchases[c])

(* A wallet is made for one attempt and swaps at most once: it holds what one swap delivers. *)
SwapsOnce ==
    /\ OneSwap
    /\ \A w \in Wallets : Unused(w) => Swaps(w) = {}
    /\ pc \in {"signing", "funding"} => Swaps(Record.wallet) = {}
    /\ \A w \in Wallets : tok[w] > 0 => tok[w] = 1 /\ \E t \in Swaps(w) : txs[t].status = "landed"

(* The sweeps that failed: each cost the wallet it was to empty its fee. *)
Failures == Cardinality(FailedSweeps)

(* What is still to be booked is on the record of the wallet at hand. *)
Due == IF Open THEN Owed(Record) ELSE 0

Gap == pot0 - disk.basket - disk.operations + disk.unbooked

Balanced ==
    /\ outflow \in Int /\ pot0 \in Nat
    /\ disk.basket >= 0 /\ disk.operations >= 0 /\ disk.unbooked >= 0
    /\ outflow = Gap + Due + Failures

BInv == ReferencesOK /\ SwapsOnce /\ Balanced

(* A record with nothing sent owes nothing. *)
LEMMA NothingSent ==
    ASSUME NEW p, p.funding = NoTx, p.sweep = NoTx
    PROVE  Owed(p) = 0
BY DEF Owed, Cost, Outcome, NoTx

(* What a record owes is a number. *)
LEMMA OwedType ==
    ASSUME PurchaseAssumption, Types, NEW c \in DOMAIN disk.purchases, RecordOK(c, disk.purchases[c])
    PROVE  Owed(disk.purchases[c]) \in Int
<1> DEFINE p == disk.purchases[c]
           s == IF Outcome(p.sweep) = "landed" THEN p.sweep ELSE NoTx
<1>1. Funding \in Nat /\ Funding + Fee \in Int
  BY DEF Funding, Types, SavedState, PurchaseAssumption, Fee
<1>2. s # NoTx => s \in DOMAIN txs
  BY DEF RecordOK, Is
<1>3. s # NoTx => txs[s].lamports - Fee \in Int
  BY <1>2, Transactions DEF Fee
<1>4. Owed(p) = (IF Outcome(p.funding) = "landed" THEN Funding + Fee ELSE 0)
                  - (IF s = NoTx THEN 0 ELSE txs[s].lamports - Fee)
  BY DEF Owed, Cost
<1> HIDE DEF p, s
<1>5. Owed(p) \in Int
  BY <1>1, <1>3, <1>4
<1>6. QED
  BY <1>5 DEF p

(* Only the wallet at hand has anything to book. *)
LEMMA OnRecordIsDue ==
    ASSUME PurchaseAssumption, Types, RecordsOK
    PROVE  OnRecord = Due /\ Due \in Int
<1> DEFINE D == DOMAIN disk.purchases
           f == [i \in D |-> Owed(disk.purchases[i])]
<1>1. ASSUME NEW c \in D
      PROVE  RecordOK(c, disk.purchases[c]) /\ Owed(disk.purchases[c]) \in Int
  BY <1>1, OwedType DEF RecordsOK
<1>2. IsFiniteSet(D)
  <2>1. D = {} \/ D = 1 .. CoinCount
    BY BasketShape DEF Coins
  <2> HIDE DEF D
  <2>2. IsFiniteSet(1 .. CoinCount)
    BY FS_Interval DEF PurchaseAssumption
  <2>3. QED
    BY <2>1, <2>2, FS_EmptySet
<1>3. OnRecord = SumFunctionOnSet(f, D)
  BY DEF OnRecord, SumFunction
<1>4. ASSUME NEW c \in D, disk.purchases[c].wallet = NoWallet
      PROVE  f[c] = 0
  BY <1>1, <1>4, NothingSent DEF RecordOK
<1>5. CASE Open
  <2>1. Now \in D /\ f[Now] = Owed(Record)
    BY <1>5, OpenWallet DEF Record
  <2>2. \A c \in D \ {Now} : f[c] = 0
    BY <1>1, <1>4 DEF RecordOK
  <2>3. \A c \in D : f[c] \in Int
    BY <1>1
  <2>4. IsFiniteSet(D \ {Now})
    BY <1>2, FS_Difference
  <2> HIDE DEF f, D
  <2>5. SumFunctionOnSet(f, D) = f[Now] + SumFunctionOnSet(f, D \ {Now})
    BY <1>2, <2>1, <2>3, SumTake
  <2>6. SumFunctionOnSet(f, D \ {Now}) = 0
    BY <2>2, <2>4, SumZero
  <2>7. QED
    BY <1>3, <1>5, <2>1, <2>3, <2>5, <2>6 DEF Due
<1>6. CASE ~Open
  <2>1. ASSUME NEW c \in D, disk.purchases[c].wallet # NoWallet
        PROVE  FALSE
    <3>1. c = Now /\ disk.purchases[c].status = "pending"
      BY <1>1, <2>1 DEF RecordOK
    <3>2. c \in Pending(disk)
      BY <3>1 DEF Pending
    <3>3. QED
      BY <1>6, <2>1, <3>1, <3>2 DEF Open, Record
  <2>2. \A c \in D : f[c] = 0
    BY <1>4, <2>1
  <2> HIDE DEF f, D
  <2>3. SumFunctionOnSet(f, D) = 0
    BY <1>2, <2>2, SumZero
  <2>4. QED
    BY <1>3, <1>6, <2>3 DEF Due
<1>7. QED
  BY <1>5, <1>6

(* Sweeps that failed are finitely many. *)
LEMMA FailedSweepsFinite ==
    ASSUME Types
    PROVE  IsFiniteSet(FailedSweeps) /\ Cardinality(FailedSweeps) \in Nat
<1>1. DOMAIN txs = 1 .. Len(txs) /\ Len(txs) \in Nat
  BY DEF Types
<1>2. IsFiniteSet(DOMAIN txs)
  BY <1>1, FS_Interval
<1>3. FailedSweeps \subseteq DOMAIN txs
  BY DEF FailedSweeps
<1>4. QED
  BY <1>2, <1>3, FS_Subset, FS_CardinalityType

----------------------------------------------------------------------------
(* Steps of the keeper: what is signed is in flight, and no token moves. *)
SwapsKept ==
    /\ OnlySigned /\ tok' = tok
    /\ \A w \in Wallets : Unused(w)' => Unused(w)
    /\ \A t \in DOMAIN txs' \ DOMAIN txs :
          /\ txs'[t].status = "sent" /\ t = Len(txs) + 1
          /\ txs'[t].kind = "swap" =>
                \A w \in Wallets : w = txs'[t].wallet => Swaps(w) = {} /\ ~Unused(w)'
    /\ pc' \in {"signing", "funding"} => Swaps(Record.wallet)' = {}

(* No wallet swaps twice. *)
LEMMA SwapsStayOnce ==
    ASSUME SwapsOnce, SwapsKept, Types'
    PROVE  SwapsOnce'
<1>1. /\ DOMAIN txs \subseteq DOMAIN txs' /\ \A y \in DOMAIN txs : txs'[y] = txs[y]
  BY DEF SwapsKept, OnlySigned
<1>2. OneSwap'
  <2>1. ASSUME NEW t \in DOMAIN txs', NEW u \in DOMAIN txs', t \notin DOMAIN txs,
               txs'[t].kind = "swap", txs'[u].kind = "swap", txs'[t].wallet = txs'[u].wallet
        PROVE  t = u
    <3>1. PICK w \in Wallets : w = txs'[t].wallet
      <4>1. txs'[t] \in Transaction
        BY <2>1 DEF Types
      <4>2. QED
        BY <4>1 DEF Transaction
    <3>2. Swaps(w) = {} /\ t = Len(txs) + 1
      BY <2>1, <3>1 DEF SwapsKept
    <3>5. u \notin DOMAIN txs
      BY <1>1, <2>1, <3>1, <3>2 DEF Swaps, Is
    <3>3. u = Len(txs) + 1
      BY <2>1, <3>5 DEF SwapsKept
    <3>4. QED
      BY <3>2, <3>3
  <2>2. QED
    BY <1>1, <2>1 DEF SwapsOnce, OneSwap
<1>3. ASSUME NEW w \in Wallets, Unused(w)'
      PROVE  Swaps(w)' = {}
  <2>1. Swaps(w) = {}
    BY <1>3 DEF SwapsKept, SwapsOnce
  <2>2. ASSUME NEW t \in DOMAIN txs', txs'[t].kind = "swap", txs'[t].wallet = w
        PROVE  FALSE
    <3>1. CASE t \in DOMAIN txs
      BY <1>1, <2>1, <2>2, <3>1 DEF Swaps, Is
    <3>2. CASE t \notin DOMAIN txs
      BY <1>3, <2>2, <3>2 DEF SwapsKept
    <3>3. QED
      BY <3>1, <3>2
  <2>3. QED
    BY <2>2 DEF Swaps, Is
<1>4. ASSUME NEW w \in Wallets, tok'[w] > 0
      PROVE  tok'[w] = 1 /\ \E t \in Swaps(w)' : txs'[t].status = "landed"
  <2>1. tok'[w] = 1 /\ \E t \in Swaps(w) : txs[t].status = "landed"
    BY <1>4 DEF SwapsKept, SwapsOnce
  <2>2. \A t \in Swaps(w) : t \in Swaps(w)' /\ txs'[t].status = txs[t].status
    BY <1>1 DEF Swaps, Is
  <2>3. QED
    BY <2>1, <2>2
<1>5. QED
  BY <1>2, <1>3, <1>4 DEF SwapsOnce, SwapsKept

(* A booking step and one that only signs keep the balance: what leaves the record is booked. *)
LEMMA KeeperStaysBalanced ==
    ASSUME PurchaseAssumption, IInv, IInv', Balanced, OnlySigned, outflow' = outflow, pot0' = pot0,
           \A t \in DOMAIN txs' \ DOMAIN txs : txs'[t].status = "sent",
           disk'.basket >= 0, disk'.operations >= 0, disk'.unbooked >= 0,
           Gap' + Due' = Gap + Due
    PROVE  Balanced'
<1>1. FailedSweeps' = FailedSweeps
  <2>1. /\ DOMAIN txs \subseteq DOMAIN txs' /\ \A y \in DOMAIN txs : txs'[y] = txs[y]
    BY DEF OnlySigned
  <2>2. QED
    BY <2>1 DEF FailedSweeps
<1>2. QED
  BY <1>1 DEF Balanced, Failures

----------------------------------------------------------------------------
(* The transactions a record names, when a step replaces them. *)
Carries(x, y) == y = x \/ (Outcome(x) # "landed" /\ Outcome(y)' # "landed")

Known(x) == x = NoTx \/ x \in DOMAIN txs

(* A record that names the same landed transactions owes the same. *)
LEMMA OwedCarries ==
    ASSUME OnlySigned, disk'.budget = disk.budget, NEW p, NEW q,
           Known(p.funding), Known(p.sweep), Carries(p.funding, q.funding), Carries(p.sweep, q.sweep)
    PROVE  Owed(q)' = Owed(p)
<1>1. \A x : Known(x) => Outcome(x)' = Outcome(x) /\ (x # NoTx => txs'[x] = txs[x])
  BY DEF Known, OnlySigned, Outcome
<1>2. Funding' = Funding
  BY DEF Funding
<1>3. Outcome(q.funding)' = "landed" <=> Outcome(p.funding) = "landed"
  BY <1>1 DEF Carries
<1>4. \/ q.sweep = p.sweep /\ Outcome(q.sweep)' = Outcome(p.sweep)
      \/ Outcome(p.sweep) # "landed" /\ Outcome(q.sweep)' # "landed"
  BY <1>1 DEF Carries
<1>5. CASE Outcome(p.sweep) = "landed" /\ q.sweep = p.sweep /\ Outcome(q.sweep)' = Outcome(p.sweep)
  <2>1. p.sweep # NoTx => txs'[p.sweep] = txs[p.sweep]
    BY <1>1
  <2>2. QED
    BY <1>2, <1>3, <1>5, <2>1 DEF Owed, Cost
<1>6. CASE Outcome(p.sweep) # "landed" /\ Outcome(q.sweep)' # "landed"
  BY <1>2, <1>3, <1>6 DEF Owed, Cost
<1>7. QED
  BY <1>4, <1>5, <1>6

(* What the record at hand names has been sent. *)
LEMMA RecordKnown ==
    ASSUME PurchaseAssumption, IInv, AtWork
    PROVE  /\ Known(Record.funding) /\ Known(Record.sweep)
           /\ Due = Owed(Record)
<1>1. RecordOK(Now, Record) /\ Pending(disk) # {}
  BY AtHand
<1>2. Known(Record.funding) /\ Known(Record.sweep)
  BY <1>1 DEF RecordOK, Is, Known
<1>3. Due = Owed(Record)
  BY <1>1, NothingSent DEF Due, Open, RecordOK
<1>4. QED
  BY <1>2, <1>3

(* A record that stays open: the books are as they were. *)
LEMMA OpenStepKeepsBooks ==
    ASSUME PurchaseAssumption, IInv, IInv', BInv, AtWork, OnlySigned, NEW q, Rewrites(q),
           Unspent(disk'), outflow' = outflow, pot0' = pot0,
           q.status = Record.status, q.attempts = Record.attempts,
           q.wallet = <<Now, Record.attempts>>, q.wallet \in Wallets,
           \A t \in DOMAIN txs' \ DOMAIN txs :
               /\ txs'[t].wallet = q.wallet /\ txs'[t].status = "sent" /\ t = Len(txs) + 1
               /\ txs'[t].kind = "swap" => Swaps(q.wallet) = {},
           Carries(Record.funding, q.funding), Carries(Record.sweep, q.sweep),
           q.swap \in {Record.swap, Len(txs)}, q.sweeps \subseteq Record.sweeps,
           q.checks \in {0, Record.checks},
           pc' \in {"signing", "funding"} =>
               Swaps(q.wallet) = {} /\ \A t \in DOMAIN txs' \ DOMAIN txs : txs'[t].kind # "swap"
    PROVE  BInv'
<1>1. /\ Pending(disk) # {} /\ Now \in Coins /\ Record.status = "pending"
      /\ Record.wallet # NoWallet => Record.wallet = q.wallet
      /\ Record.attempts < MaxBuyAttempts /\ Record \in PurchaseRecord
  BY AtHand
<1>2. /\ disk.purchases \in [Coins -> PurchaseRecord] /\ DOMAIN disk.purchases = Coins
      /\ Types /\ RecordsOK /\ (Types /\ RecordsOK)'
  BY <1>1, NextCoin DEF IInv
<1>3. disk'.purchases = [disk.purchases EXCEPT ![Now] = q] /\ tok' = tok /\ disk'.budget = disk.budget
  BY DEF Rewrites, Rewritten
<1>4. /\ DOMAIN disk'.purchases = Coins /\ disk'.purchases[Now] = q
      /\ \A c \in Coins \ {Now} : disk'.purchases[c] = disk.purchases[c]
  BY <1>1, <1>2, <1>3
<1>5. q.wallet # NoWallet /\ q.wallet[1] = Now /\ q.wallet[2] = Record.attempts
  BY WalletParts
<1>6. /\ Pending(disk') = Pending(disk) /\ Now' = Now /\ Record' = q /\ Open'
  <2>1. Pending(disk') = Pending(disk)
    BY <1>1, <1>2, <1>4 DEF Pending, Record
  <2>2. Now' = Now /\ Record' = q
    BY <1>4, <2>1 DEF Now, Record
  <2>3. QED
    BY <1>1, <1>5, <2>1, <2>2 DEF Open
<1>7. /\ DOMAIN txs \subseteq DOMAIN txs' /\ \A y \in DOMAIN txs : txs'[y] = txs[y]
  BY DEF OnlySigned
<1>8. ReferencesOK'
  <2>1. ASSUME NEW c \in Coins, c # Now
        PROVE  RefersOK(disk.purchases[c])'
    BY <1>2, <1>4, <1>7, <2>1 DEF BInv, ReferencesOK, RefersOK
  <2>2. RefersOK(Record)
    BY <1>1, <1>2 DEF BInv, ReferencesOK, Record
  <2>3. q.swap = NoTx \/ q.swap \in DOMAIN txs'
    <3>1. Len(txs) \in {0} \cup DOMAIN txs
      BY <1>2 DEF Types
    <3>2. QED
      BY <1>7, <2>2, <3>1 DEF RefersOK, NoTx
  <2>4. q.attempts <= MaxBuyAttempts /\ q.checks <= MaxChecks
    BY <1>1, <2>2 DEF RefersOK, PurchaseAssumption, PurchaseRecord
  <2>5. RefersOK(q)'
    BY <1>7, <2>2, <2>3, <2>4 DEF RefersOK
  <2>6. QED
    BY <1>4, <2>1, <2>5 DEF ReferencesOK
<1>9. SwapsOnce'
  <2>1. ASSUME NEW w \in Wallets, Unused(w)'
        PROVE  Unused(w) /\ w # q.wallet
    <3>1. CASE w[1] = Now
      <4>1. w[2] > q.attempts
        BY <1>1, <1>4, <1>5, <2>1, <3>1 DEF Unused
      <4>2. w # q.wallet
        BY <1>5, <4>1, WalletParts
      <4>3. QED
        BY <3>1, <4>1, <4>2 DEF Unused, Record
    <3>2. CASE w[1] # Now
      BY <1>2, <1>4, <1>5, <2>1, <3>2 DEF Unused
    <3>3. QED
      BY <3>1, <3>2
  <2>2. pc' \in {"signing", "funding"} => Swaps(q.wallet)' = {}
    BY <1>7 DEF Swaps, Is
  <2>3. SwapsKept
    BY <1>3, <1>6, <2>1, <2>2 DEF SwapsKept
  <2>4. QED
    BY <1>2, <2>3, SwapsStayOnce DEF BInv
<1>10. Balanced'
  <2>1. Due' = Owed(q)'
    BY <1>6 DEF Due
  <2>2. Owed(q)' = Owed(Record) /\ Due = Owed(Record)
    BY <1>3, RecordKnown, OwedCarries
  <2>3. Gap' = Gap
    BY DEF Gap, Unspent
  <2>4. /\ disk'.basket >= 0 /\ disk'.operations >= 0 /\ disk'.unbooked >= 0
    BY DEF BInv, Balanced, Unspent
  <2>5. QED
    BY <2>1, <2>2, <2>3, <2>4, KeeperStaysBalanced DEF BInv
<1>11. QED
  BY <1>8, <1>9, <1>10 DEF BInv

(* The steps of one attempt, from the key to the sweep. *)
LEMMA RecordStepsKeepBooks ==
    ASSUME PurchaseAssumption, IInv, IInv', BInv,
           \/ NewSwapWallet \/ FundWallet \/ QuoteRefused \/ SendSwap \/ SwapAnswered \/ SignSweep
    PROVE  BInv'
<1>1. ASSUME txs' = txs
      PROVE  OnlySigned /\ DOMAIN txs' \ DOMAIN txs = {}
  BY <1>1 DEF OnlySigned, IInv, Types
<1>2. AtWork => /\ Record.status = "pending" /\ Now \in DOMAIN disk.purchases /\ Record \in PurchaseRecord
                /\ pc # "idle" => Record.wallet = <<Now, Record.attempts>> /\ Record.wallet \in Wallets
  BY AtHand
<1>3. outflow' = outflow /\ pot0' = pot0
  BY DEF NewSwapWallet, FundWallet, QuoteRefused, SendSwap, SwapAnswered, SignSweep, SendSweep, chain, history
<1>4. \A x : Carries(x, x)
  BY DEF Carries
<1>5. pc \in {"signing", "funding"} => Swaps(Record.wallet) = {}
  BY DEF BInv, SwapsOnce
<1>6. CASE NewSwapWallet
  <2>1. /\ Unspent(disk') /\ AtWork /\ pc = "idle" /\ Record.wallet = NoWallet
        /\ <<Now, Record.attempts>> \in Wallets /\ txs' = txs
    BY <1>6, NewSwapWalletDoes
  <2>2. PICK q : /\ Rewrites(q)
                 /\ q.wallet = <<Now, Record.attempts>>
                 /\ q.sweeps = {} /\ q.checks = 0
                 /\ q.status = Record.status /\ q.funding = Record.funding
                 /\ q.sweep = Record.sweep /\ q.swap = Record.swap
                 /\ q.attempts = Record.attempts
    BY <1>6, NewSwapWalletDoes
  <2>3. q.wallet \in Wallets /\ q.wallet[1] = Now /\ q.wallet[2] = Record.attempts
    BY <2>1, <2>2
  <2>4. Swaps(q.wallet) = {}
    <3>1. Unused(q.wallet)
      BY <1>2, <2>1, <2>3 DEF Unused, Record
    <3>2. QED
      BY <2>3, <3>1 DEF BInv, SwapsOnce
  <2>5. QED
    BY <1>1, <1>3, <1>4, <2>1, <2>2, <2>3, <2>4, OpenStepKeepsBooks
<1>7. CASE FundWallet
  <2>1. /\ Unspent(disk') /\ AtWork /\ pc = "signing"
        /\ Signs("fund", 0, Funding) /\ OnlySigned /\ pc' = "funding"
    BY <1>7, FundWalletDoes
  <2>2. PICK q : /\ Rewrites(q)
                 /\ q.funding = Len(txs) + 1
                 /\ q.wallet = Record.wallet
                 /\ q.sweeps = Record.sweeps /\ q.checks = Record.checks
                 /\ q.status = Record.status /\ q.sweep = Record.sweep
                 /\ q.swap = Record.swap /\ q.attempts = Record.attempts
    BY <1>7, FundWalletDoes
  <2>3. q.wallet \in Wallets /\ q.wallet = <<Now, Record.attempts>> /\ Swaps(q.wallet) = {}
    BY <1>2, <1>5, <2>1, <2>2
  <2>4. \A t \in DOMAIN txs' \ DOMAIN txs :
           /\ txs'[t].wallet = q.wallet /\ txs'[t].status = "sent" /\ t = Len(txs) + 1
           /\ txs'[t].kind = "fund"
    BY <2>1, <2>2 DEF Signs, Sent
  <2>5. Carries(Record.funding, q.funding)
    <3>1. Record.funding = NoTx
      BY <2>1 DEF IInv, StepsOK
    <3>2. Outcome(q.funding)' = "sent"
      BY <2>1, <2>2 DEF Signs, Sent, Outcome
    <3>3. QED
      BY <3>1, <3>2 DEF Carries, Outcome
  <2>6. QED
    BY <1>3, <1>4, <2>1, <2>2, <2>3, <2>4, <2>5, OpenStepKeepsBooks
<1>8. CASE QuoteRefused
  <2>1. Unspent(disk') /\ AtWork /\ pc = "funding" /\ txs' = txs /\ pc' = "settling"
    BY <1>8, QuoteRefusedDoes
  <2>2. PICK q : /\ Rewrites(q)
                 /\ q.wallet = Record.wallet /\ q.funding = Record.funding
                 /\ q.sweeps = Record.sweeps /\ q.checks = Record.checks
                 /\ q.status = Record.status /\ q.sweep = Record.sweep
                 /\ q.swap = Record.swap /\ q.attempts = Record.attempts
    BY <1>8, QuoteRefusedDoes
  <2>3. QED
    BY <1>1, <1>2, <1>3, <1>4, <2>1, <2>2, OpenStepKeepsBooks
<1>9. CASE SwapAnswered
  <2>1. Unspent(disk') /\ AtWork /\ pc = "swapping" /\ txs' = txs /\ pc' = "settling"
    BY <1>9, SwapAnsweredDoes
  <2>2. PICK q : /\ Rewrites(q)
                 /\ q.swap = Len(txs)
                 /\ q.wallet = Record.wallet /\ q.funding = Record.funding
                 /\ q.sweeps = Record.sweeps /\ q.checks = Record.checks
                 /\ q.status = Record.status /\ q.sweep = Record.sweep
                 /\ q.attempts = Record.attempts
    BY <1>9, SwapAnsweredDoes
  <2>3. QED
    BY <1>1, <1>2, <1>3, <1>4, <2>1, <2>2, OpenStepKeepsBooks
<1>10. CASE SendSwap
  <2>1. /\ AtWork /\ pc = "funding" /\ Signs("swap", 0, 0) /\ OnlySigned
        /\ pc' = "swapping" /\ Rewrites(Record) /\ disk' = disk
    BY <1>10, SendSwapDoes
  <2>2. PICK q : q = Record
    OBVIOUS
  <2>3. Rewrites(q) /\ Unspent(disk') /\ Swaps(q.wallet) = {}
    BY <1>5, <2>1, <2>2 DEF Unspent
  <2>4. \A t \in DOMAIN txs' \ DOMAIN txs :
           txs'[t].wallet = q.wallet /\ txs'[t].status = "sent" /\ t = Len(txs) + 1
    BY <2>1, <2>2 DEF Signs, Sent
  <2>5. QED
    BY <1>2, <1>3, <1>4, <2>1, <2>2, <2>3, <2>4, OpenStepKeepsBooks
<1>11. CASE SignSweep
  <2>1. Unspent(disk') /\ AtWork /\ pc \in Reading /\ pc' = "sweeping" /\ OnlySigned
    BY <1>11, SignSweepDoes
  <2>2. PICK tokens \in Nat, lamports \in Nat : Signs("sweep", tokens, lamports)
    BY <1>11, SignSweepDoes
  <2>3. PICK q : /\ Rewrites(q)
                 /\ q.sweep = Len(txs) + 1
                 /\ q.wallet = Record.wallet /\ q.funding = Record.funding
                 /\ q.sweeps = Record.sweeps /\ q.checks = Record.checks
                 /\ q.status = Record.status /\ q.swap = Record.swap
                 /\ q.attempts = Record.attempts
    BY <1>11, SignSweepDoes
  <2>4. pc # "idle"
    BY <2>1 DEF Reading
  <2>5. \A t \in DOMAIN txs' \ DOMAIN txs :
           /\ txs'[t].wallet = q.wallet /\ txs'[t].status = "sent" /\ t = Len(txs) + 1
           /\ txs'[t].kind = "sweep"
    BY <2>2, <2>3 DEF Signs, Sent
  <2>6. Carries(Record.sweep, q.sweep)
    <3>1. Outcome(Record.sweep) # "landed"
      BY <2>1 DEF IInv, StepsOK
    <3>2. Outcome(q.sweep)' = "sent"
      BY <2>2, <2>3 DEF Signs, Sent, Outcome
    <3>3. QED
      BY <3>1, <3>2 DEF Carries
  <2>7. QED
    BY <1>2, <1>3, <1>4, <2>1, <2>3, <2>4, <2>5, <2>6, OpenStepKeepsBooks
<1>12. QED
  BY <1>6, <1>7, <1>8, <1>9, <1>10, <1>11

(* A step that leaves the purchases and the transactions alone. *)
LEMMA SameRecordsKeepBooks ==
    ASSUME PurchaseAssumption, IInv, IInv', BInv,
           txs' = txs, tok' = tok, outflow' = outflow, pot0' = pot0,
           disk'.purchases = disk.purchases, disk'.budget = disk.budget \/ disk.purchases = NoBasket,
           Gap' = Gap, disk'.basket >= 0, disk'.operations >= 0, disk'.unbooked >= 0,
           pc' \in {"signing", "funding"} => pc' = pc
    PROVE  BInv'
<1>1. /\ Pending(disk') = Pending(disk) /\ Now' = Now /\ Record' = Record /\ Open' = Open
  BY DEF Pending, Now, Record, Open
<1>2. /\ \A w : Unused(w)' = Unused(w) /\ Swaps(w)' = Swaps(w)
      /\ FailedSweeps' = FailedSweeps
  BY DEF Unused, Swaps, Is, FailedSweeps
<1>3. ReferencesOK'
  BY DEF BInv, ReferencesOK, RefersOK
<1>4. SwapsOnce'
  BY <1>1, <1>2 DEF BInv, SwapsOnce, OneSwap
<1>5. Due' = Due
  <2>1. CASE disk'.budget = disk.budget
    <3>1. \A p : Owed(p)' = Owed(p)
      BY <2>1 DEF Owed, Cost, Outcome, Funding
    <3>2. QED
      BY <1>1, <3>1 DEF Due
  <2>2. CASE disk.purchases = NoBasket
    <3>1. Pending(disk) = {}
      BY <2>2 DEF Pending, NoBasket
    <3>2. QED
      BY <1>1, <3>1 DEF Due, Open
  <2>3. QED
    BY <2>1, <2>2
<1>6. Balanced'
  BY <1>2, <1>5 DEF BInv, Balanced, Failures
<1>7. QED
  BY <1>3, <1>4, <1>6 DEF BInv

(* Losing memory, giving up on an answer, and reading, change nothing that counts. *)
LEMMA QuietStepsKeepBooks ==
    ASSUME PurchaseAssumption, IInv, IInv', BInv,
           SwapThrew \/ SendThrew \/ SweepRefused \/ Abort \/ ReadTokens \/ UNCHANGED vars
    PROVE  BInv'
<1>1. disk' = disk /\ txs' = txs /\ tok' = tok /\ outflow' = outflow /\ pot0' = pot0
  BY DEF SwapThrew, SendThrew, SweepRefused, Abort, ReadTokens, vars, chain, history
<1>2. pc' \in {"signing", "funding"} => pc' = pc
  BY DEF SwapThrew, SendThrew, SweepRefused, Abort, Lose, ReadTokens, vars
<1>3. Gap' = Gap
  BY <1>1 DEF Gap
<1>4. disk.basket >= 0 /\ disk.operations >= 0 /\ disk.unbooked >= 0
  BY DEF BInv, Balanced
<1>5. QED
  BY <1>1, <1>2, <1>3, <1>4, SameRecordsKeepBooks

(* Reserving moves no SOL. *)
LEMMA ReserveAssetsKeepsBooks ==
    ASSUME PurchaseAssumption, IInv, IInv', BInv, ReserveAssets
    PROVE  BInv'
<1>1. /\ pc' = "idle" /\ txs' = txs /\ tok' = tok /\ Unspent(disk')
      /\ disk'.purchases = disk.purchases /\ disk'.budget = disk.budget
  BY ReserveAssetsDoes
<1>2. outflow' = outflow /\ pot0' = pot0
  BY DEF ReserveAssets, chain, history
<1>3. Gap' = Gap /\ disk'.basket >= 0 /\ disk'.operations >= 0 /\ disk'.unbooked >= 0
  BY <1>1, <1>2 DEF Gap, Unspent, BInv, Balanced
<1>4. QED
  BY <1>1, <1>2, <1>3, SameRecordsKeepBooks

(* Selecting moves the reserve to operations, before anything was sent. *)
LEMMA SelectKeepsBooks ==
    ASSUME PurchaseAssumption, IInv, IInv', BInv, Select
    PROVE  BInv'
<1>1. /\ pc' = "idle" /\ disk.purchases = NoBasket /\ txs' = txs /\ tok' = tok
  BY SelectDoes
<1>2. outflow' = outflow /\ pot0' = pot0
  BY DEF Select, chain, history
<1>3. CASE disk'.purchases = disk.purchases /\ Unspent(disk')
  <2>1. Gap' = Gap /\ disk'.basket >= 0 /\ disk'.operations >= 0 /\ disk'.unbooked >= 0
    BY <1>2, <1>3 DEF Gap, Unspent, BInv, Balanced
  <2>2. QED
    BY <1>1, <1>2, <1>3, <2>1, SameRecordsKeepBooks
<1>4. CASE /\ disk'.purchases = [c \in Coins |-> NewPurchase]
           /\ disk.basket > Reserve /\ disk'.basket = disk.basket - Reserve
           /\ disk'.operations = disk.operations + Reserve /\ disk'.unbooked = disk.unbooked
  <2>1. DOMAIN disk.purchases = {}
    BY <1>1 DEF NoBasket
  <2>2. \A w \in Wallets : Unused(w)
    BY <2>1 DEF Unused
  <2>3. ~Open
    BY <2>1 DEF Open, Pending
  <2>4. \A c \in DOMAIN disk'.purchases : disk'.purchases[c] = NewPurchase
    BY <1>4
  <2>5. ~Open'
    <3>1. NewPurchase.wallet = NoWallet
      BY DEF NewPurchase
    <3>2. ASSUME Open'
          PROVE  FALSE
      <4>1. Now' \in DOMAIN disk'.purchases /\ Record'.wallet # NoWallet
        BY <3>2, OpenWalletNext DEF IInv, Open
      <4>2. QED
        BY <2>4, <3>1, <4>1 DEF Record
    <3>3. QED
      BY <3>2
  <2>6. disk.basket \in Int /\ disk.operations \in Int /\ disk.unbooked \in Int /\ Reserve \in Nat
    BY DEF IInv, Types, SavedState, PurchaseAssumption
  <2>7. ReferencesOK'
    <3>1. /\ NewPurchase.swap = NoTx /\ NewPurchase.sweeps = {}
          /\ NewPurchase.attempts = 0 /\ NewPurchase.checks = 0
      BY DEF NewPurchase
    <3>2. 0 <= MaxBuyAttempts /\ 0 <= MaxChecks
      BY DEF PurchaseAssumption
    <3>3. QED
      BY <2>4, <3>1, <3>2 DEF ReferencesOK, RefersOK
  <2>8. SwapsOnce'
    <3>1. OnlySigned /\ DOMAIN txs' \ DOMAIN txs = {}
      BY <1>1 DEF OnlySigned, IInv, Types
    <3>2. SwapsKept
      BY <1>1, <2>2, <3>1 DEF SwapsKept
    <3>3. QED
      BY <3>2, SwapsStayOnce DEF BInv, IInv
  <2>9. Balanced'
    <3>1. Due' = 0 /\ Due = 0
      BY <2>3, <2>5 DEF Due
    <3>2. pot0 \in Nat /\ disk.basket >= 0 /\ disk.operations >= 0 /\ disk.unbooked >= 0
      BY DEF BInv, Balanced
    <3>3. Gap' = Gap
      BY <1>2, <1>4, <2>6, <3>2 DEF Gap
    <3>4. disk'.basket >= 0 /\ disk'.operations >= 0 /\ disk'.unbooked >= 0
      BY <1>4, <2>6, <3>2
    <3>5. OnlySigned /\ DOMAIN txs' \ DOMAIN txs = {}
      BY <1>1 DEF OnlySigned, IInv, Types
    <3>6. QED
      BY <1>2, <3>1, <3>3, <3>4, <3>5, KeeperStaysBalanced DEF BInv
  <2>10. QED
    BY <2>7, <2>8, <2>9 DEF BInv
<1>5. QED
  BY <1>3, <1>4, SelectDoes

(* Skipping the rest drops no wallet. *)
LEMMA SkipRestKeepsBooks ==
    ASSUME PurchaseAssumption, IInv, IInv', BInv, SkipRest
    PROVE  BInv'
<1>1. /\ pc' = "idle" /\ txs' = txs /\ tok' = tok /\ Unspent(disk')
      /\ DOMAIN disk.purchases = Coins /\ disk'.purchases \in [Coins -> PurchaseRecord]
      /\ \A c \in Coins :
                 LET p == disk.purchases[c]
                     r == disk'.purchases[c]
                 IN /\ p.wallet = NoWallet /\ r.wallet = NoWallet
                    /\ r.status = IF p.status = "pending" THEN "skipped" ELSE p.status
                    /\ r.funding = p.funding /\ r.sweep = p.sweep /\ r.swap = p.swap
                    /\ r.attempts = p.attempts /\ r.sweeps = p.sweeps /\ r.checks = p.checks
  BY SkipRestDoes
<1>2. outflow' = outflow /\ pot0' = pot0
  BY DEF SkipRest, chain, history
<1>3. OnlySigned /\ DOMAIN txs' \ DOMAIN txs = {}
  BY <1>1 DEF OnlySigned, IInv, Types
<1>4. DOMAIN disk'.purchases = Coins
  BY <1>1
<1>5. ~Open
  BY <1>1, OpenWallet DEF IInv, Record, Open
<1>6. ~Open'
  <2>1. Open' => Now' \in DOMAIN disk'.purchases /\ Record'.wallet # NoWallet
    BY OpenWalletNext DEF IInv, Open
  <2>2. QED
    BY <1>1, <1>4, <2>1 DEF Record
<1>7. ReferencesOK'
  BY <1>1, <1>4 DEF BInv, ReferencesOK, RefersOK
<1>8. SwapsOnce'
  <2>1. \A w \in Wallets : Unused(w)' => Unused(w)
    BY <1>1, <1>4 DEF Unused
  <2>2. SwapsKept
    BY <1>1, <1>3, <2>1 DEF SwapsKept
  <2>3. QED
    BY <2>2, SwapsStayOnce DEF BInv, IInv
<1>9. Balanced'
  <2>1. Due' = 0 /\ Due = 0
    BY <1>5, <1>6 DEF Due
  <2>2. Gap' = Gap /\ disk'.basket >= 0 /\ disk'.operations >= 0 /\ disk'.unbooked >= 0
    BY <1>1, <1>2 DEF Gap, Unspent, BInv, Balanced
  <2>3. QED
    BY <1>2, <1>3, <2>1, <2>2, KeeperStaysBalanced DEF BInv
<1>10. QED
  BY <1>7, <1>8, <1>9 DEF BInv

(* What an attempt cost is booked in the save that takes its transactions off the record. *)
LEMMA BookStepsKeepBooks ==
    ASSUME PurchaseAssumption, IInv, IInv', BInv, SettleFromRecord \/ SweepAnswered \/ NothingToSweep
    PROVE  BInv'
<1>1. AtWork /\ Record.wallet # NoWallet /\ txs' = txs /\ tok' = tok
  BY BookStepDoes
<1>2. PICK sweep \in {NoTx} \cup DOMAIN txs, blind \in BOOLEAN :
                 /\ Book(sweep, blind)
                 /\ \/ sweep # NoTx /\ sweep = Record.sweep /\ txs[sweep].status = "landed"
                    \/ pc = "readNone" /\ sweep = NoTx
  BY BookStepDoes
<1>3. PICK q \in PurchaseRecord :
               /\ BookedAs(q, sweep, Found(sweep, blind))
               /\ Rewritten(disk', q)
               /\ Debited(Cost(Purchase, sweep))
               /\ pc' = "idle"
  BY <1>1, <1>2, BookDecides DEF IInv
<1>4. /\ Pending(disk) # {} /\ Now \in Coins /\ Record \in PurchaseRecord
      /\ Record.status = "pending" /\ Record.attempts < MaxBuyAttempts
      /\ Purchase.funding = Record.funding
      /\ disk.purchases \in [Coins -> PurchaseRecord] /\ DOMAIN disk.purchases = Coins
  BY <1>1, AtHand, NextCoin DEF IInv
<1>5. /\ DOMAIN disk'.purchases = Coins /\ disk'.purchases[Now] = q
      /\ \A c \in Coins \ {Now} : disk'.purchases[c] = disk.purchases[c]
      /\ disk'.budget = disk.budget
  BY <1>3, <1>4 DEF Rewritten
<1>6. outflow' = outflow /\ pot0' = pot0
  BY DEF SettleFromRecord, SweepAnswered, NothingToSweep, chain
<1>7. OnlySigned /\ DOMAIN txs' \ DOMAIN txs = {}
  BY <1>1 DEF OnlySigned, IInv, Types
<1> DEFINE swaps == Found(sweep, blind)
<1>8. /\ q.funding = NoTx /\ q.sweep = NoTx
      /\ q.sweeps = Record.sweeps \cup Swept(sweep)
      /\ Decided(q, sweep, swaps)
  BY <1>3 DEF BookedAs
<1>9. RefersOK(Record)
  BY <1>4 DEF BInv, ReferencesOK, Record
<1>10. swaps # {} => Min(swaps) \in DOMAIN txs
  <2>1. swaps \subseteq DOMAIN txs
    <3>1. Record.swap # NoTx => Record.swap \in DOMAIN txs
      BY <1>9 DEF RefersOK
    <3>2. QED
      BY <3>1 DEF Found
  <2>2. DOMAIN txs \subseteq Nat
    BY DEF IInv, Types
  <2> HIDE DEF swaps
  <2>3. QED
    BY <2>1, <2>2, LeastElement
<1> HIDE DEF swaps
<1>11. ReferencesOK'
  <2>1. q.swap = NoTx \/ q.swap \in DOMAIN txs
    BY <1>8, <1>9, <1>10 DEF Decided, RefersOK, Again
  <2>2. q.sweeps \subseteq DOMAIN txs
    BY <1>2, <1>8, <1>9 DEF RefersOK, Swept
  <2>3. Record.attempts \in Nat /\ Record.checks \in Nat /\ MaxBuyAttempts \in Nat /\ MaxChecks \in Nat
    BY <1>4 DEF PurchaseRecord, PurchaseAssumption
  <2>4. q.attempts <= MaxBuyAttempts
    BY <1>4, <1>8, <2>3 DEF Decided
  <2>5. q.checks <= MaxChecks
    BY <1>8, <1>9, <2>3 DEF Decided, Again, RefersOK
  <2>6. RefersOK(q)'
    BY <1>1, <2>1, <2>2, <2>4, <2>5 DEF RefersOK
  <2>7. ASSUME NEW c \in Coins, c # Now
        PROVE  RefersOK(disk.purchases[c])'
    BY <1>1, <1>4, <1>5, <2>7 DEF BInv, ReferencesOK, RefersOK
  <2>8. QED
    BY <1>5, <2>6, <2>7 DEF ReferencesOK
<1>12. SwapsOnce'
  <2>1. ASSUME NEW w \in Wallets, Unused(w)'
        PROVE  Unused(w)
    <3>1. CASE w[1] = Now
      <4>1. w[2] \in Nat /\ q.attempts \in Nat /\ Record.attempts \in Nat
        BY <1>4, WalletParts DEF PurchaseRecord
      <4>2. w[2] > q.attempts \/ (w[2] = q.attempts /\ q.status = "pending" /\ q.wallet = NoWallet)
        BY <1>4, <1>5, <2>1, <3>1 DEF Unused
      <4>3. q.attempts >= Record.attempts
        BY <1>8, <4>1 DEF Decided
      <4>4. q.status = "pending" /\ q.wallet = NoWallet => q.attempts > Record.attempts
        BY <1>1, <1>8, <4>1 DEF Decided
      <4>5. w[2] > Record.attempts
        BY <4>1, <4>2, <4>3, <4>4
      <4>6. QED
        BY <3>1, <4>5 DEF Unused, Record
    <3>2. CASE w[1] # Now
      BY <1>4, <1>5, <2>1, <3>2 DEF Unused
    <3>3. QED
      BY <3>1, <3>2
  <2>2. SwapsKept
    BY <1>1, <1>3, <1>7, <2>1 DEF SwapsKept
  <2>3. QED
    BY <2>2, SwapsStayOnce DEF BInv, IInv
<1>13. Due' = 0
  <2>1. ASSUME Open'
        PROVE  Owed(Record)' = 0
    <3>1. Now' \in Coins /\ Record'.wallet # NoWallet
      BY <1>5, <2>1, OpenWalletNext DEF IInv, Open
    <3>2. Now' = Now
      <4>1. ASSUME Now' # Now
            PROVE  FALSE
        <5>1. Record' = disk.purchases[Now']
          BY <1>5, <3>1, <4>1 DEF Record
        <5>2. \A c \in Coins : RecordOK(c, disk.purchases[c])
          BY <1>4 DEF IInv, RecordsOK
        <5>3. \A c \in Coins : disk.purchases[c].wallet # NoWallet => c = Now
          BY <5>2 DEF RecordOK
        <5>4. QED
          BY <3>1, <4>1, <5>1, <5>3
      <4>2. QED
        BY <4>1
    <3>3. Record' = q
      BY <1>5, <3>2 DEF Record
    <3>4. Record'.funding = NoTx /\ Record'.sweep = NoTx
      BY <1>8, <3>3
    <3>5. QED
      BY <3>4 DEF Owed, Cost, Outcome, NoTx
  <2>2. QED
    BY <2>1 DEF Due
<1>14. Due = Cost(Purchase, sweep) /\ Due \in Int
  <2>1. Due = Owed(Record) /\ Due \in Int
    BY <1>1, RecordKnown, OnRecordIsDue DEF IInv
  <2>2. sweep = IF Outcome(Record.sweep) = "landed" THEN Record.sweep ELSE NoTx
    BY <1>2 DEF Outcome, IInv, StepsOK, Reading
  <2>3. Owed(Record) = Cost(Record, sweep)
    BY <2>2 DEF Owed
  <2>4. Cost(Record, sweep) = Cost(Purchase, sweep)
    BY <1>4 DEF Cost
  <2>5. QED
    BY <2>1, <2>3, <2>4
<1>15. Balanced'
  <2>1. /\ disk.basket \in Int /\ disk.unbooked \in Int /\ disk.operations \in Int
        /\ disk'.basket \in Int /\ disk'.unbooked \in Int
    BY DEF IInv, Types, SavedState
  <2>2. pot0 \in Nat /\ disk.basket >= 0 /\ disk.operations >= 0 /\ disk.unbooked >= 0
    BY DEF BInv, Balanced
  <2>3. PICK cost \in Int : cost = Due
    BY <1>14
  <2>4. Debited(cost)
    BY <1>3, <1>14, <2>3
  <2>5. disk'.basket >= 0 /\ disk'.operations >= 0 /\ disk'.unbooked >= 0
    BY <2>2, <2>4 DEF Debited
  <2>6. Gap' = Gap + cost
    BY <1>6, <2>1, <2>2, <2>4 DEF Gap, Debited
  <2>7. Gap \in Int
    BY <2>1, <2>2 DEF Gap
  <2>8. Gap' + Due' = Gap + Due
    BY <1>13, <2>3, <2>6, <2>7
  <2>9. QED
    BY <1>6, <1>7, <2>5, <2>8, KeeperStaysBalanced DEF BInv
<1>16. QED
  BY <1>11, <1>12, <1>15 DEF BInv

----------------------------------------------------------------------------
(* The chain resolves a transaction. *)

(* What the record at hand owes once t is final. *)
LEMMA FinalisedDue ==
    ASSUME PurchaseAssumption, IInv, NEW t \in DOMAIN txs, InFlight(t), Finalised(t)
    PROVE  Due' = Due + (IF txs'[t].status # "landed" THEN 0
                         ELSE IF txs[t].kind = "fund" THEN Funding + Fee
                         ELSE IF txs[t].kind = "sweep" THEN Fee - txs[t].lamports
                         ELSE 0)
<1>1. /\ Pending(disk') = Pending(disk) /\ Now' = Now /\ Record' = Record /\ Open' = Open
      /\ Funding' = Funding
  BY DEF Finalised, Pending, Now, Record, Open, Funding
<1>2. t # NoTx /\ txs[t].kind \in Kinds /\ txs[t].lamports \in Nat
  BY Transactions DEF IInv
<1>3. Funding \in Nat
  BY DEF Funding, IInv, Types, SavedState, PurchaseAssumption
<1>4. Outcome(t) = "sent" /\ Outcome(t)' = txs'[t].status
  BY <1>2 DEF Outcome, InFlight
<1>5. ASSUME NEW x, Known(x), x # t
      PROVE  Outcome(x)' = Outcome(x) /\ (x # NoTx => txs'[x] = txs[x])
  BY <1>5 DEF Known, Finalised, Outcome
<1>6. CASE ~Open
  <2>1. txs[t].kind = "swap"
    BY <1>2, <1>6, InFlightIsOpen DEF Kinds
  <2>2. QED
    BY <1>1, <1>6, <2>1 DEF Due
<1>7. CASE Open
  <2> DEFINE F == Record.funding
             S == Record.sweep
  <2>1. RecordOK(Now, Record)
    BY <1>7, OpenWallet DEF IInv
  <2>2. /\ Known(F) /\ Known(S)
        /\ F # NoTx => txs[F].kind = "fund"
        /\ S # NoTx => txs[S].kind = "sweep"
    BY <2>1 DEF RecordOK, Is, Known
  <2>3. Due = Owed(Record) /\ Due' = Owed(Record)' /\ Due \in Int
    BY <1>1, <1>7, OnRecordIsDue DEF Due, IInv
  <2> DEFINE fund == IF Outcome(F) = "landed" THEN Funding + Fee ELSE 0
             back == IF Outcome(S) = "landed" THEN (IF S = NoTx THEN 0 ELSE txs[S].lamports - Fee) ELSE 0
  <2>4. Owed(Record) = fund - back
    BY DEF Owed, Cost
  <2>5. Owed(Record)' = fund' - back'
    BY DEF Owed, Cost
  <2>6. fund \in Int /\ back \in Int
    <3>1. Known(S) /\ S # NoTx => txs[S].lamports - Fee \in Int
      BY Transactions DEF Known, IInv, Fee
    <3>2. QED
      BY <1>3, <2>2, <3>1 DEF Fee
  <2>7. fund' = IF F = t /\ txs'[t].status = "landed" THEN Funding + Fee ELSE IF F = t THEN 0 ELSE fund
    BY <1>1, <1>4, <1>5, <2>2
  <2>8. back' = IF S = t /\ txs'[t].status = "landed" THEN txs[t].lamports - Fee ELSE IF S = t THEN 0 ELSE back
    <3>1. CASE S = t
      <4>1. txs'[t].lamports = txs[t].lamports
        BY DEF Finalised
      <4>2. QED
        BY <1>1, <1>2, <1>4, <3>1, <4>1
    <3>2. CASE S # t
      BY <1>1, <1>5, <2>2, <3>2
    <3>3. QED
      BY <3>1, <3>2
  <2>9. (F = t => fund = 0) /\ (S = t => back = 0)
    BY <1>4
  <2>10. txs[t].kind = "fund" => F = t /\ S # t
    BY <1>2, <2>2, InFlightIsOpen
  <2>11. txs[t].kind = "sweep" => S = t /\ F # t
    BY <1>2, <2>2, InFlightIsOpen
  <2>12. txs[t].kind = "swap" => S # t /\ F # t
    BY <1>2, <2>2
  <2> HIDE DEF fund, back, F, S
  <2>13. PICK a \in Int, b \in Int : a = fund /\ b = back
    BY <2>6
  <2>14. Due = a - b
    BY <2>3, <2>4, <2>13
  <2>15. CASE txs[t].kind = "fund"
    <3>1. back' = b /\ a = 0 /\ fund' = IF txs'[t].status = "landed" THEN Funding + Fee ELSE 0
      BY <2>7, <2>8, <2>9, <2>10, <2>13, <2>15
    <3>2. QED
      BY <1>3, <2>3, <2>5, <2>14, <2>15, <3>1 DEF Fee
  <2>16. CASE txs[t].kind = "sweep"
    <3>1. fund' = a /\ b = 0 /\ back' = IF txs'[t].status = "landed" THEN txs[t].lamports - Fee ELSE 0
      BY <2>7, <2>8, <2>9, <2>11, <2>13, <2>16
    <3>2. QED
      BY <1>2, <2>3, <2>5, <2>14, <2>16, <3>1 DEF Fee
  <2>17. CASE txs[t].kind = "swap"
    <3>1. fund' = a /\ back' = b
      BY <2>7, <2>8, <2>12, <2>13, <2>17
    <3>2. QED
      BY <2>3, <2>5, <2>14, <2>17, <3>1
  <2>18. QED
    BY <1>2, <2>15, <2>16, <2>17 DEF Kinds
<1>8. QED
  BY <1>6, <1>7

(* The tokens a wallet holds came from its one swap. *)
LEMMA FinalisedSwapsOnce ==
    ASSUME PurchaseAssumption, Types, Types', SwapsOnce, NEW t \in DOMAIN txs, InFlight(t), Finalised(t),
           \A w \in Wallets :
               \/ tok'[w] <= tok[w]
               \/ /\ w = txs[t].wallet /\ txs[t].kind = "swap" /\ txs'[t].status = "landed"
                  /\ tok'[w] = tok[w] + 1
    PROVE  SwapsOnce'
<1>1. /\ DOMAIN txs' = DOMAIN txs /\ \A y \in DOMAIN txs \ {t} : txs'[y] = txs[y]
      /\ txs'[t].kind = txs[t].kind /\ txs'[t].wallet = txs[t].wallet
      /\ disk' = disk /\ pc' = pc
  BY DEF Finalised
<1>2. \A y \in DOMAIN txs : txs'[y].kind = txs[y].kind /\ txs'[y].wallet = txs[y].wallet
  BY <1>1
<1>3. \A w : Swaps(w)' = Swaps(w) /\ Unused(w)' = Unused(w)
  BY <1>1, <1>2 DEF Swaps, Is, Unused
<1>4. Record' = Record
  BY <1>1 DEF Record, Now
<1>5. OneSwap'
  BY <1>1, <1>2 DEF SwapsOnce, OneSwap
<1>6. ASSUME NEW w \in Wallets, tok'[w] > 0
      PROVE  tok'[w] = 1 /\ \E u \in Swaps(w)' : txs'[u].status = "landed"
  <2>1. tok[w] \in Nat /\ tok'[w] \in Nat
    BY DEF Types
  <2>2. CASE tok'[w] <= tok[w]
    <3>1. tok[w] = 1
      BY <1>6, <2>1, <2>2 DEF SwapsOnce
    <3>2. PICK u \in Swaps(w) : txs[u].status = "landed"
      BY <2>1, <3>1 DEF SwapsOnce
    <3>3. u # t /\ u \in DOMAIN txs
      BY <3>2 DEF InFlight, Swaps
    <3>4. txs'[u].status = "landed"
      BY <1>1, <3>2, <3>3
    <3>5. QED
      BY <1>3, <1>6, <2>1, <2>2, <3>1, <3>2, <3>4
  <2>3. CASE /\ w = txs[t].wallet /\ txs[t].kind = "swap" /\ txs'[t].status = "landed"
             /\ tok'[w] = tok[w] + 1
    <3>1. t \in Swaps(w)
      BY <2>3 DEF Swaps, Is
    <3>2. tok[w] = 0
      <4>1. ASSUME tok[w] > 0
            PROVE  FALSE
        <5>1. PICK u \in Swaps(w) : txs[u].status = "landed"
          BY <4>1 DEF SwapsOnce
        <5>2. u = t
          BY <2>3 DEF SwapsOnce, OneSwap, Swaps, Is
        <5>3. QED
          BY <5>1, <5>2 DEF InFlight
      <4>2. QED
        BY <2>1, <4>1
    <3>3. QED
      BY <1>3, <2>3, <3>1, <3>2
  <2>4. QED
    BY <2>2, <2>3
<1>7. QED
  BY <1>1, <1>3, <1>4, <1>5, <1>6 DEF SwapsOnce

(* The sweeps that failed, once t is final. *)
LEMMA FinalisedFailed ==
    ASSUME PurchaseAssumption, IInv, NEW t \in DOMAIN txs, InFlight(t), Finalised(t)
    PROVE  Failures' = Failures
               + (IF txs[t].kind = "sweep" /\ txs'[t].status = "failed" THEN 1 ELSE 0)
<1>1. /\ DOMAIN txs' = DOMAIN txs /\ \A y \in DOMAIN txs \ {t} : txs'[y] = txs[y]
      /\ txs'[t].kind = txs[t].kind /\ txs[t].status = "sent"
  BY DEF Finalised, InFlight
<1>2. IsFiniteSet(FailedSweeps) /\ Cardinality(FailedSweeps) \in Nat
  BY FailedSweepsFinite DEF IInv
<1>3. t \notin FailedSweeps
  BY <1>1 DEF FailedSweeps
<1>4. CASE txs[t].kind = "sweep" /\ txs'[t].status = "failed"
  <2>1. FailedSweeps' = FailedSweeps \cup {t}
    BY <1>1, <1>4 DEF FailedSweeps
  <2>2. Cardinality(FailedSweeps \cup {t}) = Cardinality(FailedSweeps) + 1
    BY <1>2, <1>3, FS_AddElement
  <2>3. QED
    BY <1>4, <2>1, <2>2 DEF Failures
<1>5. CASE ~ (txs[t].kind = "sweep" /\ txs'[t].status = "failed")
  <2>1. FailedSweeps' = FailedSweeps
    BY <1>1, <1>5 DEF FailedSweeps
  <2>2. QED
    BY <1>2, <1>5, <2>1 DEF Failures
<1>6. QED
  BY <1>4, <1>5

(* What leaves or enters the keeper's wallet is then on record, or the fee of a failed sweep. *)
LEMMA ChainKeepsBooks ==
    ASSUME PurchaseAssumption, IInv, IInv', BInv, NEW t \in DOMAIN txs,
           LandFunding(t) \/ LandSwap(t) \/ LandSweep(t) \/ Expire(t)
    PROVE  BInv'
<1> DEFINE v == txs[t].wallet
<1>1. Finalised(t) /\ InFlight(t)
  <2>1. InFlight(t)
    BY DEF LandFunding, LandSwap, LandSweep, Expire
  <2>2. QED
    BY <2>1, ChainTypes DEF IInv
<1>2. v \in Wallets /\ txs[t].tokens \in Nat /\ txs[t].lamports \in Nat
  BY Transactions DEF IInv
<1>3. /\ tok \in [Wallets -> Nat] /\ txs \in Seq(Transaction)
      /\ {"landed", "failed", "expired"} \subseteq TxStatuses
  BY DEF IInv, Types, TxStatuses
<1>4. ASSUME NEW s \in {"landed", "failed", "expired"}, SetStatus(t, s)
      PROVE  txs'[t].status = s
  <2>1. txs' = [txs EXCEPT ![t].status = s] /\ s \in TxStatuses
    BY <1>3, <1>4 DEF SetStatus
  <2>2. QED
    BY ONLY <1>3, <2>1, t \in DOMAIN txs, Resolved
<1>5. pot0' = pot0 /\ disk' = disk
  BY DEF LandFunding, LandSwap, LandSweep, Expire, history
<1>6. ReferencesOK'
  BY <1>1, <1>5 DEF BInv, ReferencesOK, RefersOK, Finalised
<1> DEFINE due == IF txs'[t].status # "landed" THEN 0
                  ELSE IF txs[t].kind = "fund" THEN Funding + Fee
                  ELSE IF txs[t].kind = "sweep" THEN Fee - txs[t].lamports
                  ELSE 0
           lost == IF txs[t].kind = "sweep" /\ txs'[t].status = "failed" THEN 1 ELSE 0
<1>7. Due' = Due + due
  BY <1>1, FinalisedDue
<1>17. Failures' = Failures + lost
  BY <1>1, FinalisedFailed
<1>8. Funding \in Nat
  <2>1. Types
    BY DEF IInv
  <2>2. disk.budget \in Nat
    BY ONLY <2>1 DEF Types, SavedState
  <2>3. QED
    BY ONLY PurchaseAssumption, <2>2 DEF Funding, PurchaseAssumption
<1>9. due \in Int /\ lost \in Int
  BY <1>2, <1>8 DEF Fee
<1>10. ASSUME outflow' = outflow + due + lost
       PROVE  Balanced'
  <2>1. disk.basket \in Int /\ disk.unbooked \in Int /\ disk.operations \in Int
    BY DEF IInv, Types, SavedState
  <2>2. Gap \in Int /\ Gap' = Gap
    BY <1>5, <2>1 DEF Gap, BInv, Balanced
  <2>3. Due \in Int
    BY OnRecordIsDue DEF IInv
  <2>4. Failures \in Nat
    BY FailedSweepsFinite DEF IInv, Failures
  <2>5. PICK n \in Nat : n = Failures
    BY <2>4
  <2>6. Failures' = n + lost /\ outflow = Gap + Due + n /\ outflow \in Int
    BY <1>17, <2>5 DEF BInv, Balanced
  <2> HIDE DEF due, lost
  <2>7. outflow' \in Int /\ outflow' = Gap + (Due + due) + (n + lost)
    BY <1>9, <1>10, <2>2, <2>3, <2>6
  <2>8. QED
    BY <1>5, <1>7, <1>17, <2>2, <2>6, <2>7 DEF Balanced, BInv
<1>11. outflow \in Int
  BY DEF BInv, Balanced
<1>12. CASE LandFunding(t)
  <2>1. txs'[t].status = "landed" /\ txs[t].kind = "fund" /\ outflow' = outflow + Funding + Fee /\ tok' = tok
    BY <1>4, <1>12 DEF LandFunding
  <2>2. Balanced'
    BY <1>8, <1>10, <1>11, <2>1 DEF Fee
  <2>3. SwapsOnce'
    BY <1>1, <1>3, <2>1, FinalisedSwapsOnce DEF IInv, BInv
  <2>4. QED
    BY <1>6, <2>2, <2>3 DEF BInv
<1>13. CASE LandSwap(t)
  <2>1. txs[t].kind = "swap" /\ outflow' = outflow
    BY <1>13 DEF LandSwap
  <2>2. Balanced'
    BY <1>10, <1>11, <2>1
  <2>3. CASE \E delivered \in {0, 1} :
                   /\ txs' = [txs EXCEPT ![t] = [@ EXCEPT !.status = "landed", !.tokens = delivered]]
                   /\ tok' = [tok EXCEPT ![v] = @ + delivered]
    <3>1. PICK d \in {0, 1} :
                   /\ txs' = [txs EXCEPT ![t] = [@ EXCEPT !.status = "landed", !.tokens = d]]
                   /\ tok' = [tok EXCEPT ![v] = @ + d]
      BY <2>3
    <3>2. txs'[t].status = "landed"
      <4> DEFINE x == [txs[t] EXCEPT !.status = "landed", !.tokens = d]
      <4>1. txs[t] \in Transaction
        BY <1>3
      <4>2. x.status = "landed"
        BY <4>1 DEF Transaction
      <4>3. txs' = [txs EXCEPT ![t] = x]
        BY <3>1
      <4> HIDE DEF x
      <4>4. txs'[t] = x
        BY <1>3, <4>3
      <4>5. QED
        BY <4>2, <4>4
    <3>3. \A w \in Wallets : tok'[w] <= tok[w] \/ (w = v /\ tok'[w] = tok[w] + 1)
      BY <1>2, <1>3, <3>1
    <3>4. SwapsOnce'
      BY <1>1, <2>1, <3>2, <3>3, FinalisedSwapsOnce DEF IInv, BInv
    <3>5. QED
      BY <1>6, <2>2, <3>4 DEF BInv
  <2>4. CASE tok' = tok
    <3>1. SwapsOnce'
      BY <1>1, <1>3, <2>4, FinalisedSwapsOnce DEF IInv, BInv
    <3>2. QED
      BY <1>6, <2>2, <3>1 DEF BInv
  <2>5. QED
    BY <1>13, <2>3, <2>4 DEF LandSwap
<1>14. CASE LandSweep(t)
  <2>1. txs[t].kind = "sweep"
    BY <1>14 DEF LandSweep
  <2>2. CASE tok[v] >= txs[t].tokens /\ sol[v] >= txs[t].lamports
    <3>1. /\ txs'[t].status = "landed" /\ outflow' = outflow - txs[t].lamports + Fee
          /\ tok' = [tok EXCEPT ![v] = @ - txs[t].tokens]
      BY <1>4, <1>14, <2>2 DEF LandSweep
    <3>2. Balanced'
      BY <1>2, <1>10, <1>11, <2>1, <3>1 DEF Fee
    <3>3. \A w \in Wallets : tok'[w] <= tok[w]
      BY <1>2, <1>3, <3>1
    <3>4. SwapsOnce'
      BY <1>1, <3>3, FinalisedSwapsOnce DEF IInv, BInv
    <3>5. QED
      BY <1>6, <3>2, <3>4 DEF BInv
  <2>3. CASE ~ (tok[v] >= txs[t].tokens /\ sol[v] >= txs[t].lamports)
    <3>1. txs'[t].status = "failed" /\ outflow' = outflow + Fee /\ tok' = tok
      BY <1>4, <1>14, <2>3 DEF LandSweep
    <3>2. Balanced'
      BY <1>10, <1>11, <2>1, <3>1 DEF Fee
    <3>3. SwapsOnce'
      BY <1>1, <1>3, <3>1, FinalisedSwapsOnce DEF IInv, BInv
    <3>4. QED
      BY <1>6, <3>2, <3>3 DEF BInv
  <2>4. QED
    BY <2>2, <2>3
<1>15. CASE Expire(t)
  <2>1. txs'[t].status = "expired" /\ outflow' = outflow /\ tok' = tok
    BY <1>4, <1>15 DEF Expire
  <2>2. Balanced'
    BY <1>10, <1>11, <2>1
  <2>3. SwapsOnce'
    BY <1>1, <1>3, <2>1, FinalisedSwapsOnce DEF IInv, BInv
  <2>4. QED
    BY <1>6, <2>2, <2>3 DEF BInv
<1>16. QED
  BY <1>12, <1>13, <1>14, <1>15

(* Every step. *)
LEMMA StepKeepsBooks ==
    ASSUME PurchaseAssumption, IInv, IInv', BInv, [Next]_vars
    PROVE  BInv'
<1>1. CASE Chain
  BY <1>1, ChainKeepsBooks DEF Chain
<1>2. CASE Select
  BY <1>2, SelectKeepsBooks
<1>3. CASE SkipRest
  BY <1>3, SkipRestKeepsBooks
<1>4. CASE NewSwapWallet \/ FundWallet \/ QuoteRefused \/ SendSwap \/ SwapAnswered \/ SignSweep
  BY <1>4, RecordStepsKeepBooks
<1>5. CASE SettleFromRecord \/ SweepAnswered \/ NothingToSweep
  BY <1>5, BookStepsKeepBooks
<1>6. CASE SwapThrew \/ SendThrew \/ SweepRefused \/ Abort \/ ReadTokens \/ UNCHANGED vars
  BY <1>6, QuietStepsKeepBooks
<1>7. CASE ReserveAssets
  BY <1>7, ReserveAssetsKeepsBooks
<1>8. QED
  BY <1>1, <1>2, <1>3, <1>4, <1>5, <1>6, <1>7 DEF Next, Step

(* A round that has just been seeded owes nothing. *)
LEMMA InitBooks ==
    ASSUME PurchaseAssumption, Init
    PROVE  BInv
<1>1. /\ txs = << >> /\ DOMAIN txs = {} /\ tok = [w \in Wallets |-> 0] /\ outflow = 0 /\ pot0 \in Nat
      /\ disk.purchases = NoBasket /\ disk.basket = pot0 /\ disk.operations = 0 /\ disk.unbooked = 0
      /\ pc = "idle"
  BY DEF Init, PurchaseAssumption
<1>2. DOMAIN disk.purchases = {}
  BY <1>1 DEF NoBasket
<1>3. ReferencesOK
  BY <1>2 DEF ReferencesOK
<1>4. SwapsOnce
  BY <1>1 DEF SwapsOnce, OneSwap, Swaps
<1>5. Due = 0
  BY <1>2 DEF Due, Open, Pending
<1>6. Cardinality(FailedSweeps) = 0
  <2>1. FailedSweeps = {}
    BY <1>1 DEF FailedSweeps
  <2>2. QED
    BY <2>1, FS_EmptySet
<1>7. Balanced
  BY <1>1, <1>5, <1>6 DEF Balanced, Gap, Failures
<1>8. QED
  BY <1>3, <1>4, <1>7 DEF BInv

(***************************************************************************)
(* Between any two steps: the purchases name transactions that were sent,  *)
(* no wallet swaps twice, and the SOL that left for purchases is booked,   *)
(* on the one open record, or the fee of a failed sweep.                   *)
(***************************************************************************)
THEOREM BooksAreKept == Spec => [](IInv /\ BInv)
<1>1. Init => IInv /\ BInv
  BY PurchaseAssumption, InitIInv, InitBooks
<1>2. IInv /\ BInv /\ [Next]_vars => (IInv /\ BInv)'
  BY PurchaseAssumption, StepKeepsIInv, StepKeepsBooks
<1>3. QED
  BY <1>1, <1>2, PTL DEF Spec

(* The state file is as its types say. *)
LEMMA BooksType ==
    ASSUME PurchaseAssumption, IInv, BInv
    PROVE  TypeOK
<1>1. StateOK(disk)
  <2>1. disk \in SavedState /\ RecordsOK /\ Balanced /\ ReferencesOK
    BY DEF IInv, Types, BInv
  <2>2. /\ disk.round \in {"SEEDED", "FUNDED"} /\ disk.selected \in BOOLEAN /\ disk.budget \in Nat
        /\ disk.basket \in Nat /\ disk.operations \in Nat /\ disk.unbooked \in Nat
    BY <2>1 DEF SavedState, Balanced
  <2>3. DOMAIN disk.purchases \in {{}, Coins}
    BY BasketShape DEF IInv
  <2>4. ASSUME NEW c \in DOMAIN disk.purchases
        PROVE  LET p == disk.purchases[c]
               IN /\ p.status \in Statuses
                  /\ p.wallet \in Wallets \cup {NoWallet}
                  /\ {p.funding, p.sweep, p.swap} \subseteq {NoTx} \cup DOMAIN txs
                  /\ p.sweeps \subseteq DOMAIN txs
                  /\ p.attempts \in 0 .. MaxBuyAttempts /\ p.checks \in 0 .. MaxChecks
                  /\ p.status # "pending" => p.wallet = NoWallet
    <3> DEFINE p == disk.purchases[c]
    <3>1. p \in PurchaseRecord /\ RecordOK(c, p) /\ RefersOK(p)
      BY <2>1, BasketShape DEF IInv, RecordsOK, ReferencesOK
    <3> HIDE DEF p
    <3>2. /\ p.status \in Statuses /\ p.wallet \in Wallets \cup {NoWallet}
          /\ p.attempts \in Nat /\ p.checks \in Nat
      BY <3>1 DEF PurchaseRecord
    <3>3. {p.funding, p.sweep, p.swap} \subseteq {NoTx} \cup DOMAIN txs /\ p.sweeps \subseteq DOMAIN txs
      BY <3>1 DEF RecordOK, Is, RefersOK
    <3>4. p.attempts \in 0 .. MaxBuyAttempts /\ p.checks \in 0 .. MaxChecks
      BY <3>1, <3>2 DEF RefersOK, PurchaseAssumption
    <3>5. p.status # "pending" => p.wallet = NoWallet
      BY <3>1 DEF RecordOK
    <3>6. QED
      BY <3>2, <3>3, <3>4, <3>5 DEF p
  <2>5. QED
    BY <2>2, <2>3, <2>4 DEF StateOK
<1>2. StateOK(mem)
  <2>1. CASE pc \notin Reading
    BY <1>1, <2>1 DEF IInv, MemoryAgrees
  <2>2. CASE pc \in Reading
    <3>1. AtWork /\ pc # "idle"
      BY <2>2 DEF AtWork, Reading
    <3>2. /\ mem.purchases = [disk.purchases EXCEPT ![Now] = Purchase]
          /\ mem.round = disk.round /\ mem.selected = disk.selected /\ mem.budget = disk.budget
          /\ mem.basket = disk.basket /\ mem.operations = disk.operations
          /\ mem.unbooked = disk.unbooked
      BY <3>1, InMemory DEF IInv, Unspent
    <3>3. /\ Now \in DOMAIN disk.purchases /\ Purchase.sweep = NoTx
          /\ Purchase.status = Record.status /\ Purchase.wallet = Record.wallet
          /\ Purchase.funding = Record.funding /\ Purchase.swap = Record.swap
          /\ Purchase.sweeps = Record.sweeps
          /\ Purchase.attempts = Record.attempts /\ Purchase.checks = Record.checks
      BY <2>2, <3>1, AtHand
    <3>4. DOMAIN mem.purchases = DOMAIN disk.purchases
      BY <3>2
    <3>5. \A c \in DOMAIN disk.purchases : c # Now => mem.purchases[c] = disk.purchases[c]
      BY <3>2
    <3>6. mem.purchases[Now] = Purchase
      BY <3>2, <3>3
    <3>7. ASSUME NEW c \in DOMAIN mem.purchases
          PROVE  LET p == mem.purchases[c]
                 IN /\ p.status \in Statuses
                    /\ p.wallet \in Wallets \cup {NoWallet}
                    /\ {p.funding, p.sweep, p.swap} \subseteq {NoTx} \cup DOMAIN txs
                    /\ p.sweeps \subseteq DOMAIN txs
                    /\ p.attempts \in 0 .. MaxBuyAttempts /\ p.checks \in 0 .. MaxChecks
                    /\ p.status # "pending" => p.wallet = NoWallet
      <4>1. CASE c = Now
        <5>1. /\ Record.status \in Statuses
              /\ Record.wallet \in Wallets \cup {NoWallet}
              /\ {Record.funding, Record.sweep, Record.swap} \subseteq {NoTx} \cup DOMAIN txs
              /\ Record.sweeps \subseteq DOMAIN txs
              /\ Record.attempts \in 0 .. MaxBuyAttempts /\ Record.checks \in 0 .. MaxChecks
              /\ Record.status # "pending" => Record.wallet = NoWallet
          BY <1>1, <3>3 DEF StateOK, Record
        <5>2. QED
          BY <3>3, <3>6, <4>1, <5>1
      <4>2. CASE c # Now
        BY <1>1, <3>4, <3>5, <4>2 DEF StateOK
      <4>3. QED
        BY <4>1, <4>2
    <3>8. QED
      BY <1>1, <3>2, <3>4, <3>7 DEF StateOK
  <2>3. QED
    BY <2>1, <2>2
<1>3. ASSUME NEW t \in DOMAIN txs
      PROVE  /\ txs[t].kind \in {"fund", "swap", "sweep"} /\ txs[t].wallet \in Wallets
             /\ txs[t].status \in {"sent", "landed", "failed", "expired"}
  BY Transactions DEF IInv, Kinds, TxStatuses
<1>4. sol \in [Wallets -> Nat] /\ keeperTok \in [Coins -> Nat] /\ outflow \in Int
  BY DEF IInv, Types, BInv, Balanced
<1>5. tok \in [Wallets -> {0, 1}]
  <2>1. tok \in [Wallets -> Nat]
    BY DEF IInv, Types
  <2>2. \A w \in Wallets : tok[w] \in {0, 1}
    BY <2>1 DEF BInv, SwapsOnce
  <2>3. QED
    BY <2>1, <2>2
<1>6. pc = "idle" => mem = disk
  BY DEF IInv, MemoryAgrees, Reading
<1>7. QED
  BY <1>1, <1>2, <1>3, <1>4, <1>5, <1>6 DEF TypeOK

(***************************************************************************)
(* engine.ts 591-592, 607-622, for every number of coins, attempts, lost   *)
(* answers, lagging reads and crashes: every lamport that left the         *)
(* keeper's wallet for a purchase or came back is booked exactly once or   *)
(* still on record, up to the two gaps of the code, and so is every token  *)
(* that came in.                                                           *)
(***************************************************************************)
THEOREM StateFileAgrees == Spec => []BooksAgree
<1>1. IInv /\ BInv => BooksAgree
  <2>1. SUFFICES ASSUME IInv, BInv
                 PROVE  BooksAgree
    OBVIOUS
  <2>2. TypeOK
    BY <2>1, PurchaseAssumption, BooksType
  <2>3. OnRecord = Due /\ Due \in Int
    BY <2>1, PurchaseAssumption, OnRecordIsDue DEF IInv
  <2>4. BooksMatch
    <3>1. Cardinality(FailedSweeps) \in Nat
      BY <2>1, FailedSweepsFinite DEF IInv
    <3>2. PICK n \in Nat : n = Cardinality(FailedSweeps)
      BY <3>1
    <3>3. outflow = Gap + OnRecord + n
      BY <2>1, <2>3, <3>2 DEF BInv, Balanced, Failures
    <3>4. Fee * n = n
      BY DEF Fee
    <3>5. QED
      BY <3>2, <3>3, <3>4 DEF BooksMatch, Gap
  <2>5. QED
    BY <2>1, <2>2, <2>4 DEF BooksAgree, IInv
<1>2. QED
  BY <1>1, BooksAreKept, PTL
=============================================================================
