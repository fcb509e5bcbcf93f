--------------------------- MODULE KeeperPurchase ---------------------------
(***************************************************************************)
(* How the keeper buys a round's basket (keeper/round/engine.ts buyBasket, *)
(* keeper/round/swapWallet.ts).                                            *)
(*                                                                         *)
(* Each buy runs from a throwaway wallet: fund it, swap, sweep everything  *)
(* back, book what it cost.  Every transaction may land although its       *)
(* answer is lost, land later, or never.  A step that throws and a crash   *)
(* both lose what was not saved: the next step works from the state file.  *)
(* Every transaction costs its payer one unit of SOL.                      *)
(***************************************************************************)
EXTENDS Integers, Sequences, FiniteSets, FiniteSetsExt, Functions

CONSTANTS
    CoinCount,      \* candidates basket.select() returns
    Pots,           \* what the basket bucket may hold at the start
    Reserve,        \* estimateOperatingCost
    Overhead,       \* params.swapOverheadLamports
    MaxBuyAttempts, \* params.maxBuyAttempts
    MaxChecks,      \* passes that look for a landed swap's output (5)
    Lagging,        \* reads a lagging RPC node may answer with nothing
    MaxLags,        \* bound on such answers
    MaxAborts       \* bound on thrown steps and crashes

ASSUME PurchaseAssumption ==
    /\ CoinCount \in Nat \ {0}
    /\ Pots \subseteq Nat
    /\ Reserve \in Nat
    /\ Overhead \in Nat \ {0}
    /\ MaxBuyAttempts \in Nat \ {0}
    /\ MaxChecks \in Nat
    /\ Lagging \subseteq {"tokens", "balance", "history"}
    /\ MaxLags \in Nat
    /\ MaxAborts \in Nat

VARIABLES
    txs,        \* transactions by signature (a number): sent, and what became of them
    sol,        \* SOL of each swap wallet
    tok,        \* tokens of each swap wallet
    outflow,    \* SOL that left the keeper's wallet for purchases, net
    keeperTok,  \* basket tokens that arrived in the keeper's wallet, by coin
    disk,       \* state.json
    mem,        \* the state the current step works on
    pc,         \* what the step waits for
    pot0,       \* history: the bucket at the start
    lags,       \* history: reads that lagged
    aborts      \* history: thrown steps and crashes

chain == <<txs, sol, tok, outflow, keeperTok>>
history == <<pot0, lags, aborts>>
vars == <<chain, disk, mem, pc, history>>

Coins == 1 .. CoinCount
Wallets == Coins \X (0 .. MaxBuyAttempts - 1)

NoWallet == << >>
NoBasket == << >>
NoTx == 0
Fee == 1

NewPurchase ==
    [status |-> "pending", wallet |-> NoWallet, funding |-> NoTx, sweep |-> NoTx,
     swap |-> NoTx, sweeps |-> {}, reason |-> FALSE, attempts |-> 0, checks |-> 0]

Init ==
    /\ txs = << >>
    /\ sol = [w \in Wallets |-> 0]
    /\ tok = [w \in Wallets |-> 0]
    /\ outflow = 0
    /\ keeperTok = [c \in Coins |-> 0]
    /\ pot0 \in Pots
    /\ disk = [round |-> "SEEDED", selected |-> FALSE, purchases |-> NoBasket, budget |-> 0,
               basket |-> pot0, operations |-> 0, unbooked |-> 0,
               inventory |-> [c \in Coins |-> 0], reserved |-> [c \in Coins |-> 0]]
    /\ mem = disk
    /\ pc = "idle"
    /\ lags = 0
    /\ aborts = 0

----------------------------------------------------------------------------
(* The chain. *)

Funding == disk.budget + Overhead

SetStatus(t, status) == txs' = [txs EXCEPT ![t].status = status]

InFlight(t) == txs[t].status = "sent"

LandFunding(t) ==
    /\ InFlight(t) /\ txs[t].kind = "fund"
    /\ SetStatus(t, "landed")
    /\ sol' = [sol EXCEPT ![txs[t].wallet] = @ + Funding]
    /\ outflow' = outflow + Funding + Fee
    /\ UNCHANGED <<tok, keeperTok, disk, mem, pc, history>>

(***************************************************************************)
(* An exact-input swap spends the whole budget, or fails and costs its     *)
(* fee.  It may hand its output to an account the wallet does not own.     *)
(***************************************************************************)
LandSwap(t) ==
    /\ InFlight(t) /\ txs[t].kind = "swap"
    /\ LET w == txs[t].wallet
       IN \/ /\ sol[w] >= disk.budget + Fee
             /\ \E delivered \in {0, 1} :
                   /\ txs' = [txs EXCEPT ![t] = [@ EXCEPT !.status = "landed",
                                                         !.tokens = delivered]]
                   /\ tok' = [tok EXCEPT ![w] = @ + delivered]
             /\ sol' = [sol EXCEPT ![w] = @ - disk.budget - Fee]
          \/ /\ sol[w] >= Fee
             /\ SetStatus(t, "failed")
             /\ sol' = [sol EXCEPT ![w] = @ - Fee]
             /\ UNCHANGED tok
    /\ UNCHANGED <<outflow, keeperTok, disk, mem, pc, history>>

(* A sweep moves exactly what it was signed for, or fails and costs the keeper its fee. *)
LandSweep(t) ==
    /\ InFlight(t) /\ txs[t].kind = "sweep"
    /\ LET w == txs[t].wallet
           applies == tok[w] >= txs[t].tokens /\ sol[w] >= txs[t].lamports
       IN IF applies
            THEN /\ SetStatus(t, "landed")
                 /\ sol' = [sol EXCEPT ![w] = @ - txs[t].lamports]
                 /\ tok' = [tok EXCEPT ![w] = @ - txs[t].tokens]
                 /\ outflow' = outflow - txs[t].lamports + Fee
                 /\ keeperTok' = [keeperTok EXCEPT ![w[1]] = @ + txs[t].tokens]
            ELSE /\ SetStatus(t, "failed")
                 /\ outflow' = outflow + Fee
                 /\ UNCHANGED <<sol, tok, keeperTok>>
    /\ UNCHANGED <<disk, mem, pc, history>>

(***************************************************************************)
(* It never lands: dropped, or its blockhash expires.  Of sweeps, which    *)
(* are tried again, the network loses a bounded number; SweepRefused is    *)
(* the one that the cluster turns down, any number of times.               *)
(***************************************************************************)
Expire(t) ==
    /\ InFlight(t)
    /\ SetStatus(t, "expired")
    /\ txs[t].kind = "sweep" => aborts < MaxAborts
    /\ aborts' = aborts + (IF txs[t].kind = "sweep" THEN 1 ELSE 0)
    /\ UNCHANGED <<sol, tok, outflow, keeperTok, disk, mem, pc, pot0, lags>>

----------------------------------------------------------------------------
(* Steps of the engine. *)

(* store.save, and the step's return. *)
Save(state) == disk' = state /\ mem' = state
Return(state) == Save(state) /\ pc' = "idle"

Pending(state) == {i \in DOMAIN state.purchases : state.purchases[i].status = "pending"}
Current == Min(Pending(mem))
Buying == mem.round = "SEEDED" /\ Pending(mem) # {}
Purchase == mem.purchases[Current]
With(purchase) == [mem EXCEPT !.purchases[Current] = purchase]

Sent(kind, w, tokens, lamports) ==
    [kind |-> kind, wallet |-> w, tokens |-> tokens, lamports |-> lamports, status |-> "sent"]

NextSignature == Len(txs) + 1

(***************************************************************************)
(* buyBasket, first pass: the pot less the reserve is split evenly, unless *)
(* a share would not even pay for its swap.                                *)
(***************************************************************************)
Select ==
    /\ pc = "idle" /\ mem.round = "SEEDED" /\ ~mem.selected
    /\ LET share == IF mem.basket > Reserve THEN (mem.basket - Reserve) \div CoinCount ELSE 0
       IN Return(IF share <= Overhead
                   THEN [mem EXCEPT !.selected = TRUE]
                   ELSE [mem EXCEPT !.selected = TRUE,
                                    !.basket = @ - Reserve,
                                    !.operations = @ + Reserve,
                                    !.budget = share,
                                    !.purchases = [c \in Coins |-> NewPurchase]])
    /\ UNCHANGED <<chain, history>>

(* maxBuyPhaseSecs have passed. *)
SkipRest ==
    /\ pc = "idle" /\ Buying /\ Purchase.wallet = NoWallet
    /\ Return([mem EXCEPT !.purchases =
                  [i \in DOMAIN mem.purchases |->
                     IF i \in Pending(mem) THEN [mem.purchases[i] EXCEPT !.status = "skipped"]
                                           ELSE mem.purchases[i]]])
    /\ UNCHANGED <<chain, history>>

(* buyOne: the wallet's key is on disk before any SOL can reach it ... *)
NewSwapWallet ==
    /\ pc = "idle" /\ Buying /\ Purchase.wallet = NoWallet
    /\ Save(With([Purchase EXCEPT !.wallet = <<Current, Purchase.attempts>>,
                                  !.reason = FALSE, !.sweeps = {}, !.checks = 0]))
    /\ pc' = "signing"
    /\ UNCHANGED <<chain, history>>

(* Faulty variant: the funding is not journaled. *)
FundWalletUnsaved ==
    /\ pc = "signing"
    /\ mem' = With([Purchase EXCEPT !.funding = NextSignature])
    /\ txs' = Append(txs, Sent("fund", Purchase.wallet, 0, Funding))
    /\ pc' = "funding"
    /\ UNCHANGED <<sol, tok, outflow, keeperTok, disk, history>>

(* ... and the funding transaction's signature before it is sent. *)
FundWallet ==
    /\ pc = "signing"
    /\ Save(With([Purchase EXCEPT !.funding = NextSignature]))
    /\ txs' = Append(txs, Sent("fund", Purchase.wallet, 0, Funding))
    /\ pc' = "funding"
    /\ UNCHANGED <<sol, tok, outflow, keeperTok, history>>

(* basket.swap: quoted and skipped, or sent. *)
QuoteRefused ==
    /\ pc = "funding" /\ txs[Purchase.funding].status = "landed"
    /\ Save(With([Purchase EXCEPT !.reason = TRUE]))
    /\ pc' = "settling"
    /\ UNCHANGED <<chain, history>>

SendSwap ==
    /\ pc = "funding" /\ txs[Purchase.funding].status = "landed"
    /\ txs' = Append(txs, Sent("swap", Purchase.wallet, 0, 0))
    /\ pc' = "swapping"
    /\ UNCHANGED <<sol, tok, outflow, keeperTok, disk, mem, history>>

(***************************************************************************)
(* The swap is answered, and its signature kept; or it threw, which is     *)
(* caught: it may have failed, still be in flight, or even have landed.    *)
(***************************************************************************)
SwapAnswered ==
    /\ pc = "swapping"
    /\ txs[Len(txs)].status = "landed"
    /\ Save(With([Purchase EXCEPT !.swap = Len(txs)]))
    /\ pc' = "settling"
    /\ UNCHANGED <<chain, history>>

SwapThrew ==
    /\ pc = "swapping"
    /\ pc' = "settling"
    /\ UNCHANGED <<chain, disk, mem, history>>

----------------------------------------------------------------------------
(* Faulty variant: only a funded attempt is taken up again. *)
SettlingOnlyFunded ==
    \/ pc = "settling"
    \/ pc = "idle" /\ Buying /\ Purchase.wallet # NoWallet /\ Purchase.funding # NoTx

(* settlePurchase, right after the swap or in a later step. *)
Settling ==
    \/ pc = "settling"
    \/ pc = "idle" /\ Buying /\ Purchase.wallet # NoWallet

Outcome(t) == IF t = NoTx THEN "none" ELSE txs[t].status

(* A step that meets an unresolved transaction ends as it began ("waiting"). *)
Unresolved == Outcome(Purchase.funding) = "sent" \/ Outcome(Purchase.sweep) = "sent"

(* walletSwaps: landed transactions the wallet signed, other than known sweeps. *)
WalletSwaps(purchase) ==
    {t \in DOMAIN txs : /\ txs[t].wallet = purchase.wallet
                        /\ txs[t].kind # "fund"
                        /\ txs[t].status = "landed"
                        /\ t \notin purchase.sweeps}

(* debit takes at most what the bucket holds. *)
Take(state, cost) ==
    LET taken == IF cost > state.basket THEN state.basket ELSE cost
    IN [state EXCEPT !.basket = @ - taken, !.unbooked = @ + (cost - taken)]

(* What the attempt cost the keeper so far, from its landed transactions. *)
Cost(purchase, sweep) ==
    (IF Outcome(purchase.funding) = "landed" THEN Funding + Fee ELSE 0)
      - (IF sweep = NoTx THEN 0 ELSE txs[sweep].lamports - Fee)

(* Faulty variant: the funding stays on record and is booked again by the next pass. *)
BookedKeeping(purchase, sweep) ==
    [purchase EXCEPT !.sweep = NoTx,
                     !.sweeps = IF sweep = NoTx THEN @ ELSE @ \cup {sweep}]

Booked(purchase, sweep) ==
    [purchase EXCEPT !.funding = NoTx, !.sweep = NoTx,
                     !.sweeps = IF sweep = NoTx THEN @ ELSE @ \cup {sweep}]

Bought(purchase, swaps) ==
    [purchase EXCEPT !.status = "bought", !.wallet = NoWallet,
                     !.swap = IF @ = NoTx /\ swaps # {} THEN Min(swaps) ELSE @]

NotBought(purchase) ==
    LET attempts == purchase.attempts + (IF purchase.reason THEN 0 ELSE 1)
    IN [purchase EXCEPT !.wallet = NoWallet, !.swap = NoTx, !.attempts = attempts,
                        !.status = IF purchase.reason \/ attempts >= MaxBuyAttempts
                                     THEN "skipped" ELSE "pending"]

(* Faulty variant: no second look for the output of a swap that landed. *)
LooksAgainNever(purchase, swaps) == FALSE

(* A swap that landed but whose output is not visible yet is looked for again. *)
LooksAgain(purchase, swaps) == ~purchase.reason /\ swaps # {} /\ purchase.checks < MaxChecks

(***************************************************************************)
(* The sweep, if there was anything to sweep, is known to have moved       *)
(* tokens: the attempt is booked and decided.                              *)
(***************************************************************************)
Book(sweep, history_lags) ==
    LET tokens == IF sweep = NoTx THEN 0 ELSE txs[sweep].tokens
        booked == Booked(Purchase, sweep)
        swaps == IF booked.swap # NoTx THEN {booked.swap}
                 ELSE IF history_lags THEN {} ELSE WalletSwaps(booked)
        paid == Take(mem, Cost(Purchase, sweep))
        settled == [paid EXCEPT !.inventory[Current] = @ + tokens]
    IN Return([settled EXCEPT !.purchases[Current] =
                 IF tokens > 0 THEN Bought(booked, swaps)
                 ELSE IF LooksAgain(booked, swaps)
                   THEN [booked EXCEPT !.swap = Min(swaps), !.checks = @ + 1]
                 ELSE NotBought(booked)])

MayLag(read) == read \in Lagging /\ lags < MaxLags

Lagged(lagging) == lags' = IF lagging THEN lags + 1 ELSE lags

(* A recorded sweep that landed is booked from its record. *)
SettleFromRecord ==
    /\ Settling /\ ~Unresolved
    /\ Outcome(Purchase.sweep) = "landed"
    /\ \E lagging \in BOOLEAN :
          /\ lagging => MayLag("history")
          /\ Lagged(lagging)
          /\ Book(Purchase.sweep, lagging)
    /\ UNCHANGED <<chain, pot0, aborts>>

(***************************************************************************)
(* sweepSwapWallet: the token accounts are read first, the balance later;  *)
(* the swap may land between the two.                                      *)
(***************************************************************************)
ReadTokens ==
    /\ Settling /\ ~Unresolved
    /\ Outcome(Purchase.sweep) # "landed"
    /\ \E lagging \in BOOLEAN :
          /\ lagging => MayLag("tokens") /\ tok[Purchase.wallet] > 0
          /\ Lagged(lagging)
          /\ pc' = IF lagging \/ tok[Purchase.wallet] = 0 THEN "readNone" ELSE "readTokens"
    /\ mem' = With([Purchase EXCEPT !.sweep = NoTx])
    /\ UNCHANGED <<chain, disk, pot0, aborts>>

(* Nothing of the wallet is visible: no sweep is sent. *)
NothingToSweep ==
    /\ pc = "readNone"
    /\ \E blind, lagging \in BOOLEAN :
          /\ blind => MayLag("balance")
          /\ ~blind => sol[Purchase.wallet] = 0
          /\ lagging => MayLag("history") /\ ~blind
          /\ Lagged(blind \/ lagging)
          /\ Book(NoTx, lagging)
    /\ UNCHANGED <<chain, pot0, aborts>>

(* What a sweep signed now moves; its balance may be read from a lagging node. *)
SweepPlan(blind) ==
    Sent("sweep", Purchase.wallet,
         IF pc = "readTokens" THEN tok[Purchase.wallet] ELSE 0,
         IF blind THEN 0 ELSE sol[Purchase.wallet])

SendSweep ==
    /\ pc \in {"readNone", "readTokens"}
    /\ \E blind \in BOOLEAN :
          /\ IF blind THEN MayLag("balance") /\ pc = "readTokens"
                      ELSE pc = "readTokens" \/ sol[Purchase.wallet] > 0
          /\ Lagged(blind)
          /\ txs' = Append(txs, SweepPlan(blind))
    /\ pc' = "sweeping"
    /\ UNCHANGED <<sol, tok, outflow, keeperTok, pot0, aborts>>

(* The sweep is journaled with what it moves before it is sent. *)
SignSweep == SendSweep /\ Save(With([Purchase EXCEPT !.sweep = NextSignature]))

SweepAnswered ==
    /\ pc = "sweeping"
    /\ Outcome(Purchase.sweep) = "landed"
    /\ \E lagging \in BOOLEAN :
          /\ lagging => MayLag("history")
          /\ Lagged(lagging)
          /\ Book(Purchase.sweep, lagging)
    /\ UNCHANGED <<chain, pot0, aborts>>

----------------------------------------------------------------------------
(* What was in memory only is lost. *)
Lose == mem' = disk /\ pc' = "idle"

(* A send that failed, expired or timed out ends the step. *)
SendThrew ==
    /\ pc \in {"funding", "sweeping"}
    /\ Lose
    /\ UNCHANGED <<chain, disk, history>>

(***************************************************************************)
(* The signed and journaled sweep is refused by preflight (a frozen token  *)
(* account, a hook, a keeper without SOL for its fee) and never lands: a   *)
(* later step finds it expired, and reads the wallet again as it would     *)
(* without it.                                                             *)
(***************************************************************************)
SweepRefused ==
    /\ pc = "readTokens" \/ (pc = "readNone" /\ sol[Purchase.wallet] > 0)
    /\ Lose
    /\ UNCHANGED <<chain, disk, history>>

(* The process dies, or a read throws. *)
Abort ==
    /\ pc # "idle" /\ aborts < MaxAborts
    /\ Lose
    /\ aborts' = aborts + 1
    /\ UNCHANGED <<chain, disk, pot0, lags>>

(* reserveAssets: coins that still pass the vetting go to the round. *)
ReserveAssets ==
    /\ pc = "idle" /\ mem.round = "SEEDED" /\ mem.selected /\ Pending(mem) = {}
    /\ \E vetted \in SUBSET Coins :
          Return([mem EXCEPT !.round = "FUNDED",
                             !.reserved = [c \in Coins |-> IF c \in vetted THEN mem.inventory[c] ELSE 0],
                             !.inventory = [c \in Coins |-> IF c \in vetted THEN 0 ELSE mem.inventory[c]]])
    /\ UNCHANGED <<chain, history>>

Chain ==
    \E t \in DOMAIN txs : LandFunding(t) \/ LandSwap(t) \/ LandSweep(t) \/ Expire(t)

Step ==
    \/ Select \/ SkipRest \/ NewSwapWallet \/ FundWallet
    \/ QuoteRefused \/ SendSwap \/ SwapAnswered \/ SwapThrew
    \/ SettleFromRecord \/ ReadTokens \/ NothingToSweep \/ SignSweep \/ SweepAnswered
    \/ SendThrew \/ SweepRefused \/ ReserveAssets

Next == Chain \/ Step \/ Abort

Spec == Init /\ [][Next]_vars

(***************************************************************************)
(* The keeper's loop calls step() for as long as it runs, and a sent       *)
(* transaction lands or expires.                                           *)
(***************************************************************************)
FairSpec == Spec /\ WF_vars(Step) /\ WF_vars(Chain)

----------------------------------------------------------------------------
Statuses == {"pending", "bought", "skipped"}

StateOK(state) ==
    /\ state.round \in {"SEEDED", "FUNDED"} /\ state.selected \in BOOLEAN
    /\ state.budget \in Nat /\ state.basket \in Nat /\ state.operations \in Nat
    /\ state.unbooked \in Nat
    /\ DOMAIN state.purchases \in {{}, Coins}
    /\ \A i \in DOMAIN state.purchases :
          LET p == state.purchases[i]
          IN /\ p.status \in Statuses
             /\ p.wallet \in Wallets \cup {NoWallet}
             /\ {p.funding, p.sweep, p.swap} \subseteq {NoTx} \cup DOMAIN txs
             /\ p.sweeps \subseteq DOMAIN txs
             /\ p.attempts \in 0 .. MaxBuyAttempts /\ p.checks \in 0 .. MaxChecks
             /\ p.status # "pending" => p.wallet = NoWallet

(* Types; between steps memory and disk agree. *)
TypeOK ==
    /\ \A t \in DOMAIN txs : /\ txs[t].kind \in {"fund", "swap", "sweep"}
                             /\ txs[t].wallet \in Wallets
                             /\ txs[t].status \in {"sent", "landed", "failed", "expired"}
    /\ sol \in [Wallets -> Nat] /\ tok \in [Wallets -> {0, 1}]
    /\ keeperTok \in [Coins -> Nat] /\ outflow \in Int
    /\ StateOK(disk) /\ StateOK(mem)
    /\ pc = "idle" => mem = disk

(* What a record still has to book: its landed funding, less what a landed sweep brought back. *)
Owed(p) == Cost(p, IF Outcome(p.sweep) = "landed" THEN p.sweep ELSE NoTx)

OnRecord == SumFunction([i \in DOMAIN disk.purchases |-> Owed(disk.purchases[i])])

FailedSweeps == {t \in DOMAIN txs : txs[t].kind = "sweep" /\ txs[t].status = "failed"}

(***************************************************************************)
(* engine.ts 591-592, 607-622: whatever throws, times out or crashes,      *)
(* every lamport that left or came back is booked exactly once or still on *)
(* record to be booked.  Two gaps are the code's: a debit larger than the  *)
(* bucket, and the fee of a sweep that fails on chain.                     *)
(***************************************************************************)
BooksMatch ==
    outflow = (pot0 - disk.basket - disk.operations + disk.unbooked)
                 + OnRecord + Fee * Cardinality(FailedSweeps)

(***************************************************************************)
(* A bought coin's tokens reach the inventory exactly once, whether the    *)
(* sweep is answered or found landed by a later step (engine.ts 591-592).  *)
(***************************************************************************)
InventoryMatches ==
    \A c \in Coins :
        LET arrived == IF c \in DOMAIN disk.purchases /\ Outcome(disk.purchases[c].sweep) = "landed"
                         THEN txs[disk.purchases[c].sweep].tokens ELSE 0
        IN keeperTok[c] = disk.inventory[c] + disk.reserved[c] + arrived

(***************************************************************************)
(* The state file's books agree with the chain, in SOL and in tokens.      *)
(***************************************************************************)
BooksAgree == TypeOK /\ BooksMatch /\ InventoryMatches

OnDisk(w) == \E i \in DOMAIN disk.purchases : disk.purchases[i].wallet = w

(***************************************************************************)
(* swapWallet.ts 4: "Afterwards everything in the wallet comes back to the *)
(* keeper": only a wallet whose key is on disk can hold or receive         *)
(* anything.                                                               *)
(***************************************************************************)
NothingStranded ==
    \A w \in Wallets :
        (\/ sol[w] > 0 \/ tok[w] > 0
         \/ \E t \in DOMAIN txs : txs[t].wallet = w /\ txs[t].kind = "fund" /\ InFlight(t))
        => OnDisk(w)

Delivered(c) ==
    {t \in DOMAIN txs : txs[t].kind = "swap" /\ txs[t].wallet[1] = c
                        /\ txs[t].status = "landed" /\ txs[t].tokens > 0}

(***************************************************************************)
(* A coin is bought once however often its buy is retried, and a bought    *)
(* coin's purchase names the swap that delivered it (engine.ts 640-641).   *)
(***************************************************************************)
BoughtOnce ==
    \A c \in DOMAIN disk.purchases :
        /\ Cardinality(Delivered(c)) <= 1
        /\ disk.purchases[c].status = "bought" => Delivered(c) = {disk.purchases[c].swap}

(***************************************************************************)
(* Buying ends: no lost answer, retry or lagging read keeps a round in it. *)
(* Only a wallet whose sweep is refused for ever does: its settlement      *)
(* comes before the look at maxBuyPhaseSecs (engine.ts 527-528, against    *)
(* engine.ts 22, "Nothing waits forever").                                 *)
(***************************************************************************)
BuyingEnds == ((disk.round = "SEEDED") ~> (disk.round = "FUNDED")) \/ []<><<SweepRefused>>_vars
=============================================================================
