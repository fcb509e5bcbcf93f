---------------------------- MODULE LaunchPools ----------------------------
(***************************************************************************)
(* The pools of a launch (keeper/migrator.ts, meteora/dbc.ts,              *)
(* meteora/price.ts): trading on a bonding curve stops once the curve is   *)
(* full, until somebody migrates the pool to DAMM v2.  The migrator polls  *)
(* for full pools; the keeper reads a coin's price from whichever pool it  *)
(* trades in.                                                              *)
(***************************************************************************)
EXTENDS Integers, FiniteSets, Sequences

CONSTANTS
    Pools,
    Threshold,     \* migrationQuoteThreshold; the curve's price rises with its reserve
    PriceRange,    \* prices of the graduated pool
    QuoteIsB,      \* pools whose token B is SOL
    MaxRestarts

VARIABLES
    quoteReserve, isMigrated, dammPrice,
    pending, todo, \* the migrator's pools left, and left in this poll
    sending,       \* {p} while its migration of p is under way
    restarts,
    reading,       \* price reads: {} or {[pool]}, after the first read
    tradable,      \* prices the coin could be traded at since the read began
    price          \* what poolPrice returned: <<>> or <<pool, num, den>>

vars == <<quoteReserve, isMigrated, dammPrice, pending, todo, sending, restarts, reading, tradable, price>>
chain == <<quoteReserve, isMigrated, dammPrice>>
migrator == <<pending, todo, sending, restarts>>
reader == <<reading, tradable, price>>

PhaseOf(migrated, reserve) ==
    IF migrated THEN "GRADUATED" ELSE IF reserve >= Threshold THEN "AWAITING_MIGRATION" ELSE "CURVE"
Phase(p) == PhaseOf(isMigrated[p], quoteReserve[p])

(* What the coin can be traded at: a full curve's swaps are blocked until it is migrated. *)
PricesNow(p) ==
    CASE Phase(p) = "CURVE" -> {quoteReserve[p]}
      [] Phase(p) = "GRADUATED" -> {dammPrice[p]}
      [] OTHER -> {}

(* A reading goes on: whatever the price becomes is one it may return. *)
Watched ==
    /\ tradable' = IF reading = {} THEN tradable
                   ELSE tradable \cup UNION {PricesNow(r.pool)' : r \in reading}
    /\ UNCHANGED <<reading, price>>

Init ==
    /\ quoteReserve = [p \in Pools |-> 1] /\ isMigrated = [p \in Pools |-> FALSE]
    /\ dammPrice = [p \in Pools |-> Threshold]
    /\ pending = Pools /\ todo = {} /\ sending = {} /\ restarts = 0
    /\ reading = {} /\ tradable = {} /\ price = <<>>

(* Holders trade on the curve until it is full, then in the graduated pool. *)
Trade(p) ==
    /\ \/ /\ Phase(p) = "CURVE"
          /\ \E r \in 1 .. Threshold : r # quoteReserve[p] /\ quoteReserve' = [quoteReserve EXCEPT ![p] = r]
          /\ UNCHANGED dammPrice
       \/ /\ Phase(p) = "GRADUATED"
          /\ \E d \in PriceRange : d # dammPrice[p] /\ dammPrice' = [dammPrice EXCEPT ![p] = d]
          /\ UNCHANGED quoteReserve
    /\ UNCHANGED isMigrated
    /\ UNCHANGED migrator /\ Watched

Migrated(p) ==
    /\ Phase(p) = "AWAITING_MIGRATION"
    /\ isMigrated' = [isMigrated EXCEPT ![p] = TRUE]
    /\ UNCHANGED <<quoteReserve, dammPrice>>

(* Migration is permissionless: the keeper, or anyone, may come first. *)
OthersMigrate(p) == Migrated(p) /\ UNCHANGED migrator /\ Watched

(***************************************************************************)
(* The migrator: one pool of the poll at a time.  A failed read or send    *)
(* only costs this poll.                                                   *)
(***************************************************************************)
Poll ==
    /\ sending = {} /\ todo = {} /\ pending # {}
    /\ todo' = pending
    /\ UNCHANGED <<pending, sending, restarts>> /\ UNCHANGED <<chain, reader>>

ReadPool(p) ==
    /\ sending = {} /\ p \in todo
    /\ todo' = todo \ {p}
    /\ CASE Phase(p) = "CURVE" -> UNCHANGED <<pending, sending>>
         [] Phase(p) = "GRADUATED" -> pending' = pending \ {p} /\ UNCHANGED sending
         [] OTHER -> sending' = {p} /\ UNCHANGED pending
    /\ UNCHANGED restarts /\ UNCHANGED <<chain, reader>>

ReadFails(p) ==
    /\ sending = {} /\ p \in todo
    /\ todo' = todo \ {p}
    /\ UNCHANGED <<pending, sending, restarts>> /\ UNCHANGED <<chain, reader>>

(* Landed, and seen to have landed or not. *)
SendLands(p) ==
    /\ p \in sending /\ sending' = {}
    /\ Migrated(p)
    /\ pending' \in {pending, pending \ {p}}
    /\ UNCHANGED <<todo, restarts>> /\ Watched

(* Faulty variant: a pool whose migration failed is not looked at again. *)
SendFailsForgets(p) ==
    /\ p \in sending /\ sending' = {}
    /\ pending' = pending \ {p}
    /\ UNCHANGED <<todo, restarts>> /\ UNCHANGED <<chain, reader>>

(* Dropped, out of SOL, or somebody else was first. *)
SendFails(p) ==
    /\ p \in sending /\ sending' = {}
    /\ UNCHANGED <<pending, todo, restarts>> /\ UNCHANGED <<chain, reader>>

Restart ==
    /\ restarts < MaxRestarts /\ restarts' = restarts + 1
    /\ pending' = Pools /\ todo' = {} /\ sending' = {}
    /\ UNCHANGED <<chain, reader>>

(***************************************************************************)
(* LaunchPriceSource.poolPrice: the curve's state, and if it says migrated *)
(* the graduated pool's, whose price is of token B in token A.             *)
(***************************************************************************)
StoredPrice(p) == IF p \in QuoteIsB THEN <<dammPrice[p], 1>> ELSE <<1, dammPrice[p]>>

BeginPrice(p) ==
    /\ reading = {} /\ price = <<>>
    /\ tradable' = PricesNow(p)
    /\ IF isMigrated[p] THEN reading' = {[pool |-> p]} /\ UNCHANGED price
       ELSE price' = <<p, quoteReserve[p], 1>> /\ UNCHANGED reading
    /\ UNCHANGED <<chain, migrator>>

(* Faulty variant: the stored price is used as it is. *)
OrientedAsStored(p) == StoredPrice(p)

Oriented(p) ==
    LET stored == StoredPrice(p) IN IF p \in QuoteIsB THEN stored ELSE <<stored[2], stored[1]>>

EndPrice ==
    /\ \E r \in reading : price' = <<r.pool>> \o Oriented(r.pool)
    /\ reading' = {}
    /\ UNCHANGED tradable /\ UNCHANGED <<chain, migrator>>

UsePrice ==
    /\ price # <<>> /\ price' = <<>> /\ tradable' = {}
    /\ UNCHANGED reading /\ UNCHANGED <<chain, migrator>>

MigratorStep == Poll \/ \E p \in Pools : ReadPool(p) \/ ReadFails(p) \/ SendLands(p) \/ SendFails(p)
Next ==
    \/ MigratorStep \/ Restart \/ EndPrice \/ UsePrice
    \/ \E p \in Pools : Trade(p) \/ OthersMigrate(p) \/ BeginPrice(p)

(***************************************************************************)
(* The migrator runs; a read that is tried again and again is answered     *)
(* some day, and a migration sent again and again lands.                   *)
(***************************************************************************)
Fairness ==
    /\ WF_vars(MigratorStep)
    /\ \A p \in Pools : SF_vars(ReadPool(p)) /\ SF_vars(SendLands(p))
Spec == Init /\ [][Next]_vars /\ Fairness

----------------------------------------------------------------------------
(* The pools, the migrator's memory and a price read have their types. *)
TypeOK ==
    /\ quoteReserve \in [Pools -> 1 .. Threshold] /\ isMigrated \in [Pools -> BOOLEAN]
    /\ dammPrice \in [Pools -> PriceRange]
    /\ pending \subseteq Pools /\ todo \subseteq Pools /\ sending \subseteq Pools
    /\ restarts \in 0 .. MaxRestarts
    /\ reading \subseteq [pool : Pools] /\ tradable \subseteq Nat

(***************************************************************************)
(* A full curve is migrated, whatever fails on the way, and the migrator   *)
(* stops only when every pool has graduated (migrator.ts:1-5, 52-66).      *)
(***************************************************************************)
EveryPoolGraduates ==
    /\ \A p \in Pools : Phase(p) = "AWAITING_MIGRATION" ~> isMigrated[p]
    /\ [](pending = {} => \A p \in Pools : isMigrated[p])

(***************************************************************************)
(* The price a round is weighed with is lamports per coin, and one the     *)
(* coin could really be traded at while it was read: never that of a curve *)
(* the pool has left (price.ts:25-38).  Only of a full curve, where nobody *)
(* trades until it is migrated, it is the closing price.                   *)
(***************************************************************************)
PriceIsLive ==
    /\ TypeOK
    /\ price # <<>> =>
          \/ \E now \in tradable : price[2] = now * price[3]
          \/ tradable = {} /\ price[2] = Threshold * price[3]
=============================================================================
