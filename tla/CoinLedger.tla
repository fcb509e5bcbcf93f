----------------------------- MODULE CoinLedger -----------------------------
(***************************************************************************)
(* The SOL ledger of one launched coin and the journal that keeps it       *)
(* (keeper/coin.ts): every claim and every spend is written down before it *)
(* is sent, and the ledger moves once the transaction is known to have     *)
(* landed, by what it did to the keeper's SOL.                             *)
(*                                                                         *)
(* A tick runs its sub-steps in order, each on its own: one that throws is *)
(* logged and the next one runs.  Every change of the state file is saved  *)
(* as one write, so a crash only ends the tick.  Amounts are lamports.     *)
(***************************************************************************)
EXTENDS Integers, Sequences, FiniteSetsExt, Functions

CONSTANTS
    Shares,             \* of 10: FeeSplitBps
    ClaimEffects,       \* what a landed claim may do to the keeper's SOL
    RoundCosts,         \* what a transaction of a round may cost
    Fee,                \* of a transaction
    SwapCosts,          \* what a swap may cost beside its input: fee, rents
    MinFeeClaim, MinPayout, MinBuyback,
    Life,               \* how long a sent transaction may still land
    Lag,                \* how long an RPC node may not show what landed
    Margin,             \* EXPIRY_MARGIN_BLOCKS
    RefusalsBeforeDone, \* SURPLUS_REFUSALS_BEFORE_DONE
    \* Bounds of the model.
    Claimed,            \* SOL claimed and split before the model starts
    MaxSends,           \* signed transactions
    MaxRoundSteps,      \* steps of a round that move SOL
    MaxFaults           \* crashes, failed reads, refused sends and lost answers

Buckets == {"basket", "flywheel", "buyback", "revenue", "operations"}
Claims == {"curve fees", "pool fees", "partner surplus"}
Spends == {"platform revenue", "$FOLIO buyback", "Stonkfolio flywheel"}
BucketOf == [label \in Spends |->
                CASE label = "platform revenue" -> "revenue"
                  [] label = "$FOLIO buyback" -> "buyback"
                  [] label = "Stonkfolio flywheel" -> "flywheel"]

ASSUME LedgerAssumption ==
    /\ DOMAIN Shares = Buckets \ {"operations"}
    /\ \A b \in DOMAIN Shares : Shares[b] \in Nat
    /\ SumFunction(Shares) = 10
    /\ ClaimEffects \subseteq Int /\ RoundCosts \subseteq Int /\ SwapCosts \subseteq Nat
    /\ {Fee, MinFeeClaim, MinPayout, MinBuyback, Life, Lag, Margin, Claimed} \subseteq Nat
    /\ MinPayout > Fee
    /\ Margin >= Lag
    /\ RefusalsBeforeDone \in Nat \ {0}
    /\ {MaxSends, MaxRoundSteps, MaxFaults} \subseteq Nat

VARIABLES
    phase,      \* of the coin's pool: "CURVE", "AWAITING_MIGRATION", "GRADUATED"
    wallet,     \* the coin's part of the keeper's SOL
    surplus,    \* the pool's partner surplus: "held", "out", "empty"
    tx,         \* what became of each signed transaction, by number
    ledger,     \* state.ledger
    pending,    \* state.pending: numbers of journaled transactions
    round,      \* the round's operations reserve, basket budget and recorded costs
    surplusWithdrawn, surplusRefusals,
    view,       \* the phase read at the start of the tick, "none" if that failed
    todo,       \* the sub-steps left of the tick
    busy,       \* of the first of them: "no", "signed", "sent", "answered", "burn"
    booked,     \* history: how often each transaction moved the ledger
    drift,      \* history: SOL that left the wallet and no booking tells of
    faults, roundSteps

disk == <<ledger, pending, round, surplusWithdrawn, surplusRefusals>>
chain == <<phase, surplus>>
bounds == <<faults, roundSteps>>
vars == <<chain, wallet, tx, disk, view, todo, busy, booked, drift, bounds>>

Numbers == 1 .. MaxSends
Unsigned == [label |-> "none", state |-> "none", effect |-> 0, planned |-> 0, age |-> 0, since |-> 0]
NoRound == [open |-> FALSE, reserve |-> 0, budget |-> 0, spent |-> 0]
MaxAge == Life + Margin + 1

Fault == faults < MaxFaults /\ faults' = faults + 1

----------------------------------------------------------------------------
(* The ledger. *)

(* debit: up to amount from a bucket. *)
Taken(l, b, amount) == Min({amount, l[b]})
Debit(l, b, amount) == [l EXCEPT ![b] = @ - Taken(l, b, amount)]

(* chargeLedger: what a bucket cannot bear comes from the basket. *)
ChargeLedger(l, b, cost) == Debit(Debit(l, b, cost), "basket", cost - Taken(l, b, cost))

(* What not even the basket bears. *)
Unborne(l, b, cost) ==
    LET rest == cost - Taken(l, b, cost)
    IN rest - Taken(Debit(l, b, cost), "basket", rest)

Floored(lamports) == [b \in Buckets |-> IF b = "operations" THEN 0 ELSE (lamports * Shares[b]) \div 10]

(* Faulty variant: the rounding is left out. *)
SplitFloored(lamports) == Floored(lamports)

(* splitRevenue: the basket, the last bucket, absorbs the rounding. *)
SplitRevenue(lamports) ==
    [Floored(lamports) EXCEPT
        !["basket"] = lamports - SumFunctionOnSet(Floored(lamports), Buckets \ {"basket"})]

CreditRevenue(l, lamports) == [b \in Buckets |-> l[b] + SplitRevenue(lamports)[b]]

Total(l) == SumFunction(l)

(* A coin that has claimed once, and may have a round that bought nothing yet. *)
Reserved == LET l == SplitRevenue(Claimed) reserve == l["basket"] \div 2 IN
            [l EXCEPT !["basket"] = @ - reserve, !["operations"] = reserve]
Init ==
    /\ phase = "CURVE" /\ surplus \in {"held", "empty"}
    /\ \/ round = NoRound /\ ledger = SplitRevenue(Claimed)
       \/ /\ ledger = Reserved
          /\ round \in [open : {TRUE}, reserve : {Reserved["operations"]}, budget : {Reserved["basket"]},
                        spent : RoundCosts]
    /\ wallet = Claimed - round.spent
    /\ tx = [n \in Numbers |-> Unsigned]
    /\ pending = {}
    /\ surplusWithdrawn = FALSE /\ surplusRefusals = 0
    /\ view = "none" /\ todo = <<>> /\ busy = "no"
    /\ booked = [n \in Numbers |-> 0] /\ drift = 0
    /\ faults = 0 /\ roundSteps = 0

----------------------------------------------------------------------------
(* Transactions on their way. *)

(* A sent transaction lands, or fails on chain and pays its fee; or it never does either. *)
Arrive(n) ==
    /\ tx[n].state = "flying" /\ tx[n].age <= Life
    /\ \/ /\ tx[n].label = "partner surplus" => surplus = "held"
          /\ tx' = [tx EXCEPT ![n].state = "landed"]
          /\ wallet' = wallet + tx[n].effect
          /\ surplus' = IF tx[n].label = "partner surplus" THEN "out" ELSE surplus
          /\ drift' = drift
       \/ /\ tx' = [tx EXCEPT ![n].state = "failed"]
          /\ wallet' = wallet - Fee /\ drift' = drift + Fee
          /\ UNCHANGED surplus
    /\ UNCHANGED <<phase, disk, view, todo, busy, booked, bounds>>

Older(t) ==
    [t EXCEPT !.age = Min({@ + 1, MaxAge}),
              !.since = IF t.state \in {"landed", "failed"} THEN Min({@ + 1, Lag + 1}) ELSE @]

TimePasses ==
    /\ busy \in {"no", "sent"}
    /\ tx' = [n \in Numbers |-> IF n \in pending THEN Older(tx[n]) ELSE tx[n]]
    /\ tx' # tx
    /\ UNCHANGED <<chain, wallet, disk, view, todo, busy, booked, drift, bounds>>

(* Faulty variant: a signature no node shows has expired once it can no longer land. *)
UnseenHasty(n) == IF tx[n].age > Life THEN "expired" ELSE "pending"

(* resolveSignature: a signature no node shows has expired only Margin after that. *)
Unseen(n) == IF tx[n].age > Life + Margin THEN "expired" ELSE "pending"

(* What landed lately may not be shown, or its effect not be indexed, yet. *)
Outcomes(n) ==
    IF tx[n].state \in {"landed", "failed"}
    THEN {tx[n].state} \cup (IF tx[n].since <= Lag THEN {Unseen(n)} ELSE {})
    ELSE {Unseen(n)}

(* A landed transaction moves the ledger by its measured effect; a claim never debits. *)
Settle(l, n) ==
    IF tx[n].label \in Claims THEN CreditRevenue(l, Max({0, tx[n].effect}))
    ELSE ChargeLedger(l, BucketOf[tx[n].label], Max({0, -tx[n].effect}))

Missed(l, n) ==
    IF tx[n].label \in Claims THEN Max({0, -tx[n].effect})
    ELSE Unborne(l, BucketOf[tx[n].label], Max({0, -tx[n].effect}))

(* Settles these transactions in the journal's order. *)
SettleAll(landed) ==
    LET upTo[n \in 0 .. MaxSends] ==
            IF n = 0 THEN [ledger |-> ledger, missed |-> 0]
            ELSE LET before == upTo[n - 1]
                 IN IF n \notin landed THEN before
                    ELSE [ledger |-> Settle(before.ledger, n),
                          missed |-> before.missed + Missed(before.ledger, n)]
    IN upTo[MaxSends]

(* settlePending: the journal, saved as one write.  Nothing asks for a settled one's age. *)
SettlePending ==
    \E outcome \in [pending -> {"landed", "failed", "expired", "pending"}] :
        LET landed == {n \in pending : outcome[n] = "landed"}
        IN /\ \A n \in pending : outcome[n] \in Outcomes(n)
           /\ ledger' = SettleAll(landed).ledger
           /\ drift' = drift + SettleAll(landed).missed
           /\ pending' = {n \in pending : outcome[n] = "pending"}
           /\ booked' = [n \in Numbers |-> booked[n] + (IF n \in landed THEN 1 ELSE 0)]
           /\ surplusWithdrawn' = (surplusWithdrawn \/ \E n \in landed : tx[n].label = "partner surplus")
           /\ tx' = [n \in Numbers |->
                        IF n \in pending /\ outcome[n] # "pending" THEN [tx[n] EXCEPT !.age = MaxAge, !.since = Lag + 1]
                        ELSE tx[n]]

----------------------------------------------------------------------------
(* A tick. *)

StepsFor(seen) ==
    CASE seen = "none" -> <<"settle", "rounds">>
      [] seen = "AWAITING_MIGRATION" -> <<"settle", "migrate", "rounds">>
      [] OTHER -> <<"settle", "curve fees">>
                  \o (IF seen = "GRADUATED" THEN <<"pool fees", "partner surplus">> ELSE <<>>)
                  \o <<"rounds", "platform revenue", "$FOLIO buyback", "Stonkfolio flywheel">>

StartTick ==
    /\ todo = <<>>
    /\ \/ view' = phase /\ faults' = faults
       \/ view' = "none" /\ Fault
    /\ todo' = StepsFor(view')
    /\ UNCHANGED <<chain, wallet, tx, disk, busy, booked, drift, roundSteps>>

At(name) == todo # <<>> /\ todo[1] = name
Next1 == todo' = Tail(todo) /\ busy' = "no" /\ view' = IF Len(todo) = 1 THEN "none" ELSE view

(* attempt: a sub-step that throws ends there. *)
Throw ==
    /\ todo # <<>> /\ busy \in {"no", "answered", "burn"} /\ Fault
    /\ Next1
    /\ UNCHANGED <<chain, wallet, tx, disk, booked, drift, roundSteps>>

Crash ==
    /\ todo # <<>> /\ Fault
    /\ todo' = <<>> /\ busy' = "no" /\ view' = "none"
    /\ UNCHANGED <<chain, wallet, tx, disk, booked, drift, roundSteps>>

SettleStep ==
    /\ At("settle") /\ busy = "no"
    /\ SettlePending
    /\ Next1
    /\ UNCHANGED <<chain, wallet, round, surplusRefusals, bounds>>

(* migrateToDammV2: the rents it fronts come back; its fee is booked nowhere. *)
MigrateToDammV2 == phase' = "GRADUATED" /\ wallet' = wallet - Fee /\ drift' = drift + Fee

(* Somebody else may have migrated the pool. *)
Migrate ==
    /\ At("migrate")
    /\ IF phase = "AWAITING_MIGRATION" THEN MigrateToDammV2
       ELSE UNCHANGED <<phase, wallet, drift>>
    /\ Next1
    /\ UNCHANGED <<surplus, tx, disk, booked, bounds>>

(* Faulty variant: a label in flight is started again. *)
IsPendingNever(label) == FALSE

(* isPending: a label with a transaction in the journal is not started again. *)
IsPending(label) == \E n \in pending : tx[n].label = label

(* What the transactions of the launch's two pools do to the keeper's SOL. *)
ClaimCurveFees(received) == [effect |-> received, planned |-> 0]
ClaimPositionFees(received) == [effect |-> received, planned |-> 0]
PartnerWithdrawSurplus(received) == [effect |-> received, planned |-> 0]
CurveSwap(amountIn, cost) == [effect |-> -amountIn - cost, planned |-> amountIn]
DammSwap(amountIn, cost) == [effect |-> -amountIn - cost, planned |-> amountIn]

(* transferSol: sent net of its fee, so the whole share leaves the wallet. *)
TransferSol(share) == [effect |-> -(share - Fee) - Fee, planned |-> share]

(* What is there to claim is what a claim brings, before its fee; the last curve fees are swept. *)
CurveClaims ==
    {ClaimCurveFees(e) : e \in {x \in ClaimEffects :
        x + Fee >= MinFeeClaim \/ (view = "GRADUATED" /\ x + Fee > 0)}}

PoolClaims == {ClaimPositionFees(e) : e \in {x \in ClaimEffects : x + Fee >= MinFeeClaim}}

SurplusClaims ==
    IF surplusWithdrawn \/ surplus = "out" THEN {} ELSE {PartnerWithdrawSurplus(e) : e \in ClaimEffects}

RevenuePayouts == {TransferSol(share) : share \in {ledger["revenue"]} \cap (MinPayout .. ledger["revenue"])}

(***************************************************************************)
(* The bucket, on the pool of the platform's own coin: a curve may have    *)
(* room for less, and one awaiting its migration takes nothing.            *)
(***************************************************************************)
Buybacks(bucket) ==
    LET amount == ledger[bucket] IN
    IF amount < MinBuyback THEN {}
    ELSE {CurveSwap(room, cost) : room \in {MinBuyback, amount}, cost \in SwapCosts}
         \cup {DammSwap(amount, cost) : cost \in SwapCosts}

(* What a sub-step that may start would send: nothing, below its threshold. *)
Plans(label) ==
    IF IsPending(label) THEN {}
    ELSE CASE label = "curve fees" -> CurveClaims
           [] label = "pool fees" -> PoolClaims
           [] label = "partner surplus" -> SurplusClaims
           [] label = "platform revenue" -> RevenuePayouts
           [] OTHER -> Buybacks(BucketOf[label])

Signed == Cardinality({n \in Numbers : tx[n].state # "none"})
Sends(label) == IF Signed < MaxSends THEN Plans(label) ELSE {}

(* Nothing to send: too little to claim, a curve with too little room, or a label in flight. *)
Skip ==
    /\ todo # <<>> /\ busy = "no" /\ todo[1] \in Claims \cup Spends \cup {"rounds"}
    /\ At("platform revenue") => Sends("platform revenue") = {}
    /\ Next1
    /\ surplusWithdrawn' = (surplusWithdrawn \/ (At("partner surplus") /\ surplus = "out"))
    /\ UNCHANGED <<chain, wallet, tx, ledger, pending, round, surplusRefusals, booked, drift, bounds>>

(* onSigned: a signature is in the journal before the transaction is sent. *)
Journal(label, plan) ==
    /\ tx' = [tx EXCEPT ![Signed + 1] = [Unsigned EXCEPT !.label = label, !.state = "unsent",
                                                         !.effect = plan.effect, !.planned = plan.planned]]
    /\ pending' = pending \cup {Signed + 1}
    /\ busy' = "signed"
    /\ UNCHANGED <<chain, wallet, ledger, round, surplusWithdrawn, surplusRefusals, view, todo, booked, drift,
                   roundSteps>>

Sign ==
    /\ todo # <<>> /\ todo[1] \in Claims \cup Spends /\ busy = "no"
    /\ \E plan \in Sends(todo[1]) : Journal(todo[1], plan)
    /\ faults' = faults

(* withBlockhashRetry: a node that does not know the blockhash refuses; another try is signed. *)
SignAgain ==
    /\ busy = "signed" /\ Signed < MaxSends /\ Fault
    /\ Journal(todo[1], [effect |-> tx[Signed].effect, planned |-> tx[Signed].planned])

Send ==
    /\ busy = "signed" /\ (At("partner surplus") => surplus = "held")
    /\ tx' = [tx EXCEPT ![Signed].state = "flying"]
    /\ busy' = "sent"
    /\ UNCHANGED <<chain, wallet, disk, view, todo, booked, drift, bounds>>

(* The preflight refuses; the program's refusals of a surplus withdrawal are counted. *)
Refused ==
    /\ busy = "signed"
    /\ \/ At("partner surplus") /\ surplus # "held" /\ faults' = faults
       \/ Fault
    /\ IF At("partner surplus") /\ surplus # "held"
       THEN /\ surplusRefusals' = surplusRefusals + (IF surplus = "out" THEN 0 ELSE 1)
            /\ surplusWithdrawn' = (surplusWithdrawn \/ surplus = "out" \/ surplusRefusals' >= RefusalsBeforeDone)
       ELSE UNCHANGED <<surplusWithdrawn, surplusRefusals>>
    /\ Next1
    /\ UNCHANGED <<chain, wallet, tx, ledger, pending, round, booked, drift, roundSteps>>

Answer ==
    /\ busy = "sent" /\ tx[Signed].state = "landed"
    /\ busy' = "answered"
    /\ UNCHANGED <<chain, wallet, tx, disk, view, todo, booked, drift, bounds>>

Unanswered ==
    /\ busy = "sent"
    /\ \/ faults' = faults /\ (tx[Signed].state = "failed" \/ tx[Signed].age > Life)
       \/ Fault
    /\ Next1
    /\ UNCHANGED <<chain, wallet, tx, disk, booked, drift, roundSteps>>

Answered ==
    /\ busy = "answered"
    /\ SettlePending
    /\ IF todo[1] \in {"$FOLIO buyback", "Stonkfolio flywheel"}
       THEN busy' = "burn" /\ UNCHANGED <<todo, view>>
       ELSE Next1
    /\ UNCHANGED <<chain, wallet, round, surplusRefusals, bounds>>

(* Charges an unjournaled transaction's measured cost. *)
ChargeTransaction(b, cost) ==
    /\ ledger' = ChargeLedger(ledger, b, cost)
    /\ drift' = drift + Unborne(ledger, b, cost)

(* burnHeld: not journaled; its cost is charged once it is answered, and nowhere if it is not. *)
Burn ==
    /\ busy = "burn"
    /\ wallet' = wallet - Fee
    /\ \/ ChargeTransaction(BucketOf[todo[1]], Fee) /\ faults' = faults
       \/ drift' = drift + Fee /\ Fault /\ UNCHANGED ledger
    /\ Next1
    /\ UNCHANGED <<chain, tx, pending, round, surplusWithdrawn, surplusRefusals, booked, roundSteps>>

----------------------------------------------------------------------------
(* The rounds' own use of the ledger, between a tick's other sub-steps. *)

RoundStep == At("rounds") /\ roundSteps < MaxRoundSteps /\ roundSteps' = roundSteps + 1
AroundRound == UNCHANGED <<chain, tx, pending, surplusWithdrawn, surplusRefusals, view, todo, busy, booked>>

(* buyBasket: the reserve moves out of the pot; the budget stays in it until it is spent. *)
Reserve ==
    /\ RoundStep /\ ~round.open /\ ledger["basket"] > 1
    /\ LET reserve == ledger["basket"] \div 2 IN
       /\ ledger' = [ledger EXCEPT !["basket"] = @ - reserve, !["operations"] = @ + reserve]
       /\ round' = [open |-> TRUE, reserve |-> reserve, budget |-> ledger["basket"] - reserve, spent |-> 0]
    /\ UNCHANGED <<wallet, drift, faults>> /\ AroundRound

Purchase ==
    /\ RoundStep /\ round.budget > 0
    /\ wallet' = wallet - round.budget
    /\ ledger' = Debit(ledger, "basket", round.budget)
    /\ drift' = drift + round.budget - Taken(ledger, "basket", round.budget)
    /\ round' = [round EXCEPT !.budget = 0]
    /\ UNCHANGED faults /\ AroundRound

(* chargeTx: to the round, or to the basket when no round owns it; nothing if the step dies. *)
ChargeTx ==
    /\ RoundStep
    /\ \E cost \in RoundCosts :
        /\ wallet' = wallet - cost
        /\ \/ /\ round.open
              /\ round' = [round EXCEPT !.spent = @ + cost]
              /\ UNCHANGED <<ledger, drift, faults>>
           \/ /\ ~round.open
              /\ ledger' = IF cost > 0 THEN Debit(ledger, "basket", cost) ELSE [ledger EXCEPT !["basket"] = @ - cost]
              /\ drift' = IF cost > 0 THEN drift + cost - Taken(ledger, "basket", cost) ELSE drift
              /\ UNCHANGED <<round, faults>>
           \/ /\ Fault
              /\ drift' = drift + cost
              /\ UNCHANGED <<ledger, round>>
    /\ AroundRound

(* reconcileReserve: what the reserve did not cost returns, what it cost more is taken. *)
ReconcileReserve(l, reserve, spent) ==
    LET held == Taken(l, "operations", reserve)
        after == Debit(l, "operations", reserve)
    IN IF spent <= held THEN [after EXCEPT !["basket"] = @ + held - spent]
       ELSE Debit(after, "basket", spent - held)

FinishRound ==
    /\ RoundStep /\ round.open
    /\ ledger' = ReconcileReserve(ledger, round.reserve, round.spent)
    /\ drift' = drift + Max({0, round.spent - round.reserve - ledger["basket"]})
    /\ round' = NoRound
    /\ UNCHANGED <<wallet, faults>> /\ AroundRound

(* The phase is read at the start of a tick and by migrate: it need only change before them. *)
FillCurve ==
    /\ phase = "CURVE" /\ todo = <<>>
    /\ phase' = "AWAITING_MIGRATION"
    /\ UNCHANGED <<surplus, wallet, tx, disk, view, todo, busy, booked, drift, bounds>>

MigratedByOthers ==
    /\ phase = "AWAITING_MIGRATION" /\ (todo = <<>> \/ At("migrate"))
    /\ phase' = "GRADUATED"
    /\ UNCHANGED <<surplus, wallet, tx, disk, view, todo, busy, booked, drift, bounds>>

Tick == StartTick \/ SettleStep \/ Migrate \/ Skip \/ Sign \/ Send \/ Refused \/ Answer \/ Unanswered
        \/ Answered \/ Burn
Rounds == Reserve \/ Purchase \/ ChargeTx \/ FinishRound
Chain == FillCurve \/ MigratedByOthers \/ \E n \in Numbers : Arrive(n)
Next == Tick \/ SignAgain \/ Throw \/ Crash \/ Rounds \/ Chain \/ TimePasses

Spec == Init /\ [][Next]_vars

----------------------------------------------------------------------------
(* Properties. *)

(* A ledger of amounts, a journal of signed transactions. *)
TypeOK ==
    /\ phase \in {"CURVE", "AWAITING_MIGRATION", "GRADUATED"} /\ surplus \in {"held", "out", "empty"}
    /\ wallet \in Int /\ drift \in Int
    /\ \A n \in Numbers : tx[n].label \in Claims \cup Spends \cup {"none"}
    /\ ledger \in [Buckets -> Nat]
    /\ pending \subseteq 1 .. Signed
    /\ round \in [open : BOOLEAN, reserve : Nat, budget : Nat, spent : Int]
    /\ surplusRefusals \in 0 .. RefusalsBeforeDone
    /\ busy \in {"no", "signed", "sent", "answered", "burn"}

(***************************************************************************)
(* A claim or spend that landed has moved the ledger exactly once by the   *)
(* time it leaves the journal, and one that did not land never has         *)
(* (coin.ts:13-15, "can neither lose a fee claim nor spend a bucket        *)
(* twice"): whatever crashed, timed out or was not shown yet.              *)
(***************************************************************************)
SettledOnce ==
    \A n \in 1 .. Signed : booked[n] = IF tx[n].state = "landed" /\ n \notin pending THEN 1 ELSE 0

(***************************************************************************)
(* The keeper's SOL is what the ledger says, plus what is still journaled  *)
(* and landed, less the rounds' costs on record, less the SOL lost in the  *)
(* ways named by drift: a failed transaction's fee, a claim that cost more *)
(* than it brought, a migration, a burn or round step whose answer was     *)
(* lost, and costs neither the bucket nor the basket could bear.           *)
(***************************************************************************)
InTransit == SumFunction([n \in {m \in pending : tx[m].state = "landed"} |-> tx[n].effect])
DriftExplained == TypeOK /\ wallet = Total(ledger) + InTransit - round.spent - drift

(***************************************************************************)
(* Until a spend that was sent settles, its bucket still holds what the    *)
(* spend planned, but for the fee of its own burn: no other step of the    *)
(* tick, no round and no second spend takes it first (the bucket is read   *)
(* long before it is debited, coin.ts:357).                                *)
(***************************************************************************)
SpendStillCovered ==
    \A n \in pending :
        tx[n].label \in Spends /\ (tx[n].state = "landed" \/ (tx[n].state = "flying" /\ tx[n].age <= Life))
            => ledger[BucketOf[tx[n].label]] >= tx[n].planned - Fee
=============================================================================
