----------------------------- MODULE SwapGuard -----------------------------
(***************************************************************************)
(* One buy of the basket (keeper/basket.ts swap, keeper/jupiter.ts): two   *)
(* quotes, a decision on the price impact, a transaction built by the same *)
(* API, simulated and then sent from a throwaway wallet.                   *)
(*                                                                         *)
(* Lamports are counted in units of 0.001 SOL, the smallest reference      *)
(* quote.  The pool (external) gives Price tokens per unit until a buy of  *)
(* Depth would halve its rate; its own fee comes off the output, and the   *)
(* coin's transfer fee, rounded up, off every transfer.                    *)
(***************************************************************************)
EXTENDS Integers, FiniteSets

CONSTANTS
    Markets,       \* [price, depth, fee (percent), transferFee, token2022]
    Lamports,      \* sizes of a buy
    Moves,         \* percent by which the price may fall before the swap runs
    Others,        \* quotes another API may give: [inMint, outMint, in, mode, slippage, out, min]
    OtherSwaps,    \* transactions it may build: [payer, signers, programs, spends, delivers, fails]
    SlippageBps, MaxPriceImpactBps, MaxTransferFeeBps,
    Overhead,      \* SWAP_OVERHEAD_LAMPORTS
    Fees           \* what a swap may cost on top of its input

MinReference == 1

VARIABLES
    stage,         \* "new", "quoted", "measured", "built", "sent", "refused"
    market, lamports,
    honest,        \* whether the API answers for the pool as it is
    netQuoted,     \* whether its quotes are net of the coin's transfer fee
    quote, impact, swap, refusal

vars == <<stage, market, lamports, honest, netQuoted, quote, impact, swap, refusal>>

CeilDiv(a, b) == (a + b - 1) \div b

PoolOut(m, x) == (((m.price * x * m.depth) \div (m.depth + x)) * (100 - m.fee)) \div 100
Net(m, gross) == gross - CeilDiv(gross * m.transferFee, 10000)

HonestQuote(m, x) ==
    LET out == IF netQuoted THEN Net(m, PoolOut(m, x)) ELSE PoolOut(m, x)
    IN [inMint |-> "SOL", outMint |-> "coin", in |-> x, mode |-> "ExactIn", slippage |-> SlippageBps,
        out |-> out, min |-> CeilDiv(out * (10000 - SlippageBps), 10000)]

CheckQuote(q, x) ==
    /\ q.inMint = "SOL" /\ q.outMint = "coin" /\ q.in = x
    /\ q.mode = "ExactIn" /\ q.slippage = SlippageBps
    /\ q.out > 0
    /\ q.min <= q.out /\ q.min * 10000 >= q.out * (10000 - SlippageBps)

ReferenceLamports(x) == IF x \div 100 > MinReference THEN x \div 100 ELSE MinReference

(* Faulty variant: measured against the pool's price, fees and all. *)
ImpactWithFees(q, r) == 10000 - (q.out * 10000) \div (q.in * market.price)

MarginalImpactBps(q, r) ==
    IF q.in = 0 \/ r.in = 0 \/ r.out = 0 THEN MaxPriceImpactBps + 1
    ELSE LET rate == (q.out * r.in * 10000) \div (q.in * r.out)
         IN IF rate >= 10000 THEN 0 ELSE 10000 - rate

MinOutput(q, m) == IF m.token2022 THEN (q.min * (10000 - MaxTransferFeeBps)) \div 10000 ELSE q.min

Init ==
    /\ stage = "new" /\ market \in Markets /\ lamports \in Lamports
    /\ honest \in BOOLEAN /\ netQuoted \in BOOLEAN
    /\ quote = <<>> /\ impact = 0 /\ swap = <<>> /\ refusal = "none"

Refuse(why) == stage' = "refused" /\ refusal' = why
Quotes(x) == IF honest THEN {HonestQuote(market, x)} ELSE Others

GetQuote ==
    /\ stage = "new"
    /\ \E q \in Quotes(lamports) :
          /\ quote' = q
          /\ IF CheckQuote(q, lamports) THEN stage' = "quoted" /\ UNCHANGED refusal ELSE Refuse("quote")
    /\ UNCHANGED <<market, lamports, honest, netQuoted, impact, swap>>

(* A buy no bigger than the reference has nothing to be measured against. *)
Measure ==
    /\ stage = "quoted"
    /\ LET x == ReferenceLamports(lamports) IN
       IF x >= lamports THEN impact' = 0 /\ stage' = "measured" /\ UNCHANGED refusal
       ELSE \E r \in Quotes(x) :
              IF ~CheckQuote(r, x) THEN Refuse("quote") /\ UNCHANGED impact
              ELSE /\ impact' = MarginalImpactBps(quote, r)
                   /\ IF impact' > MaxPriceImpactBps THEN Refuse("impact")
                      ELSE stage' = "measured" /\ UNCHANGED refusal
    /\ UNCHANGED <<market, lamports, honest, netQuoted, quote, swap>>

(***************************************************************************)
(* The swap the API builds (external).  An honest one spends the input and *)
(* its fees and fails on chain when the pool, moved meanwhile, would give  *)
(* less than the quote's minimum.                                          *)
(***************************************************************************)
HonestSwaps ==
    {LET gross == (PoolOut(market, lamports) * (100 - move)) \div 100
         measured == IF netQuoted THEN Net(market, gross) ELSE gross
     IN [payer |-> TRUE, signers |-> 1, programs |-> TRUE, spends |-> lamports + fee,
         delivers |-> Net(market, gross), fails |-> measured < quote.min] :
        move \in Moves, fee \in Fees}

Build ==
    /\ stage = "measured"
    /\ \E s \in IF honest THEN HonestSwaps ELSE OtherSwaps :
          /\ swap' = s
          /\ IF s.payer /\ s.signers = 1 /\ s.programs THEN stage' = "built" /\ UNCHANGED refusal
             ELSE Refuse("shape")
    /\ UNCHANGED <<market, lamports, honest, netQuoted, quote, impact>>

(* checkSwapSimulation, then the very bytes that were simulated are sent. *)
SimulateAndSend ==
    /\ stage = "built"
    /\ IF swap.fails THEN Refuse("fails")
       ELSE IF swap.spends > lamports + Overhead THEN Refuse("cost")
       ELSE IF swap.delivers < MinOutput(quote, market) THEN Refuse("delivery")
       ELSE stage' = "sent" /\ UNCHANGED refusal
    /\ UNCHANGED <<market, lamports, honest, netQuoted, quote, impact, swap>>

Next == GetQuote \/ Measure \/ Build \/ SimulateAndSend
Spec == Init /\ [][Next]_vars

----------------------------------------------------------------------------
(* A buy on its way through the checks has its types (jupiter.ts). *)
TypeOK ==
    /\ stage \in {"new", "quoted", "measured", "built", "sent", "refused"}
    /\ market \in Markets /\ lamports \in Lamports /\ {honest, netQuoted} \subseteq BOOLEAN
    /\ impact \in 0 .. 10000
    /\ refusal \in {"none", "quote", "impact", "shape", "fails", "cost", "delivery"}
    /\ stage = "refused" <=> refusal # "none"

(* How much worse the pool's rate is at full size, in bps, fees aside. *)
RealImpact ==
    10000 - ((market.depth + ReferenceLamports(lamports)) * 10000) \div (market.depth + lamports)

(* The three roundings of the reference quote, the only one small enough to matter. *)
Slack == 3 + 30000 \div HonestQuote(market, ReferenceLamports(lamports)).out

(***************************************************************************)
(* A buy is judged by the pool's depth alone: whatever the pool and the    *)
(* coin charge, and whether quotes are net of the transfer fee or not, an  *)
(* honest buy that moves the price less than the limit is never refused    *)
(* unless the price fell by more than the slippage, one that moves it      *)
(* further is never sent; and no transaction is sent that the simulation   *)
(* showed spending or withholding more than agreed (basket.ts:66-73,       *)
(* jupiter.ts:117-149).                                                    *)
(***************************************************************************)
GuardJudgesDepth ==
    /\ TypeOK
    /\ honest /\ market.transferFee <= MaxTransferFeeBps =>
          /\ refusal \in {"none", "impact", "fails"}
          /\ refusal = "impact" => RealImpact > MaxPriceImpactBps - Slack
          /\ stage = "sent" /\ ReferenceLamports(lamports) < lamports => RealImpact <= MaxPriceImpactBps + Slack
    /\ stage = "sent" =>
          /\ swap.spends <= lamports + Overhead
          /\ swap.delivers * 10000 >= quote.out * (10000 - SlippageBps - MaxTransferFeeBps) - 10000
=============================================================================
