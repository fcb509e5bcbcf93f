----------------------------- MODULE PoolWatch -----------------------------
(***************************************************************************)
(* CoinKeeper.watchPool (keeper/coin.ts): Meteora's operators can change   *)
(* the fee or the status of the graduated pool; every tick compares what   *)
(* it reads with what the state file recorded, alerts, and records it.     *)
(***************************************************************************)
EXTENDS Naturals, Sequences

CONSTANTS Fees, Statuses, MaxFailures

VARIABLES
    pool,          \* <<cliffFeeNumerator, poolStatus>> on chain
    poolWatch,     \* in the state file: <<>> before the first tick
    seen,          \* what this tick has read
    alert,         \* the last pair <<before, seen>> printed
    step,          \* "status", "fees", "compare", "save"
    failures

vars == <<pool, poolWatch, seen, alert, step, failures>>

Settings == Fees \X Statuses

Init ==
    /\ pool \in Settings /\ poolWatch = <<>> /\ seen = <<>> /\ alert = <<>>
    /\ step = "status" /\ failures = 0

SetPool == pool' \in Settings /\ UNCHANGED <<poolWatch, seen, alert, step, failures>>

(* Two reads: the pool's state, then its fees. *)
ReadStatus ==
    /\ step = "status" /\ step' = "fees" /\ seen' = <<pool[2]>>
    /\ UNCHANGED <<pool, poolWatch, alert, failures>>

ReadFees ==
    /\ step = "fees" /\ step' = "compare" /\ seen' = <<pool[1], seen[1]>>
    /\ UNCHANGED <<pool, poolWatch, alert, failures>>

(* Faulty variant: only the fee is compared. *)
ChangedFee(before, now) == before[1] # now[1]

Changed(before, now) == before[1] # now[1] \/ before[2] # now[2]

(* The alert is printed before the state is saved. *)
Compare ==
    /\ step = "compare" /\ step' = "save"
    /\ alert' = IF poolWatch # <<>> /\ Changed(poolWatch, seen) THEN <<poolWatch, seen>> ELSE alert
    /\ UNCHANGED <<pool, poolWatch, seen, failures>>

Save ==
    /\ step = "save" /\ step' = "status" /\ seen' = <<>>
    /\ poolWatch' = IF poolWatch = <<>> \/ Changed(poolWatch, seen) THEN seen ELSE poolWatch
    /\ UNCHANGED <<pool, alert, failures>>

(* A failed read, or a keeper that dies, starts over at the next tick. *)
TickFails ==
    /\ step # "status" /\ failures < MaxFailures
    /\ step' = "status" /\ seen' = <<>> /\ failures' = failures + 1
    /\ UNCHANGED <<pool, poolWatch, alert>>

Tick == ReadStatus \/ ReadFees \/ Compare \/ Save
Next == Tick \/ TickFails \/ SetPool
Spec == Init /\ [][Next]_vars /\ WF_vars(Tick)

----------------------------------------------------------------------------
(***************************************************************************)
(* What the state file holds moves only after an alert that says from what *)
(* to what, crashes included, and a setting that lasts is what it holds in *)
(* the end (coin.ts:312-334).                                              *)
(***************************************************************************)
PoolChangesAlerted ==
    /\ [][poolWatch # <<>> /\ poolWatch' # poolWatch => alert = <<poolWatch, poolWatch'>>]_vars
    /\ \A now \in Settings : <>[](pool = now) => <>[](poolWatch = now)
=============================================================================
