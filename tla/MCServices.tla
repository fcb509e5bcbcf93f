----------------------------- MODULE MCServices -----------------------------
(***************************************************************************)
(* What goes on around a round: the lock that keeps a keeper alone         *)
(* (ProcessLock), publication and commit (KeeperPublish), the pools of a   *)
(* launch (LaunchPools), and the keeper's watch over Meteora's programs    *)
(* (MeteoraPin) and its own pool's settings (PoolWatch).  They share no    *)
(* state: a behaviour is a behaviour of one of them, chosen at the start,  *)
(* and the others' variables rest.                                         *)
(***************************************************************************)
EXTENDS Integers, Sequences, FiniteSets, TLC

CONSTANTS
    p1, p2, p3, p4,
    Procs, HostOf, Attempts, Concurrent,
    MaxForeign, MaxCrashes, MaxFaults,
    Pools, Threshold, PriceRange, QuoteIsB, MaxRestarts,
    Programs, PoolFees, Statuses, MaxFailures

VARIABLES
    service,
    lock, pc, attempt,                                                        \* ProcessLock
    disk, snapshots, bundle, at, cached, clone, remote, chain, indexed, hasRemote, crashes, faults, \* KeeperPublish
    quoteReserve, isMigrated, dammPrice, pending, todo, sending, restarts, reading, tradable, price, \* LaunchPools
    meteora, checking, problems, reported,                                    \* MeteoraPin
    pool, poolWatch, seen, alert, step, failures                              \* PoolWatch

MCHostOf == [p \in Procs |-> IF p = p4 THEN "other" ELSE "here"]

MCPin == <<"dbc", "damm", "config">>

Lock == INSTANCE ProcessLock
Publish == INSTANCE KeeperPublish WITH pc <- at
Launch == INSTANCE LaunchPools
Pinned == INSTANCE MeteoraPin WITH Pin <- MCPin
Watching == INSTANCE PoolWatch WITH Fees <- PoolFees

lockVars == <<lock, pc, attempt>>
publishVars == <<disk, snapshots, bundle, at, cached, clone, remote, chain, indexed, hasRemote, crashes, faults>>
launchVars == <<quoteReserve, isMigrated, dammPrice, pending, todo, sending, restarts, reading, tradable, price>>
pinVars == <<meteora, checking, problems, reported>>
watchVars == <<pool, poolWatch, seen, alert, step, failures>>
servicesVars == <<service, lockVars, publishVars, launchVars, pinVars, watchVars>>

----------------------------------------------------------------------------
(* At rest.  The lock at rest is the lock in its initial state. *)

PublishRests ==
    /\ disk = [status |-> "COMMITTED", evidence |-> FALSE] /\ snapshots = FALSE /\ bundle = "none" /\ at = "rests"
    /\ cached = FALSE /\ clone = [on |-> "branch", locks |-> {}, tree |-> "none", index |-> "none", head |-> "none", foreign |-> 0]
    /\ remote = [foreign |-> 0, ours |-> "none"] /\ chain = "none" /\ indexed = FALSE /\ hasRemote = FALSE
    /\ crashes = 0 /\ faults = 0

LaunchRests ==
    /\ quoteReserve = [p \in Pools |-> 1] /\ isMigrated = [p \in Pools |-> TRUE] /\ dammPrice = [p \in Pools |-> 1]
    /\ pending = {} /\ todo = {} /\ sending = {} /\ restarts = 0 /\ reading = {} /\ tradable = {} /\ price = <<>>
PinRests ==
    /\ meteora = [e \in {"dbc", "damm", "config"} |-> [slot |-> 0, authority |-> "pinned", data |-> "pinned"]]
    /\ checking = 0 /\ problems = {} /\ reported = {}
WatchRests == pool = <<>> /\ poolWatch = <<>> /\ seen = <<>> /\ alert = <<>> /\ step = "rests" /\ failures = 0

ServicesInit ==
    \/ service = "lock" /\ Lock!Init /\ PublishRests /\ LaunchRests /\ PinRests /\ WatchRests
    \/ service = "publish" /\ Lock!Init /\ Publish!Init /\ LaunchRests /\ PinRests /\ WatchRests
    \/ service = "launch" /\ Lock!Init /\ PublishRests /\ Launch!Init /\ PinRests /\ WatchRests
    \/ service = "pin" /\ Lock!Init /\ PublishRests /\ LaunchRests /\ Pinned!Init /\ WatchRests
    \/ service = "watch" /\ Lock!Init /\ PublishRests /\ LaunchRests /\ PinRests /\ Watching!Init

(* A step of one part. *)
InLock(A) == service = "lock" /\ A /\ UNCHANGED <<service, publishVars, launchVars, pinVars, watchVars>>
InPublish(A) == service = "publish" /\ A /\ UNCHANGED <<service, lockVars, launchVars, pinVars, watchVars>>
InLaunch(A) == service = "launch" /\ A /\ UNCHANGED <<service, lockVars, publishVars, pinVars, watchVars>>
InPin(A) == service = "pin" /\ A /\ UNCHANGED <<service, lockVars, publishVars, launchVars, watchVars>>
InWatch(A) == service = "watch" /\ A /\ UNCHANGED <<service, lockVars, publishVars, launchVars, pinVars>>

ServicesNext ==
    InLock(Lock!Next) \/ InPublish(Publish!Next) \/ InLaunch(Launch!Next) \/ InPin(Pinned!Next) \/ InWatch(Watching!Next)

(***************************************************************************)
(* Each part under its own fairness (see its module).  No two parts have a *)
(* step in one behaviour, so a condition on a step of one serves a step of *)
(* another: pool p's with the reads p and p + 1 of the pin's three.        *)
(***************************************************************************)
Takes(p) ==
    \/ InLock(Lock!Step(p)) \/ InPublish(Publish!Keeper) \/ InLaunch(Launch!MigratorStep)
    \/ InPin(Pinned!Begin) \/ InWatch(Watching!Tick)

Answered(p) == InLaunch(Launch!ReadPool(p)) \/ InPin(Pinned!Read(p))
Landed(p) == InLaunch(Launch!SendLands(p)) \/ InPin(Pinned!Read(p + 1))

ServicesSpec ==
    /\ ServicesInit /\ [][ServicesNext]_servicesVars
    /\ \A p \in Procs : WF_servicesVars(Takes(p))
    /\ \A p \in Pools : SF_servicesVars(Answered(p)) /\ SF_servicesVars(Landed(p))

----------------------------------------------------------------------------
(* Properties, each of its own part's behaviours; the temporal ones hold of *)
(* a part at rest by themselves.                                            *)

(* One keeper per state directory (ProcessLock). *)
OneKeeper == service = "lock" => Lock!OneKeeper

(* A keeper that starts alone gets a free or abandoned lock (ProcessLock). *)
LoneStarterWins == Lock!LoneStarterWins

(* The bundle is public before the round is committed (KeeperPublish). *)
PublicFirst == service = "publish" => Publish!PublicFirst

(* Publishing ends in a commit, or in one of the named stalls (KeeperPublish). *)
OnlyNamedStalls == Publish!OnlyNamedStalls

(* A full curve is migrated, whatever fails on the way (LaunchPools). *)
EveryPoolGraduates == Launch!EveryPoolGraduates

(* A price read is one the coin could be traded at meanwhile (LaunchPools). *)
PriceIsLive == service = "launch" => Launch!PriceIsLive

(* Whatever moved from the pin is reported in the end (MeteoraPin). *)
DriftReported == Pinned!DriftReported

(* The recorded pool settings move only after an alert, and do (PoolWatch). *)
PoolChangesAlerted == Watching!PoolChangesAlerted
=============================================================================
