---------------------------- MODULE RoundIntent ----------------------------
(***************************************************************************)
(* The sampling lifecycle of a distributor's rounds, as the on-chain       *)
(* program enforces it (programs/stonkfolio-distributor/src):              *)
(*                                                                         *)
(*   open_round -> close_window -> record_seed -> commit_round             *)
(*        \-------------\--------------\--> abandon_round                  *)
(*                                                                         *)
(* together with the hand-over of the distributor's root authority.  Each  *)
(* instruction is one atomic action.  Any key may send any instruction in  *)
(* any order; the chain produces and skips slots independently.            *)
(***************************************************************************)
EXTENDS Integers, FiniteSets, SlotHashes

CONSTANTS
    Keys,               \* public keys that may sign
    NoKey,              \* pending_root_authority = None
    Secrets,            \* sampling secrets a keeper may generate
    ChainHeads,         \* snapshot chain heads a keeper may submit
    Feeds,              \* readings of the Pyth account: [price, conf, age]
    HashWindow,         \* entries SlotHashes keeps (512 on Solana)
    SeedSlotOffset,     \* distributor.seed_slot_offset
    MinWindowSecs,      \* distributor.min_window_secs
    MinExpirySecs,      \* distributor.min_expiry_secs
    MaxPriceAge,        \* distributor.max_price_age_secs
    MaxPriceConfBps,    \* distributor.max_price_conf_bps
    ExpiredSeedDelay,   \* EXPIRED_SEED_ABANDON_DELAY_SECS (one day)
    SeededDelay,        \* SEEDED_ABANDON_DELAY_SECS (seven days)
    MaxAssets,          \* MAX_ASSETS_PER_ROUND
    AssetCounts,        \* asset_count values a commit may name
    ExpiryLeads,        \* expiry_ts - now values a commit may name
    \* Bounds of the model.
    MaxRounds,          \* rounds opened
    MaxSkip,            \* consecutive slots without a block
    MaxSkipped,         \* slots without a block in all
    SecsPerSlot,        \* advances of unix_timestamp between two blocks
    MaxSlot,            \* slots produced while no round waits for time to pass
    MaxWait             \* seconds the chain runs after a window closed

(***************************************************************************)
(* The bounds create_distributor puts on a distributor's configuration,    *)
(* and what the runtime guarantees of SlotHashes and the clock.            *)
(***************************************************************************)
ASSUME ConfigAssumption ==
    /\ NoKey \notin Keys
    /\ HashWindow \in Nat \ {0}
    /\ SeedSlotOffset \in Nat \ {0}
    /\ MinWindowSecs \in Nat
    /\ MinExpirySecs \in Nat
    /\ MaxPriceAge \in Nat
    /\ MaxPriceConfBps \in Nat
    /\ ExpiredSeedDelay \in Nat
    /\ SeededDelay \in Nat
    /\ ExpiredSeedDelay <= SeededDelay
    /\ MaxAssets \in Nat
    /\ AssetCounts \subseteq Nat
    /\ ExpiryLeads \subseteq Int
    /\ Feeds \subseteq [price : Int, conf : Nat, age : Int]

ASSUME BoundsAssumption ==
    /\ MaxRounds \in Nat
    /\ MaxSkip \in Nat
    /\ MaxSkipped \in Nat
    /\ SecsPerSlot \subseteq Nat
    /\ MaxSlot \in Nat
    /\ MaxWait \in Nat

VARIABLES
    slot,                   \* the slot being executed
    now,                    \* its unix_timestamp
    slotHashes,             \* the sysvar, newest entry first
    produced,               \* history: every slot with a finished block
    root_authority,
    pending_root_authority,
    next_round_id,
    expired_seed_abandons,
    intent,                 \* RoundIntent accounts, by round id
    round                   \* RoundHeader accounts, by round id

clock == <<slot, now, slotHashes, produced>>
authority == <<root_authority, pending_root_authority>>
vars == <<clock, authority, next_round_id, expired_seed_abandons, intent, round>>

Rounds == 0 .. (MaxRounds - 1)

Live == {"Open", "Closed", "Seeded"}

(***************************************************************************)
(* Accounts.  "None" stands for an account that was never created; fields  *)
(* an instruction has not set yet are zero, as Anchor's init leaves them.  *)
(***************************************************************************)
NoHead == "no head"
NoSecret == "no secret"

EmptyIntent ==
    [status |-> "None", secret_commitment |-> NoSecret,
     open_slot |-> 0, open_ts |-> 0, close_slot |-> 0, close_ts |-> 0,
     snapshot_chain_head |-> NoHead, snapshot_count |-> 0, sol_usd_price |-> 0,
     seed_slot |-> 0, seed_ts |-> 0]

NoRound ==
    [committed |-> FALSE, asset_count |-> 0, allow_freeze |-> {}, committed_ts |-> 0,
     expiry_ts |-> 0, window_start_slot |-> 0, window_end_slot |-> 0]

Init ==
    /\ slot = HashWindow
    /\ now = 0
    /\ slotHashes = [i \in 1 .. HashWindow |-> HashWindow - i]
    /\ produced = 0 .. (HashWindow - 1)
    /\ root_authority \in Keys
    /\ pending_root_authority = NoKey
    /\ next_round_id = 0
    /\ expired_seed_abandons = 0
    /\ intent = [r \in Rounds |-> EmptyIntent]
    /\ round = [r \in Rounds |-> NoRound]

----------------------------------------------------------------------------
(* Root authority. *)

(***************************************************************************)
(* propose_root_authority: a new proposal overwrites a pending one.        *)
(* NoKey cannot be proposed (Pubkey::default()).                           *)
(***************************************************************************)
ProposeRootAuthority(signer, new) ==
    /\ signer = root_authority
    /\ new \in Keys
    /\ new # root_authority
    /\ pending_root_authority' = new
    /\ UNCHANGED <<clock, root_authority, next_round_id, expired_seed_abandons, intent, round>>

(* accept_root_authority. *)
AcceptRootAuthority(signer) ==
    /\ pending_root_authority = signer
    /\ root_authority' = signer
    /\ pending_root_authority' = NoKey
    /\ UNCHANGED <<clock, next_round_id, expired_seed_abandons, intent, round>>

----------------------------------------------------------------------------
(* The sampling lifecycle. *)

(***************************************************************************)
(* open_round: the intent account is created, so it succeeds once per id.  *)
(***************************************************************************)
OpenRound(signer, r, secret) ==
    /\ signer = root_authority
    /\ r = next_round_id
    /\ intent[r].status = "None"
    /\ intent' = [intent EXCEPT ![r] =
                    [@ EXCEPT !.status = "Open",
                              !.secret_commitment = secret,
                              !.open_slot = slot,
                              !.open_ts = now]]
    /\ UNCHANGED <<clock, authority, next_round_id, expired_seed_abandons, round>>

(***************************************************************************)
(* The checks close_window makes on the Pyth reading.                      *)
(***************************************************************************)
PriceAcceptable(feed) ==
    /\ feed.price > 0
    /\ feed.age <= MaxPriceAge
    /\ feed.age >= -MaxPriceAge
    /\ feed.conf * 10000 <= feed.price * MaxPriceConfBps

CloseWindow(signer, r, head, count, feed) ==
    /\ signer = root_authority
    /\ intent[r].status = "Open"
    /\ count >= 1
    /\ now - intent[r].open_ts >= MinWindowSecs
    /\ PriceAcceptable(feed)
    /\ intent' = [intent EXCEPT ![r] =
                    [@ EXCEPT !.status = "Closed",
                              !.close_slot = slot,
                              !.close_ts = now,
                              !.snapshot_chain_head = head,
                              !.snapshot_count = count,
                              !.sol_usd_price = feed.price]]
    /\ UNCHANGED <<clock, authority, next_round_id, expired_seed_abandons, round>>

SeedTarget(r) == intent[r].close_slot + SeedSlotOffset

SeedLookup(r) == FindSeed(slotHashes, SeedTarget(r))

(***************************************************************************)
(* record_seed: anyone may send it, so it has no signer.                   *)
(***************************************************************************)
RecordSeed(r) ==
    /\ intent[r].status = "Closed"
    /\ SeedLookup(r).kind = "Found"
    /\ intent' = [intent EXCEPT ![r] =
                    [@ EXCEPT !.status = "Seeded",
                              !.seed_slot = SeedLookup(r).slot,
                              !.seed_ts = now]]
    /\ UNCHANGED <<clock, authority, next_round_id, expired_seed_abandons, round>>

(***************************************************************************)
(* Faulty variants of abandon_reason: a closed round whose seed is merely  *)
(* not there yet; no escape for a lost secret.                             *)
(***************************************************************************)
AbandonReasonUnseeded(r) ==
    CASE intent[r].status = "Open" -> "WindowOpen"
      [] intent[r].status = "Closed" /\ SeedLookup(r).kind # "Found" -> "SeedExpired"
      [] OTHER -> "CannotAbandon"

AbandonReasonNoEscape(r) ==
    CASE intent[r].status = "Open" -> "WindowOpen"
      [] /\ intent[r].status = "Closed"
         /\ SeedLookup(r).kind = "Expired"
         /\ now >= intent[r].close_ts + ExpiredSeedDelay -> "SeedExpired"
      [] OTHER -> "CannotAbandon"

(***************************************************************************)
(* abandon_reason, with the seed lookup abandon_round makes for a closed   *)
(* round.                                                                  *)
(***************************************************************************)
AbandonReason(r) ==
    CASE intent[r].status = "Open" -> "WindowOpen"
      [] /\ intent[r].status = "Closed"
         /\ SeedLookup(r).kind = "Expired"
         /\ now >= intent[r].close_ts + ExpiredSeedDelay -> "SeedExpired"
      [] /\ intent[r].status = "Seeded"
         /\ now >= intent[r].seed_ts + SeededDelay -> "SecretLost"
      [] OTHER -> "CannotAbandon"

(* Faulty variant: counts every abandoned round. *)
AbandonRoundCountingAll(signer, r) ==
    /\ signer = root_authority
    /\ r = next_round_id
    /\ AbandonReason(r) # "CannotAbandon"
    /\ expired_seed_abandons' = expired_seed_abandons + 1
    /\ intent' = [intent EXCEPT ![r] = [@ EXCEPT !.status = "Abandoned"]]
    /\ next_round_id' = next_round_id + 1
    /\ UNCHANGED <<clock, authority, round>>

(* abandon_round. *)
AbandonRound(signer, r) ==
    /\ signer = root_authority
    /\ r = next_round_id
    /\ AbandonReason(r) # "CannotAbandon"
    /\ expired_seed_abandons' =
            expired_seed_abandons + (IF AbandonReason(r) = "SeedExpired" THEN 1 ELSE 0)
    /\ intent' = [intent EXCEPT ![r] = [@ EXCEPT !.status = "Abandoned"]]
    /\ next_round_id' = next_round_id + 1
    /\ UNCHANGED <<clock, authority, round>>

(***************************************************************************)
(* commit_round.  The secret itself stands for its hash: two secrets with  *)
(* one sha256 are not modelled.  assets_root and artifact_hash are opaque  *)
(* to the program and left out.                                            *)
(***************************************************************************)
CommitRound(signer, r, secret, count, allow, lead) ==
    /\ signer = root_authority
    /\ r = next_round_id
    /\ intent[r].status = "Seeded"
    /\ secret = intent[r].secret_commitment
    /\ count <= MaxAssets
    /\ allow \subseteq 0 .. (count - 1)
    /\ lead >= MinExpirySecs /\ lead > 0
    /\ ~round[r].committed
    /\ next_round_id' = next_round_id + 1
    /\ intent' = [intent EXCEPT ![r] = [@ EXCEPT !.status = "Committed"]]
    /\ round' = [round EXCEPT ![r] =
                    [committed |-> TRUE, asset_count |-> count, allow_freeze |-> allow,
                     committed_ts |-> now, expiry_ts |-> now + lead,
                     window_start_slot |-> intent[r].open_slot,
                     window_end_slot |-> intent[r].close_slot]]
    /\ UNCHANGED <<clock, authority, expired_seed_abandons>>

----------------------------------------------------------------------------
(* The chain. *)

Waiting(r) == intent[r].status \in {"Closed", "Seeded"} /\ now < intent[r].close_ts + MaxWait

(***************************************************************************)
(* The block of the current slot is finished and the next block is         *)
(* produced skipped + 1 slots later, dt seconds on.                        *)
(***************************************************************************)
NextBlock(skipped, dt) ==
    /\ slot < MaxSlot \/ \E r \in Rounds : Waiting(r)
    /\ slot + skipped <= Cardinality(produced) + MaxSkipped
    /\ slot' = slot + 1 + skipped
    /\ now' = now + dt
    /\ slotHashes' = Push(slotHashes, slot, HashWindow)
    /\ produced' = produced \cup {slot}
    /\ UNCHANGED <<authority, next_round_id, expired_seed_abandons, intent, round>>

Next ==
    \/ \E signer, new \in Keys : ProposeRootAuthority(signer, new)
    \/ \E signer \in Keys : AcceptRootAuthority(signer)
    \/ \E signer \in Keys, r \in Rounds, secret \in Secrets : OpenRound(signer, r, secret)
    \/ \E signer \in Keys, r \in Rounds, head \in ChainHeads, count \in {0, 1}, feed \in Feeds :
            CloseWindow(signer, r, head, count, feed)
    \/ \E r \in Rounds : RecordSeed(r)
    \/ \E signer \in Keys, r \in Rounds : AbandonRound(signer, r)
    \/ \E signer \in Keys, r \in Rounds, secret \in Secrets, count \in AssetCounts,
          allow \in SUBSET (0 .. MaxAssets), lead \in ExpiryLeads :
            CommitRound(signer, r, secret, count, allow, lead)
    \/ \E skipped \in 0 .. MaxSkip, dt \in SecsPerSlot : NextBlock(skipped, dt)

Spec == Init /\ [][Next]_vars
----------------------------------------------------------------------------
(* Invariants. *)

Intent ==
    [status : {"None", "Open", "Closed", "Seeded", "Committed", "Abandoned"},
     secret_commitment : Secrets \cup {NoSecret},
     open_slot : Nat, open_ts : Nat, close_slot : Nat, close_ts : Nat,
     snapshot_chain_head : ChainHeads \cup {NoHead}, snapshot_count : Nat, sol_usd_price : Int,
     seed_slot : Nat, seed_ts : Nat]

RoundHeader ==
    [committed : BOOLEAN, asset_count : Nat, allow_freeze : SUBSET Nat, committed_ts : Nat,
     expiry_ts : Int, window_start_slot : Nat, window_end_slot : Nat]

(* The state has its types (state.rs). *)
TypeOK ==
    /\ slot \in Nat
    /\ now \in Nat
    /\ slotHashes \in Seq(Nat)
    /\ produced \in SUBSET Nat
    /\ root_authority \in Keys
    /\ pending_root_authority \in Keys \cup {NoKey}
    /\ next_round_id \in Nat
    /\ expired_seed_abandons \in Nat
    /\ intent \in [Rounds -> Intent]
    /\ round \in [Rounds -> RoundHeader]

(***************************************************************************)
(* At most one round is being sampled, and it is round next_round_id:      *)
(* every earlier round has ended, no later one has started.  close_window  *)
(* and record_seed never check the id (round_intent.rs 58-143) and rely on *)
(* this.                                                                   *)
(***************************************************************************)
OneLiveRound ==
    \A r \in Rounds :
        /\ r < next_round_id => intent[r].status \in {"Committed", "Abandoned"}
        /\ r = next_round_id => intent[r].status \in Live \cup {"None"}
        /\ r > next_round_id => intent[r].status = "None"

(***************************************************************************)
(* Whoever records it and whenever, a recorded seed is the first block     *)
(* produced at or after close_slot + seed_slot_offset, skipped slots and   *)
(* the sysvar's ageing notwithstanding (slot_hashes.rs 1-3: any caller at  *)
(* any moment gets the same answer).                                       *)
(***************************************************************************)
SeedRecorded(r) == intent[r].seed_slot # 0

IsFirstAtOrAfter(s, target) ==
    /\ s \in produced
    /\ s >= target
    /\ \A p \in produced : p >= target => s <= p

SeedIsFirstBlock ==
    \A r \in Rounds : SeedRecorded(r) => IsFirstAtOrAfter(intent[r].seed_slot, SeedTarget(r))

(***************************************************************************)
(* The secret is committed and the window and price recorded strictly      *)
(* before the block that seeds the round exists (lib.rs 10-13), and a      *)
(* published header names that window and stays claimable for the minimum  *)
(* time.                                                                   *)
(***************************************************************************)
SamplingOrder ==
    \A r \in Rounds :
        /\ SeedRecorded(r) =>
              /\ intent[r].secret_commitment \in Secrets
              /\ intent[r].open_slot <= intent[r].close_slot
              /\ intent[r].close_slot < intent[r].seed_slot
              /\ intent[r].close_ts >= intent[r].open_ts + MinWindowSecs
              /\ intent[r].snapshot_count >= 1
        /\ round[r].committed <=> intent[r].status = "Committed"
        /\ round[r].committed =>
              /\ SeedRecorded(r)
              /\ round[r].window_start_slot = intent[r].open_slot
              /\ round[r].window_end_slot = intent[r].close_slot
              /\ round[r].committed_ts >= intent[r].seed_ts
              /\ round[r].expiry_ts >= round[r].committed_ts + MinExpirySecs

(***************************************************************************)
(* The public counter counts exactly the rounds whose window closed and    *)
(* whose public draw was never recorded: no draw is skipped uncounted      *)
(* (state.rs 56-58).                                                       *)
(***************************************************************************)
SkippedDraws ==
    {r \in Rounds : /\ intent[r].status = "Abandoned"
                    /\ intent[r].close_slot # 0
                    /\ intent[r].seed_slot = 0}

SkippedDrawsCounted == expired_seed_abandons = Cardinality(SkippedDraws)

(***************************************************************************)
(* A pending hand-over is always to a different key (distributor.rs 84-88):*)
(* accepting it does change the authority.                                 *)
(***************************************************************************)
PendingIsAnotherKey == pending_root_authority # root_authority

(***************************************************************************)
(* The lifecycle of the rounds: one at a time, in the only order that      *)
(* keeps the draw honest, with every skipped draw on the public record.    *)
(***************************************************************************)
Lifecycle ==
    /\ TypeOK
    /\ OneLiveRound
    /\ SamplingOrder
    /\ SkippedDrawsCounted
    /\ PendingIsAnotherKey

----------------------------------------------------------------------------
(* Action properties. *)

(***************************************************************************)
(* Once the seed block has aged out nobody can seed the round any more:    *)
(* Expired is final, so an abandoned draw cannot come back                 *)
(* (slot_hashes.rs 18-20).                                                 *)
(***************************************************************************)
SeedExpired(r) == intent[r].status = "Closed" /\ SeedLookup(r).kind = "Expired"

ExpiredForGood ==
    [][\A r \in Rounds : SeedExpired(r) => SeedExpired(r)' \/ intent'[r].status = "Abandoned"]_vars

(***************************************************************************)
(* Discarding a round whose window has closed requires that its draw was   *)
(* already public and costs at least the expired-seed delay since the      *)
(* close (round_intent.rs 14-15: "Discarding a draw costs at least a       *)
(* day").                                                                  *)
(***************************************************************************)
DiscardedDrawCostsADay ==
    [][\A r \in Rounds :
          (intent[r].status \in {"Closed", "Seeded"} /\ intent'[r].status = "Abandoned") =>
              /\ now >= intent[r].close_ts + ExpiredSeedDelay
              /\ \E p \in produced : p >= SeedTarget(r)]_vars

----------------------------------------------------------------------------
(* Refinement. *)

PhaseOf ==
    [None |-> "idle", Open |-> "sampling", Closed |-> "fixed", Seeded |-> "drawn",
     Committed |-> "published", Abandoned |-> "discarded"]

Phase(r) == PhaseOf[intent[r].status]

(***************************************************************************)
(* The lifecycle implements one draw per round from an ideal beacon that   *)
(* never forgets a block.                                                  *)
(***************************************************************************)
Draw == INSTANCE RoundDraw WITH
    Rounds  <- Rounds,
    beacon  <- produced,
    current <- next_round_id,
    phase   <- [r \in Rounds |-> Phase(r)],
    target  <- [r \in Rounds |-> IF intent[r].close_slot = 0 THEN 0 ELSE SeedTarget(r)],
    draw    <- [r \in Rounds |-> intent[r].seed_slot],
    skipped <- expired_seed_abandons

DrawSpec == Draw!Spec

----------------------------------------------------------------------------
(* Liveness. *)

(***************************************************************************)
(* Blocks keep coming, and the root authority keeps sending abandon_round  *)
(* for a round whose window closed.  Nobody has to record the seed or to   *)
(* know the secret: that is the escape the delays are for.                 *)
(***************************************************************************)
Abandon(r) == \E signer \in Keys : AbandonRound(signer, r)

FairSpec ==
    /\ Spec
    /\ WF_vars(\E dt \in SecsPerSlot \ {0} : NextBlock(0, dt))
    /\ \A r \in Rounds : WF_vars(intent[r].status \in {"Closed", "Seeded"} /\ Abandon(r))

(***************************************************************************)
(* A round whose window closed always ends: it cannot be stuck closed with *)
(* an unrecordable seed, nor seeded with a lost secret.                    *)
(***************************************************************************)
ClosedRoundEnds ==
    \A r \in Rounds :
        intent[r].status = "Closed" ~> intent[r].status \in {"Committed", "Abandoned"}

=============================================================================
