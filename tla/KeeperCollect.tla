--------------------------- MODULE KeeperCollect ---------------------------
(***************************************************************************)
(* How the keeper drives one round after another through the distributor   *)
(* program, from a fresh secret to the committed round                     *)
(* (keeper/round/engine.ts, the collecting half).                          *)
(*                                                                         *)
(* The keeper works in steps: load the state file, act, save it.  A step   *)
(* that throws saves nothing; a crash loses the process but not the file.  *)
(* A transaction that was sent may land although its answer was lost, or   *)
(* land later, or never.  The chain side is the program's lifecycle        *)
(* (RoundIntent), with its delays abstracted to an age.                    *)
(***************************************************************************)
EXTENDS Naturals, Sequences, FiniteSets

CONSTANTS
    Secrets,            \* secrets the keeper may draw
    Readings,           \* contents one holder snapshot may have
    SamplesPerRound,    \* policy.samplesPerRound
    LostAnswers,        \* kinds of transactions whose answer may be lost
    StateLoss,          \* whether the state file may be lost once
    None,               \* no round, no secret, no account
    \* Bounds of the model.
    MaxRounds,
    MaxSnapshots,       \* snapshots of one round
    MaxFaults           \* crashes and lost answers

Rounds == 0 .. (MaxRounds - 1)

(* The snapshots of one round, in order. *)
Snaps == UNION {[1 .. n -> Readings] : n \in 0 .. MaxSnapshots}

(* The collecting round as the state file has it. *)
ActiveRound ==
    [id : Rounds, status : {"OPEN", "CLOSED", "SEEDED", "FUNDED", "PREPARED"},
     secret : Secrets, snaps : Snaps, due : BOOLEAN]

ASSUME KeeperAssumption ==
    /\ MaxRounds \in Nat
    /\ SamplesPerRound \in 1 .. MaxSnapshots
    /\ MaxSnapshots \in Nat
    /\ MaxFaults \in Nat
    /\ StateLoss \in BOOLEAN
    /\ None \notin Nat \cup Secrets \cup Snaps \cup ActiveRound
    /\ LostAnswers \subseteq {"open", "close", "seed", "abandon", "commit"}

VARIABLES
    next,       \* distributor.next_round_id
    intent,     \* RoundIntent accounts, by round id
    header,     \* RoundHeader accounts, by round id
    disk,       \* state.json: the collecting round and the committed ones
    confirmed,  \* this.confirmedOpen
    pc,         \* "down", "idle" between steps, "waiting" for a transaction
    call,       \* the transaction this step waits for, and what became of it
    stray,      \* transactions still in flight that nobody waits for
    lost,       \* history: the state file was lost
    faults      \* history: crashes and lost answers so far

chain == <<next, intent, header>>
vars == <<chain, disk, confirmed, pc, call, stray, lost, faults>>

Unwritten == [status |-> "none", secret |-> None, head |-> << >>, age |-> "new"]
NoCall == [tx |-> None, outcome |-> "none"]
EmptyState == [round |-> None, done |-> {}]

Init ==
    /\ next = 0
    /\ intent = [r \in Rounds |-> Unwritten]
    /\ header = [r \in Rounds |-> None]
    /\ disk = EmptyState
    /\ confirmed = None
    /\ pc = "idle"
    /\ call = NoCall
    /\ stray = {}
    /\ lost = FALSE
    /\ faults = 0

----------------------------------------------------------------------------
(* Transactions on the chain. *)

(* Faulty variant: a live round may be abandoned at any time. *)
AbandonableAnyTime(r) == intent[r].status \in {"open", "closed", "seeded"}

(* abandon_reason. *)
Abandonable(r) ==
    \/ intent[r].status = "open"
    \/ intent[r].status = "closed" /\ intent[r].age = "day"
    \/ intent[r].status = "seeded" /\ intent[r].age = "week"

(***************************************************************************)
(* What the program makes of a transaction that reaches it: Accepts, and   *)
(* if so the accounts it leaves behind.                                    *)
(***************************************************************************)
Accepts(tx) ==
    CASE tx.kind = "open"    -> tx.id = next /\ intent[tx.id].status = "none"
      [] tx.kind = "close"   -> intent[tx.id].status = "open"
      [] tx.kind = "seed"    -> intent[tx.id].status = "closed" /\ intent[tx.id].age = "ripe"
      [] tx.kind = "abandon" -> tx.id = next /\ Abandonable(tx.id)
      [] tx.kind = "commit"  -> /\ tx.id = next
                                /\ intent[tx.id].status = "seeded"
                                /\ tx.secret = intent[tx.id].secret

StatusAfter ==
    [open |-> "open", close |-> "closed", seed |-> "seeded",
     abandon |-> "abandoned", commit |-> "committed"]

Apply(tx) ==
    /\ intent' = [intent EXCEPT ![tx.id] =
                    [status |-> StatusAfter[tx.kind],
                     secret |-> IF tx.kind = "open" THEN tx.secret ELSE intent[tx.id].secret,
                     head   |-> IF tx.kind = "close" THEN tx.snaps ELSE intent[tx.id].head,
                     age    |-> IF tx.kind \in {"close", "seed"} THEN "new" ELSE intent[tx.id].age]]
    /\ next' = IF tx.kind \in {"abandon", "commit"} THEN next + 1 ELSE next
    /\ header' = IF tx.kind = "commit" THEN [header EXCEPT ![tx.id] = tx.snaps] ELSE header

(***************************************************************************)
(* The transaction the keeper waits for lands or is refused.  A close may  *)
(* also be refused for the moment: the window is too short, the price too  *)
(* old or too uncertain.                                                   *)
(***************************************************************************)
Pending == pc = "waiting" /\ call.outcome = "sent"

Land ==
    /\ Pending
    /\ Accepts(call.tx)
    /\ Apply(call.tx)
    /\ call' = [call EXCEPT !.outcome = "landed"]
    /\ UNCHANGED <<disk, confirmed, pc, stray, lost, faults>>

Refuse ==
    /\ Pending
    /\ ~Accepts(call.tx) \/ call.tx.kind = "close"
    /\ call' = [call EXCEPT !.outcome = "refused"]
    /\ UNCHANGED <<chain, disk, confirmed, pc, stray, lost, faults>>

(* A transaction nobody waits for lands, or is dropped or refused. *)
LandStray ==
    \E tx \in stray :
        /\ Accepts(tx)
        /\ Apply(tx)
        /\ stray' = stray \ {tx}
        /\ UNCHANGED <<disk, confirmed, pc, call, lost, faults>>

DropStray ==
    \E tx \in stray :
        /\ stray' = stray \ {tx}
        /\ UNCHANGED <<chain, disk, confirmed, pc, call, lost, faults>>

(* record_seed is permissionless: anyone may send it. *)
AnyoneSeeds(r) ==
    LET tx == [kind |-> "seed", id |-> r]
    IN /\ Accepts(tx)
       /\ Apply(tx)
       /\ UNCHANGED <<disk, confirmed, pc, call, stray, lost, faults>>

(***************************************************************************)
(* Time.  The seed block is produced; it leaves SlotHashes some minutes    *)
(* later; a day or a week passes.  A transaction lives for about a minute, *)
(* so none sent before one of these longer waits lands after it; a         *)
(* collecting round's next snapshot does become due meanwhile.             *)
(***************************************************************************)
SnapshotComesDue ==
    IF disk.round # None /\ disk.round.status = "OPEN"
      THEN /\ Len(disk.round.snaps) < MaxSnapshots
           /\ disk' = [disk EXCEPT !.round.due = TRUE]
      ELSE UNCHANGED disk

Grow(r, status, from, to) ==
    /\ intent[r].status = status
    /\ intent[r].age = from
    /\ intent' = [intent EXCEPT ![r].age = to]
    /\ UNCHANGED <<next, header, confirmed, pc, lost, faults>>

LongWait ==
    /\ stray' = {}
    /\ call' = IF Pending THEN [call EXCEPT !.outcome = "refused"] ELSE call
    /\ SnapshotComesDue

SeedBlock(r) == Grow(r, "closed", "new", "ripe") /\ UNCHANGED <<disk, call, stray>>
AgeOut(r) == Grow(r, "closed", "ripe", "expired") /\ LongWait
DayLater(r) == Grow(r, "closed", "expired", "day") /\ LongWait
WeekLater(r) == Grow(r, "seeded", "new", "week") /\ LongWait

(* nextSnapshotAt is reached. *)
SnapshotDue ==
    /\ disk.round # None /\ disk.round.status = "OPEN" /\ ~disk.round.due
    /\ SnapshotComesDue
    /\ UNCHANGED <<chain, confirmed, pc, call, stray, lost, faults>>

----------------------------------------------------------------------------
(* One step of the engine. *)

Idle == pc = "idle"
Collecting(r, status) == disk.round # None /\ disk.round.id = r /\ disk.round.status = status

Send(tx) ==
    /\ pc' = "waiting"
    /\ call' = [tx |-> tx, outcome |-> "sent"]

(* The step returns and its state is saved. *)
Return == pc' = "idle" /\ call' = NoCall

Answered(kind, outcome) == pc = "waiting" /\ call.tx.kind = kind /\ call.outcome = outcome

SetRound(round) == disk' = [disk EXCEPT !.round = round]
SetStatus(status) == disk' = [disk EXCEPT !.round.status = status]

UsedSecrets == {intent[r].secret : r \in Rounds}

OpenTx(r, secret) == [kind |-> "open", id |-> r, secret |-> secret]

NewRound(r, secret) == [id |-> r, status |-> "OPEN", secret |-> secret, snaps |-> << >>, due |-> TRUE]

(* Faulty variant: the new round is saved only when the step returns. *)
OpenRoundUnsaved(secret) ==
    /\ Idle /\ disk.round = None
    /\ next \in Rounds /\ intent[next].status = "none"
    /\ secret \in Secrets \ UsedSecrets
    /\ Send(OpenTx(next, secret))
    /\ UNCHANGED <<chain, disk, confirmed, stray, lost, faults>>

(***************************************************************************)
(* openRound: the secret is on disk before its commitment is sent.         *)
(***************************************************************************)
OpenRound(secret) ==
    /\ Idle /\ disk.round = None
    /\ next \in Rounds /\ intent[next].status = "none"
    /\ secret \in Secrets \ UsedSecrets
    /\ SetRound(NewRound(next, secret))
    /\ Send(OpenTx(next, secret))
    /\ UNCHANGED <<chain, confirmed, stray, lost, faults>>

(* abandonOrphan: an intent at the next id whose secret is not on disk. *)
AbandonOrphan ==
    /\ Idle /\ disk.round = None
    /\ next \in Rounds /\ intent[next].status # "none"
    /\ Send([kind |-> "abandon", id |-> next])
    /\ UNCHANGED <<chain, disk, confirmed, stray, lost, faults>>

(***************************************************************************)
(* collect.  A process that has not seen the intent open reads it first:   *)
(* it may be missing, open, or past open.                                  *)
(***************************************************************************)
OpenAgain(r) ==
    /\ Idle /\ Collecting(r, "OPEN") /\ confirmed # r
    /\ intent[r].status = "none"
    /\ Send(OpenTx(r, disk.round.secret))
    /\ UNCHANGED <<chain, disk, confirmed, stray, lost, faults>>

InWindow(r) ==
    /\ Idle /\ Collecting(r, "OPEN")
    /\ \/ confirmed = r
       \/ intent[r].status = "open" /\ intent[r].secret = disk.round.secret
    /\ confirmed' = r
    /\ UNCHANGED <<chain, stray, lost, faults>>

(* The intent was read; then nothing was due, or the holders could not be fetched. *)
CollectLater(r) ==
    /\ confirmed # r
    /\ InWindow(r)
    /\ UNCHANGED <<disk, pc, call>>

TakeSnapshot(r, reading) ==
    /\ InWindow(r)
    /\ disk.round.due
    /\ disk' = [disk EXCEPT !.round.snaps = Append(@, reading), !.round.due = FALSE]
    /\ UNCHANGED <<pc, call>>

(* The trigger fires ... *)
CloseWindow(r) ==
    /\ InWindow(r)
    /\ ~disk.round.due /\ Len(disk.round.snaps) >= SamplesPerRound
    /\ Send([kind |-> "close", id |-> r, snaps |-> disk.round.snaps])
    /\ UNCHANGED disk

(* ... or the window has been open for too long. *)
GiveUpWindow(r) ==
    /\ InWindow(r)
    /\ ~disk.round.due /\ Len(disk.round.snaps) >= SamplesPerRound
    /\ Send([kind |-> "abandon", id |-> r])
    /\ UNCHANGED disk

(***************************************************************************)
(* adoptClosedWindow throws unless the chain fixed exactly the snapshots   *)
(* on disk.                                                                *)
(***************************************************************************)
Adoptable(r) == intent[r].status # "open" /\ intent[r].head = disk.round.snaps

(* A window found closed by a process that has not seen it open. *)
AdoptClosed(r) ==
    /\ Idle /\ Collecting(r, "OPEN") /\ confirmed # r
    /\ intent[r].status \notin {"none", "open"}
    /\ intent[r].secret = disk.round.secret
    /\ Adoptable(r)
    /\ SetStatus("CLOSED")
    /\ UNCHANGED <<chain, confirmed, pc, call, stray, lost, faults>>

CloseLanded ==
    /\ Answered("close", "landed")
    /\ Adoptable(disk.round.id)
    /\ SetStatus("CLOSED")
    /\ confirmed' = None
    /\ Return
    /\ UNCHANGED <<chain, stray, lost, faults>>

(***************************************************************************)
(* abandonCollecting once its transaction landed; abandonOrphan when there *)
(* is no round on disk.                                                    *)
(***************************************************************************)
AbandonLanded ==
    /\ Answered("abandon", "landed")
    /\ SetRound(None)
    /\ confirmed' = IF disk.round = None THEN confirmed ELSE None
    /\ Return
    /\ UNCHANGED <<chain, stray, lost, faults>>

(***************************************************************************)
(* seed: records the seed once its block is there; a round seeded by       *)
(* someone else or abandoned on chain is taken as it is.                   *)
(***************************************************************************)
RecordSeed(r) ==
    /\ Idle /\ Collecting(r, "CLOSED")
    /\ intent[r].status = "closed" /\ intent[r].age # "new"
    /\ Send([kind |-> "seed", id |-> r])
    /\ UNCHANGED <<chain, disk, confirmed, stray, lost, faults>>

SeedSeen(r) ==
    /\ Collecting(r, "CLOSED")
    /\ Idle \/ Answered("seed", "landed")
    /\ \/ intent[r].status = "seeded" /\ SetStatus("SEEDED") /\ UNCHANGED confirmed
       \/ intent[r].status = "abandoned" /\ SetRound(None) /\ confirmed' = None
    /\ Return
    /\ UNCHANGED <<chain, stray, lost, faults>>

(* Faulty variant: a round whose seed aged out waits for a seed. *)
SeedRefusedWaiting ==
    /\ Answered("seed", "refused")
    /\ Return
    /\ UNCHANGED <<chain, disk, confirmed, stray, lost, faults>>

(***************************************************************************)
(* record_seed was refused because the block aged out: once a day has      *)
(* passed the round is abandoned.  Any other refusal is an error.          *)
(***************************************************************************)
SeedRefused ==
    /\ Answered("seed", "refused")
    /\ IF intent[call.tx.id].status = "closed" /\ intent[call.tx.id].age = "day"
         THEN Send([kind |-> "abandon", id |-> call.tx.id])
         ELSE Return
    /\ UNCHANGED <<chain, disk, confirmed, stray, lost, faults>>

(***************************************************************************)
(* buyBasket and reserveAssets, then prepare: here only the round's        *)
(* progress.                                                               *)
(***************************************************************************)
BuyAndReserve(r) ==
    /\ Idle /\ Collecting(r, "SEEDED")
    /\ SetStatus("FUNDED")
    /\ UNCHANGED <<chain, confirmed, pc, call, stray, lost, faults>>

Prepare(r) ==
    /\ Idle /\ Collecting(r, "FUNDED")
    /\ intent[r].status = "seeded"
    /\ SetStatus("PREPARED")
    /\ UNCHANGED <<chain, confirmed, pc, call, stray, lost, faults>>

(***************************************************************************)
(* commit, unless the round's header is already there.                     *)
(***************************************************************************)
Commit(r) ==
    /\ Idle /\ Collecting(r, "PREPARED")
    /\ header[r] = None
    /\ Send([kind |-> "commit", id |-> r, secret |-> disk.round.secret,
             snaps |-> disk.round.snaps])
    /\ UNCHANGED <<chain, disk, confirmed, stray, lost, faults>>

(* The committed round is handed to the paying list. *)
Committed(r) ==
    /\ Collecting(r, "PREPARED")
    /\ Idle \/ Answered("commit", "landed")
    /\ header[r] = disk.round.snaps
    /\ disk' = [round |-> None, done |-> disk.done \cup {r}]
    /\ Return
    /\ UNCHANGED <<chain, confirmed, stray, lost, faults>>

OpenLanded ==
    /\ Answered("open", "landed")
    /\ Return
    /\ UNCHANGED <<chain, disk, confirmed, stray, lost, faults>>

(* The step throws, or reports that it has to wait. *)
Refused ==
    /\ pc = "waiting" /\ call.outcome = "refused" /\ call.tx.kind # "seed"
    /\ Return
    /\ UNCHANGED <<chain, disk, confirmed, stray, lost, faults>>

----------------------------------------------------------------------------
(* Faults. *)

Unresolved == IF Pending THEN {call.tx} ELSE {}

MayFail == faults < MaxFaults /\ (pc = "waiting" => call.tx.kind \in LostAnswers)

(* The answer of a transaction, or of a read after it, is lost. *)
LoseAnswer ==
    /\ MayFail
    /\ pc = "waiting"
    /\ stray' = stray \cup Unresolved
    /\ Return
    /\ faults' = faults + 1
    /\ UNCHANGED <<chain, disk, confirmed, lost>>

Crash ==
    /\ MayFail
    /\ pc # "down"
    /\ pc' = "down"
    /\ call' = NoCall
    /\ confirmed' = None
    /\ stray' = stray \cup Unresolved
    /\ faults' = faults + 1
    /\ UNCHANGED <<chain, disk, lost>>

(* The state file is lost, and is gone for longer than a transaction lives. *)
LoseState ==
    /\ StateLoss /\ ~lost
    /\ pc = "down"
    /\ disk' = EmptyState
    /\ stray' = {}
    /\ lost' = TRUE
    /\ UNCHANGED <<chain, confirmed, pc, call, faults>>

Boot ==
    /\ pc = "down"
    /\ pc' = "idle"
    /\ UNCHANGED <<chain, disk, confirmed, call, stray, lost, faults>>

----------------------------------------------------------------------------
Work ==
    \/ \E secret \in Secrets : OpenRound(secret)
    \/ AbandonOrphan
    \/ OpenLanded \/ CloseLanded \/ AbandonLanded \/ SeedRefused \/ Refused
    \/ \E r \in Rounds :
          \/ OpenAgain(r) \/ CloseWindow(r) \/ GiveUpWindow(r) \/ AdoptClosed(r)
          \/ RecordSeed(r) \/ SeedSeen(r) \/ BuyAndReserve(r) \/ Prepare(r)
          \/ Commit(r) \/ Committed(r)
          \/ \E reading \in Readings : TakeSnapshot(r, reading)

World ==
    \/ Land \/ Refuse \/ LandStray \/ DropStray \/ SnapshotDue
    \/ \E r \in Rounds : AnyoneSeeds(r) \/ SeedBlock(r) \/ AgeOut(r) \/ DayLater(r) \/ WeekLater(r)

Next ==
    \/ Work
    \/ \E r \in Rounds : CollectLater(r)
    \/ World
    \/ LoseAnswer \/ Crash \/ LoseState \/ Boot

Spec == Init /\ [][Next]_vars

(***************************************************************************)
(* The keeper is restarted and keeps stepping, a transaction it waits for  *)
(* is decided, time passes, and the price is not unusable for ever.        *)
(***************************************************************************)
FairSpec ==
    /\ Spec
    /\ WF_vars(Boot)
    /\ WF_vars(Work)
    /\ WF_vars(Land \/ Refuse)
    /\ SF_vars(Land /\ call.tx.kind = "close")
    /\ WF_vars(SnapshotDue)
    /\ \A r \in Rounds :
          /\ WF_vars(SeedBlock(r)) /\ WF_vars(AgeOut(r))
          /\ WF_vars(DayLater(r)) /\ WF_vars(WeekLater(r))

----------------------------------------------------------------------------
(* Invariants. *)

Tx ==
    [kind : {"seed", "abandon"}, id : Rounds]
      \cup [kind : {"open"}, id : Rounds, secret : Secrets]
      \cup [kind : {"close"}, id : Rounds, snaps : Snaps]
      \cup [kind : {"commit"}, id : Rounds, secret : Secrets, snaps : Snaps]

(* The state has its types. *)
TypeOK ==
    /\ next \in 0 .. MaxRounds
    /\ intent \in [Rounds -> [status : {"none", "open", "closed", "seeded", "committed", "abandoned"},
                              secret : Secrets \cup {None}, head : Snaps,
                              age : {"new", "ripe", "expired", "day", "week"}]]
    /\ header \in [Rounds -> Snaps \cup {None}]
    /\ disk \in [round : ActiveRound \cup {None}, done : SUBSET Rounds]
    /\ confirmed \in Rounds \cup {None}
    /\ pc \in {"down", "idle", "waiting"}
    /\ IF pc = "waiting"
         THEN call \in [tx : Tx, outcome : {"sent", "landed", "refused"}]
         ELSE call = NoCall
    /\ stray \subseteq Tx
    /\ lost \in BOOLEAN
    /\ faults \in 0 .. MaxFaults

(***************************************************************************)
(* As long as the state file is not lost, the secret behind a live intent  *)
(* is on disk, at every moment at which the keeper may die (engine.ts 315: *)
(* "a crash after it lands can't lose the secret").                        *)
(***************************************************************************)
SecretSaved ==
    ~lost => \A r \in Rounds :
                intent[r].status \in {"open", "closed", "seeded"} =>
                    disk.round # None /\ disk.round.id = r /\ disk.round.secret = intent[r].secret

(***************************************************************************)
(* Beyond OPEN the snapshots on disk are exactly those the chain fixed     *)
(* when the window closed, and so are those a committed round was built    *)
(* from (engine.ts 406-408), however many closes were sent and lost.       *)
(***************************************************************************)
PastOpen == disk.round # None /\ disk.round.status # "OPEN"

SnapshotsAreFixed ==
    /\ PastOpen => intent[disk.round.id].head = disk.round.snaps
    /\ \A r \in Rounds : header[r] # None => header[r] = intent[r].head

(***************************************************************************)
(* A committed round is never forgotten: it is on the paying list, or the  *)
(* keeper still has it as the round to commit and will find its header.    *)
(* And it is never committed twice (engine.ts 25-26): a round on the       *)
(* paying list is not sampled again.                                       *)
(***************************************************************************)
CommittedTracked ==
    /\ \A r \in disk.done : header[r] # None /\ (disk.round = None \/ disk.round.id # r)
    /\ ~lost => \A r \in Rounds :
                  header[r] # None => r \in disk.done \/ Collecting(r, "PREPARED")

(***************************************************************************)
(* What the keeper must be able to rely on after any crash, in any order   *)
(* of late and lost transactions: the secret, the snapshots and the        *)
(* committed rounds of the state file agree with the chain                 *)
(* (engine.ts 20-26).                                                      *)
(***************************************************************************)
RoundKept == TypeOK /\ SecretSaved /\ SnapshotsAreFixed /\ CommittedTracked

(***************************************************************************)
(* The chain does not discard a round the keeper has started buying for,   *)
(* not even through an abandon sent while the window was open and lost on  *)
(* the way (engine.ts 505).                                                *)
(***************************************************************************)
BoughtForIsKept ==
    (disk.round # None /\ disk.round.status \in {"SEEDED", "FUNDED", "PREPARED"}) =>
        intent[disk.round.id].status \in {"seeded", "committed"}

----------------------------------------------------------------------------
(* Liveness. *)

(***************************************************************************)
(* Nothing waits forever (engine.ts 22): every round the keeper works on   *)
(* is committed or given up.                                               *)
(***************************************************************************)
WorkingOn(r) == disk.round # None /\ disk.round.id = r

RoundsEnd == \A r \in Rounds : WorkingOn(r) ~> ~WorkingOn(r)

(* A window the chain has closed or given up, but open to the keeper, which *)
(* still believes so (until it is restarted) or cannot adopt what it finds. *)
Unadoptable(r) ==
    /\ Collecting(r, "OPEN") /\ intent[r].status \in {"closed", "seeded", "abandoned"}
    /\ confirmed = r \/ intent[r].status = "abandoned" \/ intent[r].head # disk.round.snaps

(***************************************************************************)
(* Whatever crashes and whatever answer is lost, a round ends unless its   *)
(* window was closed or abandoned on chain in a step that did not get to   *)
(* its save: the only way to wait forever.                                 *)
(***************************************************************************)
OnlyOpenWindowsStall == \A r \in Rounds : <>[](~WorkingOn(r) \/ Unadoptable(r))
=============================================================================
