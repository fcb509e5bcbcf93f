--------------------------- MODULE KeeperPublish ---------------------------
(***************************************************************************)
(* From a funded round to a committed one (keeper/round/engine.ts 728-838, *)
(* publisher.ts, lib/artifacts.ts): the bundle is written to disk, copied  *)
(* into a clone of the public repository, committed, rebased onto what     *)
(* others pushed and pushed, and only then is its hash put on chain.  The  *)
(* machine may stop between any two steps, or inside a git command, which  *)
(* then leaves its lock file: every later command that needs it fails.     *)
(*                                                                         *)
(* A directory is "none", "torn" (being written) or "whole"; the round's   *)
(* inputs are fixed once it is funded, so there is one whole bundle.       *)
(***************************************************************************)
EXTENDS Naturals

CONSTANTS
    MaxForeign,    \* pushes of others
    MaxCrashes,
    MaxFaults      \* lost reads of the remote, pushes, commits and answers

VARIABLES
    disk,        \* keeper.json: status and whether the purchase has its signature
    snapshots,   \* the round's snapshot files are still there
    bundle,      \* the bundle directory
    pc,          \* where the running step is
    cached,      \* this process holds the prepared round
    clone,       \* on: branch or detached; locks: lock files left by a stop inside git;
                 \* the round's directory in tree, index and HEAD; others' commits under HEAD
    remote,      \* others' commits, and the round's directory
    chain,       \* "none", "sent" (may still land), "committed"
    indexed,     \* the swap wallet's history shows the swap
    hasRemote,   \* the clone is given a remote to push to
    crashes, faults

vars == <<disk, snapshots, bundle, pc, cached, clone, remote, chain, indexed, hasRemote, crashes, faults>>

Content == {"none", "torn", "whole"}
Steps == {"idle", "write", "head", "resync", "replay", "replayAgain", "remove", "copy",
          "add", "record", "push", "pushAgain", "save", "saveCommit"}

Init ==
    /\ disk \in [status : {"BUYING"}, evidence : BOOLEAN]  \* was the swap's signature saved
    /\ snapshots = TRUE /\ bundle = "none" /\ pc = "idle" /\ cached = FALSE
    /\ clone = [on |-> "branch", locks |-> {}, tree |-> "none", index |-> "none", head |-> "none", foreign |-> 0]
    /\ remote = [foreign |-> 0, ours |-> "none"]
    /\ chain = "none" /\ indexed \in BOOLEAN /\ hasRemote \in BOOLEAN
    /\ crashes = 0 /\ faults = 0

(***************************************************************************)
(* settlePurchase's end: the sweep brought tokens, and a signature that    *)
(* was not saved is looked up once in the wallet's history.                *)
(***************************************************************************)
SettlePurchase ==
    /\ disk.status = "BUYING" /\ pc = "idle"
    /\ disk' = [status |-> "FUNDED", evidence |-> disk.evidence \/ indexed]
    /\ UNCHANGED <<snapshots, bundle, pc, cached, clone, remote, chain, indexed, hasRemote, crashes, faults>>

HistoryCatchesUp ==
    /\ ~indexed /\ indexed' = TRUE
    /\ UNCHANGED <<disk, snapshots, bundle, pc, cached, clone, remote, chain, hasRemote, crashes, faults>>

(***************************************************************************)
(* prepare: buildInputs reads the selected snapshots, checkInputs throws   *)
(* on a purchase without evidence, and writeArtifacts replaces whatever an *)
(* earlier attempt left.                                                   *)
(***************************************************************************)
InputsGood == snapshots /\ disk.evidence

StartPrepare ==
    /\ disk.status = "FUNDED" /\ pc = "idle" /\ InputsGood
    /\ bundle' = "torn" /\ pc' = "write"
    /\ UNCHANGED <<disk, snapshots, cached, clone, remote, chain, indexed, hasRemote, crashes, faults>>

WriteBundle ==
    /\ pc = "write" /\ bundle' = "whole" /\ pc' = "head"
    /\ UNCHANGED <<disk, snapshots, cached, clone, remote, chain, indexed, hasRemote, crashes, faults>>

Throw == pc' = "idle"

Fault == faults < MaxFaults /\ faults' = faults + 1

(* git pull --rebase refuses staged changes and changed tracked files, not untracked ones. *)
Clean == clone.index = clone.head /\ (clone.head # "none" => clone.tree = clone.head)
RemoteBranch == hasRemote /\ remote # [foreign |-> 0, ours |-> "none"]
Behind == clone.foreign < remote.foreign

(* ls-remote finds no branch, or fails: there is nothing to rebase onto. *)
NoBranchSeen == (~RemoteBranch /\ UNCHANGED faults) \/ (hasRemote /\ Fault)

(* The pull is lost, or git refuses it: an unclean clone, a lock in the way of what it fetched. *)
PullFails == Fault \/ (UNCHANGED faults /\ (~Clean \/ (Behind /\ clone.locks # {})))

(* With a commit of ours to replay, the rebase detaches HEAD until it is done. *)
Pull ==
    /\ Clean /\ (Behind => clone.locks = {}) /\ UNCHANGED faults
    /\ IF Behind /\ clone.head # remote.ours
       THEN clone' = [clone EXCEPT !.on = "detached"] /\ pc' = IF pc = "head" THEN "replay" ELSE "replayAgain"
       ELSE clone' = [clone EXCEPT !.foreign = remote.foreign] /\ pc' = IF pc = "head" THEN "remove" ELSE "pushAgain"

(* syncWithRemote, before the copy (after a look at HEAD) and again after a refused push. *)
Sync ==
    /\ pc \in {"head", "resync"}
    /\ \/ pc = "head" /\ clone.on = "detached" /\ Throw /\ UNCHANGED <<clone, faults>>
       \/ /\ pc = "resync" \/ clone.on = "branch"
          /\ \/ NoBranchSeen /\ pc' = (IF pc = "head" THEN "remove" ELSE "pushAgain") /\ UNCHANGED clone
             \/ RemoteBranch /\ PullFails /\ Throw /\ UNCHANGED clone
             \/ RemoteBranch /\ Pull
    /\ UNCHANGED <<disk, snapshots, bundle, cached, remote, chain, indexed, hasRemote, crashes>>

Replay ==
    /\ pc \in {"replay", "replayAgain"}
    /\ clone' = [clone EXCEPT !.on = "branch", !.foreign = remote.foreign]
    /\ pc' = IF pc = "replay" THEN "remove" ELSE "pushAgain"
    /\ UNCHANGED <<disk, snapshots, bundle, cached, remote, chain, indexed, hasRemote, crashes, faults>>

RemoveTarget ==
    /\ pc = "remove" /\ clone' = [clone EXCEPT !.tree = "torn"] /\ pc' = "copy"
    /\ UNCHANGED <<disk, snapshots, bundle, cached, remote, chain, indexed, hasRemote, crashes, faults>>

CopyBundle ==
    /\ pc = "copy" /\ clone' = [clone EXCEPT !.tree = bundle] /\ pc' = "add"
    /\ UNCHANGED <<disk, snapshots, bundle, cached, remote, chain, indexed, hasRemote, crashes, faults>>

Add ==
    /\ pc = "add"
    /\ IF "index" \in clone.locks THEN Throw /\ UNCHANGED clone
       ELSE clone' = [clone EXCEPT !.index = clone.tree] /\ pc' = "record"
    /\ UNCHANGED <<disk, snapshots, bundle, cached, remote, chain, indexed, hasRemote, crashes, faults>>

(* git commit, unless this very bundle is committed already. *)
CommitClone ==
    /\ pc = "record"
    /\ IF clone.index # clone.head /\ clone.locks # {} THEN Throw /\ UNCHANGED clone
       ELSE clone' = [clone EXCEPT !.head = clone.index] /\ pc' = IF hasRemote THEN "push" ELSE "save"
    /\ UNCHANGED <<disk, snapshots, bundle, cached, remote, chain, indexed, hasRemote, crashes, faults>>

(* A push is accepted only on top of everything the branch holds. *)
Accepted == clone.foreign = remote.foreign

Pushed == remote' = [foreign |-> clone.foreign, ours |-> clone.head]

(* Faulty variant: the second push's status is not looked at. *)
RefusedIgnored == IF pc = "push" THEN "resync" ELSE "save"

(* A refused push is retried once, after a rebase; then the step throws. *)
Refused == IF pc = "push" THEN "resync" ELSE "idle"

Push ==
    /\ pc \in {"push", "pushAgain"}
    /\ \/ Accepted /\ Pushed /\ pc' = "save" /\ UNCHANGED faults
       \/ ~Accepted /\ pc' = Refused /\ UNCHANGED <<remote, faults>>
       \/ Fault /\ pc' = Refused /\ (UNCHANGED remote \/ (Accepted /\ Pushed))  \* lost on the way, or its answer
    /\ UNCHANGED <<disk, snapshots, bundle, cached, clone, chain, indexed, hasRemote, crashes>>

SavePrepared ==
    /\ pc = "save"
    /\ disk' = [disk EXCEPT !.status = "PREPARED"] /\ cached' = TRUE /\ pc' = "idle"
    /\ UNCHANGED <<snapshots, bundle, clone, remote, chain, indexed, hasRemote, crashes, faults>>

(* Faulty variant: after a restart the round is prepared again from its snapshots. *)
LoadPreparedAgain == cached \/ (bundle = "whole" /\ snapshots)

(* loadPrepared: this process's, or the bundle's own inputs, which must give the recorded hash. *)
LoadPrepared == cached \/ bundle = "whole"

(***************************************************************************)
(* commit, up to the removal of the snapshots: nothing is sent once the    *)
(* round is on chain, a lost answer throws and the next step finds it.     *)
(***************************************************************************)
Commit ==
    /\ disk.status = "PREPARED" /\ pc = "idle" /\ LoadPrepared
    /\ cached' = TRUE
    /\ \/ chain' = "committed" /\ snapshots' = FALSE /\ pc' = "saveCommit" /\ UNCHANGED faults
       \/ chain # "committed" /\ Fault /\ chain' = "sent" /\ Throw /\ UNCHANGED snapshots
    /\ UNCHANGED <<disk, bundle, clone, remote, indexed, hasRemote, crashes>>

LandLate ==
    /\ chain = "sent" /\ chain' = "committed"
    /\ UNCHANGED <<disk, snapshots, bundle, pc, cached, clone, remote, indexed, hasRemote, crashes, faults>>

SaveCommitted ==
    /\ pc = "saveCommit" /\ disk' = [disk EXCEPT !.status = "COMMITTED"] /\ pc' = "idle"
    /\ UNCHANGED <<snapshots, bundle, cached, clone, remote, chain, indexed, hasRemote, crashes, faults>>

(* What a stop inside the git command under way may leave; a rebase leaves HEAD detached besides. *)
CutShort ==
    \/ pc = "add" /\ clone' = [clone EXCEPT !.locks = @ \cup {"index"}]
    \/ /\ pc = "record" /\ clone.index # clone.head
       /\ \E l \in {"index", "ref"}, h \in {clone.head, clone.index} :
              clone' = [clone EXCEPT !.locks = @ \cup {l}, !.head = h]
    \/ /\ pc \in {"head", "resync"} /\ RemoteBranch /\ Clean /\ Behind
       /\ \E l \in {"index", "ref"} : clone' = [clone EXCEPT !.locks = @ \cup {l}]

Crash ==
    /\ crashes < MaxCrashes /\ crashes' = crashes + 1
    /\ disk.status # "COMMITTED"
    /\ pc' = "idle" /\ cached' = FALSE
    /\ UNCHANGED clone \/ CutShort
    /\ UNCHANGED <<disk, snapshots, bundle, remote, chain, indexed, hasRemote, faults>>

(* Someone else pushes to the public repository. *)
ForeignPush ==
    /\ hasRemote /\ remote.foreign < MaxForeign
    /\ remote' = [remote EXCEPT !.foreign = @ + 1]
    /\ UNCHANGED <<disk, snapshots, bundle, pc, cached, clone, chain, indexed, hasRemote, crashes, faults>>

Keeper ==
    \/ SettlePurchase \/ StartPrepare \/ WriteBundle \/ Sync \/ Replay \/ RemoveTarget \/ CopyBundle
    \/ Add \/ CommitClone \/ Push \/ SavePrepared \/ Commit \/ SaveCommitted

Next == Keeper \/ HistoryCatchesUp \/ LandLate \/ Crash \/ ForeignPush

(* The keeper's loop keeps stepping (keeper/index.ts): each of its steps is taken while it can be. *)
Spec == Init /\ [][Next]_vars /\ WF_vars(Keeper)

----------------------------------------------------------------------------
(* Properties. *)

(* The state file, the clone, the remote and the chain have their types. *)
TypeOK ==
    /\ disk \in [status : {"BUYING", "FUNDED", "PREPARED", "COMMITTED"}, evidence : BOOLEAN]
    /\ bundle \in Content /\ pc \in Steps
    /\ clone \in [on : {"branch", "detached"}, locks : SUBSET {"index", "ref"},
                 tree : Content, index : Content, head : Content, foreign : 0 .. MaxForeign]
    /\ remote \in [foreign : 0 .. MaxForeign, ours : Content]
    /\ chain \in {"none", "sent", "committed"}
    /\ snapshots \in BOOLEAN /\ cached \in BOOLEAN /\ indexed \in BOOLEAN /\ hasRemote \in BOOLEAN
    /\ crashes \in 0 .. MaxCrashes /\ faults \in 0 .. MaxFaults

Public == IF hasRemote THEN remote.ours ELSE clone.head

(***************************************************************************)
(* Whatever the crashes, foreign pushes and lost answers, a round whose    *)
(* commit has been sent has its whole bundle public, and nothing torn is   *)
(* ever committed or pushed (publisher.ts:1, "before the round is          *)
(* committed"; engine.ts:779-780).                                         *)
(***************************************************************************)
PublicFirst ==
    /\ TypeOK
    /\ chain # "none" \/ disk.status \in {"PREPARED", "COMMITTED"} => Public = "whole"
    /\ clone.head # "torn" /\ remote.ours # "torn"

(* What no step of the keeper repairs: an unclean clone is only passed over by a failing ls-remote. *)
NoEvidence == disk.status = "FUNDED" /\ ~disk.evidence
Interrupted == disk.status = "FUNDED" /\ (clone.on = "detached" \/ ~Clean \/ clone.locks # {})

(***************************************************************************)
(* A bought round is committed in the end, unless the purchase was booked  *)
(* without its signature or a stop interrupted git: inside a command that  *)
(* leaves its lock file, between add and commit, in a recopy or in a       *)
(* rebase.  Nothing else stalls it (engine.ts:22, "Nothing waits forever").*)
(***************************************************************************)
OnlyNamedStalls == <>[](disk.status = "COMMITTED" \/ NoEvidence \/ Interrupted)
=============================================================================
