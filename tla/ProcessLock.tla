----------------------------- MODULE ProcessLock -----------------------------
(***************************************************************************)
(* The lock file that keeps two keepers off one state directory            *)
(* (lib/lock.ts, taken in keeper/index.ts main).                           *)
(*                                                                         *)
(* A process is one run of the keeper: it starts, acquires the lock or     *)
(* throws, runs, and ends by releasing the lock or by crashing anywhere.   *)
(* Each file system call is one step; between two calls other processes    *)
(* may act.                                                                *)
(***************************************************************************)
EXTENDS Naturals, FiniteSets

CONSTANTS
    Procs,          \* runs of the keeper, each with a pid of its own
    HostOf,         \* the machine each runs on
    Attempts,       \* passes of the loop in acquire (3)
    Concurrent      \* whether two keepers may be starting at the same time

VARIABLES
    lock,           \* keeper.lock: NoFile, or its creator, whether its content is
                    \* written, and whether it is older than the grace period
    pc,             \* where each process is
    attempt         \* passes of the loop each process has finished

vars == <<lock, pc, attempt>>

NoFile == [owner |-> "none"]

Acquiring == {"creating", "filling", "inspecting", "dating", "removing"}
Working == {"running", "releasing", "deleting"}

Alive(p) == pc[p] \in Acquiring \cup Working

Go(p, where) == pc' = [pc EXCEPT ![p] = where]

Init ==
    /\ lock = NoFile
    /\ pc = [p \in Procs |-> "idle"]
    /\ attempt = [p \in Procs |-> 0]

----------------------------------------------------------------------------
(* acquire. *)

Start(p) ==
    /\ pc[p] = "idle"
    /\ Concurrent \/ \A q \in Procs : pc[q] \notin Acquiring
    /\ Go(p, "creating")
    /\ UNCHANGED <<lock, attempt>>

(***************************************************************************)
(* writeFileSync with flag wx creates the file if there is none ...        *)
(***************************************************************************)
Create(p) ==
    /\ pc[p] = "creating"
    /\ IF lock = NoFile
         THEN /\ lock' = [owner |-> p, written |-> FALSE, old |-> FALSE]
              /\ Go(p, "filling")
         ELSE /\ Go(p, "inspecting")
              /\ UNCHANGED lock
    /\ UNCHANGED attempt

(***************************************************************************)
(* ... and then writes the holder into the file it created, which is lost  *)
(* if that file is gone.                                                   *)
(***************************************************************************)
Fill(p) ==
    /\ pc[p] = "filling"
    /\ lock' = IF lock # NoFile /\ lock.owner = p THEN [lock EXCEPT !.written = TRUE] ELSE lock
    /\ Go(p, "running")
    /\ UNCHANGED attempt

(***************************************************************************)
(* isAlive: another machine's processes cannot be checked and count as     *)
(* alive.                                                                  *)
(***************************************************************************)
IsAlive(p, holder) == HostOf[holder] # HostOf[p] \/ Alive(holder)

(* Faulty variant: any lock that can be read is taken over. *)
InspectTakingOver(p) ==
    /\ pc[p] = "inspecting"
    /\ Go(p, IF lock # NoFile /\ ~lock.written THEN "dating" ELSE "removing")
    /\ UNCHANGED <<lock, attempt>>

(***************************************************************************)
(* readHolder and what acquire makes of it.  A lock that vanished in the   *)
(* meantime ("undefined") goes on to unlinkSync like an abandoned one.     *)
(***************************************************************************)
Inspect(p) ==
    /\ pc[p] = "inspecting"
    /\ Go(p, IF lock = NoFile THEN "removing"
             ELSE IF ~lock.written THEN "dating"
             ELSE IF IsAlive(p, lock.owner) THEN "failed"
             ELSE "removing")
    /\ UNCHANGED <<lock, attempt>>

(***************************************************************************)
(* statSync of an unreadable lock: it throws if the file is gone, and a    *)
(* young file is left to its writer.                                       *)
(***************************************************************************)
Date(p) ==
    /\ pc[p] = "dating"
    /\ Go(p, IF lock = NoFile \/ ~lock.old THEN "failed" ELSE "removing")
    /\ UNCHANGED <<lock, attempt>>

(***************************************************************************)
(* The next pass of the loop, or the error after the last one.             *)
(***************************************************************************)
NextPass(p) ==
    /\ attempt' = [attempt EXCEPT ![p] = @ + 1]
    /\ Go(p, IF attempt[p] + 1 < Attempts THEN "creating" ELSE "failed")

(* Faulty variant: the abandoned lock stays. *)
RemoveNothing(p) ==
    /\ pc[p] = "removing"
    /\ NextPass(p)
    /\ UNCHANGED lock

(***************************************************************************)
(* unlinkSync removes whatever file has the name now; ENOENT is ignored.   *)
(***************************************************************************)
Remove(p) ==
    /\ pc[p] = "removing"
    /\ lock' = NoFile
    /\ NextPass(p)

----------------------------------------------------------------------------
(* The end of a run. *)

Stop(p) ==
    /\ pc[p] = "running"
    /\ Go(p, "releasing")
    /\ UNCHANGED <<lock, attempt>>

(* release reads the holder ... *)
ReleaseLook(p) ==
    /\ pc[p] = "releasing"
    /\ Go(p, IF lock # NoFile /\ lock.written /\ lock.owner = p THEN "deleting" ELSE "stopped")
    /\ UNCHANGED <<lock, attempt>>

(* ... and unlinks the file; unlinkSync throws if it is gone. *)
ReleaseUnlink(p) ==
    /\ pc[p] = "deleting"
    /\ lock' = NoFile
    /\ Go(p, "stopped")
    /\ UNCHANGED attempt

(* The process dies; its lock stays behind. *)
Crash(p) ==
    /\ Alive(p)
    /\ Go(p, "crashed")
    /\ UNCHANGED <<lock, attempt>>

(***************************************************************************)
(* An unwritten lock outlives the grace period (UNREADABLE_LOCK_GRACE_MS). *)
(* A live writer is assumed to finish within it.                           *)
(***************************************************************************)
Age ==
    /\ lock # NoFile /\ ~lock.written /\ ~lock.old
    /\ ~Alive(lock.owner)
    /\ lock' = [lock EXCEPT !.old = TRUE]
    /\ UNCHANGED <<pc, attempt>>

Step(p) ==
    \/ Create(p) \/ Fill(p) \/ Inspect(p) \/ Date(p) \/ Remove(p)
    \/ ReleaseLook(p) \/ ReleaseUnlink(p)

Next ==
    \/ \E p \in Procs : Start(p) \/ Step(p) \/ Stop(p) \/ Crash(p)
    \/ Age

Spec == Init /\ [][Next]_vars

(* A process that is running its code keeps running it. *)
FairSpec == Spec /\ \A p \in Procs : WF_vars(Step(p))

----------------------------------------------------------------------------
(* Properties. *)

(* The state has its types; only a lock without a readable holder ages. *)
TypeOK ==
    /\ lock \in {NoFile} \cup [owner : Procs, written : BOOLEAN, old : BOOLEAN]
    /\ lock = NoFile \/ ~(lock.written /\ lock.old)
    /\ pc \in [Procs -> {"idle", "stopped", "failed", "crashed"} \cup Acquiring \cup Working]
    /\ attempt \in [Procs -> 0 .. Attempts]

(***************************************************************************)
(* One keeper per state directory (lock.ts 41-43).                         *)
(***************************************************************************)
OneKeeper == \A p, q \in Procs : pc[p] \in Working /\ pc[q] \in Working => p = q

(***************************************************************************)
(* A live holder's lock is never removed (lock.ts 44), and neither is one  *)
(* of a process on another machine: only its owner ever takes it away.     *)
(***************************************************************************)
LiveLockKept ==
    [][\A p \in Procs :
          (lock # NoFile /\ lock.owner = p /\ lock.written /\ lock' = NoFile) =>
              \/ pc[p] = "deleting"
              \/ /\ ~Alive(p)
                 /\ \E q \in Procs : pc[q] = "removing" /\ HostOf[q] = HostOf[p]]_vars

(***************************************************************************)
(* A keeper that starts alone gets the lock if it is free or was left by a *)
(* dead process of its machine (lock.ts 43): the three passes suffice.     *)
(***************************************************************************)
Free(p) ==
    /\ pc[p] = "creating" /\ attempt[p] = 0
    /\ \/ lock = NoFile
       \/ lock.written /\ ~IsAlive(p, lock.owner)
       \/ ~lock.written /\ lock.old

LoneStarterWins ==
    \A p \in Procs : Free(p) ~> pc[p] \in {"running", "crashed"}

=============================================================================
