---------------------------- MODULE SlotHashes ----------------------------
(***************************************************************************)
(* The lookup of a round's seed block in Solana's SlotHashes sysvar        *)
(* (programs/stonkfolio-distributor/src/slot_hashes.rs).                   *)
(*                                                                         *)
(* The sysvar is a sequence of produced slots ordered from newest to       *)
(* oldest; a skipped slot has no entry.  A block hash is opaque and        *)
(* determined by its slot, so an entry is just the slot number: two        *)
(* lookups that return the same slot return the same hash.                 *)
(***************************************************************************)
EXTENDS Integers, Sequences

(***************************************************************************)
(* SeedLookup: the three answers of find_seed.                             *)
(***************************************************************************)
Found(s) == [kind |-> "Found", slot |-> s]
NotYet   == [kind |-> "NotYet"]
Expired  == [kind |-> "Expired"]

(***************************************************************************)
(* Position i holds the first entry after the newest that is older than    *)
(* the target: the loop of find_seed stops there.                          *)
(***************************************************************************)
StopsAt(entries, target, i) ==
    /\ i \in 2 .. Len(entries)
    /\ entries[i] < target
    /\ \A j \in 2 .. (i - 1) : entries[j] >= target

(***************************************************************************)
(* Faulty variant of find_seed: the oldest entry left is taken although    *)
(* older blocks may have been dropped.                                     *)
(***************************************************************************)
FindSeedOldestLeft(entries, target) ==
    IF entries = << >> \/ entries[1] < target THEN NotYet
    ELSE IF \E i \in 2 .. Len(entries) : StopsAt(entries, target, i)
      THEN Found(entries[(CHOOSE i \in 2 .. Len(entries) : StopsAt(entries, target, i)) - 1])
    ELSE Found(entries[Len(entries)])

(***************************************************************************)
(* find_seed: the first produced slot at or after the target, provided the *)
(* sysvar still holds an older slot (so nothing between was dropped) or    *)
(* its oldest entry is the target itself.                                  *)
(***************************************************************************)
FindSeed(entries, target) ==
    IF entries = << >> \/ entries[1] < target
      THEN NotYet
    ELSE IF \E i \in 2 .. Len(entries) : StopsAt(entries, target, i)
      THEN Found(entries[(CHOOSE i \in 2 .. Len(entries) : StopsAt(entries, target, i)) - 1])
    ELSE IF entries[Len(entries)] = target
      THEN Found(target)
    ELSE Expired

(***************************************************************************)
(* The sysvar after the block of slot s: s is prepended and the oldest     *)
(* entry dropped once there are more than size of them (external: the      *)
(* Solana runtime; state.rs line 8 states the size).                       *)
(***************************************************************************)
Push(entries, s, size) ==
    [i \in 1 .. (IF Len(entries) < size THEN Len(entries) + 1 ELSE size) |->
        IF i = 1 THEN s ELSE entries[i - 1]]

=============================================================================
