----------------------------- MODULE RoundDraw -----------------------------
(***************************************************************************)
(* What the sampling lifecycle promises, with no accounts, no clock and no *)
(* sysvar: rounds are drawn one at a time; each gets at most one draw,     *)
(* taken from a beacon at a target fixed before the beacon reached it, and *)
(* a draw that is already public can be thrown away unrecorded only at the *)
(* price of being counted.                                                 *)
(*                                                                         *)
(* The beacon is the set of values (block slots) revealed so far, ordered  *)
(* by their number.                                                        *)
(***************************************************************************)
EXTENDS Integers

CONSTANT Rounds

VARIABLES
    beacon,     \* values revealed so far
    current,    \* the round that may be drawn next
    phase,      \* of each round
    target,     \* where the round's draw is taken, 0 before it is fixed
    draw,       \* the round's draw, 0 before it is taken
    skipped     \* public draws thrown away without being recorded

vars == <<beacon, current, phase, target, draw, skipped>>

Revealed(t) == {b \in beacon : b >= t}

IsFirst(b, t) == b \in Revealed(t) /\ \A c \in Revealed(t) : b <= c

Init ==
    /\ beacon \in SUBSET Nat
    /\ current = 0
    /\ phase = [r \in Rounds |-> "idle"]
    /\ target = [r \in Rounds |-> 0]
    /\ draw = [r \in Rounds |-> 0]
    /\ skipped = 0

(* The beacon reveals a value later than all earlier ones. *)
Reveal ==
    /\ \E b \in beacon' :
          /\ \A c \in beacon : c < b
          /\ beacon' = beacon \cup {b}
    /\ UNCHANGED <<current, phase, target, draw, skipped>>

(* Sampling of the current round begins. *)
Begin(r) ==
    /\ r = current
    /\ phase[r] = "idle"
    /\ phase' = [phase EXCEPT ![r] = "sampling"]
    /\ UNCHANGED <<beacon, current, target, draw, skipped>>

(* The round's target is fixed where the beacon has not been yet. *)
Fix(r) ==
    /\ r = current
    /\ phase[r] = "sampling"
    /\ phase' = [phase EXCEPT ![r] = "fixed"]
    /\ \E t \in {target'[r]} :
          /\ t > 0
          /\ \A b \in beacon : b < t
          /\ target' = [target EXCEPT ![r] = t]
    /\ UNCHANGED <<beacon, current, draw, skipped>>

(* The round takes its one draw. *)
Take(r) ==
    /\ r = current
    /\ phase[r] = "fixed"
    /\ phase' = [phase EXCEPT ![r] = "drawn"]
    /\ \E b \in beacon :
          /\ IsFirst(b, target[r])
          /\ draw' = [draw EXCEPT ![r] = b]
    /\ UNCHANGED <<beacon, current, target, skipped>>

Publish(r) ==
    /\ r = current
    /\ phase[r] = "drawn"
    /\ phase' = [phase EXCEPT ![r] = "published"]
    /\ current' = current + 1
    /\ UNCHANGED <<beacon, target, draw, skipped>>

(* The round ends without being published. *)
Discard(r) ==
    /\ r = current
    /\ \/ phase[r] \in {"sampling", "drawn"} /\ skipped' = skipped
       \/ phase[r] = "fixed" /\ Revealed(target[r]) # {} /\ skipped' = skipped + 1
    /\ phase' = [phase EXCEPT ![r] = "discarded"]
    /\ current' = current + 1
    /\ UNCHANGED <<beacon, target, draw>>

Next ==
    \/ Reveal
    \/ \E r \in Rounds : Begin(r) \/ Fix(r) \/ Take(r) \/ Publish(r) \/ Discard(r)

Spec == Init /\ [][Next]_vars
=============================================================================
