----------------------------- MODULE MeteoraPin ----------------------------
(***************************************************************************)
(* The Meteora programs and accounts a launch depends on, held against     *)
(* their pin (keeper/monitor.ts) once an interval (keeper/index.ts): the   *)
(* keeper has no power over them and only raises alerts.                   *)
(***************************************************************************)
EXTENDS Naturals, Sequences, SequencesExt

CONSTANTS
    Pin,           \* the pinned entries, in the file's order
    Programs       \* those that are programs; the others are plain accounts

Entries == Range(Pin)

VARIABLES
    meteora,       \* each entry on chain: [slot, authority, data], against the pinned values
    checking,      \* position of the entry this check reads next, 0 between checks
    problems,      \* entries this check found changed
    reported       \* entries an alert was printed for

vars == <<meteora, checking, problems, reported>>
monitor == <<checking, problems, reported>>

Init ==
    /\ meteora = [e \in Entries |-> [slot |-> 0, authority |-> "pinned", data |-> "pinned"]]
    /\ checking = 0 /\ problems = {} /\ reported = {}

(* Meteora (external): a redeployment moves the slot and keeps the authority. *)
Redeploy(e) ==
    e \in Programs /\ meteora' = [meteora EXCEPT ![e].slot = 1] /\ UNCHANGED monitor
HandOver(e) ==
    e \in Programs /\ meteora' = [meteora EXCEPT ![e].authority = "another"] /\ UNCHANGED monitor
Rewrite(e) ==  \* a closed program, another account content
    meteora' = [meteora EXCEPT ![e].data = "another"] /\ UNCHANGED monitor

(* What was changed may be changed back, but for a deployment and for a closed program. *)
Restore(e) ==
    /\ meteora' = [meteora EXCEPT ![e].authority = "pinned", ![e].data = IF e \in Programs THEN @ ELSE "pinned"]
    /\ UNCHANGED monitor

(* Faulty variant: a program is compared by its deployment slot alone. *)
DiffersBySlot(e) == IF e \in Programs THEN meteora[e].slot # 0 ELSE meteora[e].data # "pinned"

Differs(e) ==
    \/ meteora[e].data # "pinned"
    \/ e \in Programs /\ (meteora[e].slot # 0 \/ meteora[e].authority # "pinned")

Begin ==
    /\ checking = 0 /\ checking' = 1 /\ problems' = {}
    /\ UNCHANGED <<meteora, reported>>

(* checkMeteora: one entry after the other; what was found is printed at the end. *)
Read(n) ==
    /\ checking = n
    /\ problems' = IF Differs(Pin[n]) THEN problems \cup {Pin[n]} ELSE problems
    /\ IF n < Len(Pin) THEN checking' = n + 1 /\ UNCHANGED reported
       ELSE checking' = 0 /\ reported' = reported \cup problems'
    /\ UNCHANGED meteora

(* A read that throws ends the check: what it had found is not printed. *)
ReadFails ==
    /\ checking # 0 /\ checking' = 0 /\ problems' = {}
    /\ UNCHANGED <<meteora, reported>>

Next ==
    \/ Begin \/ ReadFails \/ (\E n \in DOMAIN Pin : Read(n))
    \/ \E e \in Entries : Redeploy(e) \/ HandOver(e) \/ Rewrite(e) \/ Restore(e)

(* The keeper runs, and a read tried again and again is answered some day. *)
Fairness == WF_vars(Begin) /\ \A n \in DOMAIN Pin : SF_vars(Read(n))
Spec == Init /\ [][Next]_vars /\ Fairness

----------------------------------------------------------------------------
Moved(e) == meteora[e] # [slot |-> 0, authority |-> "pinned", data |-> "pinned"]

(***************************************************************************)
(* Whatever moved from the pin is reported in the end unless it is undone  *)
(* first, which no redeployment and no closed program ever is, however     *)
(* often a check fails half way and takes its findings with it             *)
(* (monitor.ts:43-71, index.ts:133-141).                                   *)
(***************************************************************************)
DriftReported == \A e \in Entries : Moved(e) ~> (e \in reported \/ ~Moved(e))
=============================================================================
