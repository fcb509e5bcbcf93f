--------------------------- MODULE MCProcessLock ---------------------------
(* Three runs of the keeper on one machine and one on another. *)
EXTENDS ProcessLock

CONSTANTS p1, p2, p3, p4

MCHostOf == [p \in Procs |-> IF p = p4 THEN "other" ELSE "here"]
=============================================================================
