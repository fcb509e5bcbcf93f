--------------------------- MODULE MCRoundIntent ---------------------------
(* A small instance of RoundIntent for TLC. *)
EXTENDS RoundIntent

(* Readings of the price account: one acceptable, one per failed check. *)
MCFeeds ==
    {[price |-> 1, conf |-> 0, age |-> 0],
     [price |-> 1, conf |-> 0, age |-> 2],
     [price |-> 1, conf |-> 0, age |-> -2],
     [price |-> 0, conf |-> 0, age |-> 0],
     [price |-> 1, conf |-> 1, age |-> 0]}
=============================================================================
