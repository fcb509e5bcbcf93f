---------------------------- MODULE MCRoundAsset ----------------------------
(* A small instance of RoundAsset for TLC. *)
EXTENDS RoundAsset

CONSTANTS w1, w2

Pay(w, n) == [recipient |-> w, amount |-> n]

(* Two assets of a well-formed tree. *)
Plain == [idx |-> 0, allocated |-> 3, leaves |-> <<Pay(w1, 1), Pay(w2, 2)>>]

(* The same index committed again, promising more than it allocates. *)
Again == [idx |-> 0, allocated |-> 2, leaves |-> <<Pay(w2, 1), Pay(w1, 1), Pay(w2, 1)>>]

(* A leaf that names the asset account, and one that pays nothing. *)
Odd == [idx |-> 0, allocated |-> 1, leaves |-> <<Pay(AssetPda, 1), Pay(w1, 0), Pay(w1, 1)>>]

(* Presented, but not under the root; and an index past the round's assets. *)
Foreign == [idx |-> 0, allocated |-> 4, leaves |-> <<Pay(w1, 4)>>]
Second == [idx |-> 1, allocated |-> 1, leaves |-> <<Pay(w2, 1)>>]
TooFar == [idx |-> 2, allocated |-> 1, leaves |-> <<Pay(w1, 1)>>]

MCLeaves == {Plain, Again, Odd, Foreign, Second, TooFar}
MCRoot == {Plain, Again, Odd, Second, TooFar}
=============================================================================
