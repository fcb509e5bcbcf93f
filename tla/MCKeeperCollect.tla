-------------------------- MODULE MCKeeperCollect --------------------------
(* Small instances of KeeperCollect for TLC. *)
EXTENDS KeeperCollect

AllKinds == {"open", "close", "seed", "abandon", "commit"}
=============================================================================
