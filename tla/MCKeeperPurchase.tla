------------------------- MODULE MCKeeperPurchase -------------------------
(* A small instance of KeeperPurchase for TLC. *)
EXTENDS KeeperPurchase
=============================================================================
