--------------------------- MODULE MCKeeperPayout ---------------------------
(* A small instance of KeeperPayout for TLC. *)
EXTENDS KeeperPayout

(* A plain mint with a leaf too small for a new account, and a mint with a transfer fee. *)
MCLeafAmounts == <<<<2, 1>>, <<1, 2>>>>
MCFund == <<4, 5>>
MCFeePercent == <<0, 20>>
MCUnfundable == {2}
MCHasAccount == {<<2, 0>>, <<2, 1>>}
MCPurchased == <<[lamports |-> 10, tokens |-> 5], [lamports |-> 0, tokens |-> 0]>>
MCAccountRent == <<1, 1>>

(* A block that creates an account does not fit; one that creates none does. *)
MCRoom == <<2, 2>>
MCFrozen == {<<1, 0>>, <<2, 0>>}
MCFatal == {<<1, 0>>}
=============================================================================
