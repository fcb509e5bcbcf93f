--------------------------- MODULE MCCoinLedger ---------------------------
(* A claim is worth a little of each bucket, or less than its own fee. *)
EXTENDS CoinLedger, TLC

MCShares == ("basket" :> 5) @@ ("flywheel" :> 2) @@ ("buyback" :> 2) @@ ("revenue" :> 1)
MCClaimEffects == {-1, 23}
MCSwapCosts == {2}
MCRoundCosts == {7}
=============================================================================
