---------------------------- MODULE MCLiquidity ----------------------------
(* Two assets; a bundle needs both, a pull of gas competes for one of them. *)
EXTENDS Liquidity, TLC

CONSTANTS gas, usd, bundle, pull

MCNeed ==
  bundle :> (gas :> 1 @@ usd :> 2) @@
  pull   :> (gas :> 1 @@ usd :> 0)
MCSupply == gas :> 1 @@ usd :> 2
=============================================================================
