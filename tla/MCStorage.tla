----------------------------- MODULE MCStorage -----------------------------
(* A one-chain bundle that was sent twice, and two interop bundles, the destination of
   one of which is on a chain with an id above the largest i32. *)
EXTENDS Storage, TLC

CONSTANTS t1, t2, b1, b2, s1, x1, x2, a1, a2

MCChainOf == (t1 :> 1) @@ (t2 :> 1) @@ (b1 :> 1) @@ (b2 :> 5)
MCBundleOf == (t1 :> s1) @@ (t2 :> s1)
MCSymmetry == Permutations({t1, t2}) \cup Permutations({x1, x2}) \cup Permutations({a1, a2})
=============================================================================
