--------------------------- MODULE MCVerification ---------------------------
(* Two packets that share the subscription of a chain; each needs two verifications. *)
EXTENDS Verification

CONSTANTS p1, p2
=============================================================================
