--------------------------- MODULE MCInteropBundle ---------------------------
(* All shapes of a bundle with up to two sources. *)
EXTENDS InteropBundle

CONSTANTS s1, s2
=============================================================================
