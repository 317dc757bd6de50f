------------------------------ MODULE MCSigner ------------------------------
(* One signer with interchangeable transactions. *)
EXTENDS Signer, TLC

TxSymmetry == Permutations(Tx)
=============================================================================
