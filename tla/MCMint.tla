------------------------------- MODULE MCMint -------------------------------
(***************************************************************************)
(* Instances of MintProcessor for TLC.                                     *)
(***************************************************************************)
EXTENDS MintInvariant, Receipt, TLC

Symmetry == Permutations(Tx)
=============================================================================
