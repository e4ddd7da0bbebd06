--------------------------- MODULE MCInstruction ---------------------------
(***************************************************************************)
(* Instances of InstructionProcessor for TLC.                              *)
(***************************************************************************)
EXTENDS InstructionInvariant, Receipt, TLC

Symmetry == Permutations(Tx)
=============================================================================
