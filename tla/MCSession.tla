----------------------------- MODULE MCSession -----------------------------
(***************************************************************************)
(* Instances of SigningSession for TLC.                                    *)
(***************************************************************************)
EXTENDS SigningSession, TLC
=============================================================================
