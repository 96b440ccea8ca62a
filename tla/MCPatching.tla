------------------------------- MODULE MCPatching -------------------------------
(***************************************************************************)
(* The instances of MCTarget that meet the assumptions of the proofs.      *)
(***************************************************************************)
EXTENDS MCTarget, TargetInvariant
=============================================================================
