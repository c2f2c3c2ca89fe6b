------------------------------- MODULE MCNews -------------------------------
(* Instances of News for TLC. *)
EXTENDS NewsProperties, TLC

\* Reporters do the same.
MCSymmetry == Permutations(Reporters)
=============================================================================
