-------------------------- MODULE MC_ConfigRelease --------------------------
(* Model-checking instances of ConfigRelease.                              *)
EXTENDS ConfigRelease, TLC

Symmetry == Permutations(Admins) \cup Permutations(Details) \cup Permutations(Percents)
=============================================================================
