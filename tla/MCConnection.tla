----------------------------- MODULE MCConnection -----------------------------
(* Instances of Connection for TLC: see the configurations MCConnection*.cfg. *)
EXTENDS Connection, TLC

Symmetry == Permutations(Lines) \cup Permutations(Contexts)
=============================================================================
