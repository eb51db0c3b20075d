------------------------------ MODULE MCDrvline ------------------------------
(* Instances of Drvline for TLC: see the configurations MCDrvline*.cfg. *)
EXTENDS Drvline, TLC

\* Handles and channels are only compared: any permutation of them is sound
\* where no liveness property is checked.
Symmetry == Permutations(Calls) \cup Permutations(Channels)
=============================================================================
