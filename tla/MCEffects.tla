----------------------------- MODULE MCEffects -----------------------------
(* Small instances of Effects for TLC.                                     *)
EXTENDS Effects, TLC

(* Stores and suppliers are told apart only by equality.                   *)
Symmetry == Permutations(Stores) \cup Permutations(Suppliers)
=============================================================================
