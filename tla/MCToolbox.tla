----------------------------- MODULE MCToolbox ------------------------------
(* Small instances of Toolbox for TLC.                                     *)
EXTENDS Toolbox, TLC

(* Rows are told apart only by equality.                                   *)
Symmetry == Permutations(Rows)
=============================================================================
