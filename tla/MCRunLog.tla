------------------------------ MODULE MCRunLog ------------------------------
(* Small instances of RunLog for TLC.                                      *)
EXTENDS RunLog, TLC

(* Run ids and agent names are told apart only by equality.                *)
Symmetry == Permutations(Runs) \cup Permutations(Agents)
=============================================================================
