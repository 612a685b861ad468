----------------------------- MODULE MCAgentRun -----------------------------
(* Small instances of AgentRun for TLC.                                    *)
EXTENDS AgentRun, TLC

(* Runs and targets are told apart only by equality.                       *)
Symmetry == Permutations(Runs) \cup Permutations(Targets)
=============================================================================
