--------------------------- MODULE MCProposalStore ---------------------------
(* Small instances of ProposalStore for TLC.                               *)
EXTENDS ProposalStore, TLC

(* Run ids are told apart only by equality, and so are the two decisions.  *)
Symmetry == Permutations(Runs) \cup Permutations(Decisions)

(* With a boot sweep and without a crash no load follows the first: what   *)
(* the lines before the last ones say is then never read again.            *)
WithoutOlder == <<mem, load, disk, tail, lost, faults, cards, runs, carry, loop, sweep, restarts>>
=============================================================================
