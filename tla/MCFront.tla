------------------------------ MODULE MCFront ------------------------------
(* Front on a small instance.  Requests and clients are interchangeable. *)
EXTENDS Front, TLC

RequestSymmetry == Permutations(Requests) \cup Permutations(Clients)
============================================================================
