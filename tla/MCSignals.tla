----------------------------- MODULE MCSignals -----------------------------
(* Signals on a small instance.  Guests are interchangeable. *)
EXTENDS Signals, TLC

GuestSymmetry == Permutations(Guests)
============================================================================
