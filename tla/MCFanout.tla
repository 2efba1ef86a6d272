------------------------------ MODULE MCFanout ------------------------------
(* Instances of Fanout for TLC. *)
EXTENDS Fanout, TLC

\* Tracks are interchangeable.
Symmetry == Permutations(Track)
=============================================================================
