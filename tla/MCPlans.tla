------------------------------ MODULE MCPlans -------------------------------
(* Plans for TLC: actors are interchangeable. *)
EXTENDS Plans, TLC

Symmetry == Permutations(Actors)

=============================================================================
