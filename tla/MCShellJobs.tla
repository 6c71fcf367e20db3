---------------------------- MODULE MCShellJobs -----------------------------
(* Instances of ShellJobs for TLC: the sets are model values, given by the  *)
(* configurations.                                                          *)
EXTENDS ShellJobs, TLC

\* Operators, calls and notes are alike; for the runs without liveness.
Symmetry == Permutations(Operators) \cup Permutations(Calls)
              \cup Permutations(Notes) \cup Permutations(Jobs)

=============================================================================
