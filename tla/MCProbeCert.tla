---------------------------- MODULE MCProbeCert ----------------------------
(* Instances of ProbeCert for TLC.                                         *)
EXTENDS ProbeCert, TLC

Symmetry == Permutations(Procs) \cup Permutations(Dirs) \cup Permutations(Roots)
=============================================================================
