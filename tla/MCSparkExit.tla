---------------------------- MODULE MCSparkExit ----------------------------
(* Instances of SparkExit for TLC.                                          *)
EXTENDS SparkExit, TLC

Symmetry == Permutations(Verifiers) \cup Permutations(Addrs)
              \cup Permutations(Requests) \cup Permutations(Payings)
              \cup Permutations(Exits)
=============================================================================
