----------------------------- MODULE Iterations -----------------------------
(***************************************************************************)
(* The constant the three benchmarks of Task5_Benchmark.cpp share: how many *)
(* round trips each of them measures.                                      *)
(***************************************************************************)
EXTENDS Naturals

CONSTANT ITERATIONS

ASSUME IterationsAssumption == ITERATIONS \in Nat \ {0}

=============================================================================
