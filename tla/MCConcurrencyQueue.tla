------------------------- MODULE MCConcurrencyQueue -------------------------
(* Instances of ConcurrencyQueue for TLC.  Processes are interchangeable.  *)
EXTENDS ConcurrencyQueue, TLC

Symmetry == Permutations(Producers) \cup Permutations(Consumers)
=============================================================================
