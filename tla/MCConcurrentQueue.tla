------------------------- MODULE MCConcurrentQueue -------------------------
(* Blocks and consumers are interchangeable. *)
EXTENDS ConcurrentQueue, TLC

Symmetry == Permutations(Blocks) \cup Permutations(Consumers)

=============================================================================
