---------------------------- MODULE MCTieredCache ----------------------------
(* A small instance for TLC: RAM for one chunk out of two, which differ in length. *)
EXTENDS TieredCache, TLC

CONSTANTS h1, h2, p1

MCHandlers == {h1, h2}
MCPrefetchers == {p1}

MCChunkLen == [k \in 0 .. 1 |-> 2 - k]

Symmetry == Permutations({h1, h2})

=============================================================================
