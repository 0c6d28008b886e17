---------------------------- MODULE MCChunkFetch ----------------------------
(* Small instances of ChunkFetch for TLC. *)
EXTENDS ChunkFetch, TLC

CONSTANTS c1, c2, c3, f1, f2, f3, b1, b2, b3, kFull, kTail, kPast

\* A full chunk of two bytes and the one-byte last chunk of its object.
MCSafetyLen == kFull :> 2 @@ kTail :> 1

\* The last chunk and the one past the end.
MCTailLen == kTail :> 1 @@ kPast :> 0

\* Goroutines, flights and buffers are interchangeable.
Symmetry == Permutations({c1, c2, c3}) \union Permutations({f1, f2, f3})
            \union Permutations({b1, b2, b3})

\* An unreferenced flight object is garbage: what it holds is not part of the state.
LiveView == <<inflight, [f \in Flights |-> IF \E c \in Callers : ref[c] = f
                                           THEN flight[f] ELSE FreshFlight],
              free, mem, localVars>>

=============================================================================
