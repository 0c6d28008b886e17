----------------------------- MODULE MCColdCache -----------------------------
(* Small instances of ColdCache for TLC. *)
EXTENDS ColdCache, TLC

CONSTANTS w1, w2, r1, kA, kB, f1, f2, f3, f4, f5, a, b, c

\* Three versions of a chunk, one of them shorter.
MCPayloads == {<<a, a>>, <<b, b>>, <<c>>}

Symmetry == Permutations({w1, w2}) \union Permutations({f1, f2, f3, f4, f5})
            \union Permutations({a, b})

\* An unreferenced file is gone: what it held is not part of the state.
LiveView == <<tmp, final, [f \in Files |-> IF Unused(f) THEN << >> ELSE bytes[f]],
              writerVars, readerVars, overlapped, solo, broken>>

=============================================================================
