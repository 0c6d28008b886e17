----------------------------- MODULE MCHotCache -----------------------------
(* A small shard for TLC. *)
EXTENDS HotCache, TLC

CONSTANTS k1, k2, k3, k4, dEmpty, dShort, dFull, dHuge

\* A chunk cut to nothing, a last chunk, a full one, and one over the capacity.
MCSize == dEmpty :> 0 @@ dShort :> 1 @@ dFull :> 2 @@ dHuge :> 5

Symmetry == Permutations({k1, k2, k3, k4})

=============================================================================
