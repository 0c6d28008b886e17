-------------------------- MODULE MCVelocityTracker -------------------------
(* A small object for TLC. *)
EXTENDS VelocityTracker, TLC

CONSTANTS h1, h2

Symmetry == Permutations({h1, h2})

=============================================================================
