--------------------------- MODULE MCRangeServing ---------------------------
(* Small objects for TLC. *)
EXTENDS RangeServing

=============================================================================
