--------------------------- MODULE MCPrefetchPool ---------------------------
(* A small pool for TLC. *)
EXTENDS PrefetchPool

CONSTANTS h1, h2, w1, w2

=============================================================================
