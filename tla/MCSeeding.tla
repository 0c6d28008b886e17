------------------------------ MODULE MCSeeding ------------------------------
(* Instances of Seeding for TLC. *)
EXTENDS Seeding

CONSTANTS w1, w2

MCUploaders == {w1, w2}

\* Three files, the second of them empty.  The last is of -include-dir; once it
\* had another byte, or was longer.
MCSize == <<2, 0, 1>>
MCIncluded == {3}
MCOthers == {<<7>>, <<7, 1>>}

=============================================================================
