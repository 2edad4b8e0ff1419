--------------------------- MODULE MCScrobbleQueue ---------------------------
(* A small instance of ScrobbleQueue for TLC. *)
EXTENDS ScrobbleQueue, TLC

CONSTANTS s1, s2, s3

Symmetry == Permutations(Songs)
=============================================================================
