--------------------------- MODULE MCSessionAuth ---------------------------
(* Instances of SessionAuth for TLC. *)
EXTENDS SessionAuth, TLC

CONSTANTS s1, s2, r1, r2, r3

MCSymmetry == Permutations(Sessions) \cup Permutations(Requests)
=============================================================================
