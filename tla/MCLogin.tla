------------------------------ MODULE MCLogin ------------------------------
(* Instances of Login for TLC. *)
EXTENDS Login, TLC

CONSTANTS r1, r2, r3, r4

MCSymmetry == Permutations(Logins)
=============================================================================
