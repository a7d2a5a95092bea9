--------------------------- MODULE MCIdempotency ---------------------------
(* Instances of Idempotency for TLC: the keys collide on one advisory-lock   *)
(* id.                                                                       *)
EXTENDS Idempotency, TLC

CONSTANTS a1, a2, a3, k1, k2, h1, h2

LockShared == [k \in Keys |-> 1]

MCSymmetry ==
  Permutations(Attempts) \cup Permutations(Keys) \cup Permutations(Hashes)
=============================================================================
