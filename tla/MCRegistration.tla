-------------------------- MODULE MCRegistration ---------------------------
(* An instance of Registration for TLC: requests whose keys, usernames and   *)
(* contacts coincide in any combination, with emails that collide on one     *)
(* advisory-lock id.                                                         *)
EXTENDS Registration

CONSTANTS q1, q2, p1, p2, e1, e2, k1, k2

Mixed ==
  [type : {"STUDENT", "WORK", "PERSONAL"}, username : {k1, k2},
   phone : {p1, p2}, email : {e1, e2}, key : {k1, k2}]

LockShared ==
  [v \in {p1, p2, e1, e2, k1, k2} |-> IF v \in {e1, e2} THEN e1 ELSE v]
=============================================================================
