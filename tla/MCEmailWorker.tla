-------------------------- MODULE MCEmailWorker ----------------------------
(* Instances of EmailWorker for TLC. *)
EXTENDS EmailWorker

CONSTANT w1
=============================================================================
