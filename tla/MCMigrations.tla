---------------------------- MODULE MCMigrations ----------------------------
(* Instances of Migrations for TLC.                                          *)
EXTENDS Migrations

CONSTANTS o1, o2
=============================================================================
