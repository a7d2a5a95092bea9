---------------------------- MODULE MCApplication ----------------------------
(* Instances of Application for TLC.                                         *)
EXTENDS Application

CONSTANTS r1, r2

In(path, origin, preflight, id) ==
  [path |-> path, origin |-> origin, preflight |-> preflight, id |-> id]

MCInputs ==
  {In("api", "allowed", "none", "boring"),
   In("api", "allowed", "permitted", "odd"),
   In("api", "allowed", "unknown", "odd"),
   In("api", "foreign", "permitted", "boring"),
   In("missing", "foreign", "none", "odd"),
   In("ready", "none", "none", "odd"),
   In("live", "none", "none", "boring")}
=============================================================================
