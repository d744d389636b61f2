--------------------------- MODULE MCIncidentSync ---------------------------
(* Model-checking instances of IncidentSync.                               *)
EXTENDS IncidentSync, TLC

CONSTANTS s1, s2, r1, loop, sync
=============================================================================
