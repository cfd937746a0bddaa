--------------------------- MODULE MCControlPlane ---------------------------
(* Model-checking instance of ControlPlane: one node, as the records of two   *)
(* nodes share nothing but the restart of the server.                         *)
EXTENDS ControlPlane
=============================================================================
