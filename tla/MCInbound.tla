----------------------------- MODULE MCInbound -----------------------------
(* Model-checking instance of Inbound: no symmetry, the run checks liveness. *)
EXTENDS Inbound
=============================================================================
