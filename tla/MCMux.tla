------------------------------- MODULE MCMux -------------------------------
(* Model-checking instances of Mux: two connections. *)
EXTENDS Mux

CONSTANTS w1, w2

MCWorkers == {w1, w2}
MCTransports == <<w1, w2>>
=============================================================================
