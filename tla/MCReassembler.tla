--------------------------- MODULE MCReassembler ---------------------------
(* Model-checking instance of Reassembler: the workers are interchangeable. *)
EXTENDS Reassembler, TLC

WorkerSymmetry == Permutations(Workers)
=============================================================================
