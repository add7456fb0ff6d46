------------------------------ MODULE MCRunner ------------------------------
(* A workspace that prints and emits. *)
EXTENDS Runner

Both == Streams
=============================================================================
