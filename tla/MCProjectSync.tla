--------------------------- MODULE MCProjectSync ---------------------------
(* A scope with one entry and one device. *)
EXTENDS ProjectSync, TLC

CONSTANT d1
=============================================================================
