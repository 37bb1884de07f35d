------------------------------ MODULE MCPoeQueue ------------------------------
(* Instances of PoeQueue for TLC. *)
EXTENDS PoeQueue, TLC

CONSTANTS a, b

MCBatch == {<<a>>, <<a, b>>}
=============================================================================
