-------------------------- MODULE MCResponsesStream --------------------------
(* Instances of ResponsesStream for TLC.                                   *)
EXTENDS ResponsesStream

CONSTANTS t1, t2

AnyTool == Permutations(Tools)
=============================================================================
