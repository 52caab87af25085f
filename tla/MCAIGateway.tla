---------------------------- MODULE MCAIGateway ----------------------------
(* Instances of AIGateway for TLC.                                         *)
EXTENDS AIGateway

CONSTANTS a1, a2, r1, r2, llama, glm
=============================================================================
