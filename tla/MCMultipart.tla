---------------------------- MODULE MCMultipart ----------------------------
(* Instances of Multipart for TLC.                                         *)
EXTENDS Multipart

CONSTANTS k1, short, long

MCSizeOf == [b \in Bodies |-> IF b = long THEN 2 ELSE 1]
=============================================================================
