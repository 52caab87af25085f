---------------------------- MODULE MCR2Writes ----------------------------
(***************************************************************************)
(* Instances of R2Writes for TLC.                                          *)
(***************************************************************************)
EXTENDS R2Writes

CONSTANTS k1, k2, b1, b2, a1, short, long, c1, c2

OneAccount == [b \in Buckets |-> a1]
Sizes == [c \in Contents |-> IF c = short THEN 1 ELSE 2]
OwnKey == [k \in Keys |-> k]
AnyOrAbsent == {"any", "absent"}
AnyOnly == {"any"}
NoStray == {}
StrayInFirst == {<<b1, k1>>}
KeyOneOrNone == {k1, None}
=============================================================================
