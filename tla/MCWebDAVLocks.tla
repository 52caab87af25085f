---------------------------- MODULE MCWebDAVLocks ----------------------------
(***************************************************************************)
(* Instances of WebDAVLocks for TLC: a collection that holds one file, and *)
(* a second file beside it.                                                *)
(***************************************************************************)
EXTENDS WebDAVLocks

CONSTANTS dir, file, other, c1, c2

Tree == {pair \in Paths \X Paths : pair[1] = pair[2] \/ pair = <<file, dir>>}
=============================================================================
