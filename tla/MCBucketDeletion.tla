--------------------------- MODULE MCBucketDeletion ---------------------------
(***************************************************************************)
(* One bucket name, its uploads and its deletions, for TLC.                *)
(***************************************************************************)
EXTENDS BucketDeletion

=============================================================================
