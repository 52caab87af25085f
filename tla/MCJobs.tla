-------------------------------- MODULE MCJobs --------------------------------
(* Small instances of Jobs.                                                *)
EXTENDS Jobs

CONSTANTS r
=============================================================================
