--------------------------- MODULE MCVersionJobs ---------------------------
(* Small instances of VersionJobs.                                         *)
EXTENDS VersionJobs
=============================================================================
