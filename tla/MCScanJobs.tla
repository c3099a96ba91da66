----------------------------- MODULE MCScanJobs -----------------------------
(* A small instance of ScanJobs for TLC.                                     *)
EXTENDS ScanJobs

ScanPayloads == [type : {"scan", "automatch"}, lib : Libraries]
=============================================================================
