----------------------------- MODULE MCFileScan -----------------------------
(* The scan of one log file, or of a log and its rotated copy.              *)
EXTENDS FileScan
=============================================================================
