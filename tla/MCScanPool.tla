----------------------------- MODULE MCScanPool -----------------------------
(***************************************************************************)
(* Small pools: threads and processes are model values.  The limit is met  *)
(* by the first allocation, so that threads pass and fail the test at the  *)
(* same time; the table of open files has just enough room for all         *)
(* (MCEnough) or one descriptor less than that.                            *)
(***************************************************************************)
EXTENDS ScanPool

MCEnough == BaseFds + Cardinality(Pids) + 2 * Cardinality(Workers)

MCFdLimits == {MCEnough - 1, MCEnough}

=============================================================================
