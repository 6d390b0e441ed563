--------------------------- MODULE MCHistoricalJobs ---------------------------
(* Two contracts of two windows, one at a time past the semaphore of a run,  *)
(* a bucket of one token, and a second run to resume or to overlap.          *)
EXTENDS HistoricalJobs
CONSTANTS c1, c2
MCContracts == {c1, c2}
=============================================================================
