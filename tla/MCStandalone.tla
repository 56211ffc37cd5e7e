---------------------------- MODULE MCStandalone ----------------------------
(* Six numbers: the pipeline from the worker to the picture holds at most six *)
(* different data at a time, so that no two of them are confused.             *)
EXTENDS Standalone

MCCycle == 6
=============================================================================
