------------------------------ MODULE MCViewer ------------------------------
(* Constants for TLC: three Update numbers tell neighbours apart in a pipeline *)
(* of at most five messages; the connection holds two, so that the server is   *)
(* blocked, and the channel full, in reachable states; machines with too few   *)
(* segments for the Stats tab, and with enough.                                *)
EXTENDS Viewer

MCCycle    == 3
MCTcpRoom  == 2
MCSegments == {2, 3}
=============================================================================
