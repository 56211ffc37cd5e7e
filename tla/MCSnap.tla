------------------------------- MODULE MCSnap -------------------------------
(***************************************************************************)
(* Two processes, which may both be there or come later, two segments, two *)
(* mandatory files each, and two runs, the second of which meets what the  *)
(* first one left.  The key of one of the segments is negative where it is *)
(* shown with a sign.                                                      *)
(***************************************************************************)
EXTENDS Snap, TLC

CONSTANTS p1, p2

MCPids == {p1, p2}
MCSegs == {"s", "t"}
MCKey == [s |-> 1, t |-> 3]
MCSymmetry == Permutations(MCPids)
=============================================================================
