--------------------------- MODULE MCProcessTree ---------------------------
(* Process numbers and kernel events for TLC: with four numbers and four      *)
(* events a middle process can die, be reaped and its number be taken again   *)
(* by a child of its former child, between two reads of the same tree.        *)
EXTENDS ProcessTree

MCMaxPid    == 4
MCMaxEvents == 4
=============================================================================
