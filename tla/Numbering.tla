----------------------------- MODULE Numbering ------------------------------
(***************************************************************************)
(* What the viewers send and collect without end is numbered 1..Cycle,     *)
(* again and again, so that neighbours differ in a finite graph.           *)
(***************************************************************************)
EXTENDS Integers

CONSTANT Cycle
ASSUME CycleAssumption == Cycle \in Nat \ {0}

Succ(m) == IF m = Cycle THEN 1 ELSE m + 1

=============================================================================
