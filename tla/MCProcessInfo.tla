--------------------------- MODULE MCProcessInfo ---------------------------
(***************************************************************************)
(* A process with a map of every kind the code tells apart, two pages each *)
(***************************************************************************)
EXTENDS ProcessInfo, TLC

CONSTANTS bin, heap, shm, gate

MCKind == (bin :> "path") @@ (heap :> "anon") @@ (shm :> "vsys") @@ (gate :> "vsyscall")

MCSymmetry == Permutations(Frames)

=============================================================================
