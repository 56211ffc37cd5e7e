------------------------------- MODULE Census -------------------------------
(***************************************************************************)
(* What a process scan promises to the reports that follow it, whatever    *)
(* the number of threads and the order in which they finish: every process *)
(* of the list is either admitted to the data set or rejected, once, the   *)
(* scanner itself is never admitted, and the scan is closed only when      *)
(* nobody is left, with the number of processes it rejected.  A scan may   *)
(* also be abandoned, and then it reports nothing.                         *)
(***************************************************************************)
EXTENDS Naturals

CONSTANTS Pids,   \* the processes of the list
          Self    \* the scanner

VARIABLES verdict,  \* of each process
          phase,    \* of the scan
          missing   \* how many processes were rejected

vars == <<verdict, phase, missing>>

Init == /\ verdict = [p \in Pids |-> "pending"]
        /\ phase = "open"
        /\ missing = 0

Admit(p) == /\ phase = "open"
            /\ verdict[p] = "pending"
            /\ p # Self
            /\ verdict' = [verdict EXCEPT ![p] = "in"]
            /\ UNCHANGED <<phase, missing>>

Reject(p) == /\ phase = "open"
             /\ verdict[p] = "pending"
             /\ verdict' = [verdict EXCEPT ![p] = "out"]
             /\ missing' = missing + 1
             /\ UNCHANGED phase

Close == /\ phase = "open"
         /\ \A p \in Pids : verdict[p] # "pending"
         /\ phase' = "closed"
         /\ UNCHANGED <<verdict, missing>>

Abandon == /\ phase = "open"
           /\ phase' = "abandoned"
           /\ UNCHANGED <<verdict, missing>>

Next == \/ \E p \in Pids : Admit(p) \/ Reject(p)
        \/ Close
        \/ Abandon

Spec == Init /\ [][Next]_vars

=============================================================================
