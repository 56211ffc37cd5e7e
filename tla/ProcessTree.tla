---------------------------- MODULE ProcessTree ----------------------------
(***************************************************************************)
(* The process tree of memstats: process_tree.rs, and the enumeration of   *)
(* the processes in bin/memstats.rs that it is built from.                 *)
(*                                                                         *)
(* memstats first opens the directory of every process under /proc, in the *)
(* order of their numbers, and then reads the parent of each from its      *)
(* status file, through the directory it holds open.  The kernel goes on   *)
(* all along: processes are forked, die, are reaped, and their children    *)
(* are given to an ancestor; a number that is free may be taken again.     *)
(* The edges of the tree are therefore facts about different moments.      *)
(* Then the tree is a value, on which ancestors and descendants are        *)
(* computed.                                                               *)
(*                                                                         *)
(* Descendants are those the filter descendants(<pid>) selects.            *)
(***************************************************************************)
EXTENDS Integers, FiniteSets

CONSTANTS MaxPid,    \* process numbers are 1..MaxPid, and 1 is init
          MaxEvents  \* how much the kernel may do while the tree is built

ASSUME TreeAssumption == MaxPid \in Nat \ {0} /\ MaxEvents \in Nat

Pids == 1..MaxPid

VARIABLES
  alive,    \* the numbers in use
  zombies,  \* those of them that died and are not reaped
  parent,   \* the parent of each number in use; 0 for init
  events,   \* how many things the kernel did
  pc,       \* what memstats does: open, read, choose, up, down, done, exit
  cursor,   \* the next number to open or to read
  handle,   \* per number: no directory, an open one, or one whose process left
  edges,    \* ProcessTree.edges: pairs <<ppid, pid>>
  pid,      \* the argument of ancestors or descendants
  current,  \* the local of ancestors
  pool,     \* the local of descendants
  result,   \* what ancestors or descendants has gathered
  lineage,  \* history: the ancestors of each process when the last directory was open
  steady    \* history: processes that have kept their parent since the start

kernel == <<alive, zombies, parent, events, steady>>
query  == <<pid, current, pool, result>>
vars   == <<kernel, pc, cursor, handle, edges, query, lineage>>

(***************************************************************************)
(* The kernel.                                                             *)
(***************************************************************************)
\* The numbers from which p descends by a parent function par: those in every
\* set that holds the parent of p and the parents of its own members.
Upward(par, set) == \A q \in set \cap Pids : par[q] \in set

AncestorsIn(par, p) ==
  {r \in Pids : \A set \in SUBSET (0..MaxPid) : par[p] \in set /\ Upward(par, set) => r \in set}

\* A tree of processes rooted at init.
IsTree(set, par) ==
  /\ 1 \in set /\ par[1] = 0
  /\ \A p \in set \ {1} : par[p] \in set /\ 1 \in AncestorsIn(par, p)
  /\ \A p \in Pids \ set : par[p] = 0

Happens == pc \in {"open", "read"} /\ events < MaxEvents /\ events' = events + 1

Fork(p, c) ==
  /\ Happens
  /\ p \in alive \ zombies /\ c \in Pids \ alive
  /\ alive' = alive \cup {c}
  /\ parent' = [parent EXCEPT ![c] = p]
  /\ UNCHANGED <<zombies, steady, pc, cursor, handle, edges, query, lineage>>

\* The children of p go to init or to an ancestor of p that is a subreaper.
Die(p) ==
  /\ Happens
  /\ p \in alive \ (zombies \cup {1})
  /\ zombies' = zombies \cup {p}
  /\ \E reaper \in AncestorsIn(parent, p) \ zombies' :
       parent' = [q \in Pids |-> IF parent[q] = p THEN reaper ELSE parent[q]]
  /\ steady' = {q \in steady : parent[q] # p}
  /\ UNCHANGED <<alive, pc, cursor, handle, edges, query, lineage>>

\* A directory that was open on p now fails to read; the number is free.
Reap(p) ==
  /\ Happens
  /\ p \in zombies
  /\ alive' = alive \ {p}
  /\ zombies' = zombies \ {p}
  /\ parent' = [parent EXCEPT ![p] = 0]
  /\ handle' = [handle EXCEPT ![p] = IF @ = "open" THEN "left" ELSE @]
  /\ steady' = steady \ {p}
  /\ UNCHANGED <<pc, cursor, edges, query, lineage>>

(***************************************************************************)
(* memstats.                                                               *)
(***************************************************************************)
Init ==
  /\ alive \in {s \in SUBSET Pids : 1 \in s}
  /\ parent \in {par \in [Pids -> 0..MaxPid] : IsTree(alive, par)}
  /\ zombies = {} /\ events = 0
  /\ pc = "open" /\ cursor = 1
  /\ handle = [p \in Pids |-> "none"]
  /\ edges = {}
  /\ pid = 0 /\ current = 0 /\ pool = {} /\ result = {}
  /\ lineage = [p \in Pids |-> {}]
  /\ steady = alive

\* all_processes: a number whose directory is gone (NotFound) is passed over.
OpenNext ==
  /\ pc = "open" /\ cursor <= MaxPid
  /\ cursor' = cursor + 1
  /\ handle' = [handle EXCEPT ![cursor] = IF cursor \in alive THEN "open" ELSE @]
  /\ UNCHANGED <<kernel, pc, edges, query, lineage>>

\* exit(1): /proc/<pid> cannot be opened for another reason (memstats.rs:441).
FailToOpen ==
  /\ pc = "open" /\ cursor <= MaxPid
  /\ pc' = "exit"
  /\ UNCHANGED <<kernel, cursor, handle, edges, query, lineage>>

StartTree ==
  /\ pc = "open" /\ cursor > MaxPid
  /\ pc' = "read" /\ cursor' = 1
  /\ lineage' = [p \in Pids |-> AncestorsIn(parent, p)]
  /\ UNCHANGED <<kernel, handle, edges, query>>

\* Mutants of ReadStatus: parents read by number and not through the directory
\* that was opened, and a loop that stops at the first process that left.
ReadStatusBy(test, next) ==
  /\ pc = "read" /\ cursor <= MaxPid
  /\ cursor' = next
  /\ edges' = IF test THEN edges \cup {<<parent[cursor], cursor>>} ELSE edges
  /\ UNCHANGED <<kernel, pc, handle, query, lineage>>
ReadStatusByNumber == ReadStatusBy(handle[cursor] # "none" /\ cursor \in alive, cursor + 1)
ReadStatusBreak    == ReadStatusBy(handle[cursor] = "open",
                                   IF handle[cursor] = "left" THEN MaxPid + 1 ELSE cursor + 1)

\* ProcessTree::new, one process: status() fails when the process left.
ReadStatus ==
  /\ pc = "read" /\ cursor <= MaxPid
  /\ cursor' = cursor + 1
  /\ edges' = IF handle[cursor] = "open" THEN edges \cup {<<parent[cursor], cursor>>}
                                         ELSE edges
  /\ UNCHANGED <<kernel, pc, handle, query, lineage>>

FinishTree ==
  /\ pc = "read" /\ cursor > MaxPid
  /\ pc' = "choose"
  /\ UNCHANGED <<kernel, cursor, handle, edges, query, lineage>>

\* ancestors(p, include_first)
Ancestors(p) ==
  /\ pc = "choose"
  /\ pc' = "up"
  /\ pid' = p /\ current' = p
  /\ \E include_first \in BOOLEAN : result' = IF include_first THEN {p} ELSE {}
  /\ UNCHANGED <<kernel, cursor, handle, edges, pool, lineage>>

Parents(p) == {e[1] : e \in {d \in edges : d[2] = p}}

\* An iteration of the outer loop of ancestors that finds an edge.
Up ==
  /\ pc = "up" /\ current # 1
  /\ \E ppid \in Parents(current) :
       /\ result' = result \cup {ppid}
       /\ current' = ppid
  /\ UNCHANGED <<kernel, pc, cursor, handle, edges, pid, pool, lineage>>

\* ancestors returns at init, or where the tree is partial.
UpReturn ==
  /\ pc = "up"
  /\ current = 1 \/ Parents(current) = {}
  /\ pc' = "done"
  /\ UNCHANGED <<kernel, cursor, handle, edges, query, lineage>>

\* descendants(p)
Descendants(p) ==
  /\ pc = "choose"
  /\ pc' = "down"
  /\ pid' = p /\ pool' = {p}
  /\ result' = {}
  /\ UNCHANGED <<kernel, cursor, handle, edges, current, lineage>>

Children(p) == {e[2] : e \in {d \in edges : d[1] = p}}

\* Mutant of Down: children are gathered but not looked into.
DownShallow ==
  /\ pc = "down"
  /\ \E p \in pool : result' = result \cup Children(p) /\ pool' = pool \ {p}
  /\ UNCHANGED <<kernel, pc, cursor, handle, edges, pid, current, lineage>>

\* An iteration of descendants.  The pool is a stack in the code; whatever
\* the order, the result is the same (DescendantsExact).
Down ==
  /\ pc = "down"
  /\ \E p \in pool :
       LET new == Children(p) \ result
       IN  /\ result' = result \cup new
           /\ pool' = (pool \ {p}) \cup new
  /\ UNCHANGED <<kernel, pc, cursor, handle, edges, pid, current, lineage>>

DownReturn ==
  /\ pc = "down" /\ pool = {}
  /\ pc' = "done"
  /\ UNCHANGED <<kernel, cursor, handle, edges, query, lineage>>

Kernel == \/ \E p, c \in Pids : Fork(p, c)
          \/ \E p \in Pids : Die(p) \/ Reap(p)

Main == \/ OpenNext \/ FailToOpen \/ StartTree \/ ReadStatus \/ FinishTree
        \/ \E p \in Pids : Ancestors(p) \/ Descendants(p)
        \/ Up \/ UpReturn \/ Down \/ DownReturn

Ended == pc \in {"done", "exit"} /\ UNCHANGED vars

Next == Kernel \/ Main \/ Ended

\* memstats is scheduled; nothing is assumed of the kernel's events.
Spec == Init /\ [][Next]_vars /\ WF_vars(Main)

-----------------------------------------------------------------------------
\* Every variable keeps to its type, and an edge is only ever recorded for a
\* process whose directory was opened.
TypeOK ==
  /\ 1 \in alive \ zombies /\ alive \subseteq Pids /\ zombies \subseteq alive /\ steady \subseteq alive
  /\ parent \in [Pids -> 0..MaxPid]
  /\ events \in 0..MaxEvents
  /\ pc \in {"open", "read", "choose", "up", "down", "done", "exit"}
  /\ cursor \in 1..(MaxPid + 1)
  /\ handle \in [Pids -> {"none", "open", "left"}]
  /\ edges \subseteq (0..MaxPid) \X {p \in Pids : handle[p] # "none"}
  /\ pid \in 0..MaxPid /\ current \in 0..MaxPid
  /\ pool \subseteq Pids /\ result \subseteq 0..MaxPid
  /\ lineage \in [Pids -> SUBSET Pids]

\* The tree pieces together facts of different moments, and numbers are used
\* again, but it never invents a kinship: all that descendants(pid) gives did
\* descend from pid, and all that ancestors(pid) gives were its ancestors, at
\* one and the same moment, when the last directory had been opened.
AncestryReal ==
  /\ pc = "down" => \A q \in result : pid \in lineage[q]
  /\ pc = "up" => result \subseteq lineage[pid] \cup {0, pid}

\* The part of the real tree that never moved.
SteadyParent == [p \in Pids |-> IF p \in steady THEN parent[p] ELSE 0]

\* Deaths elsewhere do not hide what stayed in place: when the processes
\* between two of them all kept their parents while the tree was built,
\* descendants and ancestors find the one from the other.
SteadyReported ==
  /\ pc = "down" /\ pool = {} => {q \in Pids : pid \in AncestorsIn(SteadyParent, q)} \subseteq result
  /\ pc = "up" /\ (current = 1 \/ Parents(current) = {}) => AncestorsIn(SteadyParent, pid) \subseteq result

Closed(set) == \A e \in edges : e[1] \in set \cup {pid} => e[2] \in set

\* descendants(pid) is the least set that holds the children of pid and of
\* its own members: the contains test that stops it on shared or cyclic
\* paths loses nothing, and the order of the pool does not matter.
DescendantsExact ==
  pc = "down" =>
    /\ pool = {} => Closed(result)
    /\ \A set \in SUBSET Pids : Closed(set) => result \subseteq set

\* The loop of ancestors has no guard against a cycle in edges; it ends
\* all the same, because the edges memstats reads never form one.
Terminates == <>(pc \in {"done", "exit"})

=============================================================================
