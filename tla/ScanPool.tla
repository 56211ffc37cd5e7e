------------------------------ MODULE ScanPool ------------------------------
(***************************************************************************)
(* The parallel scan of memstats: scan_groups hands the list of processes  *)
(* to a rayon pool, each worker of which runs the closure of               *)
(* src/bin/memstats.rs:639-664 on one process after the other, and         *)
(* collects what they return.  The processes being scanned live and die    *)
(* meanwhile.                                                              *)
(*                                                                         *)
(* A worker opens the /proc files of a process one after the other; each   *)
(* open is a step here, since the process may exit, and the table of open  *)
(* files may fill up, between two of them.  What the files contain is      *)
(* module ProcessInfo.                                                     *)
(***************************************************************************)
EXTENDS Integers, FiniteSets

CONSTANTS
  Workers,   \* threads of the rayon pool
  Pids,      \* the processes of the list, after the kernel ones are excluded
  Self,      \* memstats itself, which the list may contain
  MemLimit,  \* --mem-limit, in units of memory
  BaseRss,   \* what memstats uses before the scan (page flags, shm pages)
  MaxCost,   \* the largest ProcessInfo takes at most that many units
  BaseFds,   \* files open besides those of the scan
  FdLimits,  \* values of RLIMIT_NOFILE (ulimit -n)
  NoPid, NoWorker

ASSUME PoolAssumption ==
  /\ IsFiniteSet(Workers) /\ IsFiniteSet(Pids)
  /\ MemLimit \in Nat /\ BaseRss \in Nat /\ MaxCost \in Nat
  /\ BaseFds \in Nat /\ FdLimits \subseteq Nat
  /\ NoPid \notin Pids /\ NoWorker \notin Workers

VARIABLES
  main,      \* the main thread: it waits for the pool, then collects, reports
  stage,     \* of each worker
  task,      \* the process each worker holds
  outcome,   \* what became of each process of the list
  rss,       \* VmRSS of memstats
  guard,     \* the worker that locks the mutex of hit_memory_limit
  hit,       \* the Boolean that mutex protects
  warnings,  \* "Hit memory limit" messages
  vanished,  \* vanished_processes_count
  life,      \* of each process of the list, in the kernel
  nofile     \* RLIMIT_NOFILE, which nothing changes

vars == <<main, stage, task, outcome, rss, guard, hit, warnings, vanished, life, nofile>>

-----------------------------------------------------------------------------

Stages == {"idle", "rss", "lock", "test", "set",
           "cmdline", "status", "pagemap", "walk", "environ"}

\* A process of the list is "queued", then "taken" by a worker; "ok": its
\* ProcessInfo was returned; "self", "limit": the closure returned None for
\* it; "gone", "emfile": get_process_info failed, because the process
\* exited (or its cmdline is empty) or because a file could not be opened.
Outcomes == {"queued", "taken", "ok", "self", "limit", "gone", "emfile"}

Results == {p \in Pids : outcome[p] = "ok"}

Queued == {p \in Pids : outcome[p] = "queued"}

\* A Process holds its /proc/<pid> directory open as long as it lives: in the
\* list, in a worker, and in the ProcessInfo.
HeldDirs == {p \in Pids : outcome[p] \in {"queued", "taken", "ok"}}

\* Workers that hold a pagemap open while they open and read maps
HeldPagemaps == {w \in Workers : stage[w] = "walk"}

\* Workers that are opening, reading and closing some file
Reading == {w \in Workers :
              stage[w] \in {"rss", "cmdline", "status", "pagemap", "walk", "environ"}}

\* Mutant: maps is never closed
LeakyHeld == BaseFds + Cardinality(HeldDirs) + 2 * Cardinality(HeldPagemaps)

Held == BaseFds + Cardinality(HeldDirs) + Cardinality(HeldPagemaps)

\* The open of a worker succeeds only if the table has room; it may fail when
\* the files the other workers read at that instant fill the table.
OpenSucceeds(w) == Held < nofile

OpenFails(w) == Held + Cardinality(Reading \ {w}) >= nofile

-----------------------------------------------------------------------------

Init ==
  /\ main = "scan"
  /\ stage = [w \in Workers |-> "idle"]
  /\ task = [w \in Workers |-> NoPid]
  /\ outcome = [p \in Pids |-> "queued"]
  /\ rss = BaseRss
  /\ guard = NoWorker
  /\ hit = FALSE
  /\ warnings = 0
  /\ vanished = 0
  /\ life = [p \in Pids |-> "alive"]
  /\ nofile \in FdLimits

At(w, s) == main = "scan" /\ stage[w] = s

GoTo(w, s) == /\ stage' = [stage EXCEPT ![w] = s]
              /\ UNCHANGED <<task, outcome>>

\* The closure returns: Some(info) for outcome "ok", None for the others.
Return(w, o) == /\ outcome' = [outcome EXCEPT ![task[w]] = o]
                /\ stage' = [stage EXCEPT ![w] = "idle"]
                /\ task' = [task EXCEPT ![w] = NoPid]

\* A panic in a worker ends memstats: rayon resumes it in the main thread.
Panic(why) == /\ main' = why
              /\ UNCHANGED <<stage, task, outcome>>

Take(w) ==
  /\ At(w, "idle")
  /\ \E p \in Queued :
       /\ task' = [task EXCEPT ![w] = p]
       /\ outcome' = [outcome EXCEPT ![p] = "taken"]
  /\ stage' = [stage EXCEPT ![w] = "rss"]
  /\ UNCHANGED <<main, rss, guard, hit, warnings, vanished, life, nofile>>

\* Mutant: the limit is not tested
ReadRssUnlimited(w) ==
  /\ At(w, "rss")
  /\ IF task[w] # Self THEN GoTo(w, "cmdline") ELSE Return(w, "self")
  /\ UNCHANGED <<main, rss, guard, hit, warnings, vanished, life, nofile>>

\* Mutant: memstats scans itself
ReadRssOfAll(w) ==
  /\ At(w, "rss")
  /\ IF rss > MemLimit THEN GoTo(w, "lock") ELSE GoTo(w, "cmdline")
  /\ UNCHANGED <<main, rss, guard, hit, warnings, vanished, life, nofile>>

\* my_process.status().unwrap().vmrss.unwrap(), the limit, the test of the pid
ReadRss(w) ==
  /\ At(w, "rss")
  /\ \/ /\ OpenSucceeds(w)
        /\ \/ rss > MemLimit /\ GoTo(w, "lock")
           \/ rss <= MemLimit /\ task[w] # Self /\ GoTo(w, "cmdline")
           \/ rss <= MemLimit /\ task[w] = Self /\ Return(w, "self")
        /\ UNCHANGED main
     \/ OpenFails(w) /\ Panic("unwrap")
  /\ UNCHANGED <<rss, guard, hit, warnings, vanished, life, nofile>>

LockHit(w) ==
  /\ At(w, "lock")
  /\ guard = NoWorker
  /\ guard' = w
  /\ GoTo(w, "test")
  /\ UNCHANGED <<main, rss, hit, warnings, vanished, life, nofile>>

\* Mutant: the lock is released between the test and the assignment
TestHitUnlocked(w) ==
  /\ At(w, "test")
  /\ guard' = NoWorker
  /\ \/ ~hit /\ warnings' = warnings + 1 /\ GoTo(w, "set")
     \/ hit /\ Return(w, "limit") /\ UNCHANGED warnings
  /\ UNCHANGED <<main, rss, hit, vanished, life, nofile>>

\* Mutant: a process met over the limit is put back for later
TestHitRetry(w) ==
  /\ At(w, "test")
  /\ guard' = NoWorker
  /\ warnings' = IF hit THEN warnings ELSE warnings + 1
  /\ Return(w, "queued")
  /\ hit' = TRUE
  /\ UNCHANGED <<main, rss, vanished, life, nofile>>

\* if !*guard { warn!(..) .. }; else the guard is dropped by return None
TestHit(w) ==
  /\ At(w, "test")
  /\ \/ /\ ~hit
        /\ warnings' = warnings + 1
        /\ GoTo(w, "set")
        /\ UNCHANGED guard
     \/ /\ hit
        /\ guard' = NoWorker
        /\ Return(w, "limit")
        /\ UNCHANGED warnings
  /\ UNCHANGED <<main, rss, hit, vanished, life, nofile>>

SetHit(w) ==
  /\ At(w, "set")
  /\ hit' = TRUE
  /\ guard' = NoWorker
  /\ Return(w, "limit")
  /\ UNCHANGED <<main, rss, warnings, vanished, life, nofile>>

\* get_process_info reads cmdline: empty for a zombie, which is an error, and
\* so for a process in the middle of an exec.
ReadCmdline(w) ==
  /\ At(w, "cmdline")
  /\ \/ OpenFails(w) /\ Return(w, "emfile")
     \/ /\ OpenSucceeds(w)
        /\ \/ life[task[w]] = "alive" /\ GoTo(w, "status")
           \/ Return(w, "gone")
  /\ UNCHANGED <<main, rss, guard, hit, warnings, vanished, life, nofile>>

\* status: a zombie has no vmpte, and the expect panics.
ReadStatus(w) ==
  /\ At(w, "status")
  /\ \/ OpenFails(w) /\ Return(w, "emfile") /\ UNCHANGED main
     \/ /\ OpenSucceeds(w)
        /\ \/ life[task[w]] = "alive" /\ GoTo(w, "pagemap") /\ UNCHANGED main
           \/ life[task[w]] = "zombie" /\ Panic("vmpte")
           \/ life[task[w]] = "gone" /\ Return(w, "gone") /\ UNCHANGED main
  /\ UNCHANGED <<rss, guard, hit, warnings, vanished, life, nofile>>

\* fd_count, then the open of pagemap, which stays open
OpenPagemap(w) ==
  /\ At(w, "pagemap")
  /\ \/ OpenFails(w) /\ Return(w, "emfile")
     \/ /\ OpenSucceeds(w)
        /\ \/ life[task[w]] # "gone" /\ GoTo(w, "walk")
           \/ life[task[w]] = "gone" /\ Return(w, "gone")
  /\ UNCHANGED <<main, rss, guard, hit, warnings, vanished, life, nofile>>

\* maps, the pages of every map, and the sets built from them
Walk(w) ==
  /\ At(w, "walk")
  /\ \/ OpenFails(w) /\ Return(w, "emfile") /\ UNCHANGED rss
     \/ /\ OpenSucceeds(w)
        /\ \/ /\ life[task[w]] # "gone"
              /\ rss' \in rss .. rss + MaxCost
              /\ GoTo(w, "environ")
           \/ /\ life[task[w]] = "gone"
              /\ Return(w, "gone")
              /\ UNCHANGED rss
  /\ UNCHANGED <<main, guard, hit, warnings, vanished, life, nofile>>

\* The second status, and environ.  On an error the sets are freed; the
\* allocator gives what it wants of them back to the kernel.
ReadEnviron(w) ==
  /\ At(w, "environ")
  /\ \/ /\ OpenSucceeds(w) /\ life[task[w]] # "gone"
        /\ Return(w, "ok")
        /\ UNCHANGED rss
     \/ /\ \/ OpenFails(w) /\ Return(w, "emfile")
           \/ life[task[w]] # "alive" /\ Return(w, "gone")
        /\ rss' \in BaseRss .. rss
        /\ rss - rss' <= MaxCost
  /\ UNCHANGED <<main, guard, hit, warnings, vanished, life, nofile>>

\* .collect() returns once the pool is done, and the number of processes
\* that "vanished" is computed (memstats.rs:667).
Collect ==
  /\ main = "scan"
  /\ Queued = {}
  /\ \A w \in Workers : stage[w] = "idle"
  /\ main' = "collected"
  /\ vanished' = Cardinality(Pids) - Cardinality(Results)
  /\ UNCHANGED <<stage, task, outcome, rss, guard, hit, warnings, life, nofile>>

\* finalize, after the reports
Finalize ==
  /\ main = "collected"
  /\ main' = "done"
  /\ warnings' = IF hit THEN warnings + 1 ELSE warnings
  /\ UNCHANGED <<stage, task, outcome, rss, guard, hit, vanished, life, nofile>>

\* The kernel: a process exits, and is reaped by its parent.
Exit(p) ==
  /\ p # Self
  /\ \/ life[p] = "alive" /\ life' = [life EXCEPT ![p] = "zombie"]
     \/ life[p] = "zombie" /\ life' = [life EXCEPT ![p] = "gone"]
  /\ UNCHANGED <<main, stage, task, outcome, rss, guard, hit, warnings, vanished, nofile>>

Scan(w) == \/ ReadCmdline(w) \/ ReadStatus(w) \/ OpenPagemap(w)
           \/ Walk(w) \/ ReadEnviron(w)

Worker(w) == \/ Take(w) \/ ReadRss(w)
             \/ LockHit(w) \/ TestHit(w) \/ SetHit(w)
             \/ Scan(w)

Ended == main \in {"done", "unwrap", "vmpte"}

Next == \/ \E w \in Workers : Worker(w)
        \/ Collect
        \/ Finalize
        \/ \E p \in Pids : Exit(p)
        \/ Ended /\ UNCHANGED vars

\* The kernel runs every thread of the pool and the main thread; it owes no
\* process its death.
Fairness == /\ \A w \in Workers : WF_vars(Worker(w))
            /\ WF_vars(Collect) /\ WF_vars(Finalize)

Spec == Init /\ [][Next]_vars /\ Fairness

-----------------------------------------------------------------------------

\* Types.  A worker holds a process exactly while it is not idle, and that
\* process is "taken".
TypeOK ==
  /\ main \in {"scan", "collected", "done", "unwrap", "vmpte"}
  /\ stage \in [Workers -> Stages]
  /\ task \in [Workers -> Pids \cup {NoPid}]
  /\ outcome \in [Pids -> Outcomes]
  /\ rss \in Nat
  /\ guard \in Workers \cup {NoWorker}
  /\ hit \in BOOLEAN
  /\ warnings \in Nat
  /\ vanished \in Nat
  /\ life \in [Pids -> {"alive", "zombie", "gone"}]
  /\ nofile \in FdLimits
  /\ \A w \in Workers : stage[w] # "idle" => task[w] \in Pids /\ outcome[task[w]] = "taken"

\* The limit is tested before a process is scanned, by threads that do not
\* see what the others are about to allocate: memstats may exceed
\* --mem-limit, by one ProcessInfo for each thread and no more
\* (memstats.rs:643-658).
Cap == IF MemLimit >= BaseRss THEN MemLimit ELSE BaseRss

OvershootBound == rss <= Cap + MaxCost * Cardinality(Workers)

\* Workers that found the limit was not reached and have allocated nothing yet
Passed == {w \in Workers : stage[w] \in {"cmdline", "status", "pagemap", "walk"}}

\* Whatever the number of threads that meet the limit at the same time, the
\* scan warns once, the final warning follows, and both are given exactly
\* when some process was left out because of the limit (memstats.rs:646-653,
\* 778).
LimitReported ==
  main \in {"collected", "done"} =>
    LET skipped == \E p \in Pids : outcome[p] = "limit"
    IN  /\ hit = skipped
        /\ warnings = IF ~skipped THEN 0 ELSE IF main = "collected" THEN 1 ELSE 2

\* With room in the table of open files for the list, and for two files per
\* thread, no process is lost for want of a descriptor, and the unwrap of
\* memstats.rs:643 never fails; with one descriptor less both can happen.
EnoughFds == nofile >= BaseFds + Cardinality(Pids) + 2 * Cardinality(Workers)

FdsSuffice == EnoughFds => /\ main # "unwrap"
                           /\ \A p \in Pids : outcome[p] # "emfile"

\* The scan ends, with its reports or with a panic.
Terminates == <>Ended

\* The scan implements the census.
Verdict == [p \in Pids |-> IF outcome[p] \in {"queued", "taken"} THEN "pending"
                           ELSE IF outcome[p] = "ok" THEN "in" ELSE "out"]

Phase == IF main = "scan" THEN "open"
         ELSE IF main \in {"collected", "done"} THEN "closed" ELSE "abandoned"

\* The count that is shown is computed at the end, from two lengths.
Rejected == {p \in Pids : Verdict[p] = "out"}

Missing == IF main \in {"collected", "done"} THEN vanished ELSE Cardinality(Rejected)

census == INSTANCE Census WITH verdict <- Verdict, phase <- Phase, missing <- Missing

ImplementsCensus == census!Spec

=============================================================================
