----------------------------- MODULE ScanSingle -----------------------------
(***************************************************************************)
(* "memstats single" from the scan of shared memory on: the list of        *)
(* processes, and scan_single (src/bin/memstats.rs:548-619), which takes   *)
(* them one after the other in the main thread and adds up the memory they *)
(* refer to.  Unlike scan_groups it stops at the first process it meets    *)
(* over the memory limit, scans memstats too, and counts the processes it  *)
(* lost one by one.                                                        *)
(*                                                                         *)
(* The frames of the processes are left out (module ProcessInfo): a set of *)
(* them is extended with those of each process, like the one of segments.  *)
(***************************************************************************)
EXTENDS SharedMemory

CONSTANTS
  Accepted,  \* sets of processes --filter may accept
  Rooms      \* descriptors that may be left once the list and memstats' own
             \* directory are open

ASSUME SingleAssumption == Accepted \subseteq SUBSET Procs /\ Rooms \subseteq Nat

VARIABLES
  room,        \* free descriptors once the list is open
  list,        \* the processes to scan
  queue,       \* those of them not taken yet
  scanned,     \* those whose information was obtained
  lost,        \* those get_process_info failed for, which "vanished" counts
  referenced,  \* referenced_shm: segments of shms_metadata
  hit,         \* hit_memory_limit
  report       \* shm mem and shm swap, as shown

singlevars == <<room, list, queue, scanned, lost, referenced, hit, report>>
vars == <<shmvars, singlevars>>

-----------------------------------------------------------------------------

NoReport == [mem |-> 0, swap |-> 0]

InitSingle ==
  /\ Init
  /\ room = 0 /\ list = {} /\ queue = {} /\ scanned = {} /\ lost = {}
  /\ referenced = {} /\ hit = FALSE /\ report = NoReport

\* The processes in /proc without those whose cmdline reads empty: they left
\* or are in the middle of an exec.  A filter that leaves nobody ends memstats
\* (memstats.rs:475-479).
ListProcesses ==
  /\ pc = "table" /\ rows = {}
  /\ \E accepted \in Accepted, unready \in SUBSET execed :
       list' = {p \in accepted \ unready : life[p] = "alive"}
  /\ queue' = list' /\ room' \in Rooms
  /\ pc' = IF list' = {} THEN "excluded" ELSE "single"
  /\ UNCHANGED <<machine, failed, force, listing, todo, current, table, meta, rows, sids,
                 scanned, lost, referenced, hit, report>>

\* exit(1): /proc/<pid> of a process cannot be opened, for another reason than
\* its end, such as a table of open files that is full (memstats.rs:441-444);
\* or the unwrap of 510 for the directory of memstats itself.
FailToList ==
  /\ pc = "table" /\ rows = {}
  /\ pc' = "nolist"
  /\ UNCHANGED <<machine, failed, force, listing, todo, current, table, meta, rows, sids, singlevars>>

\* Every Process of the list holds its directory open until it was scanned.
Free == room + Cardinality(list \ queue)

\* status().unwrap() without a descriptor
NoStatus ==
  /\ pc = "single" /\ queue # {} /\ Free = 0
  /\ pc' = "fdpanic"
  /\ UNCHANGED <<machine, failed, force, listing, todo, current, table, meta, rows, sids, singlevars>>

\* my_rss > mem_limit, for a VmRSS that depends on what was scanned
HitLimit ==
  /\ pc = "single" /\ queue # {} /\ Free > 0
  /\ hit' = TRUE
  /\ pc' = "report"
  /\ UNCHANGED <<machine, failed, force, listing, todo, current, table, meta, rows, sids,
                 room, list, queue, scanned, lost, referenced, report>>

\* Mutant: an error ends the loop
ScanStopping(p) ==
  /\ pc = "single" /\ p \in queue /\ Free > 0
  /\ queue' = queue \ {p}
  /\ \E result \in Results, refs \in SUBSET Segs :
       /\ Inspect(p, result, refs)
       /\ pc' = IF result = "panic" THEN "vmpte" ELSE IF result = "err" THEN "report" ELSE pc
       /\ scanned' = IF result = "ok" THEN scanned \cup {p} ELSE scanned
       /\ lost' = IF result = "err" THEN lost \cup {p} ELSE lost
       /\ referenced' = referenced \cup refs
  /\ UNCHANGED <<failed, force, listing, todo, current, meta, rows, sids, room, list, hit, report>>

\* The body of the loop.  pagemap stays open while maps is read, so that one
\* descriptor is not enough.
Scan(p) ==
  /\ pc = "single" /\ p \in queue /\ Free > 0
  /\ queue' = queue \ {p}
  /\ \E result \in Results, refs \in SUBSET Segs :
       /\ \/ Inspect(p, result, refs) /\ (result = "ok" => Free > 1)
          \/ Free = 1 /\ result = "err" /\ refs = {} /\ UNCHANGED <<machine, table>>
       /\ pc' = IF result = "panic" THEN "vmpte" ELSE pc
       /\ scanned' = IF result = "ok" THEN scanned \cup {p} ELSE scanned
       /\ lost' = IF result = "err" THEN lost \cup {p} ELSE lost
       /\ referenced' = referenced \cup refs
  /\ UNCHANGED <<failed, force, listing, todo, current, meta, rows, sids, room, list, hit, report>>

Total(segs, field) == MapThenSumSet(LAMBDA s : meta[s][field], segs)

LoopEnded == pc = "report" \/ (pc = "single" /\ queue = {})

\* Mutant: every process adds the segments it refers to
ReportSums ==
  /\ LoopEnded
  /\ pc' = "done"
  /\ report' = [mem |-> MapThenSumSet(LAMBDA p : Total(References(p), "rss"), scanned),
                swap |-> Total(referenced, "swap")]
  /\ UNCHANGED <<machine, failed, force, listing, todo, current, table, meta, rows, sids,
                 room, list, queue, scanned, lost, referenced, hit>>

\* The statistics, and finalize, which warns if the limit was hit
Report ==
  /\ LoopEnded
  /\ pc' = "done"
  /\ report' = [mem |-> Total(referenced, "rss"), swap |-> Total(referenced, "swap")]
  /\ UNCHANGED <<machine, failed, force, listing, todo, current, table, meta, rows, sids,
                 room, list, queue, scanned, lost, referenced, hit>>

Ended == pc \in {"done", "nolist", "excluded", "shmpanic", "vmpte", "fdpanic"}

Main == \/ ShmScan /\ UNCHANGED singlevars
        \/ ListProcesses \/ FailToList
        \/ NoStatus \/ HitLimit
        \/ \E p \in Procs : Scan(p)
        \/ Report

\* Nothing happens to memstats after its end.
Next == \/ Main
        \/ ~Ended /\ Machine /\ UNCHANGED singlevars
        \/ Ended /\ UNCHANGED vars

Spec == InitSingle /\ [][Next]_vars

-----------------------------------------------------------------------------

TypeOK ==
  /\ seg \in [Segs -> {"absent", "live", "marked", "gone"}]
  /\ page \in [Page -> {"none", "mem", "swap"}]
  /\ att \subseteq Procs \X Segs /\ steady \subseteq ever /\ ever \subseteq Procs \X Segs
  /\ life \in [Procs -> {"alive", "zombie", "gone"}] /\ execed \subseteq Procs
  /\ events \in 0 .. MaxEvents
  /\ calm \subseteq Segs /\ failed \in BOOLEAN /\ force \in BOOLEAN
  /\ pc \in {"list1", "pass1", "pass2", "table", "single", "report",
             "done", "nolist", "excluded", "shmpanic", "vmpte", "fdpanic"}
  /\ DOMAIN listing \subseteq Segs /\ todo \subseteq DOMAIN listing
  /\ current \in todo \cup {NoSeg} /\ table \subseteq Page
  /\ DOMAIN meta \subseteq Segs
  /\ rows \subseteq Segs \X Instances /\ sids \subseteq Instances \X Segs
  /\ room \in Nat /\ list \subseteq Procs /\ queue \subseteq list
  /\ scanned \subseteq list /\ lost \subseteq list /\ referenced \subseteq DOMAIN meta
  /\ hit \in BOOLEAN

\* "dummy scan shm so rss is in sync with number of pages" (memstats.rs:329):
\* of a segment that was there from the start, could be read, and lost no
\* page to swap, the table shows as many pages as its rss says, although
\* both were obtained at different moments, and all its pages.
RssInSync ==
  \A s \in calm \cap DOMAIN meta : meta[s].pages = meta[s].rss /\ meta[s].rss = Size[s]

\* memstats only panics over shared memory when a segment it had just listed
\* was removed and let go by all others, or a call failed after shmat
\* (memstats.rs:330); and over a process only when that process exits.
OnlyDeparturesPanic ==
  /\ pc = "shmpanic" => failed \/ \E s \in DOMAIN listing : seg[s] = "gone"
  /\ pc = "vmpte" => \E p \in Procs : life[p] # "alive"

\* A segment is shown with an instance, or counted, exactly when a process
\* refers to it: always if the process has it attached from the start and
\* the segment keeps its key, never if nobody inspected ever had it
\* (lib.rs:604-622).  A segment whose scan failed is not in the table at all.
ReferencesExact ==
  /\ \A s \in DOMAIN meta, p \in scanned : <<p, s>> \in steady => s \in referenced
  /\ \A s \in referenced : \E p \in scanned : <<p, s>> \in ever
  /\ pc = "single" => \A s \in DOMAIN meta, i \in Instances : <<i, s>> \in steady => <<i, s>> \in sids
  /\ sids \subseteq ever

\* A segment that memstats could not look up stays attached to memstats
\* (lib.rs:261-275), which is a process of the list it scans: it must not
\* count as referenced for that alone.  It is in no total.
LeaksUncounted ==
  \A s \in Segs : <<Self, s>> \in att /\ current = NoSeg /\ pc # "shmpanic"
                   => failed /\ s \notin DOMAIN meta

\* A process counts as vanished only if it exited, or was met in an exec,
\* provided that two descriptors were left; and a process is neither scanned
\* nor vanished only if the limit was hit, which is then reported
\* (memstats.rs:572-592).
VanishedExact ==
  pc = "done" =>
    /\ lost \cap scanned = {}
    /\ room >= 2 => \A p \in lost : life[p] # "alive" \/ p \in execed
    /\ list # scanned \cup lost => hit

\* Every segment counts once, however many processes refer to it: the total
\* is at most that of the table, and at least that of the segments that
\* scanned processes kept attached.
TotalsBounded ==
  pc = "done" =>
    LET kept == {s \in DOMAIN meta : \E p \in scanned : <<p, s>> \in steady}
    IN  /\ Total(kept, "rss") <= report.mem /\ report.mem <= Total(DOMAIN meta, "rss")
        /\ Total(kept, "swap") <= report.swap /\ report.swap <= Total(DOMAIN meta, "swap")

=============================================================================
