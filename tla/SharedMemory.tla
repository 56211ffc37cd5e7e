---------------------------- MODULE SharedMemory ----------------------------
(***************************************************************************)
(* The System V shared memory part of memstats: shm2pfns                   *)
(* (src/lib.rs:213-321), which attaches a segment, reads it and looks up   *)
(* its frames; the two passes of main over all segments and the table it   *)
(* shows (src/bin/memstats.rs:323-421); and what get_process_info makes of *)
(* a map of shared memory (src/lib.rs:604-622).                            *)
(*                                                                         *)
(* Segments are created, removed, attached and detached by other processes *)
(* and their pages move meanwhile.  A segment removed while it is attached *)
(* lives on without its key until the last process detaches it; the maps   *)
(* of those processes keep showing the key it was made with.               *)
(*                                                                         *)
(* Reading all the pages of a segment is one step, and so is looking them  *)
(* all up: each page is read and looked up once, and what happens to one   *)
(* page does not depend on the others.                                     *)
(***************************************************************************)
EXTENDS Integers, FiniteSets, FiniteSetsExt

CONSTANTS
  Segs,       \* segments, by shmid, which the kernel does not use again
  Private,    \* those made without a key (IPC_PRIVATE)
  Size,       \* their numbers of pages
  Procs,      \* processes, memstats among them
  Self,       \* memstats
  Instances,  \* the processes of Oracle instances (smon) found before
  NoSeg,
  Starts,     \* what processes may have attached when memstats starts
  MaxEvents   \* bound on what the others do, and on calls that fail

ASSUME ShmAssumption ==
  /\ IsFiniteSet(Segs) /\ IsFiniteSet(Procs)
  /\ Private \subseteq Segs /\ Size \in [Segs -> Nat \ {0}]
  /\ Self \in Procs /\ Instances \subseteq Procs \ {Self}
  /\ Starts \subseteq SUBSET ((Procs \ {Self}) \X Segs)
  /\ NoSeg \notin Segs /\ MaxEvents \in Nat

VARIABLES
  \* the machine
  seg,       \* of each segment: "absent", "live", "marked" (removed), "gone"
  page,      \* of each of its pages: "none", "mem" or "swap"
  att,       \* who has attached what
  life,      \* of each process: "alive", "zombie", "gone"
  events,    \* how much happened
  \* histories
  calm,      \* segments whose pages memstats can read, and none left memory
  steady,    \* attachments since the start, of segments that kept their key
  ever,      \* all attachments of processes other than memstats
  execed,    \* processes that replaced their image with exec
  failed,    \* some call of shm2pfns failed after shmat
  \* memstats
  force,     \* --force-read-shm
  pc,        \* where main is, or how it ended
  listing,   \* SharedMemorySegments::current(): key, rss and swap of each
  todo,      \* segments of the listing not scanned yet
  current,   \* the segment shm2pfns has attached
  table,     \* of its pages, those in the page table of memstats
  meta,      \* shms_metadata: key, rss, swap and pages of each segment
  rows,      \* segments and instances not looked up yet for the table
  sids       \* the instances shown with each segment

machine == <<seg, page, att, life, events, calm, steady, ever, execed>>
shmvars == <<seg, page, att, life, events, calm, steady, ever, execed, failed,
             force, pc, listing, todo, current, table, meta, rows, sids>>

-----------------------------------------------------------------------------

Page == UNION {{s} \X (1 .. Size[s]) : s \in Segs}
PagesOf(s) == {g \in Page : g[1] = s}
Unread == -1

Exists(s) == seg[s] \in {"live", "marked"}

\* The key in the listing, and the one in the name of a map ("/SYSV...")
ListedKey(s) == IF s \in Private \/ seg[s] = "marked" THEN "private" ELSE "key"
MapKey(s) == IF s \in Private THEN "private" ELSE "key"

Count(s, where) == Cardinality({g \in PagesOf(s) : page[g] = where})

Listing == [s \in {s \in Segs : Exists(s)} |->
              [key |-> ListedKey(s), rss |-> Count(s, "mem"), swap |-> Count(s, "swap")]]

InitMachine ==
  /\ seg \in [Segs -> {"absent", "live"}]
  /\ page \in [Page -> {"none", "mem", "swap"}]
  /\ \A g \in Page : seg[g[1]] = "absent" => page[g] = "none"
  /\ att \in Starts /\ \A a \in att : seg[a[2]] = "live"
  /\ life = [p \in Procs |-> "alive"]
  /\ events = 0
  /\ calm = {s \in Segs : seg[s] = "live" /\ (force \/ Count(s, "swap") = 0)}
  /\ steady = att /\ ever = att /\ execed = {}

Init ==
  /\ force \in BOOLEAN
  /\ InitMachine
  /\ failed = FALSE
  /\ pc = "list1"
  /\ listing = <<>> /\ todo = {} /\ current = NoSeg /\ table = {}
  /\ meta = <<>> /\ rows = {} /\ sids = {}

-----------------------------------------------------------------------------
(* The machine *)

Event == events < MaxEvents /\ events' = events + 1

\* A removed segment is destroyed with its last attachment.
Release(marked, attached) ==
  /\ att' = attached
  /\ seg' = [s \in Segs |-> IF s \in marked /\ attached \cap (Procs \X {s}) = {}
                            THEN "gone" ELSE IF s \in marked THEN "marked" ELSE seg[s]]
  /\ page' = [g \in Page |-> IF seg'[g[1]] = "gone" THEN "none" ELSE page[g]]

Marked == {s \in Segs : seg[s] = "marked"}

Create(s) == /\ Event /\ seg[s] = "absent"
             /\ seg' = [seg EXCEPT ![s] = "live"]
             /\ UNCHANGED <<page, att, life, calm, steady, ever, execed, table>>

\* IPC_RMID: the key is gone at once.
Remove(s) == /\ Event /\ seg[s] = "live"
             /\ Release(Marked \cup {s}, att)
             /\ steady' = {a \in steady : a[2] # s \/ s \in Private}
             /\ UNCHANGED <<life, calm, ever, execed, table>>

AttachTo(p, s) == /\ Event /\ Exists(s) /\ p # Self /\ life[p] = "alive" /\ <<p, s>> \notin att
                  /\ att' = att \cup {<<p, s>>}
                  /\ ever' = ever \cup {<<p, s>>}
                  /\ UNCHANGED <<seg, page, life, calm, steady, execed, table>>

DetachFrom(p, s) == /\ Event /\ p # Self /\ <<p, s>> \in att
                    /\ Release(Marked, att \ {<<p, s>>})
                    /\ steady' = steady \ {<<p, s>>}
                    /\ UNCHANGED <<life, calm, ever, execed, table>>

\* Pages are followed as long as something reads them.
Followed == pc \in {"list1", "pass1", "pass2"}

Touch(g) == /\ Event /\ Followed /\ Exists(g[1]) /\ page[g] # "mem"
            /\ page' = [page EXCEPT ![g] = "mem"]
            /\ UNCHANGED <<seg, att, life, calm, steady, ever, execed, table>>

\* A page that is swapped out leaves every page table, that of memstats too.
SwapOut(g) == /\ Event /\ Followed /\ page[g] = "mem"
              /\ page' = [page EXCEPT ![g] = "swap"]
              /\ table' = table \ {g}
              /\ calm' = calm \ {g[1]}
              /\ UNCHANGED <<seg, att, life, steady, ever, execed>>

\* A process exits, which detaches everything, and is reaped by its parent.
Exit(p) == /\ Event /\ p # Self
           /\ \/ life[p] = "alive" /\ life' = [life EXCEPT ![p] = "zombie"]
              \/ life[p] = "zombie" /\ life' = [life EXCEPT ![p] = "gone"]
           /\ Release(Marked, {a \in att : a[1] # p})
           /\ steady' = {a \in steady : a[1] # p}
           /\ UNCHANGED <<calm, ever, execed, table>>

\* So does an exec.
Exec(p) == /\ Event /\ p # Self /\ life[p] = "alive"
           /\ execed' = execed \cup {p}
           /\ Release(Marked, {a \in att : a[1] # p})
           /\ steady' = {a \in steady : a[1] # p}
           /\ UNCHANGED <<life, calm, ever, table>>

Machine ==
  /\ \/ \E s \in Segs : Create(s) \/ Remove(s)
     \/ \E p \in Procs, s \in Segs : AttachTo(p, s) \/ DetachFrom(p, s)
     \/ \E g \in Page : Touch(g) \/ SwapOut(g)
     \/ \E p \in Procs : Exit(p) \/ Exec(p)
  /\ UNCHANGED <<failed, force, pc, listing, todo, current, meta, rows, sids>>

-----------------------------------------------------------------------------
(* shm2pfns, and the two passes *)

Passes == {"pass1", "pass2"}

\* Mutant: the dummy scan is left out
ListWithoutDummy ==
  /\ pc = "list1"
  /\ pc' = "pass2"
  /\ listing' = Listing /\ todo' = DOMAIN Listing
  /\ UNCHANGED <<machine, failed, force, current, table, meta, rows, sids>>

ListSegments ==
  /\ \/ pc = "list1" /\ pc' = "pass1"
     \/ pc = "pass1" /\ todo = {} /\ current = NoSeg /\ pc' = "pass2"
  /\ listing' = Listing /\ todo' = DOMAIN Listing
  /\ UNCHANGED <<machine, failed, force, current, table, meta, rows, sids>>

\* let must_read = shm.swap == 0 || force_read, by what the listing said
MustRead(s) == listing[s].swap = 0 \/ force

\* shmat, then a read of every page, unless that would load swap
Shmat(s) ==
  /\ pc \in Passes /\ current = NoSeg /\ s \in todo
  /\ Exists(s)
  /\ att' = att \cup {<<Self, s>>}
  /\ current' = s
  /\ IF MustRead(s)
     THEN /\ page' = [g \in Page |-> IF g[1] = s THEN "mem" ELSE page[g]]
          /\ table' = PagesOf(s)
     ELSE table' = {} /\ UNCHANGED page
  /\ UNCHANGED <<seg, life, events, calm, steady, ever, execed, failed,
                 force, pc, listing, todo, meta, rows, sids>>

\* The first pass unwraps the error; the second warns and goes on.
PassOn(s) == /\ IF pc = "pass1" THEN pc' = "shmpanic" ELSE UNCHANGED pc
             /\ todo' = todo \ {s} /\ current' = NoSeg /\ table' = {}
             /\ UNCHANGED <<force, listing, meta, rows, sids>>

\* Mutant: a segment in swap is an error too, not None
ShmatFailsOnSwap(s) ==
  /\ pc \in Passes /\ current = NoSeg /\ s \in todo
  /\ ~Exists(s) \/ ~MustRead(s)
  /\ PassOn(s)
  /\ UNCHANGED <<machine, failed>>

ShmatFails(s) ==
  /\ pc \in Passes /\ current = NoSeg /\ s \in todo
  /\ ~Exists(s)
  /\ PassOn(s)
  /\ UNCHANGED <<machine, failed>>

\* Mutant: the second pass keeps what it could not scan
LookUpFailsKeeping ==
  /\ pc \in Passes /\ current # NoSeg
  /\ Event
  /\ failed' = TRUE
  /\ IF pc = "pass1" THEN pc' = "shmpanic" /\ UNCHANGED meta
     ELSE /\ UNCHANGED pc
          /\ meta' = [s \in DOMAIN meta \cup {current} |->
                        IF s = current THEN [key |-> listing[s].key, rss |-> listing[s].rss,
                                             swap |-> listing[s].swap, pages |-> Unread]
                        ELSE meta[s]]
  /\ todo' = todo \ {current} /\ current' = NoSeg /\ table' = {}
  /\ UNCHANGED <<seg, page, att, life, calm, steady, ever, execed, force, listing, rows, sids>>

\* One of the ? between shmat and shmdt returns (no file can be opened, or
\* read), and the segment stays attached.
LookUpFails ==
  /\ pc \in Passes /\ current # NoSeg
  /\ Event
  /\ failed' = TRUE
  /\ PassOn(current)
  /\ UNCHANGED <<seg, page, att, life, calm, steady, ever, execed>>

\* The frames of the pages in the page table, and shmdt.  A page that is not
\* there reads as frame 0, which is not in RAM and not counted.
LookUp ==
  /\ pc \in Passes /\ current # NoSeg
  /\ meta' = IF pc = "pass1" THEN meta
             ELSE [s \in DOMAIN meta \cup {current} |->
                     IF s = current
                     THEN [key |-> listing[s].key, rss |-> listing[s].rss, swap |-> listing[s].swap,
                           pages |-> IF MustRead(s) THEN Cardinality(table) ELSE Unread]
                     ELSE meta[s]]
  /\ Release(Marked, att \ {<<Self, current>>})
  /\ todo' = todo \ {current} /\ current' = NoSeg /\ table' = {}
  /\ UNCHANGED <<life, events, calm, steady, ever, execed, failed, force, pc, listing, rows, sids>>

-----------------------------------------------------------------------------
(* get_process_info, as far as shared memory goes *)

\* Mutant: a map is looked up by its key alone
ReferencesByKey(p) ==
  {s \in DOMAIN meta : \E t \in Segs : <<p, t>> \in att /\ meta[s].key = MapKey(t)}

\* A map "/SYSV<key>" of inode shmid refers to the listed segment that has both.
References(p) == {s \in DOMAIN meta : <<p, s>> \in att /\ meta[s].key = MapKey(s)}

\* A call for p returns result, and refs if that is "ok".  The process may
\* exit or exec in the middle (module ProcessInfo): before or after its maps
\* are read, or, with an exit, between cmdline and status, which is a panic.
\* The cmdline of one that execs reads empty for a while, which is an error.
Inspect(p, result, refs) ==
  \/ /\ life[p] = "alive"
     /\ result = "ok" /\ refs = References(p)
     /\ UNCHANGED <<machine, table>>
  \/ /\ life[p] = "alive" /\ Exit(p)
     /\ \/ result = "ok" /\ refs \in {References(p), {}}
        \/ result \in {"err", "panic"} /\ refs = {}
  \/ /\ Exec(p)
     /\ result = "ok" /\ refs \in {References(p), {}}
  \/ /\ life[p] # "alive" \/ p \in execed
     /\ result = "err" /\ refs = {}
     /\ UNCHANGED <<machine, table>>

Results == {"ok", "err", "panic"}

StartTable ==
  /\ pc = "pass2" /\ todo = {} /\ current = NoSeg
  /\ pc' = "table"
  /\ rows' = (DOMAIN meta) \X Instances
  /\ listing' = <<>>
  /\ UNCHANGED <<machine, failed, force, todo, current, table, meta, sids>>

\* The sid of an instance is listed with the segments its process refers to;
\* the process is inspected again for every segment.
FindSid(s, i) ==
  /\ pc = "table" /\ <<s, i>> \in rows
  /\ rows' = rows \ {<<s, i>>}
  /\ \E result \in Results, refs \in SUBSET Segs :
       /\ Inspect(i, result, refs)
       /\ sids' = IF s \in refs THEN sids \cup {<<i, s>>} ELSE sids
       /\ pc' = IF result = "panic" THEN "vmpte" ELSE pc
  /\ UNCHANGED <<failed, force, listing, todo, current, meta>>

ShmScan == \/ ListSegments
           \/ \E s \in Segs : Shmat(s) \/ ShmatFails(s)
           \/ LookUpFails \/ LookUp
           \/ StartTable
           \/ \E s \in Segs, i \in Instances : FindSid(s, i)

=============================================================================
