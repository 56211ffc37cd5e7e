-------------------------------- MODULE Snap --------------------------------
(***************************************************************************)
(* snap.py run <dump_dir>: the files of /proc are copied to a directory,   *)
(* process after process, the directory is made into an archive and        *)
(* removed.  Meanwhile processes start, exit and are reaped, and shared    *)
(* memory segments are created, mapped and removed.  snap.py ends early on *)
(* an exception nothing catches, when tar fails, or when it is killed, and *)
(* is then run again with the same arguments, after the user has cleaned   *)
(* up or not.                                                              *)
(*                                                                         *)
(* Any exception while one process is copied is caught, with a warning,    *)
(* and the run goes on: for a process that left, but for one that is there *)
(* too, when the disk is full or a name in its maps is not UTF-8.          *)
(*                                                                         *)
(* Of a process, the pagemap, the mandatory files and the segments it maps *)
(* are told apart; the directory of snap.py itself (/proc/self), which     *)
(* cannot vanish, sizes and the mode "test" are left out.                  *)
(***************************************************************************)
EXTENDS Integers, FiniteSets

CONSTANTS
  Pids, Segs,  \* processes and shared memory segments
  Half,        \* 2^31: keys have 32 bits
  Key,         \* the key of each segment as maps shows it, without a sign
  NFiles,      \* mandatory files of a process: cmdline, maps, ...
  MaxEvents,   \* how much processes, users of segments and the disk may do
  MaxRuns,     \* how often snap.py is run
  None

\* A directory of dump_dir, and an archive of them, with what history tells of it
Dirs == [pagemap : {"none", "cut", "whole"}, files : 0..NFiles, run : 1..MaxRuns]

Archives == [run : 1..MaxRuns, whole : BOOLEAN, dirs : [Pids -> Dirs \cup {None}],
             pids : UNION {[set -> SUBSET Pids] : set \in SUBSET Segs},
             steady : SUBSET Pids, kept : SUBSET (Pids \X Segs),
             failed : SUBSET Pids, stuck : SUBSET Pids]

ASSUME SnapAssumption ==
  /\ Half \in Nat \ {0} /\ Key \in [Segs -> 0 .. 2 * Half - 1]
  /\ NFiles \in Nat \ {0} /\ MaxEvents \in Nat /\ MaxRuns \in Nat
  /\ None \notin Pids \cup Dirs \cup Archives

VARIABLES
  \* the machine
  life,      \* absent, alive, zombie, gone
  maps,      \* the segments each process maps
  seg,       \* absent, present, or removed: IPC_RMID, and gone with its last user
  steady,    \* history: processes that live since the run began
  kept,      \* history: mappings <<p, s>> that exist since the run began
  seekable,  \* the file system takes the offset of the vsyscall page
  events,
  failed,    \* history: processes a copy of which raised although they were there
  stuck,     \* history: processes whose directory could not be removed
  \* the disk
  started,   \* dump_dir is not empty
  dump,      \* the directory of each process in it, or None
  archive,   \* dump_dir.tar.gz, or None
  \* snap.py
  run, pc,
  toAttach,  \* segments of the list not attached yet
  attached,
  pids,      \* metadata['shm'], from segments to processes
  keys,      \* the keys it has them under
  queue,     \* processes of the glob not handled yet
  pid,       \* the process handled
  refs       \* its shm_refs

machine == <<life, maps, seg, steady, kept, seekable>>
faults == <<events, failed, stuck>>
disk == <<started, dump, archive>>
lists == <<toAttach, attached, pids, keys>>
local == <<lists, queue, pid, refs>>
vars == <<machine, faults, disk, run, pc, local>>

Empty == [p \in Pids |-> None]

Init ==
  /\ life \in [Pids -> {"absent", "alive"}]
  /\ seg \in [Segs -> {"absent", "present", "removed"}]
  /\ maps \in [Pids -> SUBSET {s \in Segs : seg[s] # "absent"}]
  /\ \A p \in Pids : life[p] = "absent" => maps[p] = {}
  /\ steady = {} /\ kept = {} /\ seekable \in BOOLEAN
  /\ events = 0 /\ failed = {} /\ stuck = {}
  /\ started = FALSE /\ dump = Empty /\ archive = None
  /\ run = 0 /\ pc = "ended"
  /\ toAttach = {} /\ attached = {} /\ pids = <<>> /\ keys = <<>>
  /\ queue = {} /\ pid = None /\ refs = {}

-----------------------------------------------------------------------------
(* Processes, segments, and the user *)

Event == /\ events < MaxEvents /\ events' = events + 1
         /\ UNCHANGED <<failed, stuck, seekable, disk, run, pc, local>>

Appear(p) == /\ Event /\ life[p] = "absent"
             /\ life' = [life EXCEPT ![p] = "alive"]
             /\ UNCHANGED <<maps, seg, steady, kept>>

\* A process exits, which ends its mappings, and is reaped.
Leave(p) == /\ Event /\ life[p] \in {"alive", "zombie"}
            /\ life' = [life EXCEPT ![p] = IF @ = "alive" THEN "zombie" ELSE "gone"]
            /\ maps' = [maps EXCEPT ![p] = {}]
            /\ steady' = steady \ {p} /\ kept' = {m \in kept : m[1] # p}
            /\ UNCHANGED seg

\* A segment that was removed is there as long as somebody has it attached.
Existing == {s \in Segs : \/ seg[s] = "present"
                          \/ seg[s] = "removed" /\ \E p \in Pids : s \in maps[p]
                          \/ seg[s] = "removed" /\ s \in attached}

\* shmget of a new segment, and shmat, which a segment that was removed still allows
Map(p, s) == /\ Event /\ life[p] = "alive" /\ s \notin maps[p]
             /\ \/ seg[s] = "absent" /\ seg' = [seg EXCEPT ![s] = "present"]
                \/ s \in Existing /\ UNCHANGED seg
             /\ maps' = [maps EXCEPT ![p] = @ \cup {s}]
             /\ UNCHANGED <<life, steady, kept>>

Unmap(p, s) == /\ Event /\ s \in maps[p]
               /\ maps' = [maps EXCEPT ![p] = @ \ {s}]
               /\ kept' = kept \ {<<p, s>>}
               /\ UNCHANGED <<life, seg, steady>>

\* IPC_RMID
Remove(s) == /\ Event /\ seg[s] = "present"
             /\ seg' = [seg EXCEPT ![s] = "removed"]
             /\ UNCHANGED <<life, maps, steady, kept>>

Machine == \/ \E p \in Pids : Appear(p) \/ Leave(p) \/ \E s \in Segs : Map(p, s) \/ Unmap(p, s)
           \/ \E s \in Segs : Remove(s)

\* Between two runs the user may remove what the last one left.
CleanUp == /\ pc = "ended" /\ run < MaxRuns
           /\ \/ started /\ started' = FALSE /\ dump' = Empty /\ UNCHANGED archive
              \/ archive # None /\ archive' = None /\ UNCHANGED <<started, dump>>
           /\ UNCHANGED <<machine, faults, run, pc, local>>

\* The locals of snap.py, and what it has attached, are gone with it.
End == /\ pc' = "ended" /\ toAttach' = {} /\ attached' = {} /\ pids' = <<>> /\ keys' = <<>>
       /\ queue' = {} /\ pid' = None /\ refs' = {}

\* SIGKILL and Ctrl-C, but for the Ctrl-C that rmtree (348) and readlink (338)
\* swallow; a disk that is full outside of handle_proc_pid's try
Kill == pc # "ended" /\ End /\ UNCHANGED <<machine, faults, disk, run>>

-----------------------------------------------------------------------------
(* snap.py *)

\* Mutant: an archive of that name is overwritten.
StartAnyway ==
  /\ pc = "ended" /\ run < MaxRuns
  /\ run' = run + 1
  /\ IF started
     THEN UNCHANGED <<started, pc, steady, kept, failed, stuck>>
     ELSE /\ started' = TRUE /\ pc' = "kernel"
          /\ steady' = {p \in Pids : life[p] = "alive"}
          /\ kept' = {m \in Pids \X Segs : m[2] \in maps[m[1]]}
          /\ failed' = {} /\ stuck' = {}
  /\ UNCHANGED <<life, maps, seg, seekable, events, dump, archive, local>>

\* The checks before anything is written: no archive, an empty directory
Start ==
  /\ pc = "ended" /\ run < MaxRuns
  /\ run' = run + 1
  /\ IF archive # None \/ started
     THEN UNCHANGED <<started, pc, steady, kept, failed, stuck>>
     ELSE /\ started' = TRUE /\ pc' = "kernel"
          /\ steady' = {p \in Pids : life[p] = "alive"}
          /\ kept' = {m \in Pids \X Segs : m[2] \in maps[m[1]]}
          /\ failed' = {} /\ stuck' = {}
  /\ UNCHANGED <<life, maps, seg, seekable, events, dump, archive, local>>

\* kpagecount, kpageflags and the other files of /proc.  Of a file that this
\* kernel does not have, the warning adds a Path to a str: a TypeError.
CopyKernelFiles ==
  /\ pc = "kernel"
  /\ \/ pc' = "shm" /\ UNCHANGED local
     \/ End
  /\ UNCHANGED <<machine, faults, disk, run>>

\* /proc/sysvipc/shm: keys with a sign, and none of a segment that was removed
Signed(key) == IF key < Half THEN key ELSE key - 2 * Half

ListedKey(s) == IF seg[s] = "removed" THEN 0 ELSE Signed(Key[s])

ListSegments ==
  /\ pc = "shm" /\ pc' = "attach"
  /\ pids' = [s \in Existing |-> {}] /\ keys' = [s \in Existing |-> ListedKey(s)]
  /\ toAttach' = Existing
  /\ UNCHANGED <<machine, faults, disk, run, attached, queue, pid, refs>>

\* Only a warning for a segment that is gone since
Attach(s) ==
  /\ pc = "attach" /\ s \in toAttach
  /\ toAttach' = toAttach \ {s}
  /\ attached' = attached \cup ({s} \cap Existing)
  /\ UNCHANGED <<machine, faults, disk, run, pc, pids, keys, queue, pid, refs>>

\* glob of /proc/[0-9]*, or --skip-processes
ListProcesses ==
  /\ pc = "attach" /\ toAttach = {}
  /\ pc' = "next"
  /\ \/ queue' = {p \in Pids : life[p] \in {"alive", "zombie"}} /\ UNCHANGED <<steady, kept>>
     \/ queue' = {} /\ steady' = {} /\ kept' = {}
  /\ UNCHANGED <<life, maps, seg, seekable, faults, disk, run, lists, pid, refs>>

\* handle_proc_pid: makedirs, then stat, which raises when the process is gone
MakeDir(p) ==
  /\ pc = "next" /\ p \in queue
  /\ dump' = [dump EXCEPT ![p] = [pagemap |-> "none", files |-> 0, run |-> run]]
  /\ IF life[p] = "gone" THEN End
     ELSE pc' = "maps" /\ queue' = queue \ {p} /\ pid' = p /\ UNCHANGED <<lists, refs>>
  /\ UNCHANGED <<machine, faults, started, archive, run>>

\* What a file of a zombie gives depends on the file and on the kernel.
Opens == life[pid] # "gone" /\ UNCHANGED faults
Fails == life[pid] # "alive" /\ UNCHANGED faults

\* Whatever else raises for a process, which may be there: a disk that is full,
\* an I/O error, a name in maps that is not UTF-8
Breaks == /\ events < MaxEvents /\ events' = events + 1
          /\ failed' = failed \cup {pid} /\ UNCHANGED stuck

\* dump_pid_pagemap, in two steps; whatever it raises loses the references.
ReadMaps ==
  /\ pc = "maps"
  /\ \/ Opens /\ refs' = maps[pid] /\ pc' = "pages"
     \/ (Fails \/ Breaks) /\ refs' = {} /\ pc' = "files"
  /\ UNCHANGED <<machine, disk, run, lists, queue, pid>>

ReadPages ==
  /\ pc = "pages" /\ pc' = "files"
  /\ \/ /\ Opens /\ seekable
        /\ dump' = [dump EXCEPT ![pid].pagemap = "whole"]
        /\ UNCHANGED refs
     \/ /\ Opens /\ ~seekable    \* fo.seek raises at the last map, vsyscall
        /\ dump' = [dump EXCEPT ![pid].pagemap = "cut"]
        /\ refs' = {}
     \/ /\ Breaks                \* before or after pagemap is created
        /\ dump' \in {dump, [dump EXCEPT ![pid].pagemap = "cut"]}
        /\ refs' = {}
     \/ Fails /\ refs' = {} /\ UNCHANGED dump
  /\ UNCHANGED <<machine, started, archive, run, lists, queue, pid>>

CopyFile ==
  /\ pc = "files" /\ dump[pid].files < NFiles
  /\ \/ Opens /\ dump' = [dump EXCEPT ![pid].files = @ + 1] /\ UNCHANGED pc
     \/ (Fails \/ Breaks) /\ pc' = "skip" /\ UNCHANGED dump
  /\ UNCHANGED <<machine, started, archive, run, lists, queue, pid, refs>>

\* The directory fd; the descriptors, whose errors are caught one by one; the
\* links
CopyLinks ==
  /\ pc = "files" /\ dump[pid].files = NFiles
  /\ \/ pc' = "refs" /\ UNCHANGED faults
     \/ (Fails \/ Breaks) /\ pc' = "skip"
  /\ UNCHANGED <<machine, disk, run, lists, queue, pid, refs>>

\* What rmtree may leave of a directory when it is stopped
Remains(dir) == {d \in Dirs : d.run = dir.run /\ d.files <= dir.files /\ d.pagemap \in {dir.pagemap, "none"}}

\* Mutant: the exception handler does not reset shm_refs.
SkipPidOnly ==
  /\ pc = "skip" /\ pc' = "refs"
  /\ dump' = [dump EXCEPT ![pid] = None]
  /\ UNCHANGED <<machine, faults, started, archive, run, lists, queue, pid, refs>>

\* except Exception: the directory is removed, as far as rmtree gets; errors of
\* its own, and Ctrl-C, are passed over.
SkipPid ==
  /\ pc = "skip" /\ pc' = "refs" /\ refs' = {}
  /\ \/ dump' = [dump EXCEPT ![pid] = None] /\ UNCHANGED faults
     \/ /\ events < MaxEvents /\ events' = events + 1
        /\ stuck' = stuck \cup {pid} /\ UNCHANGED failed
        /\ \E d \in Remains(dump[pid]) : dump' = [dump EXCEPT ![pid] = d]
  /\ UNCHANGED <<machine, started, archive, run, lists, queue, pid>>

\* The caller: a KeyError for a segment that was not listed, or not under the
\* key that maps has
RecordRefs ==
  /\ pc = "refs"
  /\ IF \A s \in refs : s \in DOMAIN pids /\ keys[s] = Key[s]
     THEN /\ pids' = [s \in DOMAIN pids |-> IF s \in refs THEN pids[s] \cup {pid} ELSE pids[s]]
          /\ pc' = "next" /\ UNCHANGED <<toAttach, attached, keys, queue, pid, refs>>
     ELSE End
  /\ UNCHANGED <<machine, faults, disk, run>>

\* metadata.json, then tar, which writes the archive as it goes
StartTar ==
  /\ pc = "next" /\ queue = {} /\ pc' = "tar"
  /\ archive' = [run |-> run, whole |-> FALSE, dirs |-> dump, pids |-> pids,
                 steady |-> steady, kept |-> kept, failed |-> failed, stuck |-> stuck]
  /\ UNCHANGED <<machine, faults, started, dump, run, local>>

\* Mutant: what tar returns is ignored.
FinishTarIgnoring ==
  /\ pc = "tar" /\ pc' = "remove"
  /\ \E ok \in BOOLEAN : archive' = [archive EXCEPT !.whole = ok]
  /\ UNCHANGED <<machine, faults, started, dump, run, local>>

FinishTar ==
  /\ pc = "tar"
  /\ \/ pc' = "remove" /\ archive' = [archive EXCEPT !.whole = TRUE] /\ UNCHANGED local
     \/ End /\ UNCHANGED archive
  /\ UNCHANGED <<machine, faults, started, dump, run>>

\* shutil.rmtree(dump_dir), one directory after the other
RemoveDump ==
  /\ pc = "remove"
  /\ \/ \E p \in Pids : dump[p] # None /\ dump' = [dump EXCEPT ![p] = None]
                        /\ UNCHANGED <<started, pc, local>>
     \/ dump = Empty /\ started' = FALSE /\ End /\ UNCHANGED dump
  /\ UNCHANGED <<machine, faults, archive, run>>

Main == \/ Start \/ CopyKernelFiles \/ ListSegments \/ (\E s \in Segs : Attach(s)) \/ ListProcesses
        \/ (\E p \in Pids : MakeDir(p)) \/ ReadMaps \/ ReadPages \/ CopyFile \/ CopyLinks
        \/ SkipPid \/ RecordRefs \/ StartTar \/ FinishTar \/ RemoveDump

Next == Machine \/ CleanUp \/ Kill \/ Main \/ (pc = "ended" /\ run = MaxRuns /\ UNCHANGED vars)

Spec == Init /\ [][Next]_vars

-----------------------------------------------------------------------------
(* Properties *)

\* Types; what is mapped or attached was created, and a directory of a process
\* only exists in a dump_dir that was begun.
TypeOK ==
  /\ life \in [Pids -> {"absent", "alive", "zombie", "gone"}]
  /\ seg \in [Segs -> {"absent", "present", "removed"}]
  /\ maps \in [Pids -> SUBSET {s \in Segs : seg[s] # "absent"}]
  /\ steady \subseteq Pids /\ kept \subseteq Pids \X Segs /\ seekable \in BOOLEAN
  /\ events \in 0..MaxEvents /\ failed \subseteq Pids /\ stuck \subseteq Pids
  /\ started \in BOOLEAN
  /\ dump \in [Pids -> Dirs \cup {None}]
  /\ dump # Empty => started
  /\ archive \in Archives \cup {None}
  /\ run \in 0..MaxRuns
  /\ pc \in {"kernel", "shm", "attach", "next", "maps", "pages", "files", "skip", "refs", "tar",
             "remove", "ended"}
  /\ attached \cap toAttach = {} /\ attached \cup toAttach \subseteq DOMAIN pids
  /\ pids \in UNION {[set -> SUBSET Pids] : set \in SUBSET {s \in Segs : seg[s] # "absent"}}
  /\ keys \in [DOMAIN pids -> -Half .. Half - 1]
  /\ queue \subseteq Pids /\ pid \in Pids \cup {None} /\ refs \subseteq Segs

\* A process is in the archive with all its mandatory files, or not at all,
\* however it left while it was read (snap.py:342-349), unless its directory
\* could not be removed.
AllOrNothing ==
  \A p \in Pids \ archive.stuck : archive.dirs[p] # None => archive.dirs[p].files = NFiles

\* What is left of a run that was cut short never gets into the archive of
\* another (456-465).
OneRun == \A p \in Pids : archive.dirs[p] # None => archive.dirs[p].run = archive.run

\* A process that lived through the run is not lost to those that did not:
\* only to an error of its own copy (294, 342).
SteadyArchived ==
  \A p \in archive.steady \ archive.failed : archive.dirs[p] # None /\ archive.dirs[p].pagemap # "none"

\* metadata.json and the directories agree, whatever was skipped: a segment's
\* list has only processes whose pagemap is in the archive, and all those that
\* mapped the segment from beginning to end and were copied without an error.
SegmentsAgree ==
  \A s \in DOMAIN archive.pids :
    /\ \A p \in archive.pids[s] : archive.dirs[p] # None /\ archive.dirs[p].pagemap = "whole"
    /\ seekable => \A m \in archive.kept :
         m[2] = s /\ m[1] \notin archive.failed => m[1] \in archive.pids[s]

\* snap.py says of itself that it is not a consistent snapshot; but an archive
\* that tar completed is sound in these four respects.
ArchiveSound ==
  archive # None /\ archive.whole => AllOrNothing /\ OneRun /\ SteadyArchived /\ SegmentsAgree

\* Between the user's interventions nothing that was collected is lost: an
\* archive is never written over, and the directory of a process is removed,
\* even in part, only if the process left or a copy of it failed (342-349), or
\* once it is in a complete archive.
UserActs == pc = "ended" /\ run' = run

\* Files of a directory that was there are not there any more.
Loses(before, after) ==
  before # None /\ (after = None \/ after.run # before.run \/ after.files < before.files
                                 \/ (before.pagemap # "none" /\ after.pagemap = "none"))

NothingLost ==
  [][~UserActs =>
       /\ archive # None => archive' # None /\ archive'.run = archive.run /\ archive'.dirs = archive.dirs
       /\ \A p \in Pids : Loses(dump[p], dump'[p]) =>
            \/ life[p] # "alive" \/ p \in failed
            \/ archive # None /\ archive.whole /\ archive.dirs[p] = dump[p]]_vars

=============================================================================
