----------------------------- MODULE Snap_proofs -----------------------------
(***************************************************************************)
(* What snap.py leaves on disk, for any processes, segments and runs, and  *)
(* wherever a run is cut short.                                            *)
(*                                                                         *)
(* Until tar begins, the invariant speaks of the directory: of every       *)
(* process it says whether it is still to come, in hand, or done, and what *)
(* dump_dir and metadata have of it.  When tar begins, nobody is to come   *)
(* or in hand, and what was said of the directory is said of the archive.  *)
(***************************************************************************)
EXTENDS Snap, TLAPS

Copying == {"maps", "pages", "files", "skip"}
Handling == Copying \cup {"refs"}
Working == {"next"} \cup Handling

\* The history follows the machine.
HistoryOK ==
  /\ \A p \in steady : life[p] = "alive"
  /\ \A p \in Pids : life[p] # "alive" => maps[p] = {}
  /\ \A m \in kept : m[2] \in maps[m[1]]

\* What each stage of a run finds on disk
StageOK ==
  /\ pc # "ended" => run \in 1..MaxRuns /\ started
  /\ \A p \in queue : life[p] # "absent" /\ (pc \in Working => dump[p] = None)
  /\ pc \in Handling => pid \in Pids /\ pid \notin queue /\ life[pid] # "absent"
  /\ pc \in Copying => dump[pid] # None
  /\ pc = "skip" => life[pid] # "alive" \/ pid \in failed
  /\ pc \in {"kernel", "shm", "attach"} => dump = Empty
  /\ pc \in {"ended", "kernel", "shm"} => toAttach = {} /\ attached = {}
  /\ pc = "attach" => \A s \in DOMAIN pids : pids[s] = {}
  /\ pc \notin {"ended", "tar", "remove"} => archive = None
  /\ pc \in {"tar", "remove"} => archive # None
  /\ pc = "tar" => archive.dirs = dump
  /\ pc = "remove" => archive.whole /\ \A p \in Pids : dump[p] # None => archive.dirs[p] = dump[p]

\* Directories are of this run, and complete unless they are in hand or could
\* not be removed.
DirsOK ==
  pc \in Working => \A p \in Pids : dump[p] # None =>
    /\ dump[p].run = run
    /\ dump[p].files = NFiles \/ p \in stuck \/ (p = pid /\ pc \in Copying)

\* Of a process that lives through the run, the pagemap is there or to come,
\* unless an error cost it.
SteadyOK ==
  pc \in Working => \A p \in steady \ failed :
    \/ p \in queue
    \/ p = pid /\ pc \in {"maps", "pages"}
    \/ dump[p] # None /\ dump[p].pagemap # "none"

\* Only those whose pagemap is whole are in the lists of segments.
ListsOK ==
  /\ pc \in Working => \A s \in DOMAIN pids : \A p \in pids[s] :
       /\ p \notin queue /\ (pc \in Handling => p # pid)
       /\ dump[p] # None /\ dump[p].pagemap = "whole"
  /\ pc \in {"files", "skip", "refs"} /\ refs # {} => dump[pid] # None /\ dump[pid].pagemap = "whole"

\* A mapping that lasts is in the lists, or will be.
KeptOK ==
  pc \in Working /\ seekable => \A m \in kept : m[2] \in DOMAIN pids /\ m[1] \notin failed =>
    \/ m[1] \in pids[m[2]] \/ m[1] \in queue
    \/ m[1] = pid /\ (pc = "maps" \/ (pc \in Handling /\ m[2] \in refs))

ArchiveOK == archive # None => AllOrNothing /\ OneRun /\ SteadyArchived /\ SegmentsAgree

Inv == /\ TypeOK /\ HistoryOK /\ StageOK
       /\ DirsOK /\ SteadyOK /\ ListsOK /\ KeptOK
       /\ ArchiveOK

-----------------------------------------------------------------------------
LEMMA EmptyType == Empty \in [Pids -> Dirs \cup {None}]
BY DEF Empty

LEMMA NoLists ==
  ASSUME NEW set PROVE <<>> \in UNION {[s -> SUBSET Pids] : s \in SUBSET set} /\ <<>> \in [DOMAIN <<>> -> -Half .. Half - 1]
<1>1. <<>> \in [{} -> SUBSET Pids] /\ <<>> \in [DOMAIN <<>> -> -Half .. Half - 1] /\ {} \in SUBSET set
  OBVIOUS
<1> QED BY <1>1

LEMMA InitInv == Init => Inv
<1> SUFFICES ASSUME Init PROVE Inv
  OBVIOUS
<1> USE SnapAssumption DEF Init
<1>1. pids \in UNION {[set -> SUBSET Pids] : set \in SUBSET {s \in Segs : seg[s] # "absent"}} /\ keys \in [DOMAIN pids -> -Half .. Half - 1]
  BY NoLists
<1>2. Empty \in [Pids -> Dirs \cup {None}]
  BY EmptyType
<1>3. /\ life \in [Pids -> {"absent", "alive", "zombie", "gone"}]
      /\ maps \in [Pids -> SUBSET {s \in Segs : seg[s] # "absent"}]
      /\ events \in 0..MaxEvents /\ run \in 0..MaxRuns
  OBVIOUS
<1>4. TypeOK
  BY <1>1, <1>2, <1>3 DEF TypeOK
<1>5. HistoryOK /\ StageOK /\ DirsOK /\ SteadyOK /\ ListsOK /\ KeptOK /\ ArchiveOK
  BY DEF HistoryOK, StageOK, DirsOK, SteadyOK, ListsOK, KeptOK, ArchiveOK, Working, Handling, Copying
<1> QED BY <1>4, <1>5 DEF Inv

\* Processes and segments come and go; the disk and snap.py do not notice.
LEMMA MachineInv == Inv /\ Machine => Inv'
<1> SUFFICES ASSUME Inv, Machine PROVE Inv'
  OBVIOUS
<1> DEFINE Made == {s \in Segs : seg[s] # "absent"}
<1>0. \/ \E p \in Pids : Appear(p) \/ Leave(p) \/ \E s \in Segs : Map(p, s) \/ Unmap(p, s)
      \/ \E s \in Segs : Remove(s)
  BY DEF Machine
<1>1. UNCHANGED <<failed, stuck, seekable, disk, run, pc, local>> /\ events' \in 0..MaxEvents
  BY <1>0, SnapAssumption DEF Inv, TypeOK, Appear, Leave, Map, Unmap, Remove, Event
<1>2. steady' \subseteq steady /\ kept' \subseteq kept
  BY <1>0 DEF Appear, Leave, Map, Unmap, Remove
<1>3. /\ life' \in [Pids -> {"absent", "alive", "zombie", "gone"}]
      /\ \A p \in Pids : life[p] # "absent" => life'[p] # "absent" /\ (life[p] # "alive" => life'[p] # "alive")
  BY <1>0 DEF Inv, TypeOK, Appear, Leave, Map, Unmap, Remove
<1>4. seg' \in [Segs -> {"absent", "present", "removed"}] /\ Made \subseteq Made'
  BY <1>0 DEF Inv, TypeOK, Appear, Leave, Map, Unmap, Remove
<1>5. maps' \in [Pids -> SUBSET Made']
  BY <1>0 DEF Inv, TypeOK, Appear, Leave, Map, Unmap, Remove, Existing
<1>6. TypeOK'
  <2>1. PICK set \in SUBSET Made : pids \in [set -> SUBSET Pids]
    BY DEF Inv, TypeOK
  <2>2. set \in SUBSET Made'
    BY <1>4
  <2>3. pids' \in UNION {[dom -> SUBSET Pids] : dom \in SUBSET Made'}
    BY <1>1, <2>1, <2>2 DEF local, lists
  <2> QED BY <1>1, <1>2, <1>3, <1>4, <1>5, <2>3 DEF Inv, TypeOK, disk, local, lists
<1>7. HistoryOK'
  BY <1>0 DEF Inv, TypeOK, HistoryOK, Appear, Leave, Map, Unmap, Remove
<1>8. StageOK' /\ DirsOK' /\ ListsOK'
  <2>1. StageOK'
    BY <1>1, <1>3 DEF Inv, TypeOK, StageOK, Working, Handling, Copying, disk, local, lists
  <2> QED BY <1>1, <2>1 DEF Inv, DirsOK, ListsOK, disk, local, lists
<1>9. SteadyOK' /\ KeptOK'
  BY <1>1, <1>2 DEF Inv, SteadyOK, KeptOK, disk, local, lists
<1>10. ArchiveOK'
  BY <1>1 DEF Inv, ArchiveOK, AllOrNothing, OneRun, SteadyArchived, SegmentsAgree, disk
<1> QED BY <1>6, <1>7, <1>8, <1>9, <1>10 DEF Inv

\* A run that ends leaves what is on disk as it is.
LEMMA EndInv ==
  ASSUME Inv, End, UNCHANGED <<machine, faults, started, archive, run>>,
         dump' \in [Pids -> Dirs \cup {None}], started
  PROVE  Inv'
<1> USE DEF End
<1>1. TypeOK'
  <2>1. /\ pids' \in UNION {[set -> SUBSET Pids] : set \in SUBSET {s \in Segs : seg'[s] # "absent"}}
        /\ keys' \in [DOMAIN pids' -> -Half .. Half - 1]
    BY NoLists
  <2> QED BY <2>1 DEF Inv, TypeOK, machine, faults
<1>2. HistoryOK' /\ StageOK' /\ DirsOK' /\ SteadyOK' /\ ListsOK' /\ KeptOK'
  BY DEF Inv, HistoryOK, StageOK, DirsOK, SteadyOK, ListsOK, KeptOK, machine, Working, Handling, Copying
<1>3. ArchiveOK'
  BY DEF Inv, ArchiveOK, AllOrNothing, OneRun, SteadyArchived, SegmentsAgree, machine
<1> QED BY <1>1, <1>2, <1>3 DEF Inv

LEMMA UserInv == Inv /\ (CleanUp \/ Kill) => Inv'
<1> SUFFICES ASSUME Inv, CleanUp \/ Kill PROVE Inv'
  OBVIOUS
<1>1. CASE Kill
  BY <1>1, EndInv DEF Kill, disk, local, Inv, StageOK, TypeOK
<1>2. CASE CleanUp
  <2> USE <1>2 DEF CleanUp
  <2>0. dump' \in [Pids -> Dirs \cup {None}] /\ (dump' # Empty => started') /\ started' \in BOOLEAN
    <3>1. CASE UNCHANGED <<started, dump>>
      BY <3>1 DEF Inv, TypeOK
    <3>2. CASE dump' = Empty /\ started' = FALSE
      BY <3>2, EmptyType
    <3> QED BY <3>1, <3>2
  <2>1. TypeOK'
    BY <2>0 DEF Inv, TypeOK, machine, faults, lists, local
  <2>2. HistoryOK' /\ StageOK' /\ DirsOK' /\ SteadyOK' /\ ListsOK' /\ KeptOK'
    BY DEF Inv, HistoryOK, StageOK, DirsOK, SteadyOK, ListsOK, KeptOK, machine, faults, lists, local, Working, Handling, Copying
  <2>3. ArchiveOK'
    BY DEF Inv, ArchiveOK, AllOrNothing, OneRun, SteadyArchived, SegmentsAgree, machine
  <2> QED BY <2>1, <2>2, <2>3 DEF Inv
<1> QED BY <1>1, <1>2

LEMMA StartInv == Inv /\ Start => Inv'
<1> SUFFICES ASSUME Inv, Start PROVE Inv'
  OBVIOUS
<1> USE DEF Start
<1>0. run' \in 1..MaxRuns
  BY SnapAssumption DEF Inv, TypeOK
<1>1. CASE archive # None \/ started
  <2>1. TypeOK'
    BY <1>0, <1>1 DEF Inv, TypeOK, lists, local
  <2>2. HistoryOK' /\ StageOK' /\ DirsOK' /\ SteadyOK' /\ ListsOK' /\ KeptOK'
    BY <1>1 DEF Inv, HistoryOK, StageOK, DirsOK, SteadyOK, ListsOK, KeptOK, Working, Handling, Copying, lists, local
  <2>3. ArchiveOK'
    BY <1>1 DEF Inv, ArchiveOK, AllOrNothing, OneRun, SteadyArchived, SegmentsAgree
  <2> QED BY <2>1, <2>2, <2>3 DEF Inv
<1>2. CASE archive = None /\ ~started
  <2>1. TypeOK'
    BY <1>0, <1>2 DEF Inv, TypeOK, lists, local
  <2>2. HistoryOK'
    BY <1>2 DEF Inv, TypeOK, HistoryOK
  <2>3. StageOK'
    BY <1>0, <1>2 DEF Inv, TypeOK, StageOK, Empty, Working, Handling, Copying, lists, local
  <2>4. DirsOK' /\ SteadyOK' /\ ListsOK' /\ KeptOK' /\ ArchiveOK'
    BY <1>2 DEF DirsOK, SteadyOK, ListsOK, KeptOK, ArchiveOK, Working, Handling, Copying, lists, local
  <2> QED BY <2>1, <2>2, <2>3, <2>4 DEF Inv
<1> QED BY <1>1, <1>2

-----------------------------------------------------------------------------
(* The files of /proc and the segments *)

LEMMA CopyKernelFilesInv == Inv /\ CopyKernelFiles => Inv'
<1> SUFFICES ASSUME Inv, CopyKernelFiles PROVE Inv'
  OBVIOUS
<1> USE DEF CopyKernelFiles
<1>1. CASE End
  BY <1>1, EndInv DEF disk, Inv, StageOK, TypeOK
<1>2. CASE pc' = "shm" /\ UNCHANGED local
  <2> USE <1>2
  <2>1. TypeOK'
    BY DEF Inv, TypeOK, machine, faults, disk, lists, local
  <2>2. HistoryOK' /\ StageOK' /\ DirsOK' /\ SteadyOK' /\ ListsOK' /\ KeptOK'
    BY DEF Inv, HistoryOK, StageOK, DirsOK, SteadyOK, ListsOK, KeptOK, Working, Handling, Copying,
           machine, faults, disk, lists, local
  <2>3. ArchiveOK'
    BY DEF Inv, ArchiveOK, StageOK, disk
  <2> QED BY <2>1, <2>2, <2>3 DEF Inv
<1> QED BY <1>1, <1>2

\* Keys of 32 bits, with a sign
LEMMA ListedKeyType == ASSUME NEW s \in Segs PROVE ListedKey(s) \in -Half .. Half - 1
<1>1. Key[s] \in 0 .. 2 * Half - 1 /\ Half \in Nat \ {0}
  BY SnapAssumption
<1> QED BY <1>1 DEF ListedKey, Signed

LEMMA ListSegmentsInv == Inv /\ ListSegments => Inv'
<1> SUFFICES ASSUME Inv, ListSegments PROVE Inv'
  OBVIOUS
<1> USE DEF ListSegments
<1>0. Existing \in SUBSET {s \in Segs : seg[s] # "absent"} /\ Existing \subseteq Segs
  BY DEF Existing
<1>1. pids' \in [Existing -> SUBSET Pids] /\ DOMAIN pids' = Existing
  OBVIOUS
<1>2. keys' \in [DOMAIN pids' -> -Half .. Half - 1]
  BY <1>0, <1>1, ListedKeyType
<1>3. toAttach = {} /\ attached = {}
  BY DEF Inv, StageOK
<1>4. pids' \in UNION {[set -> SUBSET Pids] : set \in SUBSET {s \in Segs : seg'[s] # "absent"}}
  BY <1>0, <1>1 DEF machine
<1>5. TypeOK'
  BY <1>1, <1>2, <1>3, <1>4 DEF Inv, TypeOK, machine, faults, disk
<1>6. HistoryOK' /\ StageOK' /\ DirsOK' /\ SteadyOK' /\ ListsOK' /\ KeptOK'
  BY DEF Inv, HistoryOK, StageOK, DirsOK, SteadyOK, ListsOK, KeptOK, Working, Handling, Copying,
         machine, faults, disk
<1>7. ArchiveOK'
  BY DEF Inv, ArchiveOK, StageOK, disk
<1> QED BY <1>5, <1>6, <1>7 DEF Inv

LEMMA AttachInv == ASSUME Inv, NEW s \in Segs, Attach(s) PROVE Inv'
<1> USE DEF Attach
<1>1. TypeOK'
  BY DEF Inv, TypeOK, machine, faults, disk
<1>2. HistoryOK' /\ StageOK' /\ DirsOK' /\ SteadyOK' /\ ListsOK' /\ KeptOK'
  BY DEF Inv, HistoryOK, StageOK, DirsOK, SteadyOK, ListsOK, KeptOK, Working, Handling, Copying,
         machine, faults, disk
<1>3. ArchiveOK'
  BY DEF Inv, ArchiveOK, StageOK, disk
<1> QED BY <1>1, <1>2, <1>3 DEF Inv

-----------------------------------------------------------------------------
(* One process after the other *)

\* Whoever lives since the run began is listed, or --skip-processes promises nothing.
LEMMA ListProcessesInv == Inv /\ ListProcesses => Inv'
<1> SUFFICES ASSUME Inv, ListProcesses PROVE Inv'
  OBVIOUS
<1> USE DEF ListProcesses
<1>0. steady' \subseteq steady /\ kept' \subseteq kept /\ queue' \subseteq Pids
  OBVIOUS
<1>1. TypeOK'
  BY <1>0 DEF Inv, TypeOK, faults, disk, lists
<1>2. HistoryOK'
  BY <1>0 DEF Inv, HistoryOK
<1>3. StageOK' /\ DirsOK' /\ ListsOK'
  BY DEF Inv, TypeOK, StageOK, DirsOK, ListsOK, Empty, Working, Handling, Copying, faults, disk, lists
<1>4. SteadyOK'
  BY DEF Inv, TypeOK, HistoryOK, SteadyOK
<1>5. KeptOK'
  <2> SUFFICES ASSUME NEW m \in kept' PROVE m[1] \in queue'
    BY DEF KeptOK
  <2>1. m \in Pids \X Segs /\ m[2] \in maps[m[1]]
    BY <1>0 DEF Inv, TypeOK, HistoryOK
  <2>2. m[1] \in Pids /\ life[m[1]] = "alive"
    BY <2>1 DEF Inv, HistoryOK
  <2> QED BY <2>2
<1>6. ArchiveOK'
  BY DEF Inv, ArchiveOK, StageOK, disk
<1> QED BY <1>1, <1>2, <1>3, <1>4, <1>5, <1>6 DEF Inv

LEMMA MakeDirInv == ASSUME Inv, NEW p \in Pids, MakeDir(p) PROVE Inv'
<1> USE DEF MakeDir
<1>0. run \in 1..MaxRuns /\ started /\ archive = None /\ life[p] # "absent"
  BY DEF Inv, StageOK
<1>1. dump' \in [Pids -> Dirs \cup {None}]
  BY <1>0, SnapAssumption DEF Inv, TypeOK, Dirs
<1>2. CASE End
  BY <1>0, <1>1, <1>2, EndInv
<1>3. CASE pc' = "maps" /\ queue' = queue \ {p} /\ pid' = p /\ UNCHANGED <<lists, refs>>
  <2> USE <1>3
  <2>2. dump'[p] = [pagemap |-> "none", files |-> 0, run |-> run] /\ \A q \in Pids \ {p} : dump'[q] = dump[q]
    BY DEF Inv, TypeOK
  <2>3. dump'[p] # None
    <3>1. dump'[p] \in Dirs
      BY <1>0, <2>2, SnapAssumption DEF Dirs
    <3> QED BY <3>1, SnapAssumption
  <2>4. TypeOK'
    BY <1>0, <1>1 DEF Inv, TypeOK, machine, faults, lists
  <2>5. HistoryOK' /\ StageOK'
    BY <1>0, <2>3 DEF Inv, HistoryOK, StageOK, Working, Handling, Copying, machine, faults, lists
  <2>6. DirsOK'
    BY <2>2 DEF Inv, DirsOK, Working, Handling, Copying, faults
  <2>7. SteadyOK' /\ KeptOK'
    BY <2>2 DEF Inv, TypeOK, SteadyOK, KeptOK, Working, Handling, Copying, machine, faults, lists
  <2>8. ListsOK'
    <3> SUFFICES ASSUME NEW s \in DOMAIN pids, NEW q \in pids[s]
                 PROVE  q \notin queue' /\ q # p /\ dump'[q] # None /\ dump'[q].pagemap = "whole"
      BY DEF ListsOK, Working, Handling, lists
    <3>1. q \in Pids
      BY DEF Inv, TypeOK
    <3>2. q \notin queue /\ dump[q] # None /\ dump[q].pagemap = "whole"
      BY DEF Inv, ListsOK, Working
    <3> QED BY <2>2, <3>1, <3>2
  <2>9. ArchiveOK'
    BY <1>0 DEF ArchiveOK
  <2> QED BY <2>4, <2>5, <2>6, <2>7, <2>8, <2>9 DEF Inv
<1> QED BY <1>2, <1>3

\* What a file of the process in hand answers
LEMMA FaultsGrow ==
  ASSUME Inv, pid \in Pids, UNCHANGED faults \/ Opens \/ Fails \/ Breaks
  PROVE  /\ events' \in 0..MaxEvents /\ stuck' = stuck /\ stuck \subseteq Pids
         /\ failed \subseteq failed' /\ failed' \subseteq Pids
BY SnapAssumption DEF Inv, TypeOK, Opens, Fails, Breaks, faults

LEMMA ExcusedBy == ASSUME Fails \/ Breaks PROVE life[pid] # "alive" \/ pid \in failed'
BY DEF Fails, Breaks

LEMMA ReadMapsInv == Inv /\ ReadMaps => Inv'
<1> SUFFICES ASSUME Inv, ReadMaps PROVE Inv'
  OBVIOUS
<1> USE DEF ReadMaps
<1>0. pid \in Pids /\ archive = None
  BY DEF Inv, StageOK, Working, Handling, Copying
<1>1. refs' \subseteq Segs
  BY <1>0 DEF Inv, TypeOK
<1>2. \/ pc' = "pages" /\ refs' = maps[pid]
      \/ pc' = "files" /\ refs' = {} /\ (life[pid] # "alive" \/ pid \in failed')
  BY ExcusedBy
<1>3. /\ events' \in 0..MaxEvents /\ stuck' = stuck /\ stuck \subseteq Pids
      /\ failed \subseteq failed' /\ failed' \subseteq Pids
  BY <1>0, FaultsGrow
<1>4. UNCHANGED <<machine, disk, run, lists, queue, pid>> /\ pc = "maps"
  OBVIOUS
<1> HIDE DEF ReadMaps
<1>5. TypeOK'
  BY <1>1, <1>2, <1>3, <1>4 DEF Inv, TypeOK, machine, disk, lists
<1>6. HistoryOK' /\ StageOK'
  BY <1>0, <1>2, <1>3, <1>4 DEF Inv, HistoryOK, StageOK, Working, Handling, Copying, machine, disk, lists
<1>7. DirsOK' /\ SteadyOK'
  BY <1>0, <1>2, <1>3, <1>4 DEF Inv, HistoryOK, DirsOK, SteadyOK, Working, Handling, Copying, machine, disk
<1>8. ListsOK'
  BY <1>2, <1>4 DEF Inv, ListsOK, Working, Handling, Copying, machine, disk, lists
<1>9. KeptOK'
  BY <1>0, <1>2, <1>3, <1>4 DEF Inv, HistoryOK, KeptOK, Working, Handling, Copying, machine, disk, lists
<1>10. ArchiveOK'
  BY <1>0, <1>4 DEF ArchiveOK, disk
<1> QED BY <1>5, <1>6, <1>7, <1>8, <1>9, <1>10 DEF Inv

\* A directory in hand stays one when a field of it changes.
LEMMA DirTypePages ==
  ASSUME NEW d \in Dirs, NEW x \in {"cut", "whole"}, NEW e, e = [d EXCEPT !.pagemap = x]
  PROVE  e \in Dirs /\ e # None /\ e.run = d.run /\ e.files = d.files /\ e.pagemap = x
<1>1. e \in Dirs /\ e.run = d.run /\ e.files = d.files /\ e.pagemap = x
  BY DEF Dirs
<1> QED BY <1>1, SnapAssumption

LEMMA DirTypeFiles ==
  ASSUME NEW d \in Dirs, d.files < NFiles, NEW e, e = [d EXCEPT !.files = @ + 1]
  PROVE  e \in Dirs /\ e # None /\ e.run = d.run /\ e.pagemap = d.pagemap
<1>1. e \in Dirs /\ e.run = d.run /\ e.pagemap = d.pagemap
  BY SnapAssumption DEF Dirs
<1> QED BY <1>1, SnapAssumption

\* The references are only kept with a whole pagemap, and a process without an
\* error that is still there has one unless the file system refuses the offset.
LEMMA ReadPagesInv == Inv /\ ReadPages => Inv'
<1> SUFFICES ASSUME Inv, ReadPages PROVE Inv'
  OBVIOUS
<1> USE DEF ReadPages
<1>0. pid \in Pids /\ archive = None /\ dump[pid] # None /\ pid \notin queue /\ started
  BY DEF Inv, StageOK, Working, Handling, Copying
<1>1. dump[pid] \in Dirs /\ dump \in [Pids -> Dirs \cup {None}]
  BY <1>0 DEF Inv, TypeOK
<1>2. dump' \in [Pids -> Dirs \cup {None}] /\ refs' \subseteq Segs
  BY <1>0, <1>1, DirTypePages DEF Inv, TypeOK
<1>3. \A q \in Pids \ {pid} : dump'[q] = dump[q]
  BY <1>1
<1>4. dump'[pid] # None /\ dump'[pid].run = dump[pid].run /\ dump'[pid].files = dump[pid].files
  <2>1. CASE UNCHANGED dump
    BY <1>0, <2>1
  <2>2. ASSUME NEW x \in {"cut", "whole"}, dump' = [dump EXCEPT ![pid].pagemap = x]
        PROVE  dump'[pid] # None /\ dump'[pid].run = dump[pid].run /\ dump'[pid].files = dump[pid].files
    <3>1. dump'[pid] = [dump[pid] EXCEPT !.pagemap = x]
      BY <1>0, <1>1, <2>2
    <3> QED BY <1>1, <3>1, DirTypePages
  <2> QED BY <2>1, <2>2
<1>5. \/ (life[pid] # "alive" \/ pid \in failed') /\ refs' = {}
      \/ dump'[pid].pagemap = "whole" /\ refs' = refs
      \/ dump'[pid].pagemap = "cut" /\ refs' = {} /\ ~seekable
  BY <1>0, <1>1, ExcusedBy DEF Dirs
<1>6. /\ events' \in 0..MaxEvents /\ stuck' = stuck /\ stuck \subseteq Pids
      /\ failed \subseteq failed' /\ failed' \subseteq Pids
  BY <1>0, FaultsGrow
<1>7. UNCHANGED <<machine, started, archive, run, lists, queue, pid>> /\ pc = "pages" /\ pc' = "files"
  OBVIOUS
<1> HIDE DEF ReadPages
<1>8. TypeOK'
  BY <1>0, <1>2, <1>6, <1>7 DEF Inv, TypeOK, machine, lists
<1>9. HistoryOK' /\ StageOK'
  BY <1>0, <1>3, <1>4, <1>7 DEF Inv, TypeOK, HistoryOK, StageOK, Working, Handling, Copying, machine, lists
<1>10. DirsOK'
  <2> SUFFICES ASSUME NEW q \in Pids, dump'[q] # None
               PROVE  dump'[q].run = run /\ (dump'[q].files = NFiles \/ q \in stuck \/ q = pid)
    BY <1>6, <1>7 DEF DirsOK, Working, Handling, Copying
  <2>1. CASE q = pid
    BY <1>0, <1>4, <1>7, <2>1 DEF Inv, DirsOK, Working, Handling, Copying
  <2>2. CASE q # pid
    BY <1>3, <1>7, <2>2 DEF Inv, DirsOK, Working, Handling, Copying
  <2> QED BY <2>1, <2>2
<1>11. SteadyOK'
  <2> SUFFICES ASSUME NEW q \in steady \ failed', q \notin queue
               PROVE  dump'[q] # None /\ dump'[q].pagemap # "none"
    BY <1>7 DEF SteadyOK, machine
  <2>1. q \in Pids /\ life[q] = "alive" /\ q \notin failed
    BY <1>6 DEF Inv, TypeOK, HistoryOK
  <2>2. CASE q = pid
    BY <1>4, <1>5, <1>7, <2>1, <2>2
  <2>3. CASE q # pid
    BY <1>3, <1>7, <2>1, <2>3 DEF Inv, SteadyOK, Working, Handling, Copying
  <2> QED BY <2>2, <2>3
<1>12. ListsOK'
  <2>1. refs' # {} => dump'[pid] # None /\ dump'[pid].pagemap = "whole"
    BY <1>4, <1>5
  <2>2. ASSUME NEW s \in DOMAIN pids, NEW q \in pids[s]
        PROVE  q \notin queue /\ q # pid /\ dump'[q] # None /\ dump'[q].pagemap = "whole"
    <3>1. q \in Pids
      BY DEF Inv, TypeOK
    <3>2. q \notin queue /\ q # pid /\ dump[q] # None /\ dump[q].pagemap = "whole"
      BY <1>7 DEF Inv, ListsOK, Working, Handling, Copying
    <3> QED BY <1>3, <3>1, <3>2
  <2> QED BY <1>7, <2>1, <2>2 DEF ListsOK, lists
<1>13. KeptOK'
  <2> SUFFICES ASSUME seekable, NEW m \in kept, m[2] \in DOMAIN pids, m[1] \notin failed',
                      m[1] \notin pids[m[2]], m[1] \notin queue
               PROVE  m[1] = pid /\ m[2] \in refs'
    BY <1>7 DEF KeptOK, Working, Handling, Copying, machine, lists
  <2>1. m[1] = pid /\ m[2] \in refs
    BY <1>6, <1>7 DEF Inv, KeptOK, Working, Handling, Copying
  <2>2. life[pid] = "alive"
    BY <1>0, <2>1 DEF Inv, HistoryOK
  <2> QED BY <1>5, <2>1, <2>2
<1>14. ArchiveOK'
  BY <1>0, <1>7 DEF ArchiveOK
<1> QED BY <1>8, <1>9, <1>10, <1>11, <1>12, <1>13, <1>14 DEF Inv

\* Only a process that left, or a copy of which failed, is skipped.
LEMMA SkipPidInv == Inv /\ SkipPid => Inv'
<1> SUFFICES ASSUME Inv, SkipPid PROVE Inv'
  OBVIOUS
<1> USE DEF SkipPid
<1>0. /\ pid \in Pids /\ archive = None /\ pid \notin queue /\ started
      /\ dump[pid] # None /\ (life[pid] # "alive" \/ pid \in failed)
  BY DEF Inv, StageOK, Working, Handling, Copying
<1>1. dump[pid] \in Dirs /\ dump \in [Pids -> Dirs \cup {None}]
  BY <1>0 DEF Inv, TypeOK
<1>2. PICK d \in Dirs \cup {None} : dump' = [dump EXCEPT ![pid] = d]
      /\ (d # None => d.run = dump[pid].run /\ pid \in stuck')
  BY <1>0, <1>1 DEF Remains
<1>3. dump' \in [Pids -> Dirs \cup {None}] /\ dump'[pid] = d /\ \A q \in Pids \ {pid} : dump'[q] = dump[q]
  BY <1>0, <1>1, <1>2
<1>4. /\ events' \in 0..MaxEvents /\ failed' = failed /\ failed \subseteq Pids
      /\ stuck \subseteq stuck' /\ stuck' \subseteq Pids
  BY <1>0, SnapAssumption DEF Inv, TypeOK, faults
<1>5. UNCHANGED <<machine, started, archive, run, lists, queue, pid>> /\ pc = "skip" /\ pc' = "refs" /\ refs' = {}
  OBVIOUS
<1> HIDE DEF SkipPid
<1>6. TypeOK'
  BY <1>0, <1>3, <1>4, <1>5 DEF Inv, TypeOK, machine, lists
<1>7. HistoryOK' /\ StageOK'
  BY <1>0, <1>3, <1>5 DEF Inv, TypeOK, HistoryOK, StageOK, Working, Handling, Copying, machine, lists
<1>8. DirsOK'
  <2> SUFFICES ASSUME NEW q \in Pids, dump'[q] # None
               PROVE  dump'[q].run = run /\ (dump'[q].files = NFiles \/ q \in stuck')
    BY <1>5 DEF DirsOK
  <2>1. CASE q = pid
    BY <1>0, <1>2, <1>3, <1>5, <2>1 DEF Inv, DirsOK, Working, Handling, Copying
  <2>2. CASE q # pid
    BY <1>3, <1>4, <1>5, <2>2 DEF Inv, DirsOK, Working, Handling, Copying
  <2> QED BY <2>1, <2>2
<1>9. SteadyOK'
  <2> SUFFICES ASSUME NEW q \in steady \ failed, q \notin queue
               PROVE  dump'[q] # None /\ dump'[q].pagemap # "none"
    BY <1>4, <1>5 DEF SteadyOK, machine
  <2>1. q \in Pids /\ q # pid
    BY <1>0 DEF Inv, TypeOK, HistoryOK
  <2> QED BY <1>3, <1>5, <2>1 DEF Inv, SteadyOK, Working, Handling, Copying
<1>10. ListsOK'
  <2>1. ASSUME NEW s \in DOMAIN pids, NEW q \in pids[s]
        PROVE  q \notin queue /\ q # pid /\ dump'[q] # None /\ dump'[q].pagemap = "whole"
    <3>1. q \in Pids
      BY DEF Inv, TypeOK
    <3>2. q \notin queue /\ q # pid /\ dump[q] # None /\ dump[q].pagemap = "whole"
      BY <1>5 DEF Inv, ListsOK, Working, Handling, Copying
    <3> QED BY <1>3, <3>1, <3>2
  <2> QED BY <1>5, <2>1 DEF ListsOK, lists
<1>11. KeptOK'
  <2> SUFFICES ASSUME seekable, NEW m \in kept, m[2] \in DOMAIN pids, m[1] \notin failed,
                      m[1] \notin pids[m[2]], m[1] \notin queue
               PROVE  FALSE
    BY <1>4, <1>5 DEF KeptOK, machine, lists
  <2>1. m[1] = pid
    BY <1>5 DEF Inv, KeptOK, Working, Handling, Copying
  <2> QED BY <1>0, <2>1 DEF Inv, HistoryOK
<1>12. ArchiveOK'
  BY <1>0, <1>5 DEF ArchiveOK
<1> QED BY <1>6, <1>7, <1>8, <1>9, <1>10, <1>11, <1>12 DEF Inv

\* An error of a copy, after which the process in hand is to be skipped
LEMMA ToSkipInv ==
  ASSUME Inv, pc = "files", pc' = "skip", Fails \/ Breaks,
         UNCHANGED <<machine, disk, run, lists, queue, pid, refs>>
  PROVE  Inv'
<1>0. pid \in Pids /\ archive = None
  BY DEF Inv, StageOK, Working, Handling, Copying
<1>1. /\ events' \in 0..MaxEvents /\ stuck' = stuck /\ stuck \subseteq Pids
      /\ failed \subseteq failed' /\ failed' \subseteq Pids
      /\ life[pid] # "alive" \/ pid \in failed'
  BY <1>0, FaultsGrow, ExcusedBy
<1>2. TypeOK'
  BY <1>1 DEF Inv, TypeOK, machine, disk, lists
<1>3. HistoryOK' /\ StageOK' /\ DirsOK'
  BY <1>0, <1>1 DEF Inv, HistoryOK, StageOK, DirsOK, Working, Handling, Copying, machine, disk, lists
<1>4. SteadyOK' /\ ListsOK'
  BY <1>1 DEF Inv, SteadyOK, ListsOK, Working, Handling, Copying, machine, disk, lists
<1>5. KeptOK'
  BY <1>1 DEF Inv, KeptOK, Working, Handling, Copying, machine, disk, lists
<1>6. ArchiveOK'
  BY <1>0 DEF ArchiveOK, disk
<1> QED BY <1>2, <1>3, <1>4, <1>5, <1>6 DEF Inv

LEMMA CopyFileInv == Inv /\ CopyFile => Inv'
<1> SUFFICES ASSUME Inv, CopyFile PROVE Inv'
  OBVIOUS
<1> USE DEF CopyFile
<1>1. CASE (Fails \/ Breaks) /\ pc' = "skip" /\ UNCHANGED dump
  BY <1>1, ToSkipInv DEF disk
<1>2. CASE Opens /\ dump' = [dump EXCEPT ![pid].files = @ + 1] /\ UNCHANGED pc
  <2>0. pid \in Pids /\ archive = None /\ dump[pid] # None /\ started
    BY DEF Inv, StageOK, Working, Handling, Copying
  <2>1. dump[pid] \in Dirs
    BY <2>0 DEF Inv, TypeOK
  <2>2. dump' \in [Pids -> Dirs \cup {None}] /\ \A q \in Pids \ {pid} : dump'[q] = dump[q]
    BY <1>2, <2>0, <2>1, DirTypeFiles DEF Inv, TypeOK
  <2>3. dump'[pid] # None /\ dump'[pid].run = dump[pid].run /\ dump'[pid].pagemap = dump[pid].pagemap
    <3>1. dump'[pid] = [dump[pid] EXCEPT !.files = @ + 1]
      BY <1>2, <2>0 DEF Inv, TypeOK
    <3>2. dump[pid].files < NFiles
      OBVIOUS
    <3> QED BY <2>1, <3>1, <3>2, DirTypeFiles
  <2>4. UNCHANGED <<machine, faults, started, archive, run, lists, queue, pid, refs, pc>> /\ pc = "files"
    BY <1>2 DEF Opens
  <2> HIDE DEF CopyFile
  <2>5. TypeOK'
    BY <2>0, <2>2, <2>4 DEF Inv, TypeOK, machine, faults, lists
  <2>6. HistoryOK' /\ StageOK'
    BY <2>0, <2>2, <2>3, <2>4 DEF Inv, TypeOK, HistoryOK, StageOK, Working, Handling, Copying, machine, faults, lists
  <2>7. DirsOK'
    <3> SUFFICES ASSUME NEW q \in Pids, dump'[q] # None
                 PROVE  dump'[q].run = run /\ (dump'[q].files = NFiles \/ q \in stuck \/ q = pid)
      BY <2>4 DEF DirsOK, Working, Handling, Copying, faults
    <3>1. CASE q = pid
      BY <2>0, <2>3, <2>4, <3>1 DEF Inv, DirsOK, Working, Handling, Copying
    <3>2. CASE q # pid
      BY <2>2, <2>4, <3>2 DEF Inv, DirsOK, Working, Handling, Copying
    <3> QED BY <3>1, <3>2
  <2>8. SteadyOK' /\ KeptOK'
    BY <2>2, <2>3, <2>4 DEF Inv, TypeOK, SteadyOK, KeptOK, Working, Handling, Copying, machine, faults, lists
  <2>9. ListsOK'
    <3>1. refs # {} => dump'[pid] # None /\ dump'[pid].pagemap = "whole"
      BY <2>3, <2>4 DEF Inv, ListsOK
    <3>2. ASSUME NEW s \in DOMAIN pids, NEW q \in pids[s]
          PROVE  q \notin queue /\ q # pid /\ dump'[q] # None /\ dump'[q].pagemap = "whole"
      <4>1. q \in Pids
        BY DEF Inv, TypeOK
      <4>2. q \notin queue /\ q # pid /\ dump[q] # None /\ dump[q].pagemap = "whole"
        BY <2>4 DEF Inv, ListsOK, Working, Handling, Copying
      <4> QED BY <2>2, <4>1, <4>2
    <3> QED BY <2>4, <3>1, <3>2 DEF ListsOK, lists
  <2>10. ArchiveOK'
    BY <2>0, <2>4 DEF ArchiveOK
  <2> QED BY <2>5, <2>6, <2>7, <2>8, <2>9, <2>10 DEF Inv
<1> QED BY <1>1, <1>2

LEMMA CopyLinksInv == Inv /\ CopyLinks => Inv'
<1> SUFFICES ASSUME Inv, CopyLinks PROVE Inv'
  OBVIOUS
<1> USE DEF CopyLinks
<1>1. CASE (Fails \/ Breaks) /\ pc' = "skip"
  BY <1>1, ToSkipInv
<1>2. CASE pc' = "refs" /\ UNCHANGED faults
  <2> USE <1>2
  <2>1. TypeOK'
    BY DEF Inv, TypeOK, machine, faults, disk, lists
  <2>2. HistoryOK' /\ StageOK' /\ DirsOK'
    BY DEF Inv, HistoryOK, StageOK, DirsOK, Working, Handling, Copying, machine, faults, disk, lists
  <2>3. SteadyOK' /\ ListsOK' /\ KeptOK'
    BY DEF Inv, SteadyOK, ListsOK, KeptOK, Working, Handling, Copying, machine, faults, disk, lists
  <2>4. ArchiveOK'
    BY DEF Inv, ArchiveOK, StageOK, disk
  <2> QED BY <2>1, <2>2, <2>3, <2>4 DEF Inv
<1> QED BY <1>1, <1>2

\* Either the process in hand is in the lists of all its segments, or the run ends.
LEMMA RecordRefsInv == Inv /\ RecordRefs => Inv'
<1> SUFFICES ASSUME Inv, RecordRefs PROVE Inv'
  OBVIOUS
<1> USE DEF RecordRefs
<1>0. pid \in Pids /\ archive = None /\ pid \notin queue /\ started /\ run \in 1..MaxRuns
  BY DEF Inv, StageOK, Handling
<1>1. CASE End
  BY <1>0, <1>1, EndInv DEF disk, Inv, TypeOK
<1>2. CASE \A s \in refs : s \in DOMAIN pids /\ keys[s] = Key[s]
  <2>1. PICK set \in SUBSET {s \in Segs : seg[s] # "absent"} : pids \in [set -> SUBSET Pids]
    BY DEF Inv, TypeOK
  <2>2. pids' = [s \in DOMAIN pids |-> IF s \in refs THEN pids[s] \cup {pid} ELSE pids[s]]
    BY <1>2
  <2>3. pids' \in UNION {[dom -> SUBSET Pids] : dom \in SUBSET {s \in Segs : seg'[s] # "absent"}}
    <3>1. pids' \in [set -> SUBSET Pids]
      BY <1>0, <2>1, <2>2
    <3> QED BY <2>1, <3>1 DEF machine
  <2>4. DOMAIN pids' = DOMAIN pids /\ \A s \in DOMAIN pids : pids'[s] = IF s \in refs THEN pids[s] \cup {pid} ELSE pids[s]
    BY <2>2
  <2>5. pc = "refs" /\ pc' = "next" /\ UNCHANGED <<machine, faults, disk, run, toAttach, attached, keys, queue, pid, refs>>
    BY <1>2
  <2> HIDE DEF RecordRefs
  <2>6. TypeOK'
    BY <2>3, <2>4, <2>5 DEF Inv, TypeOK, machine, faults, disk
  <2>7. HistoryOK' /\ StageOK'
    BY <1>0, <2>5 DEF Inv, HistoryOK, StageOK, Working, Handling, Copying, machine, faults, disk
  <2>8. DirsOK' /\ SteadyOK'
    BY <2>5 DEF Inv, DirsOK, SteadyOK, Working, Handling, Copying, machine, faults, disk
  <2>9. ListsOK'
    <3> SUFFICES ASSUME NEW s \in DOMAIN pids, NEW q \in pids'[s]
                 PROVE  q \notin queue /\ dump[q] # None /\ dump[q].pagemap = "whole"
      BY <2>4, <2>5 DEF ListsOK, Handling, Copying, disk
    <3>1. CASE q \in pids[s]
      BY <2>5, <3>1 DEF Inv, ListsOK, Working, Handling, Copying
    <3>2. CASE q = pid /\ s \in refs
      BY <1>0, <2>5, <3>2 DEF Inv, ListsOK
    <3> QED BY <2>4, <3>1, <3>2
  <2>10. KeptOK'
    <3> SUFFICES ASSUME seekable, NEW m \in kept, m[2] \in DOMAIN pids, m[1] \notin failed
                 PROVE  m[1] \in pids'[m[2]] \/ m[1] \in queue
      BY <2>4, <2>5 DEF KeptOK, machine, faults
    <3>1. \/ m[1] \in pids[m[2]] \/ m[1] \in queue
          \/ m[1] = pid /\ m[2] \in refs
      BY <2>5 DEF Inv, KeptOK, Working, Handling, Copying
    <3> QED BY <2>4, <3>1
  <2>11. ArchiveOK'
    BY <1>0, <2>5 DEF ArchiveOK, disk
  <2> QED BY <2>6, <2>7, <2>8, <2>9, <2>10, <2>11 DEF Inv
<1> QED BY <1>1, <1>2

-----------------------------------------------------------------------------
(* The archive *)

\* Nobody is to come or in hand: what holds of the directory is what is
\* promised of the archive.
LEMMA StartTarInv == Inv /\ StartTar => Inv'
<1> SUFFICES ASSUME Inv, StartTar PROVE Inv'
  OBVIOUS
<1> USE DEF StartTar
<1>0. run \in 1..MaxRuns /\ started
  BY DEF Inv, StageOK
<1>1. archive' \in Archives
  BY <1>0 DEF Inv, TypeOK, Archives
<1>2. archive' # None
  BY <1>1, SnapAssumption
<1>3. TypeOK'
  BY <1>1 DEF Inv, TypeOK, machine, faults, lists, local
<1>4. HistoryOK'
  BY DEF Inv, HistoryOK, machine
<1>5. StageOK'
  BY <1>0, <1>2 DEF Inv, StageOK, Working, Handling, Copying, local
<1>6. DirsOK' /\ SteadyOK' /\ ListsOK' /\ KeptOK'
  BY DEF DirsOK, SteadyOK, ListsOK, KeptOK, Working, Handling, Copying, Inv
<1>7. AllOrNothing' /\ OneRun'
  BY DEF AllOrNothing, OneRun, Inv, DirsOK, Working, Handling, Copying
<1>8. SteadyArchived'
  <2>1. ASSUME NEW p \in steady \ failed PROVE dump[p] # None /\ dump[p].pagemap # "none"
    BY DEF Inv, SteadyOK, Working
  <2> QED BY <2>1 DEF SteadyArchived
<1>9. SegmentsAgree'
  <2>1. ASSUME NEW s \in DOMAIN pids, NEW p \in pids[s]
        PROVE  dump[p] # None /\ dump[p].pagemap = "whole"
    BY DEF Inv, ListsOK, Working
  <2>2. ASSUME NEW m \in kept, m[2] \in DOMAIN pids, m[1] \notin failed, seekable
        PROVE  m[1] \in pids[m[2]]
    BY <2>2 DEF Inv, KeptOK, Working, Handling, Copying
  <2> QED BY <2>1, <2>2 DEF SegmentsAgree, machine
<1> QED BY <1>3, <1>4, <1>5, <1>6, <1>7, <1>8, <1>9 DEF Inv, ArchiveOK

\* The fields that ArchiveSound speaks of stay as they are.
LEMMA FinishTarInv == Inv /\ FinishTar => Inv'
<1> SUFFICES ASSUME Inv, FinishTar PROVE Inv'
  OBVIOUS
<1> USE DEF FinishTar
<1>0. run \in 1..MaxRuns /\ started /\ archive \in Archives /\ archive.dirs = dump
  BY DEF Inv, StageOK, TypeOK
<1>1. CASE End /\ UNCHANGED archive
  BY <1>0, <1>1, EndInv DEF Inv, TypeOK
<1>2. CASE pc' = "remove" /\ archive' = [archive EXCEPT !.whole = TRUE] /\ UNCHANGED local
  <2> USE <1>2
  <2>1. archive' \in Archives /\ archive'.whole /\ archive'.dirs = dump
    BY <1>0 DEF Archives
  <2>2. /\ archive'.run = archive.run /\ archive'.pids = archive.pids
        /\ archive'.steady = archive.steady /\ archive'.kept = archive.kept
        /\ archive'.failed = archive.failed /\ archive'.stuck = archive.stuck
    BY <1>0 DEF Archives
  <2>3. archive # None /\ archive' # None
    BY <1>0, <2>1, SnapAssumption
  <2>4. TypeOK'
    BY <2>1 DEF Inv, TypeOK, machine, faults, lists, local
  <2>5. HistoryOK' /\ DirsOK' /\ SteadyOK' /\ ListsOK' /\ KeptOK'
    BY DEF Inv, HistoryOK, DirsOK, SteadyOK, ListsOK, KeptOK, Working, Handling, Copying, machine, faults, lists, local
  <2>6. StageOK'
    BY <1>0, <2>1, <2>3 DEF Inv, StageOK, Working, Handling, Copying, machine, lists, local
  <2>7. ArchiveOK'
    BY <1>0, <2>1, <2>2, <2>3
    DEF Inv, ArchiveOK, AllOrNothing, OneRun, SteadyArchived, SegmentsAgree, machine
  <2> QED BY <2>4, <2>5, <2>6, <2>7 DEF Inv
<1> QED BY <1>1, <1>2

LEMMA RemoveDumpInv == Inv /\ RemoveDump => Inv'
<1> SUFFICES ASSUME Inv, RemoveDump PROVE Inv'
  OBVIOUS
<1> USE DEF RemoveDump
<1>0. started /\ dump \in [Pids -> Dirs \cup {None}]
  BY DEF Inv, StageOK, TypeOK
<1>1. CASE dump = Empty /\ started' = FALSE /\ End /\ UNCHANGED dump
  <2> USE <1>1 DEF End
  <2>1. TypeOK'
    <3>1. /\ pids' \in UNION {[set -> SUBSET Pids] : set \in SUBSET {s \in Segs : seg'[s] # "absent"}}
          /\ keys' \in [DOMAIN pids' -> -Half .. Half - 1]
      BY NoLists
    <3> QED BY <3>1 DEF Inv, TypeOK, machine, faults
  <2>2. HistoryOK' /\ StageOK' /\ DirsOK' /\ SteadyOK' /\ ListsOK' /\ KeptOK'
    BY DEF Inv, HistoryOK, StageOK, DirsOK, SteadyOK, ListsOK, KeptOK, machine, faults, Working, Handling, Copying
  <2>3. ArchiveOK'
    BY DEF Inv, ArchiveOK, AllOrNothing, OneRun, SteadyArchived, SegmentsAgree, machine
  <2> QED BY <2>1, <2>2, <2>3 DEF Inv
<1>2. ASSUME NEW p \in Pids, dump' = [dump EXCEPT ![p] = None], UNCHANGED <<started, pc, local>>
      PROVE  Inv'
  <2> USE <1>2
  <2>1. dump' \in [Pids -> Dirs \cup {None}] /\ \A q \in Pids : dump'[q] # None => dump'[q] = dump[q]
    BY <1>0
  <2>2. TypeOK'
    BY <1>0, <2>1 DEF Inv, TypeOK, machine, faults, lists, local
  <2>3. HistoryOK' /\ StageOK' /\ DirsOK' /\ SteadyOK' /\ ListsOK' /\ KeptOK'
    BY <2>1 DEF Inv, HistoryOK, StageOK, DirsOK, SteadyOK, ListsOK, KeptOK, Working, Handling, Copying, machine, faults, lists, local
  <2>4. ArchiveOK'
    BY DEF Inv, ArchiveOK, AllOrNothing, OneRun, SteadyArchived, SegmentsAgree, machine
  <2> QED BY <2>2, <2>3, <2>4 DEF Inv
<1> QED BY <1>1, <1>2

-----------------------------------------------------------------------------
(* The specification *)

LEMMA NextInv == Inv /\ [Next]_vars => Inv'
<1>1. Inv /\ UNCHANGED vars => Inv'
  <2> SUFFICES ASSUME Inv, UNCHANGED vars PROVE Inv'
    OBVIOUS
  <2> USE DEF vars, machine, faults, disk, lists, local
  <2>1. TypeOK'
    BY DEF Inv, TypeOK
  <2>2. HistoryOK' /\ StageOK' /\ DirsOK' /\ SteadyOK' /\ ListsOK' /\ KeptOK'
    BY DEF Inv, HistoryOK, StageOK, DirsOK, SteadyOK, ListsOK, KeptOK
  <2>3. ArchiveOK'
    BY DEF Inv, ArchiveOK, AllOrNothing, OneRun, SteadyArchived, SegmentsAgree
  <2> QED BY <2>1, <2>2, <2>3 DEF Inv
<1>2. Inv /\ Main => Inv'
  BY StartInv, CopyKernelFilesInv, ListSegmentsInv, AttachInv, ListProcessesInv, MakeDirInv,
     ReadMapsInv, ReadPagesInv, CopyFileInv, CopyLinksInv, SkipPidInv, RecordRefsInv,
     StartTarInv, FinishTarInv, RemoveDumpInv
  DEF Main
<1> QED BY <1>1, <1>2, MachineInv, UserInv DEF Next

LEMMA InvHolds == Spec => []Inv
BY InitInv, NextInv, PTL DEF Spec

\* At any point of any run, and between runs, the directories, the lists and
\* the archive are of their types, the keys of the lists have 32 bits with a
\* sign, and what is listed or attached was created.
THEOREM TypeCorrect == Spec => []TypeOK
<1>1. Inv => TypeOK
  BY DEF Inv
<1> QED BY InvHolds, <1>1, PTL

\* An archive that tar completed is of one run only; of a process it has all
\* mandatory files or nothing, unless its directory could not be removed; it
\* has those that lived through the run, unless a copy of them failed; and its
\* lists of segments agree with it.
THEOREM ArchiveIsSound == Spec => []ArchiveSound
<1>1. Inv => ArchiveSound
  BY DEF Inv, ArchiveOK, ArchiveSound
<1> QED BY InvHolds, <1>1, PTL

LEMMA NoLossPages ==
  ASSUME NEW d \in Dirs, NEW x \in {"cut", "whole"} PROVE ~Loses(d, [d EXCEPT !.pagemap = x])
BY DirTypePages DEF Loses, Dirs

LEMMA NoLossFiles ==
  ASSUME NEW d \in Dirs, d.files < NFiles PROVE ~Loses(d, [d EXCEPT !.files = @ + 1])
<1> DEFINE e == [d EXCEPT !.files = @ + 1]
<1>1. e # None /\ e.run = d.run /\ e.pagemap = d.pagemap
  BY DirTypeFiles
<1>2. ~(e.files < d.files)
  BY DEF Dirs
<1> QED BY <1>1, <1>2 DEF Loses

\* No step of snap.py overwrites an archive, or removes from the directory of
\* a process that is not in a complete archive, while the process is alive
\* and no copy of it failed.
THEOREM NothingIsLost == Spec => NothingLost
<1> DEFINE
  Kept == /\ archive # None => archive' # None /\ archive'.run = archive.run /\ archive'.dirs = archive.dirs
          /\ \A p \in Pids : Loses(dump[p], dump'[p]) =>
               \/ life[p] # "alive" \/ p \in failed
               \/ archive # None /\ archive.whole /\ archive.dirs[p] = dump[p]
<1>1. Inv /\ [Next]_vars => [~UserActs => Kept]_vars
  <2> SUFFICES ASSUME Inv, Next, ~UserActs PROVE Kept
    BY DEF vars
  <2>0. /\ dump \in [Pids -> Dirs \cup {None}]
        /\ \A d \in Dirs \cup {None} : ~Loses(d, d)
    BY SnapAssumption DEF Inv, TypeOK, Loses, Dirs
  <2>1. CASE UNCHANGED <<dump, archive>>
    BY <2>0, <2>1
  <2>2. CASE Machine
    BY <2>1, <2>2 DEF Machine, Appear, Leave, Map, Unmap, Remove, Event, disk
  <2>3. CASE CleanUp \/ Kill
    BY <2>1, <2>3 DEF CleanUp, Kill, UserActs, disk
  <2>4. CASE Start \/ CopyKernelFiles \/ ListSegments \/ ListProcesses \/ ReadMaps \/ CopyLinks \/ RecordRefs
    BY <2>1, <2>4 DEF Start, CopyKernelFiles, ListSegments, ListProcesses, ReadMaps, CopyLinks, RecordRefs, disk
  <2>5. CASE \E s \in Segs : Attach(s)
    BY <2>1, <2>5 DEF Attach, disk
  <2>6. ASSUME NEW p \in Pids, MakeDir(p) PROVE Kept
    <3>1. archive' = archive /\ dump[p] = None /\ \A q \in Pids \ {p} : dump'[q] = dump[q]
      BY <2>0, <2>6 DEF MakeDir, Inv, StageOK, Working
    <3> QED BY <2>0, <3>1 DEF Loses
  <2>7. CASE ReadPages \/ CopyFile
    <3>1. archive' = archive /\ pid \in Pids /\ \A q \in Pids \ {pid} : dump'[q] = dump[q]
      BY <2>0, <2>7 DEF ReadPages, CopyFile, Inv, StageOK, Handling, Copying
    <3>2. dump[pid] \in Dirs
      BY <2>0, <2>7, <3>1 DEF ReadPages, CopyFile, Inv, StageOK, Copying
    <3>3. \/ \E x \in {"cut", "whole"} : dump'[pid] = [dump[pid] EXCEPT !.pagemap = x]
          \/ dump[pid].files < NFiles /\ dump'[pid] = [dump[pid] EXCEPT !.files = @ + 1]
          \/ dump'[pid] = dump[pid]
      BY <2>0, <2>7, <3>1 DEF ReadPages, CopyFile
    <3>4. ~Loses(dump[pid], dump'[pid])
      BY <2>0, <3>2, <3>3, NoLossPages, NoLossFiles
    <3> QED BY <2>0, <3>1, <3>4
  <2>8. CASE SkipPid
    <3>1. /\ archive' = archive /\ pid \in Pids /\ (life[pid] # "alive" \/ pid \in failed)
          /\ \A q \in Pids \ {pid} : dump'[q] = dump[q]
      BY <2>0, <2>8 DEF SkipPid, Inv, StageOK, Handling, Copying
    <3> QED BY <2>0, <3>1
  <2>9. CASE StartTar
    BY <2>0, <2>9 DEF StartTar, Inv, StageOK
  <2>10. CASE FinishTar
    <3>1. archive \in Archives /\ dump' = dump
      BY <2>10 DEF FinishTar, Inv, TypeOK, StageOK
    <3>2. archive' \in Archives /\ archive'.run = archive.run /\ archive'.dirs = archive.dirs
      BY <2>10, <3>1 DEF FinishTar, Archives
    <3> QED BY <2>0, <3>1, <3>2, SnapAssumption
  <2>11. CASE RemoveDump
    <3>1. archive # None /\ archive' = archive /\ archive.whole /\ \A p \in Pids : dump[p] # None => archive.dirs[p] = dump[p]
      BY <2>11 DEF RemoveDump, Inv, StageOK
    <3> QED BY <2>0, <3>1 DEF Loses
  <2>12. CASE pc = "ended" /\ run = MaxRuns /\ UNCHANGED vars
    BY <2>1, <2>12 DEF vars, disk
  <2> QED BY <2>2, <2>3, <2>4, <2>5, <2>6, <2>7, <2>8, <2>9, <2>10, <2>11, <2>12 DEF Next, Main
<1> QED BY InvHolds, <1>1, PTL DEF Spec, NothingLost

=============================================================================
