---------------------------- MODULE ProcessInfo ----------------------------
(***************************************************************************)
(* get_process_info (src/lib.rs:556-688): what memstats learns of one      *)
(* process from its /proc files, while the process runs, moves its pages,  *)
(* replaces its image with exec, exits and is reaped.                      *)
(*                                                                         *)
(* The function reads cmdline, status, fd, pagemap and maps, the pages of  *)
(* every map through the pagemap it opened before it read maps, then       *)
(* status and environ.  Nothing freezes the process meanwhile: every file  *)
(* is a step, and so is every page, since procfs reads the pagemap through *)
(* a buffer.                                                               *)
(*                                                                         *)
(* An exec takes two steps: from the first on the process has its new      *)
(* address space, which the kernel still fills; until the second one has   *)
(* laid out the arguments, its cmdline reads empty, as a zombie's does.    *)
(* A scan that begins between the two learns what one that begins just     *)
(* before the first can learn, so every scan begins outside an exec.       *)
(***************************************************************************)
EXTENDS Integers, Sequences, SequencesExt, FiniteSets

CONSTANTS
  Maps,       \* the memory maps the process may have
  Kind,       \* of each map: "path", "anon" (heap, stack, ...), "vsys", "vsyscall"
  NPages,     \* pages of a map
  Frames,     \* page frame numbers, 0 excluded
  Slots,      \* places in swap
  MaxEvents   \* bound on what the process and the kernel do during one scan

ASSUME InfoAssumption ==
  /\ IsFiniteSet(Maps)
  /\ Kind \in [Maps -> {"path", "anon", "vsys", "vsyscall"}]
  /\ NPages \in Nat \ {0} /\ MaxEvents \in Nat
  /\ Frames \cap Slots = {} /\ 0 \notin Frames \cup Slots

VARIABLES
  \* the process, in the kernel
  life,      \* "alive", "zombie" or "gone"
  image,     \* its address space: 0, then one more with every exec
  execing,   \* an exec has replaced it and not laid out the arguments yet
  mapped,    \* its maps
  ptab,      \* its pages: in a frame, in swap, or not present (0)
  events,    \* how much happened to it since the scan began
  stable,    \* history: the maps and pages nothing happened to
  \* the scan
  pc,        \* the next file, or how the function ended
  pagemap,   \* the address space the open pagemap belongs to
  listing,   \* memory maps not yet read, in the order of their addresses
  buffer,    \* pages read of the map being read
  memmaps,   \* memory_maps: the pages of the maps read
  source     \* history: the address space those pages belong to

kernel == <<life, image, execing, mapped, ptab, events, stable>>
scan == <<pc, pagemap, listing, buffer, memmaps, source>>
vars == <<life, image, execing, mapped, ptab, events, stable,
          pc, pagemap, listing, buffer, memmaps, source>>

-----------------------------------------------------------------------------

NotPresent == 0
NoImage == -1    \* what a pagemap opened on a zombie shows
Paged == {"path", "anon"}
Entries == Frames \cup Slots \cup {NotPresent}
Indices == 1 .. NPages
Page == Maps \X Indices

\* How the function ended: with the information; with the error of a file,
\* "err", or of an empty cmdline, "empty"; in a panic
Ends == {"ok", "err", "empty", "panic"}

\* Reading a map that was unmapped in between finds holes.
PageOf(m, i) == IF m \in mapped THEN ptab[<<m, i>>] ELSE NotPresent

Init ==
  /\ life = "alive" /\ image = 0 /\ execing = FALSE
  /\ mapped \in SUBSET Maps
  /\ ptab \in [Page -> Entries]
  /\ \A p \in Page : p[1] \notin mapped \/ Kind[p[1]] \notin Paged => ptab[p] = NotPresent
  /\ events = 0
  /\ stable = {p \in Page : p[1] \in mapped}
  /\ pc = "cmdline"
  /\ pagemap = NoImage
  /\ listing = <<>> /\ buffer = <<>>
  /\ memmaps = <<>> /\ source = <<>>

-----------------------------------------------------------------------------
(* The kernel and the process *)

Event == events < MaxEvents /\ events' = events + 1

\* A page is faulted in, swapped out, swapped in or migrated.  The pages of
\* shared memory do too, but the scan does not read them.
MovePage ==
  /\ life = "alive" /\ Event
  /\ \E p \in Page, e \in Entries :
       /\ p[1] \in mapped /\ Kind[p[1]] \in Paged
       /\ e # ptab[p]
       /\ ptab' = [ptab EXCEPT ![p] = e]
       /\ stable' = stable \ {p}
  /\ UNCHANGED <<life, image, execing, mapped, scan>>

\* munmap, mmap: a new map has no page yet
ChangeMaps ==
  /\ life = "alive" /\ ~execing /\ Event
  /\ \E m \in Maps :
       /\ mapped' = IF m \in mapped THEN mapped \ {m} ELSE mapped \cup {m}
       /\ ptab' = [p \in Page |-> IF p[1] = m THEN NotPresent ELSE ptab[p]]
       /\ stable' = {p \in stable : p[1] # m}
  /\ UNCHANGED <<life, image, execing, scan>>

\* exec: another address space; the files opened on the first one find it empty
Exec ==
  /\ life = "alive" /\ ~execing /\ Event
  /\ image' = image + 1 /\ execing' = TRUE
  /\ mapped' \in SUBSET Maps
  /\ ptab' = [p \in Page |-> NotPresent]
  /\ stable' = {}
  /\ UNCHANGED <<life, scan>>

\* The program and its arguments are in place.
FinishExec ==
  /\ execing /\ execing' = FALSE
  /\ \E more \in SUBSET Maps : mapped' = mapped \cup more
  /\ UNCHANGED <<life, image, ptab, events, stable, scan>>

\* exit gives the memory back and leaves a zombie, until the parent reaps it.
Exit ==
  /\ Event
  /\ \/ life = "alive" /\ life' = "zombie"
     \/ life = "zombie" /\ life' = "gone"
  /\ execing' = FALSE
  /\ mapped' = {} /\ stable' = {}
  /\ ptab' = [p \in Page |-> NotPresent]
  /\ UNCHANGED <<image, scan>>

Kernel == MovePage \/ ChangeMaps \/ Exec \/ FinishExec \/ Exit

-----------------------------------------------------------------------------
(* get_process_info *)

Fail == pc' = "err" /\ UNCHANGED <<pagemap, listing, buffer, memmaps, source>>

GoTo(stage) == pc' = stage /\ UNCHANGED <<pagemap, listing, buffer, memmaps, source>>

\* if process.cmdline()?.is_empty() { Err(..)? }
ReadCmdline ==
  /\ pc = "cmdline"
  /\ \/ life = "alive" /\ ~execing /\ GoTo("status")
     \/ (life = "zombie" \/ execing) /\ GoTo("empty")
     \/ life = "gone" /\ Fail
  /\ UNCHANGED kernel

\* .status()?.vmpte.expect(..): a zombie has no Vm lines in its status
ReadStatus ==
  /\ pc = "status"
  /\ \/ life = "alive" /\ GoTo("fds")
     \/ life = "zombie" /\ GoTo("panic")
     \/ life = "gone" /\ Fail
  /\ UNCHANGED kernel

\* .fd_count()?: a zombie's directory is empty
CountFds ==
  /\ pc = "fds"
  /\ IF life # "gone" THEN GoTo("pagemap") ELSE Fail
  /\ UNCHANGED kernel

\* .pagemap()?: depending on the kernel, the pagemap of a zombie is an empty
\* file or an error, and so are its maps and its environ.
OpenPagemap ==
  /\ pc = "pagemap"
  /\ \/ /\ life # "gone"
        /\ pc' = "maps"
        /\ pagemap' = IF life = "alive" THEN image ELSE NoImage
        /\ UNCHANGED <<listing, buffer, memmaps, source>>
     \/ life # "alive" /\ Fail
  /\ UNCHANGED kernel

\* .maps()?
ReadMaps ==
  /\ pc = "maps"
  /\ \/ /\ life # "gone"
        /\ pc' = "walk"
        /\ listing' \in SetToSeqs(mapped)
        /\ UNCHANGED <<pagemap, buffer, memmaps, source>>
     \/ life # "alive" /\ Fail
  /\ UNCHANGED kernel

\* A map leaves the listing: with its pages, or without a trace.
Keep(m, pages) == /\ listing' = Tail(listing) /\ buffer' = <<>>
                  /\ memmaps' = [k \in DOMAIN memmaps \cup {m} |->
                                   IF k = m THEN pages ELSE memmaps[k]]
                  /\ source' = [k \in DOMAIN source \cup {m} |->
                                   IF k = m THEN image ELSE source[k]]
                  /\ UNCHANGED <<pc, pagemap>>

Drop(m) == /\ listing' = Tail(listing) /\ buffer' = <<>>
           /\ UNCHANGED <<pc, pagemap, memmaps, source>>

\* The map the iterator is at
Current == Head(listing)

\* Vsyscall is skipped, the pages of shared memory are not read (optimize_shm)
SkipPages ==
  /\ pc = "walk" /\ listing # <<>>
  /\ \/ Kind[Current] = "vsyscall" /\ Drop(Current)
     \/ Kind[Current] = "vsys" /\ Keep(Current, <<>>)
  /\ UNCHANGED kernel

Readable == life = "alive" /\ image = pagemap

\* Mutant: a range that cannot be read is an error of the function
ReadPageStrict ==
  /\ pc = "walk" /\ listing # <<>>
  /\ Kind[Current] \in Paged
  /\ IF Readable THEN Keep(Current, [i \in Indices |-> PageOf(Current, i)]) ELSE Fail
  /\ UNCHANGED kernel

\* Mutant: the pagemap is opened again for every map
ReadPageReopened ==
  /\ pc = "walk" /\ listing # <<>>
  /\ Kind[Current] \in Paged
  /\ IF life = "alive" THEN Keep(Current, [i \in Indices |-> PageOf(Current, i)])
                       ELSE Drop(Current)
  /\ UNCHANGED kernel

\* pagemap.get_range_info(..): an address space that is no more reads as an
\* end of file; that error loses the map, and is not reported.
ReadPage ==
  /\ pc = "walk" /\ listing # <<>>
  /\ Kind[Current] \in Paged
  /\ LET i == Len(buffer) + 1
         pages == Append(buffer, PageOf(Current, i))
     IN  \/ ~Readable /\ Drop(Current)
         \/ /\ Readable /\ i < NPages
            /\ buffer' = pages
            /\ UNCHANGED <<pc, pagemap, listing, memmaps, source>>
         \/ Readable /\ i = NPages /\ Keep(Current, pages)
  /\ UNCHANGED kernel

\* The loop over memory_maps only computes; then .status()?.euid
ReadUid ==
  /\ pc = "walk" /\ listing = <<>>
  /\ IF life # "gone" THEN GoTo("environ") ELSE Fail
  /\ UNCHANGED kernel

\* .environ()?, and the function returns
ReadEnviron ==
  /\ pc = "environ"
  /\ \/ life # "gone" /\ GoTo("ok")
     \/ life # "alive" /\ Fail
  /\ UNCHANGED kernel

Scan == \/ ReadCmdline \/ ReadStatus \/ CountFds \/ OpenPagemap \/ ReadMaps
        \/ SkipPages \/ ReadPage \/ ReadUid \/ ReadEnviron

Next == Scan \/ Kernel \/ (pc \in Ends /\ UNCHANGED vars)

Spec == Init /\ [][Next]_vars

-----------------------------------------------------------------------------
(* What the loop over memory_maps computes *)

ReadOf(kinds) == {m \in DOMAIN memmaps : Kind[m] \in kinds}

EntriesOf(kinds) == UNION {{memmaps[m][i] : i \in Indices} : m \in ReadOf(kinds)}

\* Mutant: anonymous pages only go to anon_pfns
path_pfns == EntriesOf({"path"}) \ Slots

pfns == EntriesOf(Paged) \ Slots
anon_pfns == EntriesOf({"anon"}) \ Slots
swap_pages == EntriesOf(Paged) \cap Slots
anon_swap_pages == EntriesOf({"anon"}) \cap Slots

-----------------------------------------------------------------------------

\* Types; the pages of a map are complete, or left out because it is shared.
TypeOK ==
  /\ life \in {"alive", "zombie", "gone"} /\ image \in 0 .. events /\ execing \in BOOLEAN
  /\ mapped \subseteq Maps /\ ptab \in [Page -> Entries]
  /\ events \in 0 .. MaxEvents /\ stable \subseteq Page
  /\ pc \in {"cmdline", "status", "fds", "pagemap", "maps", "walk", "environ"} \cup Ends
  /\ pagemap \in 0 .. MaxEvents \cup {NoImage} /\ listing \in Seq(Maps)
  /\ buffer \in Seq(Entries) /\ Len(buffer) < NPages
  /\ DOMAIN memmaps \subseteq Maps /\ DOMAIN source = DOMAIN memmaps
  /\ \A m \in DOMAIN memmaps :
       IF Kind[m] = "vsys" THEN memmaps[m] = <<>> ELSE memmaps[m] \in [Indices -> Entries]

\* A page that nothing happened to during the scan, in a process that was not
\* replaced, is reported: in pfns, or in swap_pages if it is in swap, and in
\* the anonymous sets if it is anonymous (lib.rs:596-668).  The maps that the
\* filter_map of lib.rs:380-383 loses belong to an address space that is gone.
StablePagesReported ==
  pc = "ok" =>
    \A p \in stable :
      LET e == ptab[p]
          anon == Kind[p[1]] = "anon"
      IN  Kind[p[1]] \in Paged =>
            IF e \in Slots THEN e \in swap_pages /\ (anon => e \in anon_swap_pages)
                           ELSE e \in pfns /\ (anon => e \in anon_pfns)

\* The error of a file is only returned for a process that exited: exec,
\* unmapped ranges and moving pages are none.  The error of an empty cmdline
\* (lib.rs:562) is also returned for a process met in the middle of an exec,
\* and for no other that lives.  This is how far memstats may call the
\* processes without information "vanished" (memstats.rs:657, 674).
ErrMeansLeft ==
  /\ pc = "err" => life # "alive"
  /\ pc = "empty" => life # "alive" \/ image # 0

\* The pages reported are all those of one address space, the one whose
\* status was read or one that exec replaced it with, never of two: pagemap
\* is opened once, before maps is read (lib.rs:362-363).
OneImage == \A m, k \in DOMAIN source :
              Kind[m] \in Paged /\ Kind[k] \in Paged
                => source[m] = source[k]

\* The expect on vmpte never fails (lib.rs:585).
VmpteExists == pc # "panic"

=============================================================================
