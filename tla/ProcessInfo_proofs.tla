------------------------- MODULE ProcessInfo_proofs -------------------------
(***************************************************************************)
(* What get_process_info returns, for any maps, any number of pages, and   *)
(* whatever the process and the kernel do meanwhile.                       *)
(*                                                                         *)
(* Two facts carry the proofs.  Once the pagemap is open, an address space *)
(* other than its own has no page nothing happened to; so a map is only    *)
(* lost when there is nothing stable left to report.  And a page that is   *)
(* stable is in the listing still, or was recorded as it is.               *)
(***************************************************************************)
EXTENDS ProcessInfo, FiniteSetTheorems, TLAPS

Before == {"cmdline", "status", "fds", "pagemap"}
Reading == {"walk", "environ", "ok"}

\* A zombie has no pages, and maps that are gone have none that are stable.
LifeOK ==
  /\ life # "alive" => stable = {} /\ mapped = {}
  /\ \A p \in stable : p[1] \in mapped

\* What an open pagemap can be read for
PagemapOK ==
  /\ pc \in Before => pagemap = NoImage /\ memmaps = <<>> /\ source = <<>>
  /\ pc \in Before \cup {"maps"} => listing = <<>> /\ buffer = <<>> /\ memmaps = <<>> /\ source = <<>>
  /\ pc \in {"maps"} \cup Reading /\ pagemap # image => stable = {}
  /\ pc \in {"environ", "ok"} => listing = <<>>
  /\ listing = <<>> => buffer = <<>>

\* The pages read of the current map are those that are there.
BufferOK ==
  \A p \in stable :
    listing # <<>> /\ p[1] = Current /\ p[2] <= Len(buffer) => buffer[p[2]] = ptab[p]

Recorded(p) == p[1] \in DOMAIN memmaps /\ memmaps[p[1]][p[2]] = ptab[p]

Listed(p) == \E j \in DOMAIN listing : listing[j] = p[1]

NothingMissed ==
  pc \in Reading => \A p \in stable : Kind[p[1]] \in Paged => Listed(p) \/ Recorded(p)

\* All the pages recorded were read through one pagemap.
OneSource == \A m \in DOMAIN source : Kind[m] \in Paged => source[m] = pagemap

\* Only a process that has exited makes a file fail; the cmdline of one that
\* lives is empty only in an exec.
ErrOK ==
  /\ pc = "err" => life # "alive"
  /\ pc = "empty" => life # "alive" \/ image # 0
  /\ execing => life = "alive" /\ image # 0

Inv == TypeOK /\ LifeOK /\ PagemapOK /\ BufferOK /\ NothingMissed /\ OneSource /\ ErrOK

-----------------------------------------------------------------------------
\* A listing of a finite set has all of it.
LEMMA ListingComplete ==
  ASSUME NEW S, IsFiniteSet(S), NEW list \in SetToSeqs(S)
  PROVE  list \in Seq(S) /\ \A m \in S : \E j \in DOMAIN list : list[j] = m
<1> DEFINE D == 1..Cardinality(S)
<1>1. Cardinality(S) \in Nat
  BY FS_CardinalityType
<1>2. list \in [D -> S] /\ \A i, j \in D : i # j => list[i] # list[j]
  BY DEF SetToSeqs
<1>3. list \in Injection(D, S)
  BY <1>2 DEF Injection, IsInjective
<1>4. Cardinality(D) = Cardinality(S)
  BY <1>1, FS_Interval
<1>5. list \in Surjection(D, S)
  BY <1>3, <1>4, FS_Injection
<1>6. \A m \in S : \E j \in D : list[j] = m
  BY <1>5 DEF Surjection
<1> QED BY <1>1, <1>2, <1>6

LEMMA InitInv == Init => Inv
<1> SUFFICES ASSUME Init PROVE Inv
  OBVIOUS
<1> USE InfoAssumption DEF Init
<1>1. TypeOK
  <2>1. ptab \in [Page -> Entries] /\ mapped \subseteq Maps /\ stable \subseteq Page
    OBVIOUS
  <2>2. image \in 0..events /\ events \in 0..MaxEvents /\ pagemap \in 0..MaxEvents \cup {NoImage}
    OBVIOUS
  <2>3. /\ listing \in Seq(Maps) /\ buffer \in Seq(Entries) /\ Len(buffer) < NPages
        /\ DOMAIN memmaps = {} /\ DOMAIN source = {}
    OBVIOUS
  <2> QED BY <2>1, <2>2, <2>3 DEF TypeOK
<1>2. LifeOK /\ PagemapOK /\ BufferOK /\ NothingMissed /\ OneSource /\ ErrOK
  BY DEF LifeOK, PagemapOK, BufferOK, NothingMissed, OneSource, ErrOK, Before, Reading
<1> QED BY <1>1, <1>2 DEF Inv

LEMMA KernelInv == Inv /\ Kernel => Inv'
<1> SUFFICES ASSUME Inv, Kernel PROVE Inv'
  OBVIOUS
<1>1. UNCHANGED scan /\ events' \in 0..MaxEvents
  BY InfoAssumption DEF Inv, TypeOK, Kernel, MovePage, ChangeMaps, Exec, FinishExec, Exit, Event
<1>2. stable' \subseteq stable /\ \A p \in stable' : ptab'[p] = ptab[p] /\ p[1] \in mapped'
  BY DEF Inv, TypeOK, LifeOK, Kernel, MovePage, ChangeMaps, Exec, FinishExec, Exit
<1>3. /\ life # "alive" => life' # "alive"
      /\ life' # "alive" => stable' = {} /\ mapped' = {}
      /\ image' # image => stable' = {}
  BY DEF Inv, TypeOK, LifeOK, ErrOK, Kernel, MovePage, ChangeMaps, Exec, FinishExec, Exit
<1>a. /\ image # 0 => image' # 0
      /\ execing' => life' = "alive" /\ image' # 0
  BY DEF Inv, TypeOK, ErrOK, Kernel, MovePage, ChangeMaps, Exec, FinishExec, Exit
<1>4. TypeOK'
  <2>1. life' \in {"alive", "zombie", "gone"} /\ execing' \in BOOLEAN /\ mapped' \subseteq Maps
    BY DEF Inv, TypeOK, Kernel, MovePage, ChangeMaps, Exec, FinishExec, Exit
  <2>2. ptab' \in [Page -> Entries]
    BY DEF Inv, TypeOK, Kernel, MovePage, ChangeMaps, Exec, FinishExec, Exit, Entries
  <2>3. image' \in 0 .. events'
    BY DEF Inv, TypeOK, Kernel, MovePage, ChangeMaps, Exec, FinishExec, Exit, Event
  <2> QED BY <1>1, <1>2, <2>1, <2>2, <2>3 DEF Inv, TypeOK, scan
<1>5. LifeOK'
  BY <1>2, <1>3 DEF LifeOK
<1>6. PagemapOK'
  BY <1>1, <1>2, <1>3 DEF Inv, PagemapOK, scan
<1>7. BufferOK'
  BY <1>1, <1>2 DEF Inv, BufferOK, Current, scan
<1>8. NothingMissed'
  BY <1>1, <1>2 DEF Inv, NothingMissed, Listed, Recorded, scan
<1>9. OneSource' /\ ErrOK'
  BY <1>1, <1>3, <1>a DEF Inv, OneSource, ErrOK, scan
<1> QED BY <1>4, <1>5, <1>6, <1>7, <1>8, <1>9 DEF Inv

\* The steps that leave what was read as it is
LEMMA QuietInv ==
  ASSUME Inv, UNCHANGED kernel, UNCHANGED <<pagemap, listing, buffer, memmaps, source>>,
         pc' \in {"cmdline", "status", "fds", "pagemap", "environ", "err", "empty", "panic", "ok"},
         pc' \in Before => pc \in Before,
         pc' = "err" => life # "alive",
         pc' = "empty" => life # "alive" \/ image # 0,
         pc' \in {"environ", "ok"} => pc \in {"walk", "environ", "ok"} /\ listing = <<>>
  PROVE  Inv'
<1>1. TypeOK'
  BY DEF Inv, TypeOK, kernel, Ends
<1>2. LifeOK' /\ OneSource' /\ ErrOK'
  BY DEF Inv, LifeOK, OneSource, ErrOK, kernel
<1>3. PagemapOK'
  BY DEF Inv, PagemapOK, kernel, Before, Reading
<1>4. BufferOK' /\ NothingMissed'
  BY DEF Inv, BufferOK, NothingMissed, Listed, Recorded, Current, kernel, Reading
<1> QED BY <1>1, <1>2, <1>3, <1>4 DEF Inv

LEMMA OpenPagemapInv == Inv /\ OpenPagemap => Inv'
<1> SUFFICES ASSUME Inv, OpenPagemap PROVE Inv'
  OBVIOUS
<1>1. CASE life # "alive" /\ Fail
  BY <1>1, QuietInv DEF Fail, OpenPagemap, Before
<1>2. CASE /\ pc' = "maps"
           /\ pagemap' = IF life = "alive" THEN image ELSE NoImage
           /\ UNCHANGED <<listing, buffer, memmaps, source>>
  <2>0. UNCHANGED kernel /\ pc = "pagemap"
    BY DEF OpenPagemap
  <2>a. pagemap' \in 0..MaxEvents \cup {NoImage}
    BY <1>2, InfoAssumption DEF Inv, TypeOK
  <2>1. TypeOK'
    BY <1>2, <2>0, <2>a DEF Inv, TypeOK, kernel
  <2>2. LifeOK' /\ ErrOK'
    BY <1>2, <2>0 DEF Inv, LifeOK, ErrOK, kernel
  <2>3. PagemapOK' /\ OneSource'
    BY <1>2, <2>0 DEF Inv, PagemapOK, OneSource, LifeOK, kernel, Before, Reading
  <2>4. BufferOK' /\ NothingMissed'
    BY <1>2, <2>0 DEF Inv, PagemapOK, BufferOK, NothingMissed, kernel, Before, Reading
  <2> QED BY <2>1, <2>2, <2>3, <2>4 DEF Inv
<1> QED BY <1>1, <1>2 DEF OpenPagemap

LEMMA ReadMapsInv == Inv /\ ReadMaps => Inv'
<1> SUFFICES ASSUME Inv, ReadMaps PROVE Inv'
  OBVIOUS
<1>1. CASE life # "alive" /\ Fail
  BY <1>1, QuietInv DEF Fail, ReadMaps, Before
<1>2. CASE /\ pc' = "walk"
           /\ listing' \in SetToSeqs(mapped)
           /\ UNCHANGED <<pagemap, buffer, memmaps, source>>
  <2>0. UNCHANGED kernel /\ pc = "maps" /\ mapped \subseteq Maps
    BY DEF ReadMaps, Inv, TypeOK
  <2>1. listing' \in Seq(mapped) /\ \A m \in mapped : \E j \in DOMAIN listing' : listing'[j] = m
    BY <1>2, <2>0, ListingComplete, FS_Subset, InfoAssumption
  <2>2. buffer = <<>>
    BY <2>0 DEF Inv, PagemapOK
  <2>3. TypeOK'
    BY <1>2, <2>0, <2>1 DEF Inv, TypeOK, kernel
  <2>4. LifeOK' /\ ErrOK' /\ OneSource'
    BY <1>2, <2>0 DEF Inv, LifeOK, ErrOK, OneSource, kernel
  <2>5. PagemapOK'
    BY <1>2, <2>0, <2>2 DEF Inv, PagemapOK, kernel, Before, Reading
  <2>6. BufferOK'
    BY <1>2, <2>0, <2>2, InfoAssumption DEF Inv, TypeOK, BufferOK, kernel, Page, Indices
  <2>7. NothingMissed'
    BY <1>2, <2>0, <2>1 DEF Inv, LifeOK, NothingMissed, Listed, kernel
  <2> QED BY <2>3, <2>4, <2>5, <2>6, <2>7 DEF Inv
<1> QED BY <1>1, <1>2 DEF ReadMaps

-----------------------------------------------------------------------------
(* The walk through the maps *)

\* A map leaves the listing without a trace: nothing stable was in it.
LEMMA DropInv ==
  ASSUME Inv, pc = "walk", listing # <<>>, Drop(Current), UNCHANGED kernel,
         Kind[Current] \in Paged => stable = {}
  PROVE  Inv'
<1> USE DEF Drop
<1>0. /\ listing \in Seq(Maps) /\ Current \in Maps /\ Current = listing[1]
      /\ Tail(listing) \in Seq(Maps)
      /\ \A j \in DOMAIN listing : j = 1 \/ (j - 1 \in DOMAIN Tail(listing) /\ Tail(listing)[j - 1] = listing[j])
  BY DEF Inv, TypeOK, Current
<1>1. TypeOK'
  BY <1>0, InfoAssumption DEF Inv, TypeOK, kernel
<1>2. LifeOK' /\ ErrOK' /\ OneSource'
  BY DEF Inv, LifeOK, ErrOK, OneSource, kernel
<1>3. PagemapOK'
  BY DEF Inv, PagemapOK, kernel, Before, Reading
<1>4. BufferOK'
  BY InfoAssumption DEF Inv, TypeOK, BufferOK, kernel, Page, Indices
<1>5. NothingMissed'
  <2> SUFFICES ASSUME NEW p \in stable, Kind[p[1]] \in Paged PROVE Listed(p)' \/ Recorded(p)'
    BY DEF NothingMissed, kernel
  <2>1. p[1] # Current
    OBVIOUS
  <2>2. CASE Listed(p)
    BY <1>0, <2>1, <2>2 DEF Listed
  <2>3. CASE Recorded(p)
    BY <2>3 DEF Recorded, kernel
  <2> QED BY <2>2, <2>3 DEF Inv, NothingMissed, Reading
<1> QED BY <1>1, <1>2, <1>3, <1>4, <1>5 DEF Inv

\* A map leaves the listing with its pages: what is stable in it was recorded.
LEMMA KeepInv ==
  ASSUME Inv, pc = "walk", listing # <<>>, NEW pages, Keep(Current, pages), UNCHANGED kernel,
         IF Kind[Current] = "vsys" THEN pages = <<>> ELSE pages \in [Indices -> Entries],
         Kind[Current] \in Paged =>
           /\ image = pagemap
           /\ \A p \in stable : p[1] = Current => pages[p[2]] = ptab[p]
  PROVE  Inv'
<1> USE DEF Keep
<1>0. /\ listing \in Seq(Maps) /\ Current \in Maps /\ Current = listing[1]
      /\ Tail(listing) \in Seq(Maps)
      /\ \A j \in DOMAIN listing : j = 1 \/ (j - 1 \in DOMAIN Tail(listing) /\ Tail(listing)[j - 1] = listing[j])
  BY DEF Inv, TypeOK, Current
<1>a. /\ DOMAIN memmaps' = DOMAIN memmaps \cup {Current} /\ DOMAIN source' = DOMAIN source \cup {Current}
      /\ memmaps'[Current] = pages /\ source'[Current] = image
      /\ \A m \in DOMAIN memmaps \ {Current} : memmaps'[m] = memmaps[m]
      /\ \A m \in DOMAIN source \ {Current} : source'[m] = source[m]
  OBVIOUS
<1>1. TypeOK'
  <2>1. \A m \in DOMAIN memmaps' :
          IF Kind[m] = "vsys" THEN memmaps'[m] = <<>> ELSE memmaps'[m] \in [Indices -> Entries]
    BY <1>a DEF Inv, TypeOK
  <2>2. DOMAIN memmaps' \subseteq Maps /\ DOMAIN source' = DOMAIN memmaps'
    BY <1>0, <1>a DEF Inv, TypeOK
  <2>3. listing' \in Seq(Maps) /\ buffer' \in Seq(Entries) /\ Len(buffer') < NPages
    BY <1>0, InfoAssumption
  <2> QED BY <2>1, <2>2, <2>3 DEF Inv, TypeOK, kernel
<1>2. LifeOK' /\ ErrOK'
  BY DEF Inv, LifeOK, ErrOK, kernel
<1>3. OneSource'
  BY <1>a DEF Inv, OneSource
<1>4. PagemapOK'
  BY DEF Inv, PagemapOK, kernel, Before, Reading
<1>5. BufferOK'
  BY InfoAssumption DEF Inv, TypeOK, BufferOK, kernel, Page, Indices
<1>6. NothingMissed'
  <2> SUFFICES ASSUME NEW p \in stable, Kind[p[1]] \in Paged PROVE Listed(p)' \/ Recorded(p)'
    BY DEF NothingMissed, kernel
  <2>1. CASE p[1] = Current
    BY <1>a, <2>1 DEF Recorded, kernel
  <2>2. CASE p[1] # Current /\ Listed(p)
    BY <1>0, <2>2 DEF Listed
  <2>3. CASE p[1] # Current /\ Recorded(p)
    BY <1>a, <2>3 DEF Recorded, kernel
  <2> QED BY <2>1, <2>2, <2>3 DEF Inv, NothingMissed, Reading
<1> QED BY <1>1, <1>2, <1>3, <1>4, <1>5, <1>6 DEF Inv

LEMMA SkipPagesInv == Inv /\ SkipPages => Inv'
<1> SUFFICES ASSUME Inv, SkipPages PROVE Inv'
  OBVIOUS
<1>1. CASE Kind[Current] = "vsyscall" /\ Drop(Current)
  BY <1>1, DropInv DEF SkipPages, Paged
<1>2. CASE Kind[Current] = "vsys" /\ Keep(Current, <<>>)
  BY <1>2, KeepInv DEF SkipPages, Paged
<1> QED BY <1>1, <1>2 DEF SkipPages

LEMMA ReadPageInv == Inv /\ ReadPage => Inv'
<1> SUFFICES ASSUME Inv, ReadPage PROVE Inv'
  OBVIOUS
<1> DEFINE i == Len(buffer) + 1
           pages == Append(buffer, PageOf(Current, i))
<1>0. /\ pc = "walk" /\ listing # <<>> /\ Kind[Current] \in Paged /\ UNCHANGED kernel
      /\ buffer \in Seq(Entries) /\ i \in Indices /\ Current \in Maps
  BY InfoAssumption DEF ReadPage, Inv, TypeOK, Indices, Current
<1>1. PageOf(Current, i) \in Entries
  BY <1>0 DEF PageOf, Inv, TypeOK, Page, Entries
<1>2. pages \in Seq(Entries) /\ Len(pages) = i /\ \A k \in 1..i : pages[k] = IF k = i THEN PageOf(Current, i) ELSE buffer[k]
  BY <1>0, <1>1
<1>3. \A p \in stable : p[1] = Current /\ p[2] <= i => pages[p[2]] = ptab[p]
  <2> SUFFICES ASSUME NEW p \in stable, p[1] = Current, p[2] <= i PROVE pages[p[2]] = ptab[p]
    OBVIOUS
  <2>1. p \in Page /\ p = <<p[1], p[2]>> /\ p[2] \in Indices /\ p[1] \in mapped
    BY DEF Inv, TypeOK, LifeOK, Page
  <2>2. CASE p[2] = i
    BY <1>2, <2>1, <2>2 DEF PageOf, Indices
  <2>3. CASE p[2] # i
    BY <1>0, <1>2, <2>1, <2>3 DEF Inv, BufferOK, Indices
  <2> QED BY <2>2, <2>3
<1>4. CASE ~Readable /\ Drop(Current)
  <2>1. stable = {}
    BY <1>0, <1>4 DEF Readable, Inv, LifeOK, PagemapOK, Reading
  <2> QED BY <1>0, <1>4, <2>1, DropInv
<1>5. CASE Readable /\ i < NPages /\ buffer' = pages /\ UNCHANGED <<pc, pagemap, listing, memmaps, source>>
  <2>1. TypeOK'
    BY <1>0, <1>2, <1>5 DEF Inv, TypeOK, kernel
  <2>2. LifeOK' /\ ErrOK' /\ OneSource'
    BY <1>0, <1>5 DEF Inv, LifeOK, ErrOK, OneSource, kernel
  <2>3. PagemapOK'
    BY <1>0, <1>5 DEF Inv, PagemapOK, kernel, Before, Reading
  <2>4. BufferOK'
    BY <1>0, <1>2, <1>3, <1>5 DEF BufferOK, Current, kernel
  <2>5. NothingMissed'
    BY <1>0, <1>5 DEF Inv, NothingMissed, Listed, Recorded, kernel
  <2> QED BY <2>1, <2>2, <2>3, <2>4, <2>5 DEF Inv
<1>6. CASE Readable /\ i = NPages /\ Keep(Current, pages)
  <2>1. pages \in [Indices -> Entries]
    <3>1. \A s \in Seq(Entries) : s \in [1..Len(s) -> Entries]
      OBVIOUS
    <3> HIDE DEF pages
    <3> QED BY <1>2, <1>6, <3>1 DEF Indices
  <2>2. \A p \in stable : p[1] = Current => pages[p[2]] = ptab[p]
    BY <1>3, <1>6, InfoAssumption DEF Inv, TypeOK, Page, Indices
  <2>3. image = pagemap /\ Kind[Current] # "vsys"
    BY <1>0, <1>6 DEF Readable, Paged
  <2> QED BY <1>0, <1>6, <2>1, <2>2, <2>3, KeepInv
<1> QED BY <1>4, <1>5, <1>6 DEF ReadPage

LEMMA NextInv == Inv /\ [Next]_vars => Inv'
<1> SUFFICES ASSUME Inv, [Next]_vars PROVE Inv'
  OBVIOUS
<1>1. CASE ReadCmdline
  BY <1>1, QuietInv DEF ReadCmdline, Fail, GoTo, Before, Inv, ErrOK
<1>2. CASE ReadStatus
  BY <1>2, QuietInv DEF ReadStatus, Fail, GoTo, Before
<1>3. CASE CountFds
  BY <1>3, QuietInv DEF CountFds, Fail, GoTo, Before
<1>4. CASE ReadUid
  BY <1>4, QuietInv DEF ReadUid, Fail, GoTo, Before
<1>5. CASE ReadEnviron
  <2>1. listing = <<>>
    BY <1>5 DEF ReadEnviron, Inv, PagemapOK
  <2> QED BY <1>5, <2>1, QuietInv DEF ReadEnviron, Fail, GoTo, Before
<1>6. CASE UNCHANGED vars
  BY <1>6 DEF vars, Inv, TypeOK, LifeOK, PagemapOK, BufferOK, NothingMissed, OneSource, ErrOK,
              Listed, Recorded, Current
<1> QED
  BY <1>1, <1>2, <1>3, <1>4, <1>5, <1>6, KernelInv, OpenPagemapInv, ReadMapsInv, SkipPagesInv, ReadPageInv
     DEF Next, Scan

LEMMA InvHolds == Spec => []Inv
BY InitInv, NextInv, PTL DEF Spec

-----------------------------------------------------------------------------
(***************************************************************************)
(* Theorems                                                                *)
(***************************************************************************)
\* Types of one scan; a map is recorded with all its pages.
THEOREM TypeCorrect == Spec => []TypeOK
BY InvHolds, PTL DEF Inv

\* Pages that nothing happened to are reported, in every set of their kind
\* (lib.rs:596-668).
THEOREM StableReported == Spec => []StablePagesReported
<1>1. Inv => StablePagesReported
  <2> SUFFICES ASSUME Inv, pc = "ok", NEW p \in stable, Kind[p[1]] \in Paged
               PROVE  LET e == ptab[p]
                          anon == Kind[p[1]] = "anon"
                      IN  IF e \in Slots THEN e \in swap_pages /\ (anon => e \in anon_swap_pages)
                                         ELSE e \in pfns /\ (anon => e \in anon_pfns)
    BY DEF StablePagesReported
  <2>1. Recorded(p) /\ p[2] \in Indices
    BY DEF Inv, TypeOK, PagemapOK, NothingMissed, Listed, Reading, Page
  <2>2. \A kinds : Kind[p[1]] \in kinds => ptab[p] \in EntriesOf(kinds)
    BY <2>1 DEF Recorded, EntriesOf, ReadOf
  <2> QED BY <2>2 DEF pfns, anon_pfns, swap_pages, anon_swap_pages, Paged
<1> QED BY <1>1, InvHolds, PTL

\* A file fails get_process_info only for a process that has exited, and an
\* empty cmdline only for such a process or in the middle of an exec.
THEOREM ErrorsAreExits == Spec => []ErrMeansLeft
<1>1. Inv => ErrMeansLeft
  BY DEF Inv, ErrOK, ErrMeansLeft
<1> QED BY <1>1, InvHolds, PTL

\* What it reports is of one address space, however often the process execs
\* (lib.rs:362-363).
THEOREM OneImageReported == Spec => []OneImage
<1>1. Inv => OneImage
  BY DEF Inv, OneSource, OneImage
<1> QED BY <1>1, InvHolds, PTL

=============================================================================
