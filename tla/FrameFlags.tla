----------------------------- MODULE FrameFlags -----------------------------
(***************************************************************************)
(* From physical memory to a picture and back, in the kpageflags viewers:  *)
(* the flags of every frame of every System RAM segment are read from      *)
(* /proc/kpageflags while the kernel goes on allocating and freeing        *)
(* compound pages; gen_image draws each frame at its index along a curve;  *)
(* the mouse selects an index, which is turned back into a frame; and the  *)
(* Stats tab counts flags with compute_compound_pages.                     *)
(*                                                                         *)
(* Index and frame numbers are those of lib.rs:53-126.  The Hilbert curve  *)
(* is a bijection between the indices below 4^order and the pixels: pixels *)
(* are named by their index.  An index that does not fit is given some     *)
(* coordinates, in the picture or out of it.                               *)
(***************************************************************************)
EXTENDS Integers, Sequences, FiniteSets, FiniteSetsExt

CONSTANTS
  None, Panic,   \* Rust's None, and the end of the client
  NotInRam,      \* the panel's text "NOT IN RAM?"
  PageSize,  \* in bytes
  Layouts,   \* iomem: sequences of <<first, last>> addresses, sorted, disjoint
  CompoundSizes, \* frames in a compound page
  MaxEvents  \* compound pages the kernel may form or free during the read

Flags == {"COMPOUND_HEAD", "COMPOUND_TAIL", "LRU"}
CompoundHead == "COMPOUND_HEAD"
CompoundTail == "COMPOUND_TAIL"

ASSUME FrameAssumption ==
  /\ PageSize \in Nat \ {0} /\ MaxEvents \in Nat /\ CompoundSizes \subseteq Nat \ {0, 1}
  /\ None \notin Nat /\ None # Panic /\ None \notin [Flags -> Nat] /\ Panic \notin [Flags -> Nat]
  /\ Layouts \subseteq Seq(Nat \X Nat)
  /\ \A ram \in Layouts :
       /\ Len(ram) > 2                        \* memory_segments[2] is shown
       /\ \A i \in DOMAIN ram : ram[i][1] <= ram[i][2]
       \* no two segments share a frame
       /\ \A i \in 1..(Len(ram) - 1) : ram[i][2] \div PageSize < ram[i + 1][1] \div PageSize

VARIABLES
  iomem,
  kflags,    \* the flags of every frame, in the kernel
  events,
  torn,      \* the third segment changed while it was being read
  segments,  \* memory_segments: the flags read, segment by segment
  pc,        \* read, draw, ready, panic
  image,     \* the pixels drawn: flags by index
  pfn,       \* the frame selected, or None
  panel,     \* what the panel shows: the index clicked and the flags of its frame
  stats      \* what compute_compound_pages returned, or None, or Panic

vars == <<iomem, kflags, events, torn, segments, pc, image, pfn, panel, stats>>

-----------------------------------------------------------------------------
(* Frames and indices *)

FirstFrame(m) == m[1] \div PageSize
LastFrame(m) == m[2] \div PageSize   \* the frame of the last byte: perhaps not all RAM
Size(m) == LastFrame(m) - FirstFrame(m) + 1

\* get_range of procfs: it leaves out a last frame that is RAM only in part.
EndFrame(m) == (m[2] + 1) \div PageSize
Frames(m) == FirstFrame(m) .. (EndFrame(m) - 1)
Count(m) == EndFrame(m) - FirstFrame(m)

AllFrames(ram) == UNION {Frames(ram[i]) : i \in DOMAIN ram}

\* previous_maps_size when the loop comes to each segment, and at its end
Before(ram) ==
  LET before[i \in 1 .. (Len(ram) + 1)] == IF i = 1 THEN 0 ELSE before[i - 1] + Size(ram[i - 1])
  IN  before

\* The first segment that a number does not come after, if there is one
FirstOf(segs) == IF segs = {} THEN None ELSE Min(segs)

\* Mutant: a segment taken to end before the frame of its last byte
pfn_to_indexExclusive(ram, p) ==
  LET i == FirstOf({j \in DOMAIN ram : p < LastFrame(ram[j])})
  IN  IF p = 0 \/ i = None \/ p < FirstFrame(ram[i]) THEN None
      ELSE Before(ram)[i] + p - FirstFrame(ram[i])

pfn_to_index(ram, p) ==
  LET i == FirstOf({j \in DOMAIN ram : p <= LastFrame(ram[j])})
  IN  IF p = 0 \/ i = None \/ p < FirstFrame(ram[i]) THEN None
      ELSE Before(ram)[i] + p - FirstFrame(ram[i])

index_to_pfn(ram, index) ==
  LET i == FirstOf({j \in DOMAIN ram : index < Before(ram)[j] + Size(ram[j])})
  IN  IF i = None THEN None ELSE index - Before(ram)[i] + FirstFrame(ram[i])

get_pfn_count(ram) ==
  LET count[i \in 0 .. Len(ram)] ==
        IF i = 0 THEN 0 ELSE count[i - 1] + Count(ram[i])
  IN  count[Len(ram)]

\* A curve of an order has 4^order pixels.
Pixels[order \in Nat] == IF order = 0 THEN 1 ELSE 4 * Pixels[order - 1]

\* Mutant: the order of the curve is rounded down.
CanvasFloor(ram) ==
  LET count == get_pfn_count(ram)
      order == Max({o \in 0 .. count : o = 0 \/ Pixels[o] <= count})
  IN  0 .. (Pixels[order] - 1)

\* The canvas: the smallest curve with a pixel for every frame counted
Canvas(ram) ==
  LET count == get_pfn_count(ram)
      order == Min({o \in 0 .. count : Pixels[o] >= count})
  IN  0 .. (Pixels[order] - 1)

-----------------------------------------------------------------------------
(* compute_compound_pages, lib.rs:163-211 *)

Tally(counters, flags) ==
  [flag \in Flags |-> counters[flag] + IF flag \in flags THEN 1 ELSE 0]

\* Mutant: a tail takes all the flags of its head, COMPOUND_HEAD with them.
MergedWhole(head, tail) == tail \cup head

\* The flags a tail is counted with
Merged(head, tail) == tail \cup (head \ {CompoundHead})

\* Mutant: one tail is taken after a head.
CountFrameOneTail(acc, flags) ==
  IF CompoundTail \in flags
  THEN IF acc.head = {} THEN [acc EXCEPT !.failed = TRUE]
       ELSE [acc EXCEPT !.counters = Tally(@, Merged(acc.head, flags)), !.head = {}]
  ELSE [acc EXCEPT !.counters = Tally(@, flags), !.head = IF CompoundHead \in flags THEN flags ELSE {}]

\* One frame: head is that of the compound page whose tails are being taken,
\* if any.  A tail that belongs to no head fails the assertion.
CountFrame(acc, flags) ==
  IF CompoundTail \in flags
  THEN IF acc.head = {} THEN [acc EXCEPT !.failed = TRUE]
       ELSE [acc EXCEPT !.counters = Tally(@, Merged(acc.head, flags))]
  ELSE [acc EXCEPT !.counters = Tally(@, flags), !.head = IF CompoundHead \in flags THEN flags ELSE {}]

compute_compound_pages(data) ==
  LET start == [head |-> {}, failed |-> FALSE, counters |-> [flag \in Flags |-> 0]]
      counted[n \in 0 .. Len(data)] == IF n = 0 THEN start ELSE CountFrame(counted[n - 1], data[n])
  IN  IF counted[Len(data)].failed THEN Panic ELSE counted[Len(data)].counters

-----------------------------------------------------------------------------
(* The kernel *)

\* The frames of the compound page with head p
Compound(flags, p) ==
  {q \in DOMAIN flags : q >= p /\ \A r \in (p + 1)..q : r \in DOMAIN flags /\ CompoundTail \in flags[r]}

Mark(flags, p, size, lru) ==
  [q \in DOMAIN flags |-> IF q = p THEN {CompoundHead} \cup lru
                          ELSE IF q \in p .. (p + size - 1) THEN {CompoundTail} ELSE flags[q]]

\* The read of the third segment is under way.
ReadingThird == Len(segments[3]) \in 1 .. (Count(iomem[3]) - 1)

Disturb(p) ==
  /\ pc = "read" /\ events < MaxEvents
  /\ events' = events + 1
  /\ torn' = (torn \/ (ReadingThird /\ p \in Frames(iomem[3])))
  /\ UNCHANGED <<iomem, segments, pc, image, pfn, panel, stats>>

\* Free frames become a compound page: a huge page, a slab
Form(p, size, lru) ==
  /\ p % size = 0
  /\ \E i \in DOMAIN iomem : p .. (p + size - 1) \subseteq Frames(iomem[i])
  /\ \A q \in p .. (p + size - 1) : kflags[q] = {}
  /\ kflags' = Mark(kflags, p, size, lru)
  /\ Disturb(p)

\* A compound page is split, and its frames freed.
Split(p) ==
  /\ CompoundHead \in kflags[p]
  /\ kflags' = [q \in DOMAIN kflags |-> IF q \in Compound(kflags, p) THEN {} ELSE kflags[q]]
  /\ Disturb(p)

Kernel ==
  \E p \in AllFrames(iomem) :
    \/ \E size \in CompoundSizes, lru \in SUBSET {"LRU"} : Form(p, size, lru)
    \/ Split(p)

-----------------------------------------------------------------------------
(* The viewer *)

\* The next word of /proc/kpageflags, segment after segment: get_segments
ReadFrame ==
  LET todo == {i \in DOMAIN iomem : Len(segments[i]) < Count(iomem[i])}
      i == Min(todo)
  IN  /\ pc = "read"
      /\ IF todo = {}
         THEN pc' = "draw" /\ UNCHANGED segments
         ELSE /\ segments' = [segments EXCEPT
                     ![i] = Append(@, kflags[FirstFrame(iomem[i]) + Len(@)])]
              /\ UNCHANGED pc
      /\ UNCHANGED <<iomem, kflags, events, torn, image, pfn, panel, stats>>

\* gen_image: unwraps the index of every frame, asserts that it maps back, and
\* sets a pixel, which panics outside the picture; of two frames on a pixel the
\* later remains.
Draw ==
  LET frames == AllFrames(iomem)
      index == [p \in frames |-> pfn_to_index(iomem, p)]
      mapsBack == \A p \in frames : index[p] # None /\ index_to_pfn(iomem, index[p]) = p
      lost  == {p \in frames : index[p] \notin Canvas(iomem)}
      flags(p) == LET i == CHOOSE j \in DOMAIN iomem : p \in Frames(iomem[j])
                  IN  segments[i][p - FirstFrame(iomem[i]) + 1]
  IN  /\ pc = "draw"
      /\ \/ /\ ~mapsBack \/ lost # {}
            /\ pc' = "panic" /\ UNCHANGED image
         \/ /\ mapsBack
            /\ \E wrapped \in [lost -> Canvas(iomem)] :
                 LET pixel == [p \in frames |-> IF p \in lost THEN wrapped[p] ELSE index[p]]
                 IN  image' = [x \in {pixel[p] : p \in frames} |->
                                 flags(Max({p \in frames : pixel[p] = x}))]
            /\ pc' = "ready"
      /\ UNCHANGED <<iomem, kflags, events, torn, segments, pfn, panel, stats>>

\* Mutant: the first frame of a segment taken as outside it
ShownExclusive(p) ==
  LET held == {i \in DOMAIN iomem : p \in Frames(iomem[i]) \ {FirstFrame(iomem[i])}}
  IN  IF held = {} THEN NotInRam ELSE segments[Max(held)][p - FirstFrame(iomem[Max(held)]) + 1]

\* The flags found for a frame: those of the last segment that holds it
Shown(p) ==
  LET held == {i \in DOMAIN iomem : p \in Frames(iomem[i])}
  IN  IF held = {} THEN NotInRam ELSE segments[Max(held)][p - FirstFrame(iomem[Max(held)]) + 1]

\* A click on the pixel of an index; an index beyond RAM selects nothing.
Select(index) ==
  /\ pc = "ready"
  /\ pfn' = index_to_pfn(iomem, index)
  /\ panel' = [index |-> index, flags |-> IF pfn' = None THEN None ELSE Shown(pfn')]
  /\ UNCHANGED <<iomem, kflags, events, torn, segments, pc, image, stats>>

\* The Stats tab
Stats ==
  /\ pc = "ready" /\ stats = None
  /\ stats' = compute_compound_pages(segments[3])
  /\ pc' = IF stats' = Panic THEN "panic" ELSE pc
  /\ UNCHANGED <<iomem, kflags, events, torn, segments, image, pfn, panel>>

-----------------------------------------------------------------------------

\* At most one compound page to begin with; the rest is formed by the kernel.
Init ==
  /\ iomem \in Layouts
  /\ LET free == [p \in AllFrames(iomem) |-> {}]
     IN  \/ kflags = free
         \/ \E i \in DOMAIN iomem, size \in CompoundSizes : \E p \in Frames(iomem[i]) :
              /\ p % size = 0 /\ p .. (p + size - 1) \subseteq Frames(iomem[i])
              /\ kflags = Mark(free, p, size, {"LRU"})
  /\ events = 0
  /\ torn = FALSE
  /\ segments = [i \in DOMAIN iomem |-> <<>>]
  /\ pc = "read"
  /\ image = <<>>
  /\ pfn = None
  /\ panel = [index |-> None, flags |-> None]
  /\ stats = None

Next == Kernel \/ ReadFrame \/ Draw \/ Stats \/ \E index \in Canvas(iomem) : Select(index)

Spec == Init /\ [][Next]_vars

-----------------------------------------------------------------------------
(* Properties *)

TypeOK ==
  /\ iomem \in Layouts
  /\ kflags \in [AllFrames(iomem) -> SUBSET Flags]
  /\ events \in 0..MaxEvents /\ torn \in BOOLEAN
  /\ segments \in [DOMAIN iomem -> Seq(SUBSET Flags)]
  /\ \A i \in DOMAIN iomem : Len(segments[i]) <= Count(iomem[i])
  /\ pc \in {"read", "draw", "ready", "panic"}
  /\ DOMAIN image \subseteq Canvas(iomem)
  /\ pfn = None \/ pfn \in Nat
  /\ stats \in {None, Panic} \/ stats \in [Flags -> Nat]

\* Frame 0 has no index, and an index also counts the frames a segment has only
\* in part, which get_pfn_count does not count: there must be room for them.
Drawable ==
  LET count == get_pfn_count(iomem)
  IN  /\ 0 \notin AllFrames(iomem)
      /\ \A order \in 0 .. count :
           Pixels[order] >= count => Pixels[order] >= Before(iomem)[Len(iomem) + 1]

\* On such machines every frame that is read has an index, the index leads back
\* to it, and no other frame is drawn over it: gen_image draws all of memory
\* without failing an assertion.
EveryFrameDrawn ==
  Drawable =>
    /\ pc = "panic" => stats = Panic
    /\ pc = "ready" => \A i \in DOMAIN iomem : \A k \in DOMAIN segments[i] :
         LET index == pfn_to_index(iomem, FirstFrame(iomem[i]) + k - 1)
         IN  index \in DOMAIN image /\ image[index] = segments[i][k]

\* The panel agrees with the picture: the flags shown for the pixel clicked are
\* those it was drawn with, and a pixel that was not drawn shows no flags.
PanelMatchesPicture ==
  Drawable /\ panel.index # None =>
    IF panel.index \in DOMAIN image THEN panel.flags = image[panel.index]
    ELSE panel.flags \in {None, NotInRam}

\* The counters are those of a reference count: a frame counts for a flag when
\* it has the flag, or when it is a tail and the head before it has the flag;
\* a head is counted once, whatever its tails.
CountersExact ==
  LET data == segments[3]
      HeadBefore(k) == data[Max({j \in 1..k : CompoundHead \in data[j]})]
      Counts(k, flag) == \/ flag \in data[k]
                         \/ flag # CompoundHead /\ CompoundTail \in data[k] /\ flag \in HeadBefore(k)
  IN  stats \notin {None, Panic} =>
        \A flag \in Flags : stats[flag] = Cardinality({k \in DOMAIN data : Counts(k, flag)})

\* Only a kernel that changes the segment while it is being read can make the
\* count fail: compound pages side by side, of several sizes, at either end of
\* the segment, or changed before or after the read, are all counted.
OnlyTornReadsPanic == stats = Panic => torn

\* lib.rs:197-198: "no COMPOUND_HEAD, no COMPOUND_TAIL (except if bug)", and the
\* assertion of it: a tail is always read after its head.
NoOrphanTail == stats # Panic

=============================================================================
