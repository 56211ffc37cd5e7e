------------------------- MODULE ScanSingle_proofs -------------------------
(***************************************************************************)
(* Theorems about memstats single and its shared memory, for any segments, *)
(* processes, filters and numbers of descriptors, and any number of things *)
(* that other processes do meanwhile.                                      *)
(***************************************************************************)
EXTENDS ScanSingle, WellFoundedInduction, FiniteSetTheorems, TLAPS

Exist == {"live", "marked"}

\* The machine, and the histories that do not need memstats
Types ==
  /\ seg \in [Segs -> {"absent", "live", "marked", "gone"}]
  /\ page \in [Page -> {"none", "mem", "swap"}]
  /\ att \subseteq Procs \X Segs /\ steady \subseteq ever /\ ever \subseteq Procs \X Segs
  /\ life \in [Procs -> {"alive", "zombie", "gone"}] /\ execed \subseteq Procs
  /\ events \in 0 .. MaxEvents
  /\ calm \subseteq Segs /\ force \in BOOLEAN

\* What is attached since the start, by a process that lives, kept its key.
SteadyOK ==
  /\ \A p \in Procs, s \in Segs : <<p, s>> \in steady =>
       <<p, s>> \in att /\ life[p] = "alive" /\ (seg[s] = "live" \/ s \in Private)
  /\ \A p \in execed, s \in Segs : <<p, s>> \notin steady
  /\ \A p \in Procs \ {Self}, s \in Segs : <<p, s>> \in att => <<p, s>> \in ever
  /\ \A s \in Segs : <<Self, s>> \notin steady

\* The pages of a calm segment can be read.
CalmOK == \A s \in calm : /\ seg[s] # "absent"
                          /\ seg[s] \in Exist => force \/ \A g \in PagesOf(s) : page[g] # "swap"

World == Types /\ SteadyOK /\ CalmOK

\* What may have changed in the machine, whoever made the step: segments come
\* and go in one order only, and pages of calm segments do not leave memory.
Drift ==
  /\ World'
  /\ force' = force
  /\ \A s \in Segs : /\ seg[s] # "absent" => seg'[s] # "absent" /\ (seg'[s] = "live" => seg[s] = "live")
                     /\ seg[s] = "gone" => seg'[s] = "gone"
  /\ steady' \subseteq steady /\ ever \subseteq ever' /\ calm' \subseteq calm
  /\ execed \subseteq execed'
  /\ \A p \in Procs : life[p] # "alive" => life'[p] # "alive"
  /\ \A s \in calm' : seg'[s] \in Exist =>
       /\ seg[s] \in Exist
       /\ \A g \in PagesOf(s) : page[g] = "mem" => page'[g] = "mem"

\* The attachments of memstats itself are its own doing, and what leaves its
\* page table was swapped out.
Apart == /\ \A s \in Segs : <<Self, s>> \in att' <=> <<Self, s>> \in att
         /\ table' \subseteq table
         /\ \A s \in calm' : \A g \in PagesOf(s) : g \in table => g \in table'

-----------------------------------------------------------------------------
(* The machine *)

LEMMA PageSeg == \A g \in Page : g[1] \in Segs /\ g \in PagesOf(g[1])
BY DEF Page, PagesOf

LEMMA PagesIn == \A s \in Segs : /\ PagesOf(s) = {s} \X (1 .. Size[s])
                                 /\ PagesOf(s) \subseteq Page
                                 /\ \A g \in PagesOf(s) : g[1] = s
BY DEF Page, PagesOf

LEMMA SameDrift == World /\ UNCHANGED <<machine, force>> => Drift
BY DEF World, Types, SteadyOK, CalmOK, Drift, machine, PagesOf, Page, Exist

\* A release destroys removed segments, and touches nothing else.
LEMMA ReleaseFacts ==
  ASSUME Types, NEW marked \in SUBSET Segs, NEW attached \in SUBSET att,
         \A s \in marked : seg[s] \in Exist,
         Release(marked, attached)
  PROVE  /\ att' = attached
         /\ seg' \in [Segs -> {"absent", "live", "marked", "gone"}]
         /\ page' \in [Page -> {"none", "mem", "swap"}]
         /\ \A s \in Segs \ marked : seg'[s] = seg[s]
         /\ \A s \in marked : seg'[s] \in {"marked", "gone"}
         /\ \A s \in Segs : seg'[s] \in Exist => \A g \in PagesOf(s) : page'[g] = page[g]
<1>1. /\ att' = attached
      /\ seg' = [s \in Segs |-> IF s \in marked /\ attached \cap (Procs \X {s}) = {}
                            THEN "gone" ELSE IF s \in marked THEN "marked" ELSE seg[s]]
      /\ page' = [g \in Page |-> IF seg'[g[1]] = "gone" THEN "none" ELSE page[g]]
  BY DEF Release
<1>2. seg' \in [Segs -> {"absent", "live", "marked", "gone"}]
  BY <1>1 DEF Types
<1>3. page' \in [Page -> {"none", "mem", "swap"}]
  BY <1>1 DEF Types
<1>4. \A s \in Segs \ marked : seg'[s] = seg[s]
  BY <1>1
<1>5. \A s \in marked : seg'[s] \in {"marked", "gone"}
  BY <1>1
<1>6. \A s \in Segs : seg'[s] \in Exist => \A g \in PagesOf(s) : page'[g] = page[g]
  BY <1>1, PagesIn DEF Exist
<1> QED BY <1>1, <1>2, <1>3, <1>4, <1>5, <1>6

LEMMA MarkedFacts == Types => /\ Marked \in SUBSET Segs
                              /\ \A s \in Segs : s \in Marked <=> seg[s] = "marked"
BY DEF Marked, Types

\* A release is a drift as far as segments and pages go.
LEMMA ReleaseDrift ==
  ASSUME World, NEW marked \in SUBSET Segs, NEW attached \in SUBSET att,
         \A s \in marked : seg[s] \in Exist,
         Release(marked, attached),
         Types', SteadyOK', force' = force,
         steady' \subseteq steady, ever \subseteq ever', calm' \subseteq calm, execed \subseteq execed',
         \A p \in Procs : life[p] # "alive" => life'[p] # "alive",
         \A s \in Segs : seg[s] = "marked" => s \in marked
  PROVE  Drift
<1>1. /\ \A s \in Segs \ marked : seg'[s] = seg[s]
      /\ \A s \in marked : seg'[s] \in {"marked", "gone"}
      /\ \A s \in Segs : seg'[s] \in Exist => \A g \in PagesOf(s) : page'[g] = page[g]
  BY ReleaseFacts DEF World
<1>2. \A s \in Segs : /\ seg[s] # "absent" => seg'[s] # "absent" /\ (seg'[s] = "live" => seg[s] = "live")
                      /\ seg[s] = "gone" => seg'[s] = "gone"
                      /\ seg'[s] \in Exist => seg[s] \in Exist
  BY <1>1 DEF Exist
<1>3. calm' \subseteq Segs
  BY DEF Types
<1>4. CalmOK'
  <2> SUFFICES ASSUME NEW s \in calm'
               PROVE  /\ seg'[s] # "absent"
                      /\ seg'[s] \in Exist => force \/ \A g \in PagesOf(s) : page'[g] # "swap"
    BY DEF CalmOK, PagesOf, Page, Exist
  <2>1. s \in Segs /\ s \in calm
    BY <1>3
  <2> QED BY <1>1, <1>2, <2>1 DEF World, CalmOK
<1>5. \A s \in calm' : seg'[s] \in Exist =>
        seg[s] \in Exist /\ \A g \in PagesOf(s) : page[g] = "mem" => page'[g] = "mem"
  BY <1>1, <1>2, <1>3
<1> QED BY <1>2, <1>4, <1>5 DEF Drift, World

LEMMA CreateDrift ==
  ASSUME World, force' = force, NEW s \in Segs, Create(s)
  PROVE  Drift /\ Apart
<1>1. /\ seg[s] = "absent" /\ seg' = [seg EXCEPT ![s] = "live"] /\ events' \in 0 .. MaxEvents
      /\ UNCHANGED <<page, att, life, calm, steady, ever, execed, table>>
  BY ShmAssumption DEF Create, Event, World, Types
<1>2. Types'
  BY <1>1 DEF World, Types
<1>3. SteadyOK'
  BY <1>1 DEF World, Types, SteadyOK
<1>4. s \notin calm
  BY <1>1 DEF World, CalmOK
<1>5. \A t \in calm : t \in Segs /\ seg'[t] = seg[t]
  BY <1>1, <1>4 DEF World, Types
<1>6. CalmOK'
  BY <1>1, <1>5 DEF World, CalmOK, PagesOf, Page, Exist
<1>7. \A t \in Segs : /\ seg[t] # "absent" => seg'[t] # "absent" /\ (seg'[t] = "live" => seg[t] = "live")
                      /\ seg[t] = "gone" => seg'[t] = "gone"
  BY <1>1 DEF World, Types
<1> QED BY <1>1, <1>2, <1>3, <1>5, <1>6, <1>7 DEF Drift, Apart, World

LEMMA RemoveDrift ==
  ASSUME World, force' = force, NEW s \in Segs, Remove(s)
  PROVE  Drift /\ Apart
<1>1. /\ seg[s] = "live" /\ Release(Marked \cup {s}, att) /\ events' \in 0 .. MaxEvents
      /\ steady' = {a \in steady : a[2] # s \/ s \in Private}
      /\ UNCHANGED <<life, calm, ever, execed, table>>
  BY ShmAssumption DEF Remove, Event, World, Types
<1>2. /\ Marked \cup {s} \in SUBSET Segs
      /\ \A t \in Segs : t \in Marked \cup {s} <=> seg[t] = "marked" \/ t = s
  BY MarkedFacts DEF World
<1>3. \A t \in Marked \cup {s} : seg[t] \in Exist
  BY <1>1, <1>2 DEF Exist
<1>4. /\ att' = att
      /\ seg' \in [Segs -> {"absent", "live", "marked", "gone"}]
      /\ page' \in [Page -> {"none", "mem", "swap"}]
      /\ \A t \in Segs \ (Marked \cup {s}) : seg'[t] = seg[t]
  BY <1>1, <1>2, <1>3, ReleaseFacts DEF World
<1>5. Types'
  BY <1>1, <1>4 DEF World, Types
<1>6. SteadyOK'
  <2>1. \A p \in Procs, t \in Segs : <<p, t>> \in steady' =>
          <<p, t>> \in att /\ life[p] = "alive" /\ (seg'[t] = "live" \/ t \in Private)
    BY <1>1, <1>2, <1>4 DEF World, SteadyOK
  <2> QED BY <1>1, <1>4, <2>1 DEF World, SteadyOK
<1>7. Drift
  BY <1>1, <1>2, <1>3, <1>5, <1>6, ReleaseDrift
<1> QED BY <1>1, <1>4, <1>7 DEF Apart

LEMMA AttachToDrift ==
  ASSUME World, force' = force, NEW p \in Procs, NEW s \in Segs, AttachTo(p, s)
  PROVE  Drift /\ Apart
<1>1. /\ p # Self /\ att' = att \cup {<<p, s>>} /\ ever' = ever \cup {<<p, s>>} /\ events' \in 0 .. MaxEvents
      /\ UNCHANGED <<seg, page, life, calm, steady, execed, table>>
  BY ShmAssumption DEF AttachTo, Event, World, Types
<1>2. Types'
  BY <1>1 DEF World, Types
<1>3. SteadyOK'
  BY <1>1 DEF World, SteadyOK
<1>4. CalmOK'
  BY <1>1 DEF World, CalmOK, PagesOf, Page, Exist
<1> QED BY <1>1, <1>2, <1>3, <1>4 DEF Drift, Apart, World, CalmOK, Types

LEMMA DetachFromDrift ==
  ASSUME World, force' = force, NEW p \in Procs, NEW s \in Segs, DetachFrom(p, s)
  PROVE  Drift /\ Apart
<1>1. /\ p # Self /\ Release(Marked, att \ {<<p, s>>}) /\ events' \in 0 .. MaxEvents
      /\ steady' = steady \ {<<p, s>>} /\ UNCHANGED <<life, calm, ever, execed, table>>
  BY ShmAssumption DEF DetachFrom, Event, World, Types
<1>2. /\ Marked \in SUBSET Segs /\ \A t \in Segs : t \in Marked <=> seg[t] = "marked"
      /\ \A t \in Marked : seg[t] \in Exist
  BY MarkedFacts DEF World, Exist
<1>3. att \ {<<p, s>>} \in SUBSET att
  OBVIOUS
<1>4. /\ att' = att \ {<<p, s>>}
      /\ seg' \in [Segs -> {"absent", "live", "marked", "gone"}]
      /\ page' \in [Page -> {"none", "mem", "swap"}]
      /\ \A t \in Segs \ Marked : seg'[t] = seg[t]
  BY <1>1, <1>2, <1>3, ReleaseFacts DEF World
<1>5. Types'
  BY <1>1, <1>4 DEF World, Types
<1>6. SteadyOK'
  BY <1>1, <1>2, <1>4 DEF World, SteadyOK
<1>7. Drift
  BY <1>1, <1>2, <1>3, <1>5, <1>6, ReleaseDrift
<1> QED BY <1>1, <1>4, <1>7 DEF Apart

LEMMA ExitDrift ==
  ASSUME World, force' = force, NEW p \in Procs, Exit(p) \/ Exec(p)
  PROVE  /\ Drift /\ Apart /\ \A s \in Segs : <<p, s>> \notin steady'
         /\ Exit(p) => life'[p] # "alive"
         /\ Exec(p) => p \in execed'
<1>1. /\ p # Self /\ Release(Marked, {a \in att : a[1] # p}) /\ events' \in 0 .. MaxEvents
      /\ life' \in [Procs -> {"alive", "zombie", "gone"}]
      /\ Exit(p) => life'[p] # "alive"
      /\ Exec(p) => p \in execed'
      /\ \A q \in Procs \ {p} : life'[q] = life[q]
      /\ life[p] # "alive" => life'[p] # "alive"
      /\ execed \subseteq execed' /\ execed' \subseteq execed \cup {p}
      /\ steady' = {a \in steady : a[1] # p} /\ UNCHANGED <<calm, ever, table>>
  BY ShmAssumption DEF Exit, Exec, Event, World, Types
<1>2. /\ Marked \in SUBSET Segs /\ \A t \in Segs : t \in Marked <=> seg[t] = "marked"
      /\ \A t \in Marked : seg[t] \in Exist
  BY MarkedFacts DEF World, Exist
<1>3. {a \in att : a[1] # p} \in SUBSET att
  OBVIOUS
<1>4. /\ att' = {a \in att : a[1] # p}
      /\ seg' \in [Segs -> {"absent", "live", "marked", "gone"}]
      /\ page' \in [Page -> {"none", "mem", "swap"}]
      /\ \A t \in Segs \ Marked : seg'[t] = seg[t]
  BY <1>1, <1>2, <1>3, ReleaseFacts DEF World
<1>5. Types'
  BY <1>1, <1>4 DEF World, Types
<1>6. SteadyOK'
  BY <1>1, <1>2, <1>4 DEF World, SteadyOK
<1>7. Drift
  BY <1>1, <1>2, <1>3, <1>5, <1>6, ReleaseDrift
<1> QED BY <1>1, <1>4, <1>7 DEF Apart

\* Pages come and go.
LEMMA PageDrift ==
  ASSUME World, force' = force, NEW g \in Page, Touch(g) \/ SwapOut(g)
  PROVE  Drift /\ Apart
<1>1. /\ events' \in 0 .. MaxEvents /\ page' \in [Page -> {"none", "mem", "swap"}]
      /\ calm' \subseteq calm
      /\ \A h \in Page : h[1] \in calm' => page'[h] \in {page[h], "mem"}
      /\ table' \subseteq table /\ \A h \in Page : h[1] \in calm' /\ h \in table => h \in table'
      /\ UNCHANGED <<seg, att, life, steady, ever, execed>>
  BY ShmAssumption DEF Touch, SwapOut, Event, World, Types
<1>2. Types'
  BY <1>1 DEF World, Types
<1>3. SteadyOK'
  BY <1>1 DEF World, SteadyOK
<1>4. \A s \in calm' : \A h \in PagesOf(s) : h \in Page /\ h[1] \in calm'
  BY <1>1, PagesIn DEF World, Types
<1>5. CalmOK'
  <2> SUFFICES ASSUME NEW s \in calm'
               PROVE  /\ seg'[s] # "absent"
                      /\ seg'[s] \in Exist => force \/ \A h \in PagesOf(s) : page'[h] # "swap"
    BY DEF CalmOK, PagesOf, Page, Exist
  <2> QED BY <1>1, <1>4 DEF World, CalmOK
<1> QED BY <1>1, <1>2, <1>3, <1>4, <1>5 DEF Drift, Apart, World

LEMMA MachineDrift == ASSUME World, Machine PROVE Drift /\ Apart
<1>1. force' = force
  BY DEF Machine
<1> QED BY <1>1, CreateDrift, RemoveDrift, AttachToDrift, DetachFromDrift, ExitDrift, PageDrift DEF Machine

-----------------------------------------------------------------------------
(* memstats *)

Shown == {"table", "single", "report", "done", "nolist", "excluded", "vmpte", "fdpanic"}

\* What main holds in its passes over the segments
ScanOK ==
  /\ failed \in BOOLEAN
  /\ pc \in {"list1", "shmpanic"} \cup Passes \cup Shown
  /\ DOMAIN listing \subseteq Segs /\ todo \subseteq DOMAIN listing
  /\ current \in todo \cup {NoSeg} /\ table \subseteq Page
  /\ DOMAIN meta \subseteq Segs
  /\ rows \subseteq (DOMAIN meta) \X Instances /\ sids \subseteq Instances \X Segs
  /\ current # NoSeg => pc \in Passes
  /\ pc \notin Passes \cup {"shmpanic"} => todo = {}
  /\ pc \in {"list1", "pass1"} => DOMAIN meta = {}

\* The keys of segments that kept theirs are those of the maps.
KeysOK ==
  /\ \A s \in DOMAIN listing : seg[s] # "absent" /\ (seg[s] = "live" \/ s \in Private => listing[s].key = MapKey(s))
  /\ \A s \in DOMAIN meta : seg[s] # "absent" /\ (seg[s] = "live" \/ s \in Private => meta[s].key = MapKey(s))

\* Only segments that are not in the table, and will not be, stay attached.
LeakOK ==
  /\ pc \in {"list1", "pass1"} => \A s \in Segs : <<Self, s>> \in att => s = current
  /\ pc = "pass2" => todo \cap DOMAIN meta = {}
  /\ pc \in {"pass2"} \cup Shown => \A s \in Segs : <<Self, s>> \in att /\ s # current =>
                                       failed /\ s \notin DOMAIN meta /\ s \notin todo

Full(s) == \A g \in PagesOf(s) : page[g] = "mem"

\* After the first pass, all pages of a calm segment are in memory.
RssOK ==
  /\ pc = "pass1" => \A s \in calm : /\ seg[s] \in Exist => s \in DOMAIN listing
                                     /\ seg[s] \in Exist /\ (s \notin todo \/ s = current) => Full(s)
                                     /\ s \in DOMAIN listing => MustRead(s)
  /\ pc = "pass2" => \A s \in calm \cap DOMAIN listing : MustRead(s) /\ listing[s].rss = Size[s]
  /\ current \in calm => table = PagesOf(current)
  /\ RssInSync

ShmPanicOK == pc = "shmpanic" => failed \/ \E s \in DOMAIN listing : seg[s] = "gone"

ShmInv == World /\ ScanOK /\ KeysOK /\ LeakOK /\ RssOK /\ ShmPanicOK

-----------------------------------------------------------------------------

LEMMA PagesCard == \A s \in Segs : /\ IsFiniteSet(PagesOf(s))
                                   /\ Cardinality(PagesOf(s)) = Size[s]
<1> SUFFICES ASSUME NEW s \in Segs
             PROVE  IsFiniteSet(PagesOf(s)) /\ Cardinality(PagesOf(s)) = Size[s]
  OBVIOUS
<1> DEFINE f == [n \in 1 .. Size[s] |-> <<s, n>>]
<1>1. Size[s] \in Nat \ {0}
  BY ShmAssumption
<1>2. IsFiniteSet(1 .. Size[s]) /\ Cardinality(1 .. Size[s]) = Size[s]
  BY <1>1, FS_Interval
<1>3. f \in Bijection(1 .. Size[s], PagesOf(s))
  <2>1. f \in [1 .. Size[s] -> PagesOf(s)]
    BY PagesIn
  <2>2. \A i, j \in 1 .. Size[s] : f[i] = f[j] => i = j
    OBVIOUS
  <2>3. \A g \in PagesOf(s) : \E n \in 1 .. Size[s] : f[n] = g
    BY PagesIn
  <2> QED BY <2>1, <2>2, <2>3 DEF Bijection, Injection, Surjection, IsInjective
<1> QED BY <1>2, <1>3, FS_Bijection DEF ExistsBijection

\* What a listing says
LEMMA ListingFacts ==
  /\ DOMAIN Listing = {s \in Segs : Exists(s)}
  /\ \A s \in DOMAIN Listing : /\ Listing[s].key = ListedKey(s)
                               /\ Listing[s].rss = Count(s, "mem")
                               /\ Listing[s].swap = Count(s, "swap")
BY DEF Listing

LEMMA CountFacts ==
  ASSUME NEW s \in Segs
  PROVE  /\ (\A g \in PagesOf(s) : page[g] # "swap") => Count(s, "swap") = 0
         /\ Full(s) => Count(s, "mem") = Size[s] /\ Count(s, "swap") = 0
<1>1. (\A g \in PagesOf(s) : page[g] # "swap") => {g \in PagesOf(s) : page[g] = "swap"} = {}
  OBVIOUS
<1>2. Full(s) => /\ {g \in PagesOf(s) : page[g] = "mem"} = PagesOf(s)
                 /\ {g \in PagesOf(s) : page[g] = "swap"} = {}
  BY DEF Full
<1> QED BY <1>1, <1>2, PagesCard, FS_EmptySet DEF Count

\* Whatever happens to the machine, or to processes that are inspected
LEMMA ShmKept ==
  ASSUME ShmInv, Drift, Apart, UNCHANGED <<failed, listing, todo, current, meta>>,
         pc' = pc \/ (pc \in Shown /\ pc' \in Shown),
         rows' \subseteq (DOMAIN meta) \X Instances, sids' \subseteq Instances \X Segs
  PROVE  ShmInv'
<1>1. ScanOK'
  BY DEF ShmInv, ScanOK, Apart, Shown, Passes
<1>2. KeysOK'
  BY DEF ShmInv, ScanOK, KeysOK, Drift, MapKey
<1>3. LeakOK'
  BY DEF ShmInv, LeakOK, Apart, Shown
<1>4. RssOK'
  <2>1. pc' = "pass1" => \A s \in calm' : /\ seg'[s] \in Exist => s \in DOMAIN listing
                                          /\ seg'[s] \in Exist /\ (s \notin todo \/ s = current) => Full(s)'
                                          /\ s \in DOMAIN listing => MustRead(s)
    BY DEF ShmInv, RssOK, Drift, Full, Shown
  <2>2. \A s : MustRead(s)' = MustRead(s)
    BY DEF MustRead, Drift
  <2>3. pc' = "pass2" => \A s \in calm' \cap DOMAIN listing : MustRead(s) /\ listing[s].rss = Size[s]
    BY DEF ShmInv, RssOK, Drift, Shown
  <2>4. current \in calm' => table' = PagesOf(current)
    BY DEF ShmInv, RssOK, Drift, Apart
  <2>5. RssInSync'
    BY DEF ShmInv, RssOK, RssInSync, Drift
  <2> QED BY <2>1, <2>2, <2>3, <2>4, <2>5 DEF RssOK, Full
<1>5. ShmPanicOK'
  BY DEF ShmInv, ScanOK, ShmPanicOK, Drift, Shown
<1> QED BY <1>1, <1>2, <1>3, <1>4, <1>5 DEF ShmInv, Drift

LEMMA SameApart == UNCHANGED <<machine, table>> => Apart
BY DEF Apart, machine

LEMMA ListSegmentsInv ==
  ASSUME ShmInv, ListSegments
  PROVE  ShmInv'
<1>1. /\ \/ pc = "list1" /\ pc' = "pass1"
         \/ pc = "pass1" /\ todo = {} /\ current = NoSeg /\ pc' = "pass2"
      /\ listing' = Listing /\ todo' = DOMAIN Listing
      /\ UNCHANGED <<machine, failed, force, current, table, meta, rows, sids>>
  BY DEF ListSegments
<1>2. current = NoSeg /\ DOMAIN meta = {} /\ NoSeg \notin Segs
  BY <1>1, ShmAssumption DEF ShmInv, ScanOK, Passes
<1>3. World'
  BY <1>1, SameDrift DEF ShmInv, Drift
<1>4. ScanOK'
  BY <1>1, <1>2, ListingFacts DEF ShmInv, ScanOK, Passes, Shown
<1>5. KeysOK'
  <2>1. \A s \in DOMAIN Listing : seg[s] # "absent" /\ (seg[s] = "live" \/ s \in Private => Listing[s].key = MapKey(s))
    BY ListingFacts DEF Exists, ListedKey, MapKey
  <2> QED BY <1>1, <1>2, <2>1 DEF KeysOK, MapKey, machine
<1>6. LeakOK'
  BY <1>1, <1>2 DEF ShmInv, ScanOK, LeakOK, machine, Shown
<1>7. RssOK'
  <2>1. \A s \in calm : s \in Segs /\ (seg[s] \in Exist <=> s \in DOMAIN Listing)
    BY ListingFacts DEF ShmInv, World, Types, Exists, Exist
  <2>2. \A s \in calm \cap DOMAIN Listing : MustRead(s)'
    <3> SUFFICES ASSUME NEW s \in calm \cap DOMAIN Listing, ~force PROVE Listing[s].swap = 0
      BY <1>1 DEF MustRead
    <3>1. \A g \in PagesOf(s) : page[g] # "swap"
      BY <2>1 DEF ShmInv, World, CalmOK
    <3> QED BY <2>1, <3>1, CountFacts, ListingFacts
  <2>3. pc = "pass1" => \A s \in calm \cap DOMAIN Listing : Listing[s].rss = Size[s]
    <3> SUFFICES ASSUME pc = "pass1", NEW s \in calm \cap DOMAIN Listing PROVE Listing[s].rss = Size[s]
      OBVIOUS
    <3>1. Full(s)
      BY <1>1, <2>1 DEF ShmInv, RssOK
    <3> QED BY <2>1, <3>1, CountFacts, ListingFacts
  <2>4. RssInSync'
    BY <1>1, <1>2 DEF RssInSync
  <2>5. calm' = calm /\ seg' = seg /\ page' = page /\ current' \notin calm'
    BY <1>1, <1>2 DEF machine, ShmInv, World, Types
  <2> QED BY <1>1, <1>2, <2>1, <2>2, <2>3, <2>4, <2>5 DEF RssOK, Full
<1>8. ShmPanicOK'
  BY <1>1 DEF ShmPanicOK
<1> QED BY <1>3, <1>4, <1>5, <1>6, <1>7, <1>8 DEF ShmInv

\* shmat is the one step of memstats that brings pages to memory.
LEMMA ShmatInv ==
  ASSUME ShmInv, NEW s \in Segs, Shmat(s)
  PROVE  ShmInv'
<1>1. /\ pc \in Passes /\ current = NoSeg /\ s \in todo /\ seg[s] \in Exist
      /\ att' = att \cup {<<Self, s>>} /\ current' = s
      /\ IF MustRead(s) THEN page' = [g \in Page |-> IF g[1] = s THEN "mem" ELSE page[g]] /\ table' = PagesOf(s)
                        ELSE table' = {} /\ page' = page
      /\ UNCHANGED <<seg, life, events, calm, steady, ever, execed, failed, force, pc, listing, todo, meta, rows, sids>>
  BY DEF Shmat, Exists, Exist
<1>2. /\ page' \in [Page -> {"none", "mem", "swap"}]
      /\ \A g \in Page : page'[g] \in {page[g], "mem"}
      /\ MustRead(s) => \A g \in PagesOf(s) : page'[g] = "mem"
  BY <1>1, PagesIn DEF ShmInv, World, Types
<1>3. World'
  <2>1. Types'
    BY <1>1, <1>2, ShmAssumption DEF ShmInv, World, Types
  <2>2. SteadyOK'
    BY <1>1 DEF ShmInv, World, SteadyOK
  <2>3. CalmOK'
    <3> SUFFICES ASSUME NEW t \in calm
                 PROVE  seg[t] # "absent" /\ (seg[t] \in Exist => force \/ \A g \in PagesOf(t) : page'[g] # "swap")
      BY <1>1 DEF CalmOK, PagesOf, Page, Exist
    <3>1. \A g \in PagesOf(t) : g \in Page
      BY PagesIn DEF ShmInv, World, Types
    <3> QED BY <1>2, <3>1 DEF ShmInv, World, CalmOK
  <2> QED BY <2>1, <2>2, <2>3 DEF World
<1>4. ScanOK'
  BY <1>1, PagesIn DEF ShmInv, ScanOK
<1>5. KeysOK' /\ ShmPanicOK'
  BY <1>1 DEF ShmInv, KeysOK, ShmPanicOK, MapKey, Passes
<1>6. LeakOK'
  BY <1>1, ShmAssumption DEF ShmInv, LeakOK, Passes, Shown
<1>7. RssOK'
  <2>1. \A t : MustRead(t)' = MustRead(t)
    BY <1>1 DEF MustRead
  <2>2. pc = "pass1" => \A t \in calm : seg[t] \in Exist /\ (t \notin todo \/ t = s) => Full(t)'
    <3> SUFFICES ASSUME pc = "pass1", NEW t \in calm, seg[t] \in Exist, t \notin todo \/ t = s
                 PROVE  \A g \in PagesOf(t) : page'[g] = "mem"
      BY <1>1 DEF Full, PagesOf, Page
    <3>1. CASE t = s
      BY <1>1, <1>2, <3>1 DEF ShmInv, RssOK, ScanOK
    <3>2. CASE t # s
      <4>1. Full(t) /\ \A g \in PagesOf(t) : g \in Page
        BY <3>2, PagesIn DEF ShmInv, RssOK, World, Types
      <4> QED BY <1>2, <4>1 DEF Full
    <3> QED BY <3>1, <3>2
  <2>3. s \in calm => MustRead(s)
    BY <1>1 DEF ShmInv, RssOK, ScanOK, Passes
  <2>4. RssInSync'
    BY <1>1 DEF ShmInv, RssOK, RssInSync
  <2>5. current' \in calm' => table' = PagesOf(current')
    BY <1>1, <2>3
  <2> QED BY <1>1, <2>1, <2>2, <2>4, <2>5 DEF ShmInv, RssOK, PagesOf, Page
<1> QED BY <1>3, <1>4, <1>5, <1>6, <1>7 DEF ShmInv

\* A scan that failed: the first pass ends memstats, the second goes on.
LEMMA FailsInv ==
  ASSUME ShmInv, LookUpFails \/ \E s \in Segs : ShmatFails(s)
  PROVE  ShmInv'
<1>1. PICK s \in todo :
        /\ pc \in Passes /\ (current = NoSeg \/ current = s)
        /\ pc' = IF pc = "pass1" THEN "shmpanic" ELSE pc
        /\ todo' = todo \ {s} /\ current' = NoSeg /\ table' = {}
        /\ UNCHANGED <<force, listing, meta, rows, sids>>
        /\ UNCHANGED <<seg, page, att, life, calm, steady, ever, execed>> /\ events' \in 0 .. MaxEvents
        /\ \/ failed' = TRUE
           \/ failed' = failed /\ current = NoSeg /\ s \in DOMAIN listing /\ s \in Segs /\ ~Exists(s)
  <2>1. CASE LookUpFails
    BY <2>1, ShmAssumption DEF LookUpFails, PassOn, Event, ShmInv, ScanOK, World, Types
  <2>2. CASE \E s \in Segs : ShmatFails(s)
    BY <2>2 DEF ShmatFails, PassOn, machine, ShmInv, ScanOK, World, Types
  <2> QED BY <2>1, <2>2
<1>2. World'
  BY <1>1 DEF ShmInv, World, Types, SteadyOK, CalmOK, PagesOf, Page, Exist
<1>3. ScanOK'
  BY <1>1 DEF ShmInv, ScanOK, Passes, Shown
<1>4. KeysOK'
  BY <1>1 DEF ShmInv, KeysOK, MapKey
<1>5. LeakOK'
  BY <1>1 DEF ShmInv, ScanOK, LeakOK, Passes, Shown
<1>6. RssOK'
  <2>1. \A t : MustRead(t)' = MustRead(t)
    BY <1>1 DEF MustRead
  <2>2. NoSeg \notin calm
    BY ShmAssumption DEF ShmInv, World, Types
  <2> QED BY <1>1, <2>1, <2>2 DEF ShmInv, RssOK, RssInSync, Passes
<1>7. ShmPanicOK'
  <2>1. CASE failed' = TRUE
    BY <2>1 DEF ShmPanicOK
  <2>2. CASE failed' # TRUE
    <3>1. s \in DOMAIN listing /\ s \in Segs /\ ~Exists(s)
      BY <1>1, <2>2
    <3>2. seg[s] = "gone"
      BY <3>1 DEF Exists, ShmInv, World, Types, KeysOK
    <3> QED BY <1>1, <3>1, <3>2 DEF ShmPanicOK
  <2> QED BY <2>1, <2>2
<1> QED BY <1>2, <1>3, <1>4, <1>5, <1>6, <1>7 DEF ShmInv

\* shmdt may be what destroys a segment.
LEMMA LookUpDrift ==
  ASSUME ShmInv, LookUp
  PROVE  Drift /\ att' = att \ {<<Self, current>>} /\ current \in Segs /\ current \in todo
<1>1. /\ pc \in Passes /\ current # NoSeg
      /\ Release(Marked, att \ {<<Self, current>>})
      /\ UNCHANGED <<life, events, calm, steady, ever, execed, failed, force, pc, listing, rows, sids>>
  BY DEF LookUp
<1>2. current \in Segs /\ current \in todo
  BY <1>1 DEF ShmInv, ScanOK
<1>3. /\ Marked \in SUBSET Segs /\ \A t \in Segs : t \in Marked <=> seg[t] = "marked"
      /\ \A t \in Marked : seg[t] \in Exist
  BY MarkedFacts DEF ShmInv, World, Exist
<1>4. att \ {<<Self, current>>} \in SUBSET att
  OBVIOUS
<1>5. /\ att' = att \ {<<Self, current>>}
      /\ seg' \in [Segs -> {"absent", "live", "marked", "gone"}]
      /\ page' \in [Page -> {"none", "mem", "swap"}]
      /\ \A t \in Segs \ Marked : seg'[t] = seg[t]
  BY <1>1, <1>3, <1>4, ReleaseFacts DEF ShmInv, World
<1>6. Types'
  BY <1>1, <1>5 DEF ShmInv, World, Types
<1>7. SteadyOK'
  BY <1>1, <1>2, <1>3, <1>5 DEF ShmInv, World, SteadyOK
<1>8. Drift
  BY <1>1, <1>3, <1>4, <1>6, <1>7, ReleaseDrift DEF ShmInv
<1> QED BY <1>2, <1>5, <1>8

LEMMA LookUpInv ==
  ASSUME ShmInv, LookUp
  PROVE  ShmInv'
<1>c. PICK c \in Segs : c = current
  BY LookUpDrift
<1>r. PICK r : r = [key |-> listing[c].key, rss |-> listing[c].rss, swap |-> listing[c].swap,
                    pages |-> IF MustRead(c) THEN Cardinality(table) ELSE Unread]
  OBVIOUS
<1>1. /\ pc \in Passes /\ pc' = pc /\ c \in todo /\ todo' = todo \ {c} /\ current' = NoSeg /\ table' = {}
      /\ att' = att \ {<<Self, c>>} /\ Drift
      /\ UNCHANGED <<failed, listing, rows, sids>>
      /\ meta' = IF pc = "pass1" THEN meta
                 ELSE [s \in DOMAIN meta \cup {c} |-> IF s = c THEN r ELSE meta[s]]
  BY <1>c, <1>r, LookUpDrift DEF LookUp
<1>2. /\ DOMAIN meta' \subseteq DOMAIN meta \cup {c} /\ DOMAIN meta \subseteq DOMAIN meta'
      /\ pc = "pass1" => meta' = meta
      /\ \A s \in DOMAIN meta' : \/ s \in DOMAIN meta /\ meta'[s] = meta[s]
                                 \/ s = c /\ pc = "pass2" /\ meta'[s] = r
  BY <1>1 DEF Passes
<1>3. c \in DOMAIN listing /\ c # NoSeg
  BY <1>1, ShmAssumption DEF ShmInv, ScanOK
<1>4. ScanOK'
  BY <1>1, <1>2 DEF ShmInv, ScanOK, Passes
<1>5. KeysOK'
  <2>1. r.key = listing[c].key
    BY <1>r
  <2> QED BY <1>1, <1>2, <1>3, <2>1 DEF ShmInv, ScanOK, KeysOK, Drift, MapKey
<1>6. LeakOK'
  BY <1>c, <1>1, <1>2 DEF ShmInv, ScanOK, LeakOK, Passes, Shown
<1>7. RssOK'
  <2>1. \A t : MustRead(t)' = MustRead(t)
    BY <1>1 DEF MustRead, Drift
  <2>2. pc = "pass1" => \A t \in calm' : /\ seg'[t] \in Exist => t \in DOMAIN listing
                                         /\ seg'[t] \in Exist /\ t \notin todo' => Full(t)'
    BY <1>c, <1>1 DEF ShmInv, RssOK, Drift, Full
  <2>3. pc = "pass2" /\ c \in calm => r.pages = r.rss /\ r.rss = Size[c]
    <3> SUFFICES ASSUME pc = "pass2", c \in calm PROVE r.pages = r.rss /\ r.rss = Size[c]
      OBVIOUS
    <3>1. MustRead(c) /\ listing[c].rss = Size[c] /\ table = PagesOf(c)
      BY <1>c, <1>3 DEF ShmInv, RssOK
    <3> QED BY <1>r, <3>1, PagesCard
  <2>4. RssInSync'
    <3> SUFFICES ASSUME NEW s \in calm' \cap DOMAIN meta'
                 PROVE  meta'[s].pages = meta'[s].rss /\ meta'[s].rss = Size[s]
      BY DEF RssInSync
    <3>1. s \in calm
      BY <1>1 DEF Drift
    <3>2. \A t \in calm \cap DOMAIN meta : meta[t].pages = meta[t].rss /\ meta[t].rss = Size[t]
      BY DEF ShmInv, RssOK, RssInSync
    <3> QED BY <1>2, <2>3, <3>1, <3>2
  <2>5. current' \notin calm'
    BY <1>1, ShmAssumption DEF Drift, World, Types
  <2> QED BY <1>1, <2>1, <2>2, <2>4, <2>5 DEF ShmInv, RssOK, Drift, Passes, Full
<1>8. ShmPanicOK'
  BY <1>1 DEF ShmPanicOK, Passes
<1> QED BY <1>1, <1>4, <1>5, <1>6, <1>7, <1>8 DEF ShmInv, Drift

LEMMA StartTableInv ==
  ASSUME ShmInv, StartTable
  PROVE  ShmInv'
<1>1. /\ pc = "pass2" /\ todo = {} /\ current = NoSeg /\ pc' = "table"
      /\ rows' = (DOMAIN meta) \X Instances /\ DOMAIN listing' = {}
      /\ UNCHANGED <<machine, failed, force, todo, current, table, meta, sids>>
  BY DEF StartTable
<1>2. World'
  BY <1>1, SameDrift DEF ShmInv, Drift
<1>3. ScanOK'
  BY <1>1 DEF ShmInv, ScanOK, Passes, Shown
<1>4. KeysOK' /\ LeakOK' /\ ShmPanicOK'
  BY <1>1 DEF ShmInv, KeysOK, LeakOK, ShmPanicOK, MapKey, Shown, machine
<1>5. RssOK'
  BY <1>1, ShmAssumption DEF ShmInv, RssOK, RssInSync, World, Types, machine
<1> QED BY <1>2, <1>3, <1>4, <1>5 DEF ShmInv

-----------------------------------------------------------------------------
(* Processes *)

\* What a call of get_process_info may return of shared memory
LEMMA InspectFacts ==
  ASSUME World, force' = force, NEW p \in Procs, NEW result, NEW refs, Inspect(p, result, refs)
  PROVE  /\ Drift /\ Apart
         /\ result \in Results
         /\ refs \subseteq References(p)
         /\ refs # {} => result = "ok"
         /\ result # "ok" => life'[p] # "alive" \/ p \in execed'
         /\ result = "panic" => life'[p] # "alive"
         /\ result # "ok" => \A s \in Segs : <<p, s>> \notin steady'
         /\ \A s \in Segs : <<p, s>> \in steady' => refs = References(p)
<1>1. CASE /\ life[p] = "alive" /\ result = "ok" /\ refs = References(p)
           /\ UNCHANGED <<machine, table>>
  BY <1>1, SameDrift, SameApart DEF Results
<1>2. CASE /\ life[p] = "alive" /\ Exit(p)
           /\ \/ result = "ok" /\ refs \in {References(p), {}}
              \/ result \in {"err", "panic"} /\ refs = {}
  BY <1>2, ExitDrift DEF Results
<1>3. CASE Exec(p) /\ result = "ok" /\ refs \in {References(p), {}}
  BY <1>3, ExitDrift DEF Results
<1>4. CASE /\ life[p] # "alive" \/ p \in execed
           /\ result = "err" /\ refs = {}
           /\ UNCHANGED <<machine, table>>
  <2>1. Drift /\ Apart /\ life' = life /\ steady' = steady /\ execed' = execed
    BY <1>4, SameDrift, SameApart DEF machine
  <2>2. \A s \in Segs : <<p, s>> \notin steady
    BY <1>4 DEF World, SteadyOK
  <2> QED BY <1>4, <2>1, <2>2 DEF Results
<1> QED BY <1>1, <1>2, <1>3, <1>4 DEF Inspect

Before == {"list1", "shmpanic", "table", "nolist", "excluded"} \cup Passes

\* Every process of the list is in one place, or the loop has ended early.
ListOK ==
  /\ room \in Nat /\ list \subseteq Procs /\ queue \subseteq list
  /\ scanned \subseteq list /\ lost \subseteq list /\ hit \in BOOLEAN
  /\ pc \in Before => list = {} /\ referenced = {} /\ ~hit
  /\ pc \in {"single", "report", "done"} => list = queue \cup scanned \cup lost
  /\ queue \cap (scanned \cup lost) = {} /\ scanned \cap lost = {}
  /\ pc = "single" => ~hit
  /\ pc \in {"report", "done"} => queue = {} \/ hit
  /\ room >= 2 => \A p \in lost : life[p] # "alive" \/ p \in execed

\* What processes refer to
RefsOK ==
  /\ referenced \subseteq DOMAIN meta
  /\ \A s \in DOMAIN meta, p \in scanned : <<p, s>> \in steady => s \in referenced
  /\ \A s \in referenced : \E p \in scanned : <<p, s>> \in ever
  /\ sids \subseteq ever
  /\ pc \in {"table", "single"} => \A s \in DOMAIN meta, i \in Instances : <<i, s>> \in steady =>
                                      <<s, i>> \in rows \/ <<i, s>> \in sids
  /\ pc = "single" => rows = {}

VmPteOK == pc = "vmpte" => \E p \in Procs : life[p] # "alive"

SingleInv == ListOK /\ RefsOK /\ VmPteOK

Inv == ShmInv /\ SingleInv

\* A process that kept a segment of the table refers to it; and memstats,
\* whatever it left attached, refers to none.
LEMMA SteadyRefers ==
  ASSUME ShmInv, NEW p \in Procs, NEW s \in DOMAIN meta
  PROVE  /\ <<p, s>> \in steady => s \in References(p)
         /\ pc \in Shown /\ s \in References(p) => <<p, s>> \in ever
<1>1. s \in Segs
  BY DEF ShmInv, ScanOK
<1>2. <<p, s>> \in steady => s \in References(p)
  BY <1>1 DEF ShmInv, World, SteadyOK, KeysOK, References
<1>3. pc \in Shown => s # current
  BY <1>1, ShmAssumption DEF ShmInv, ScanOK, Shown, Passes
<1>4. pc \in Shown /\ s \in References(p) => <<p, s>> \in ever
  BY <1>1, <1>3 DEF ShmInv, World, SteadyOK, LeakOK, References
<1> QED BY <1>2, <1>4


LEMMA PassesInv ==
  ASSUME Inv, UNCHANGED singlevars,
         \/ ListSegments \/ LookUpFails \/ LookUp
         \/ \E s \in Segs : Shmat(s) \/ ShmatFails(s)
  PROVE  Inv'
<1>1. ShmInv'
  BY ListSegmentsInv, FailsInv, LookUpInv, ShmatInv DEF Inv
<1>2. /\ pc \in {"list1"} \cup Passes /\ pc' \in {"list1", "shmpanic"} \cup Passes
      /\ UNCHANGED <<rows, sids, life, steady, ever, execed>>
  BY DEF ListSegments, LookUpFails, LookUp, Shmat, ShmatFails, PassOn, machine, Passes
<1>3. DOMAIN meta \subseteq DOMAIN meta'
  BY DEF ListSegments, LookUpFails, LookUp, Shmat, ShmatFails, PassOn
<1>4. list = {} /\ scanned = {} /\ lost = {} /\ queue = {} /\ referenced = {} /\ ~hit
  BY <1>2 DEF Inv, SingleInv, ListOK, Before, Passes
<1>5. SingleInv'
  BY <1>2, <1>3, <1>4 DEF Inv, SingleInv, ListOK, RefsOK, VmPteOK, singlevars, Before, Passes
<1> QED BY <1>1, <1>5 DEF Inv

LEMMA StartTableSingle ==
  ASSUME Inv, UNCHANGED singlevars, StartTable
  PROVE  Inv'
<1>1. /\ pc = "pass2" /\ pc' = "table" /\ rows' = (DOMAIN meta) \X Instances
      /\ UNCHANGED <<life, steady, ever, execed, meta, sids>>
  BY DEF StartTable, machine
<1>2. list = {} /\ scanned = {} /\ lost = {} /\ queue = {} /\ referenced = {} /\ ~hit
  BY <1>1 DEF Inv, SingleInv, ListOK, Before, Passes
<1>3. SingleInv'
  BY <1>1, <1>2 DEF Inv, SingleInv, ListOK, RefsOK, VmPteOK, singlevars, Before, Passes
<1> QED BY <1>3, StartTableInv DEF Inv

LEMMA FindSidInv ==
  ASSUME Inv, UNCHANGED singlevars, NEW s \in Segs, NEW i \in Instances, FindSid(s, i)
  PROVE  Inv'
<1>1. PICK result \in Results, refs \in SUBSET Segs :
        /\ pc = "table" /\ <<s, i>> \in rows /\ rows' = rows \ {<<s, i>>}
        /\ Inspect(i, result, refs)
        /\ sids' = IF s \in refs THEN sids \cup {<<i, s>>} ELSE sids
        /\ pc' = IF result = "panic" THEN "vmpte" ELSE pc
        /\ UNCHANGED <<failed, force, listing, todo, current, meta>>
  BY DEF FindSid
<1>2. i \in Procs /\ s \in DOMAIN meta
  BY <1>1, ShmAssumption DEF Inv, ShmInv, ScanOK
<1>3. /\ Drift /\ Apart
      /\ refs \subseteq References(i) /\ (refs # {} => result = "ok")
      /\ result = "panic" => life'[i] # "alive"
      /\ <<i, s>> \in steady' => refs = References(i)
  BY <1>1, <1>2, InspectFacts DEF Inv, ShmInv
<1>4. ShmInv'
  BY <1>1, <1>3, ShmKept DEF Inv, ShmInv, ScanOK, Shown
<1>5. ListOK'
  BY <1>1, <1>3 DEF Inv, SingleInv, ListOK, singlevars, Before, Passes, Drift
<1>6. RefsOK'
  <2>1. referenced = {} /\ scanned = {}
    BY <1>1 DEF Inv, SingleInv, ListOK, Before
  <2>2. sids' \subseteq ever'
    BY <1>1, <1>2, <1>3, SteadyRefers DEF Inv, SingleInv, RefsOK, Drift, Shown
  <2>3. <<i, s>> \in steady' => <<i, s>> \in sids'
    BY <1>1, <1>2, <1>3, SteadyRefers DEF Inv, Drift
  <2>4. pc' = "table" => \A t \in DOMAIN meta, j \in Instances : <<j, t>> \in steady' =>
                            <<t, j>> \in rows' \/ <<j, t>> \in sids'
    BY <1>1, <1>3, <2>3 DEF Inv, SingleInv, RefsOK, Drift
  <2> QED BY <1>1, <2>1, <2>2, <2>4 DEF RefsOK, singlevars
<1>7. VmPteOK'
  BY <1>1, <1>2, <1>3 DEF VmPteOK
<1> QED BY <1>4, <1>5, <1>6, <1>7 DEF Inv, SingleInv

\* Steps of scan_single that inspect nothing
LEMMA ListInv ==
  ASSUME Inv, ListProcesses \/ FailToList \/ NoStatus \/ HitLimit \/ Report
  PROVE  Inv'
<1>1. /\ UNCHANGED <<machine, failed, force, listing, todo, current, table, meta, rows, sids,
                     scanned, lost, referenced>>
      /\ pc \in Shown /\ pc' \in Shown
  BY DEF ListProcesses, FailToList, NoStatus, HitLimit, Report, LoopEnded, singlevars, Shown
<1>2. ShmInv'
  BY <1>1, SameDrift, SameApart, ShmKept DEF Inv, ShmInv, ScanOK
<1>3. ListOK'
  <2>1. CASE ListProcesses
    <3>1. list' \subseteq Procs /\ queue' = list' /\ room' \in Nat
      BY <2>1, SingleAssumption DEF ListProcesses
    <3>2. scanned = {} /\ lost = {} /\ referenced = {} /\ hit = FALSE /\ hit' = hit
      BY <2>1 DEF Inv, SingleInv, ListOK, Before, ListProcesses
    <3>3. pc' = IF list' = {} THEN "excluded" ELSE "single"
      BY <2>1 DEF ListProcesses
    <3> QED BY <1>1, <3>1, <3>2, <3>3 DEF ListOK, Before, Passes
  <2>3. CASE FailToList
    BY <1>1, <2>3 DEF Inv, SingleInv, ListOK, FailToList, singlevars, machine, Before, Passes
  <2>2. CASE NoStatus \/ HitLimit \/ Report
    <3>1. life' = life /\ execed' = execed
      BY <1>1 DEF machine
    <3> QED BY <1>1, <2>2, <3>1 DEF Inv, SingleInv, ListOK, NoStatus, HitLimit, Report, LoopEnded,
                                    singlevars, Before, Passes
  <2> QED BY <2>1, <2>2, <2>3
<1>4. RefsOK'
  BY <1>1 DEF Inv, SingleInv, RefsOK, machine, ListProcesses, FailToList, NoStatus, HitLimit, Report
<1>5. VmPteOK'
  BY <1>1 DEF VmPteOK, ListProcesses, FailToList, NoStatus, HitLimit, Report
<1> QED BY <1>2, <1>3, <1>4, <1>5 DEF Inv, SingleInv

LEMMA ScanInv ==
  ASSUME Inv, NEW p \in Procs, Scan(p)
  PROVE  Inv'
<1>1. PICK result \in Results, refs \in SUBSET Segs :
        /\ pc = "single" /\ p \in queue /\ queue' = queue \ {p}
        /\ \/ Inspect(p, result, refs)
           \/ Free = 1 /\ result = "err" /\ refs = {} /\ UNCHANGED <<machine, table>>
        /\ pc' = IF result = "panic" THEN "vmpte" ELSE pc
        /\ scanned' = IF result = "ok" THEN scanned \cup {p} ELSE scanned
        /\ lost' = IF result = "err" THEN lost \cup {p} ELSE lost
        /\ referenced' = referenced \cup refs
        /\ UNCHANGED <<failed, force, listing, todo, current, meta, rows, sids, room, list, hit, report>>
  BY DEF Scan
<1>2. room >= 2 => Free # 1
  <2>1. IsFiniteSet(list \ queue)
    BY ShmAssumption, FS_Subset DEF Inv, SingleInv, ListOK
  <2>2. Cardinality(list \ queue) \in Nat
    BY <2>1, FS_CardinalityType
  <2> QED BY <2>2 DEF Free, Inv, SingleInv, ListOK
<1>3. /\ Drift /\ Apart
      /\ refs \subseteq References(p) /\ (refs # {} => result = "ok")
      /\ result # "ok" => life'[p] # "alive" \/ p \in execed' \/ Free = 1
      /\ result = "panic" => life'[p] # "alive"
      /\ result = "ok" => \A s \in Segs : <<p, s>> \in steady' => refs = References(p)
  <2>1. CASE Inspect(p, result, refs)
    BY <1>1, <2>1, InspectFacts DEF Inv, ShmInv
  <2>2. CASE Free = 1 /\ result = "err" /\ refs = {} /\ UNCHANGED <<machine, table>>
    BY <1>1, <2>2, SameDrift, SameApart DEF Inv, ShmInv
  <2> QED BY <1>1, <2>1, <2>2
<1>4. ShmInv'
  BY <1>1, <1>3, ShmKept DEF Inv, ShmInv, ScanOK, Shown
<1>5. ListOK'
  <2>1. /\ scanned' \subseteq list /\ lost' \subseteq list /\ queue' \subseteq list
        /\ queue' \cap (scanned' \cup lost') = {} /\ scanned' \cap lost' = {}
        /\ pc' = "single" => list = queue' \cup scanned' \cup lost'
    BY <1>1 DEF Inv, SingleInv, ListOK, Results
  <2>2. room >= 2 => \A q \in lost' : life'[q] # "alive" \/ q \in execed'
    BY <1>1, <1>2, <1>3 DEF Inv, SingleInv, ListOK, Drift
  <2> QED BY <1>1, <2>1, <2>2 DEF Inv, SingleInv, ListOK, Before, Passes
<1>6. RefsOK'
  <2>1. refs \subseteq DOMAIN meta
    BY <1>3 DEF References
  <2>2. \A s \in refs : p \in scanned' /\ <<p, s>> \in ever'
    BY <1>1, <1>3, <2>1, SteadyRefers DEF Inv, Drift, Shown
  <2>3. \A s \in DOMAIN meta, q \in scanned' : <<q, s>> \in steady' => s \in referenced'
    <3> SUFFICES ASSUME NEW s \in DOMAIN meta, NEW q \in scanned', <<q, s>> \in steady'
                 PROVE  s \in referenced'
      OBVIOUS
    <3>1. s \in Segs /\ <<q, s>> \in steady
      BY <1>3 DEF Inv, ShmInv, ScanOK, Drift
    <3>2. CASE q \in scanned
      BY <1>1, <3>1, <3>2 DEF Inv, SingleInv, RefsOK
    <3>3. CASE q \notin scanned
      BY <1>1, <1>3, <3>1, <3>3, SteadyRefers DEF Inv
    <3> QED BY <3>2, <3>3
  <2>4. \A s \in referenced' : \E q \in scanned' : <<q, s>> \in ever'
    BY <1>1, <1>3, <2>2 DEF Inv, SingleInv, RefsOK, Drift
  <2>5. /\ sids' \subseteq ever' /\ (pc' = "single" => rows' = {})
        /\ pc' \in {"table", "single"} => \A s \in DOMAIN meta, i \in Instances : <<i, s>> \in steady' =>
                                            <<s, i>> \in rows' \/ <<i, s>> \in sids'
    BY <1>1, <1>3 DEF Inv, SingleInv, RefsOK, Drift
  <2> QED BY <1>1, <2>1, <2>3, <2>4, <2>5 DEF Inv, SingleInv, RefsOK
<1>7. VmPteOK'
  BY <1>1, <1>3 DEF VmPteOK
<1> QED BY <1>4, <1>5, <1>6, <1>7 DEF Inv, SingleInv

LEMMA MachineInv ==
  ASSUME Inv, UNCHANGED singlevars, Machine
  PROVE  Inv'
<1>1. Drift /\ Apart /\ UNCHANGED <<failed, force, pc, listing, todo, current, meta, rows, sids>>
  BY MachineDrift DEF Inv, ShmInv, Machine
<1>2. ShmInv'
  BY <1>1, ShmKept DEF Inv, ShmInv, ScanOK
<1>3. ListOK' /\ RefsOK'
  BY <1>1 DEF Inv, SingleInv, ListOK, RefsOK, singlevars, Drift
<1>4. VmPteOK'
  BY <1>1 DEF Inv, SingleInv, VmPteOK, Drift
<1> QED BY <1>2, <1>3, <1>4 DEF Inv, SingleInv

LEMMA StutterInv ==
  ASSUME Inv, UNCHANGED vars
  PROVE  Inv'
<1>1. UNCHANGED <<machine, failed, force, pc, listing, todo, current, table, meta, rows, sids>> /\ UNCHANGED singlevars
  BY DEF vars, shmvars, machine
<1>2. ShmInv'
  BY <1>1, SameDrift, SameApart, ShmKept DEF Inv, ShmInv, ScanOK
<1>3. SingleInv'
  BY <1>1 DEF Inv, SingleInv, ListOK, RefsOK, VmPteOK, singlevars, machine
<1> QED BY <1>2, <1>3 DEF Inv

LEMMA InitInv == InitSingle => Inv
<1> SUFFICES ASSUME InitSingle PROVE Inv
  OBVIOUS
<1>1. /\ force \in BOOLEAN /\ InitMachine /\ failed = FALSE /\ pc = "list1"
      /\ DOMAIN listing = {} /\ todo = {} /\ current = NoSeg /\ table = {} /\ DOMAIN meta = {} /\ rows = {} /\ sids = {}
      /\ room = 0 /\ list = {} /\ queue = {} /\ scanned = {} /\ lost = {} /\ referenced = {} /\ hit = FALSE
  BY DEF InitSingle, Init
<1>2. att \subseteq (Procs \ {Self}) \X Segs
  BY <1>1, ShmAssumption DEF InitMachine
<1>3. World
  <2>1. Types
    BY <1>1, <1>2, ShmAssumption DEF InitMachine, Types
  <2>2. SteadyOK
    BY <1>1, <1>2 DEF InitMachine, SteadyOK
  <2>3. CalmOK
    <3> SUFFICES ASSUME NEW s \in calm
                 PROVE  seg[s] # "absent" /\ (force \/ \A g \in PagesOf(s) : page[g] # "swap")
      BY DEF CalmOK
    <3>1. s \in Segs /\ seg[s] = "live" /\ (force \/ Count(s, "swap") = 0)
      BY <1>1 DEF InitMachine
    <3>2. Count(s, "swap") = 0 => {g \in PagesOf(s) : page[g] = "swap"} = {}
      <4>1. IsFiniteSet({g \in PagesOf(s) : page[g] = "swap"})
        BY <3>1, PagesCard, FS_Subset
      <4> QED BY <4>1, FS_EmptySet DEF Count
    <3> QED BY <3>1, <3>2
  <2> QED BY <2>1, <2>2, <2>3 DEF World
<1>4. NoSeg \notin calm
  BY <1>3, ShmAssumption DEF World, Types
<1>5. ScanOK /\ KeysOK /\ LeakOK /\ RssOK /\ ShmPanicOK
  BY <1>1, <1>2, <1>4 DEF ScanOK, KeysOK, LeakOK, RssOK, RssInSync, ShmPanicOK, Passes, Shown
<1>6. ListOK /\ RefsOK /\ VmPteOK
  BY <1>1 DEF ListOK, RefsOK, VmPteOK, Before
<1> QED BY <1>3, <1>5, <1>6 DEF Inv, ShmInv, SingleInv

LEMMA NextInv == Inv /\ [Next]_vars => Inv'
<1> SUFFICES ASSUME Inv, [Next]_vars PROVE Inv'
  OBVIOUS
<1>1. CASE ShmScan /\ UNCHANGED singlevars
  BY <1>1, PassesInv, StartTableSingle, FindSidInv DEF ShmScan
<1>2. CASE ListProcesses \/ FailToList \/ NoStatus \/ HitLimit \/ Report
  BY <1>2, ListInv
<1>3. CASE \E p \in Procs : Scan(p)
  BY <1>3, ScanInv
<1>4. CASE Machine /\ UNCHANGED singlevars
  BY <1>4, MachineInv
<1>5. CASE UNCHANGED vars
  BY <1>5, StutterInv
<1> QED BY <1>1, <1>2, <1>3, <1>4, <1>5 DEF Next, Main

LEMMA Invariant == Spec => []Inv
BY InitInv, NextInv, PTL DEF Spec

-----------------------------------------------------------------------------
(***************************************************************************)
(* Totals.  What is so for a finite set when it is so for all its strict   *)
(* subsets is so for all its subsets: among those for which it is not,     *)
(* one would be smallest.                                                  *)
(***************************************************************************)
LEMMA SubsetInduction ==
  ASSUME NEW S, IsFiniteSet(S), NEW T,
         \A U \in SUBSET S : (\A V \in SUBSET U : V # U => V \in T) => U \in T
  PROVE  SUBSET S \subseteq T
<1> SUFFICES ASSUME (SUBSET S) \ T # {} PROVE FALSE
  OBVIOUS
<1> DEFINE Smaller == StrictSubsetOrdering(S)
           bad == (SUBSET S) \ T
<1>1. IsWellFoundedOn(Smaller, SUBSET S)
  <2>1. IsWellFoundedOn(Smaller, FiniteSubsetsOf(S))
    BY FS_StrictSubsetOrderingWellFounded
  <2>2. FiniteSubsetsOf(S) = SUBSET S
    BY FS_FiniteSubsetsOfFinite
  <2> QED BY <2>1, <2>2
<1>2. \A U, V \in SUBSET S : V \subseteq U /\ V # U => <<V, U>> \in Smaller
  BY DEF StrictSubsetOrdering
<1> HIDE DEF Smaller
<1>3. bad \subseteq SUBSET S /\ bad # {}
  OBVIOUS
<1> HIDE DEF bad
<1>4. PICK U \in bad : \A V \in bad : ~(<<V, U>> \in Smaller)
  <2>1. \A B, Q : Q \subseteq B /\ Q # {} /\ IsWellFoundedOn(Smaller, B) =>
                   \E U \in Q : \A V \in Q : ~(<<V, U>> \in Smaller)
    BY WFMin
  <2> QED BY <1>1, <1>3, <2>1
<1>5. U \in SUBSET S /\ U \notin T
  BY <1>4 DEF bad
<1>6. ASSUME NEW V \in SUBSET U, V # U PROVE V \in T
  <2>1. V \in SUBSET S
    BY <1>5
  <2>2. <<V, U>> \in Smaller
    BY <1>2, <1>5, <1>6, <2>1
  <2>3. V \notin bad
    BY <1>4, <2>2
  <2> QED BY <2>1, <2>3 DEF bad
<1> QED BY <1>5, <1>6

\* The sum of a field over the segments of a set, with Total as its instance
Sum(f, field, segs) == MapThenSumSet(LAMBDA s : f[s][field], segs)

Pick(s) == CHOOSE x \in s : TRUE

\* The function MapThenFoldSet defines the sum with
Adds(iter, f, field, S) ==
  iter = [s \in SUBSET S |-> IF s = {} THEN 0 ELSE f[Pick(s)][field] + iter[s \ {Pick(s)}]]

LEMMA SumDef ==
  ASSUME NEW f, NEW field, NEW S
  PROVE  Sum(f, field, S) = (CHOOSE iter : Adds(iter, f, field, S))[S]
BY DEF Sum, MapThenSumSet, MapThenFoldSet, Adds, Pick

LEMMA AddsIs ==
  ASSUME NEW f, NEW field, NEW S, NEW iter, Adds(iter, f, field, S)
  PROVE  /\ iter[{}] = 0
         /\ \A s \in SUBSET S : s # {} => iter[s] = f[Pick(s)][field] + iter[s \ {Pick(s)}]
<1>1. \A s \in SUBSET S : iter[s] = IF s = {} THEN 0 ELSE f[Pick(s)][field] + iter[s \ {Pick(s)}]
  BY DEF Adds
<1> QED BY <1>1

LEMMA PickIn == \A s : s # {} => Pick(s) \in s /\ s \ {Pick(s)} \in SUBSET s /\ s \ {Pick(s)} # s
BY DEF Pick

\* Two such functions agree where both are defined.
LEMMA AddsAgree ==
  ASSUME NEW f, NEW field, NEW A, NEW B, NEW g, NEW h,
         Adds(g, f, field, A), Adds(h, f, field, B),
         NEW S \in SUBSET (A \cap B), IsFiniteSet(S)
  PROVE  g[S] = h[S]
<1> DEFINE T == {U \in SUBSET S : g[U] = h[U]}
<1>1. ASSUME NEW U \in SUBSET S, \A V \in SUBSET U : V # U => V \in T PROVE U \in T
  <2>1. CASE U = {}
    BY <2>1, AddsIs
  <2>2. CASE U # {}
    <3>1. U \ {Pick(U)} \in T
      BY <1>1, <2>2, PickIn
    <3>2. g[U] = f[Pick(U)][field] + g[U \ {Pick(U)}] /\ h[U] = f[Pick(U)][field] + h[U \ {Pick(U)}]
      BY <2>2, AddsIs
    <3> QED BY <3>1, <3>2
  <2> QED BY <2>1, <2>2
<1> HIDE DEF T
<1>2. SUBSET S \subseteq T
  BY <1>1, SubsetInduction
<1> QED BY <1>2 DEF T

LEMMA AddsExists ==
  ASSUME NEW f, NEW field, NEW S, IsFiniteSet(S)
  PROVE  \A U \in SUBSET S : \E g : Adds(g, f, field, U)
<1> DEFINE T == {U \in SUBSET S : \E g : Adds(g, f, field, U)}
           G(U) == CHOOSE g : Adds(g, f, field, U)
<1>1. ASSUME NEW U \in SUBSET S, \A V \in SUBSET U : V # U => V \in T PROVE U \in T
  <2> DEFINE rest(s) == s \ {Pick(s)}
             h == [s \in SUBSET U |-> IF s = {} THEN 0 ELSE f[Pick(s)][field] + G(rest(s))[rest(s)]]
  <2>1. \A V \in SUBSET U : V # U => Adds(G(V), f, field, V)
    BY <1>1
  <2> HIDE DEF G
  <2>2. ASSUME NEW s \in SUBSET U, s # {} PROVE h[rest(s)] = G(rest(s))[rest(s)]
    <3> DEFINE t == rest(s)
    <3>1. t \in SUBSET U /\ t # U
      BY <2>2, PickIn
    <3>2. Adds(G(t), f, field, t)
      BY <2>1, <3>1
    <3> HIDE DEF t
    <3>3. CASE t = {}
      <4>1. G(t)[{}] = 0
        BY <3>2, AddsIs
      <4>2. h[t] = 0
        BY <3>1, <3>3
      <4> QED BY <3>3, <4>1, <4>2 DEF t
    <3>4. CASE t # {}
      <4>1. rest(t) \in SUBSET U /\ rest(t) # U /\ rest(t) \in SUBSET (t \cap rest(t))
        BY <3>1, <3>4, PickIn
      <4>2. Adds(G(rest(t)), f, field, rest(t)) /\ IsFiniteSet(rest(t))
        BY <2>1, <4>1, FS_Subset
      <4>3. G(t)[rest(t)] = G(rest(t))[rest(t)]
        BY <3>2, <4>1, <4>2, AddsAgree
      <4>4. G(t)[t] = f[Pick(t)][field] + G(t)[rest(t)]
        BY <3>2, <3>4, AddsIs
      <4>5. h[t] = f[Pick(t)][field] + G(rest(t))[rest(t)]
        BY <3>1, <3>4
      <4> QED BY <4>3, <4>4, <4>5 DEF t
    <3> QED BY <3>3, <3>4
  <2>3. \A s \in SUBSET U : h[s] = IF s = {} THEN 0 ELSE f[Pick(s)][field] + h[rest(s)]
    BY <2>2
  <2>4. Adds(h, f, field, U)
    BY <2>3 DEF Adds
  <2> QED BY <2>4
<1> HIDE DEF T
<1>2. SUBSET S \subseteq T
  BY <1>1, SubsetInduction
<1> QED BY <1>2 DEF T

LEMMA SumIs ==
  ASSUME NEW f, NEW field, NEW S, IsFiniteSet(S)
  PROVE  /\ Sum(f, field, {}) = 0
         /\ \A U \in SUBSET S : U # {} =>
              Sum(f, field, U) = f[Pick(U)][field] + Sum(f, field, U \ {Pick(U)})
<1> DEFINE G(U) == CHOOSE g : Adds(g, f, field, U)
<1>1. \A U \in SUBSET S : Adds(G(U), f, field, U) /\ Sum(f, field, U) = G(U)[U]
  BY AddsExists, SumDef
<1> HIDE DEF G
<1>2. Sum(f, field, {}) = 0
  BY <1>1, AddsIs
<1>3. ASSUME NEW U \in SUBSET S, U # {}
      PROVE  Sum(f, field, U) = f[Pick(U)][field] + Sum(f, field, U \ {Pick(U)})
  <2> DEFINE V == U \ {Pick(U)}
  <2>1. V \in SUBSET S /\ IsFiniteSet(V) /\ V \in SUBSET (U \cap V)
    BY <1>3, FS_Subset
  <2>2. G(U)[V] = G(V)[V]
    BY <1>1, <2>1, AddsAgree
  <2>3. G(U)[U] = f[Pick(U)][field] + G(U)[V]
    BY <1>1, <1>3, AddsIs
  <2> QED BY <1>1, <2>1, <2>2, <2>3
<1> QED BY <1>2, <1>3

\* Any element may be taken out first, and none takes anything away.
Takes(f, field, S) == \A x \in S : Sum(f, field, S) = f[x][field] + Sum(f, field, S \ {x})

LEMMA SumTake ==
  ASSUME NEW f, NEW field, NEW S, IsFiniteSet(S), \A x \in S : f[x][field] \in Nat
  PROVE  \A U \in SUBSET S : Sum(f, field, U) \in Nat /\ Takes(f, field, U)
<1> DEFINE T == {U \in SUBSET S : /\ Sum(f, field, U) \in Nat
                                  /\ \A x \in U : Sum(f, field, U) = f[x][field] + Sum(f, field, U \ {x})}
<1>1. ASSUME NEW U \in SUBSET S, \A V \in SUBSET U : V # U => V \in T PROVE U \in T
  <2>1. CASE U = {}
    BY <2>1, SumIs
  <2>2. CASE U # {}
    <3> DEFINE y == Pick(U)
               V == U \ {y}
    <3>1. y \in U /\ V \in SUBSET U /\ V # U /\ V \in T
      BY <1>1, <2>2, PickIn
    <3>0. \A Z \in SUBSET S : Z # {} => Sum(f, field, Z) = f[Pick(Z)][field] + Sum(f, field, Z \ {Pick(Z)})
      BY SumIs, Zenon
    <3>2. Sum(f, field, U) = f[y][field] + Sum(f, field, V)
      BY <2>2, <3>0, Zenon
    <3> HIDE DEF y
    <3>3. f[y][field] \in Nat /\ Sum(f, field, V) \in Nat
      BY <3>1
    <3>4. ASSUME NEW x \in U, x # y PROVE Sum(f, field, U) = f[x][field] + Sum(f, field, U \ {x})
      <4> DEFINE W == U \ {x}
      <4>1. x \in V /\ y \in W /\ W \in SUBSET U /\ W # U /\ W \in T /\ V \ {x} = W \ {y}
        BY <1>1, <3>1, <3>4
      <4>2. Sum(f, field, V) = f[x][field] + Sum(f, field, V \ {x})
        BY <3>1, <4>1
      <4>3. Sum(f, field, W) = f[y][field] + Sum(f, field, W \ {y})
        BY <4>1
      <4>4. W \ {y} \in T
        BY <1>1, <4>1
      <4>5. f[x][field] \in Nat /\ Sum(f, field, W \ {y}) \in Nat
        BY <3>4, <4>4
      <4>6. Sum(f, field, V \ {x}) = Sum(f, field, W \ {y})
        BY <4>1
      <4> HIDE DEF V, W
      <4>7. Sum(f, field, U) = f[x][field] + Sum(f, field, W)
        BY <3>2, <3>3, <4>2, <4>3, <4>5, <4>6
      <4> QED BY <4>7 DEF W
    <3>5. Sum(f, field, U) \in Nat
      BY <3>2, <3>3
    <3>6. Sum(f, field, U) = f[y][field] + Sum(f, field, U \ {y})
      BY <3>2
    <3>7. \A x \in U : Sum(f, field, U) = f[x][field] + Sum(f, field, U \ {x})
      BY <3>4, <3>6
    <3> QED BY <3>5, <3>7
  <2> QED BY <2>1, <2>2
<1> HIDE DEF T
<1>2. SUBSET S \subseteq T
  BY <1>1, SubsetInduction
<1> QED BY <1>2 DEF T, Takes

LEMMA SumMonotone ==
  ASSUME NEW f, NEW field, NEW S, IsFiniteSet(S), \A x \in S : f[x][field] \in Nat, NEW A, A \subseteq S
  PROVE  Sum(f, field, A) <= Sum(f, field, S)
<1> DEFINE T == {U \in SUBSET S : A \subseteq U => Sum(f, field, A) <= Sum(f, field, U)}
<1>1. ASSUME NEW U \in SUBSET S, \A V \in SUBSET U : V # U => V \in T PROVE U \in T
  <2> SUFFICES ASSUME A \subseteq U PROVE Sum(f, field, A) <= Sum(f, field, U)
    OBVIOUS
  <2>1. CASE A = U
    <3>1. Sum(f, field, U) \in Nat
      BY SumTake
    <3> QED BY <2>1, <3>1
  <2>2. CASE A # U
    <3>1. PICK x \in U : x \notin A
      BY <2>2
    <3>2. U \ {x} \in T /\ A \subseteq U \ {x}
      BY <1>1, <3>1
    <3>3. Sum(f, field, A) <= Sum(f, field, U \ {x})
      BY <3>2
    <3>4. Sum(f, field, U) = f[x][field] + Sum(f, field, U \ {x})
      <4>1. Takes(f, field, U)
        BY SumTake
      <4> QED BY <4>1 DEF Takes
    <3>5. /\ Sum(f, field, A) \in Nat /\ Sum(f, field, U \ {x}) \in Nat /\ f[x][field] \in Nat
      <4>1. A \in SUBSET S /\ U \ {x} \in SUBSET S /\ x \in S
        BY <3>1
      <4> QED BY <4>1, SumTake
    <3> QED BY <3>3, <3>4, <3>5
  <2> QED BY <2>1, <2>2
<1> HIDE DEF T
<1>2. SUBSET S \subseteq T
  BY <1>1, SubsetInduction
<1>3. S \in T
  BY <1>2
<1> QED BY <1>3 DEF T

-----------------------------------------------------------------------------
(***************************************************************************)
(* The totals of scan_single.  Sizes are numbers wherever they come from,  *)
(* and the report is the last thing that is computed.                      *)
(***************************************************************************)
Amounts(f) == \A s \in DOMAIN f : f[s].rss \in Nat /\ f[s].swap \in Nat

AmountsOK == Amounts(listing) /\ Amounts(meta)

ReportOK == pc = "done" => /\ report.mem = Sum(meta, "rss", referenced)
                           /\ report.swap = Sum(meta, "swap", referenced)

LEMMA TotalIsSum == \A segs, field : Total(segs, field) = Sum(meta, field, segs)
BY DEF Total, Sum

LEMMA CountNat ==
  ASSUME NEW s \in Segs, NEW where
  PROVE  Count(s, where) \in Nat
<1>1. IsFiniteSet({g \in PagesOf(s) : page[g] = where})
  BY PagesCard, FS_Subset
<1> QED BY <1>1, FS_CardinalityType DEF Count

\* Amounts come from listings, and the table gets those of the listing.
LEMMA AmountsKept ==
  ASSUME Inv, AmountsOK, [Next]_vars
  PROVE  AmountsOK'
<1>1. CASE ListSegments
  <2>1. Amounts(Listing)
    BY ListingFacts, CountNat DEF Amounts
  <2> QED BY <1>1, <2>1 DEF ListSegments, AmountsOK, Amounts
<1>2. CASE LookUp
  <2>1. listing' = listing /\ current \in DOMAIN listing
    BY <1>2 DEF LookUp, Inv, ShmInv, ScanOK
  <2>2. DOMAIN meta' \subseteq DOMAIN meta \cup {current}
    BY <1>2 DEF LookUp
  <2>3. \A s \in DOMAIN meta' : \/ s \in DOMAIN meta /\ meta'[s] = meta[s]
                                \/ /\ s \in DOMAIN listing
                                   /\ meta'[s].rss = listing[s].rss /\ meta'[s].swap = listing[s].swap
    BY <1>2, <2>1 DEF LookUp
  <2> QED BY <2>1, <2>3 DEF AmountsOK, Amounts
<1>3. CASE StartTable
  <2>1. listing' = <<>> /\ meta' = meta
    BY <1>3 DEF StartTable
  <2>2. DOMAIN listing' = {}
    BY <2>1
  <2> QED BY <2>1, <2>2 DEF AmountsOK, Amounts
<1>4. CASE UNCHANGED <<listing, meta>>
  BY <1>4 DEF AmountsOK, Amounts
<1>5. ListSegments \/ LookUp \/ StartTable \/ UNCHANGED <<listing, meta>>
  <2>1. ASSUME NEW s \in Segs, Shmat(s) \/ ShmatFails(s) PROVE UNCHANGED <<listing, meta>>
    BY <2>1 DEF Shmat, ShmatFails, PassOn
  <2>2. LookUpFails => UNCHANGED <<listing, meta>>
    BY DEF LookUpFails, PassOn
  <2>3. ASSUME NEW s \in Segs, NEW i \in Instances, FindSid(s, i) PROVE UNCHANGED <<listing, meta>>
    BY <2>3 DEF FindSid
  <2>4. ListProcesses \/ FailToList \/ NoStatus \/ HitLimit \/ Report => UNCHANGED <<listing, meta>>
    BY DEF ListProcesses, FailToList, NoStatus, HitLimit, Report
  <2>5. ASSUME NEW p \in Procs, Scan(p) PROVE UNCHANGED <<listing, meta>>
    BY <2>5 DEF Scan
  <2>6. Machine \/ UNCHANGED vars => UNCHANGED <<listing, meta>>
    BY DEF Machine, vars, shmvars
  <2> QED BY <2>1, <2>2, <2>3, <2>4, <2>5, <2>6 DEF Next, Main, ShmScan
<1> QED BY <1>1, <1>2, <1>3, <1>4, <1>5

\* Only Report ends the scan, and nothing moves what it read after that.
LEMMA ReportKept ==
  ASSUME Inv, ReportOK, [Next]_vars
  PROVE  ReportOK'
<1>1. CASE Report
  <2>1. report' = [mem |-> Total(referenced, "rss"), swap |-> Total(referenced, "swap")]
    BY <1>1 DEF Report
  <2>2. referenced' = referenced /\ meta' = meta
    BY <1>1 DEF Report
  <2> QED BY <2>1, <2>2, TotalIsSum DEF ReportOK
<1>2. CASE UNCHANGED vars
  BY <1>2 DEF ReportOK, vars, shmvars, singlevars
<1>3. CASE pc' # "done"
  BY <1>3 DEF ReportOK
<1>4. Report \/ UNCHANGED vars \/ pc' # "done"
  <2>1. ShmScan => pc' # "done"
    <3>1. ASSUME NEW s \in Segs, Shmat(s) \/ ShmatFails(s) PROVE pc' # "done"
      BY <3>1 DEF Shmat, ShmatFails, PassOn, Passes
    <3>2. LookUpFails \/ LookUp \/ ListSegments \/ StartTable => pc' # "done"
      BY DEF LookUpFails, LookUp, ListSegments, StartTable, PassOn, Passes
    <3>3. ASSUME NEW s \in Segs, NEW i \in Instances, FindSid(s, i) PROVE pc' # "done"
      BY <3>3 DEF FindSid
    <3> QED BY <3>1, <3>2, <3>3 DEF ShmScan
  <2>2. ListProcesses \/ FailToList \/ NoStatus \/ HitLimit => pc' # "done"
    BY DEF ListProcesses, FailToList, NoStatus, HitLimit
  <2>3. ASSUME NEW p \in Procs, Scan(p) PROVE pc' # "done"
    BY <2>3 DEF Scan
  <2>4. ~Ended /\ Machine => pc' # "done"
    BY DEF Ended, Machine
  <2> QED BY <2>1, <2>2, <2>3, <2>4 DEF Next, Main
<1> QED BY <1>1, <1>2, <1>3, <1>4

LEMMA TotalsInvariant == Spec => [](Inv /\ AmountsOK /\ ReportOK)
<1>1. InitSingle => AmountsOK /\ ReportOK
  <2> SUFFICES ASSUME InitSingle PROVE AmountsOK /\ ReportOK
    OBVIOUS
  <2>1. listing = <<>> /\ meta = <<>> /\ pc = "list1"
    BY DEF InitSingle, Init
  <2>2. DOMAIN listing = {} /\ DOMAIN meta = {}
    BY <2>1
  <2> QED BY <2>1, <2>2 DEF AmountsOK, Amounts, ReportOK
<1>2. Inv /\ AmountsOK /\ ReportOK /\ [Next]_vars => (Inv /\ AmountsOK /\ ReportOK)'
  BY NextInv, AmountsKept, ReportKept
<1> QED BY <1>1, <1>2, InitInv, PTL DEF Spec

-----------------------------------------------------------------------------

\* Types of memstats and of the machine it runs on.
THEOREM TypeCorrect == Spec => []TypeOK
<1>1. Inv => TypeOK
  BY DEF Inv, ShmInv, SingleInv, World, Types, ScanOK, ListOK, RefsOK, TypeOK, Passes, Shown
<1> QED BY <1>1, Invariant, PTL

\* After the dummy scan, the rss shown with a segment is the number of pages
\* shown with it, for segments of any size.
THEOREM RssIsInSync == Spec => []RssInSync
<1>1. Inv => RssInSync
  BY DEF Inv, ShmInv, RssOK
<1> QED BY <1>1, Invariant, PTL

\* memstats panics only for what left while it looked.
THEOREM PanicsAreDepartures == Spec => []OnlyDeparturesPanic
<1>1. Inv => OnlyDeparturesPanic
  BY DEF Inv, ShmInv, SingleInv, ShmPanicOK, VmPteOK, OnlyDeparturesPanic
<1> QED BY <1>1, Invariant, PTL

\* The segments counted and shown with instances are those referred to.
THEOREM ReferencesAreExact == Spec => []ReferencesExact
<1>1. Inv => ReferencesExact
  BY DEF Inv, SingleInv, RefsOK, ReferencesExact
<1> QED BY <1>1, Invariant, PTL

\* What memstats left attached after an error is in no total.
THEOREM LeaksAreUncounted == Spec => []LeaksUncounted
<1>1. Inv => LeaksUncounted
  <2> SUFFICES ASSUME Inv, NEW s \in Segs, <<Self, s>> \in att, current = NoSeg, pc # "shmpanic"
               PROVE  failed /\ s \notin DOMAIN meta
    BY DEF LeaksUncounted
  <2>1. s # current /\ pc \in {"list1"} \cup Passes \cup Shown
    BY ShmAssumption DEF Inv, ShmInv, ScanOK
  <2> QED BY <2>1 DEF Inv, ShmInv, LeakOK, Passes
<1> QED BY <1>1, Invariant, PTL

\* The vanished count is exact while two descriptors are left, and only the
\* memory limit leaves processes out.
THEOREM VanishedIsExact == Spec => []VanishedExact
<1>1. Inv => VanishedExact
  BY DEF Inv, SingleInv, ListOK, VanishedExact
<1> QED BY <1>1, Invariant, PTL

\* A segment counts once, however many processes refer to it: what
\* scan_single prints is at most the table's total, and at least that of the
\* segments that scanned processes kept, for any segments and processes.
THEOREM TotalsAreBounded == Spec => []TotalsBounded
<1>1. Inv /\ AmountsOK /\ ReportOK => TotalsBounded
  <2> SUFFICES ASSUME Inv, AmountsOK, ReportOK, pc = "done" PROVE TotalsBounded
    BY DEF TotalsBounded
  <2> DEFINE kept == {s \in DOMAIN meta : \E p \in scanned : <<p, s>> \in steady}
  <2>1. IsFiniteSet(DOMAIN meta)
    BY ShmAssumption, FS_Subset DEF Inv, ShmInv, ScanOK
  <2>2. kept \subseteq referenced /\ referenced \subseteq DOMAIN meta
    BY DEF Inv, SingleInv, RefsOK
  <2>3. IsFiniteSet(referenced)
    BY <2>1, <2>2, FS_Subset
  <2>4. \A s \in DOMAIN meta : meta[s]["rss"] \in Nat /\ meta[s]["swap"] \in Nat
    BY DEF AmountsOK, Amounts
  <2>5. report.mem = Total(referenced, "rss") /\ report.swap = Total(referenced, "swap")
    BY TotalIsSum DEF ReportOK
  <2> HIDE DEF kept
  <2>7. ASSUME NEW field \in {"rss", "swap"}
        PROVE  /\ Total(kept, field) <= Total(referenced, field)
               /\ Total(referenced, field) <= Total(DOMAIN meta, field)
    <3>1. \A s \in DOMAIN meta : meta[s][field] \in Nat
      BY <2>4
    <3>2. Sum(meta, field, kept) <= Sum(meta, field, referenced)
      <4>1. \A s \in referenced : meta[s][field] \in Nat
        BY <2>2, <3>1
      <4> QED BY <2>2, <2>3, <4>1, SumMonotone
    <3>3. Sum(meta, field, referenced) <= Sum(meta, field, DOMAIN meta)
      BY <2>1, <2>2, <3>1, SumMonotone
    <3> QED BY TotalIsSum, <3>2, <3>3
  <2> QED BY <2>5, <2>7 DEF TotalsBounded, kept
<1> QED BY <1>1, TotalsInvariant, PTL

=============================================================================
