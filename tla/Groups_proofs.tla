--------------------------- MODULE Groups_proofs ---------------------------
(***************************************************************************)
(* Theorems about the reports, for every data set, every command line and  *)
(* every filter, whatever exits while the filters are evaluated.           *)
(***************************************************************************)
EXTENDS TextGroups, SequenceTheorems, FiniteSetTheorems, WellFoundedInduction, TLAPS

Procs(k) == groups[k].procs

\* Every process is in one of the places it can be at, and in one only: in
\* the list, among those the current filter accepted, or in a group.
Covered == \A p \in Pids : \/ p \in processes \/ p \in taken
                           \/ \E k \in DOMAIN groups : p \in Procs(k)

Disjoint ==
  /\ processes \subseteq Pids /\ taken \subseteq Pids
  /\ processes \cap taken = {}
  /\ \A k \in DOMAIN groups : /\ Procs(k) \subseteq Pids
                              /\ Procs(k) \cap (processes \cup taken) = {}
  /\ \A k, h \in DOMAIN groups : k # h => Procs(k) \cap Procs(h) = {}

\* The filters still to come have not named a group yet.
Fresh == /\ filters \in Seq(Named)
         /\ \A i, j \in DOMAIN filters : filters[i].name = filters[j].name => i = j
         /\ \A i \in DOMAIN filters : filters[i].name \notin DOMAIN groups
         /\ Other \notin DOMAIN groups

\* What __split, display and collect_processes find and leave
Phases ==
  /\ phase \in {"idle", "split", "show"}
  /\ phase = "idle" => DOMAIN groups = {} /\ taken = {} /\ filters = <<>> /\ todo = {}
  /\ phase = "split" => Fresh /\ (filters = <<>> => taken = {})
  /\ phase = "show" => processes = {} /\ taken = {} /\ filters = <<>> /\ todo = {}

\* The lists that were not popped yet name each filter once.
CustomOK == /\ custom \in Seq(Texts)
            /\ \A n \in DOMAIN custom : Distinct(custom[n])

\* The rest of TypeOK
MiscOK == /\ cli \in CommandLines /\ info \in [Pids -> Infos]
          /\ cli \in {s.cli : s \in Scans}
          /\ life \in [Pids -> Lives]
          /\ stage \in {"uid", "env", "pids", "custom", "end", "panic"}
          /\ stage \in {"end", "panic"} => phase = "idle"
          /\ todo \subseteq processes

Inv == Covered /\ Disjoint /\ Phases /\ CustomOK /\ MiscOK

-----------------------------------------------------------------------------

LEMMA NewType ==
  ASSUME NEW text \in Texts, New[text] # Invalid
  PROVE  New[text] \in Seq(Named)
BY GroupsAssumption

-----------------------------------------------------------------------------
(***************************************************************************)
(* Evaluation, for filters of any height.  What is defined from the parts  *)
(* of a filter exists, and a property that a filter has when its parts     *)
(* have it holds of all filters, because a set of filters has one of least *)
(* height.                                                                 *)
(***************************************************************************)
LEMMA Least ==
  ASSUME NEW T, T \subseteq Nat, T # {}
  PROVE  \E x \in T : \A y \in T : x <= y
<1> DEFINE Smaller == OpToRel(<, Nat)
<1>1. IsWellFoundedOn(Smaller, Nat)
  BY NatLessThanWellFounded
<1>2. Smaller = {ss \in Nat \X Nat : ss[1] < ss[2]}
  BY DEF OpToRel
<1> HIDE DEF Smaller
<1>3. PICK x \in T : \A y \in T : ~(<<y, x>> \in Smaller)
  BY <1>1, WFMin
<1>4. ASSUME NEW y \in T PROVE x <= y
  <2>1. x \in Nat /\ y \in Nat /\ ~(<<y, x>> \in Smaller)
    BY <1>3
  <2>2. y < x => <<y, x>> \in Smaller
    BY <1>2, <2>1
  <2> QED BY <2>1, <2>2
<1> QED BY <1>4

LEMMA Induction ==
  ASSUME NEW T, 0 \in T, \A n \in Nat : n \in T => n + 1 \in T
  PROVE  Nat \subseteq T
<1> SUFFICES ASSUME Nat \ T # {} PROVE FALSE
  OBVIOUS
<1>1. PICK x \in Nat \ T : \A y \in Nat \ T : x <= y
  BY Least
<1>2. x # 0 /\ x - 1 \in Nat
  BY <1>1
<1>3. x - 1 \in T
  BY <1>1, <1>2
<1> QED BY <1>1, <1>2, <1>3

\* The parts of a filter
LEMMA Parts ==
  ASSUME NEW f \in Filters
  PROVE  /\ Height[f] \in Nat
         /\ Len(f.kids) \in Nat /\ DOMAIN f.kids = 1 .. Len(f.kids)
         /\ \A i \in DOMAIN f.kids : f.kids[i] \in Filters /\ Height[f.kids[i]] \in Nat
                                     /\ Height[f.kids[i]] < Height[f]
         /\ f.op = "not" => 1 \in DOMAIN f.kids
<1>1. f.kids \in Seq(Filters) /\ Height \in [Filters -> Nat]
  BY FilterAssumption
<1>2. Len(f.kids) \in Nat /\ DOMAIN f.kids = 1 .. Len(f.kids) /\ \A i \in DOMAIN f.kids : f.kids[i] \in Filters
  BY <1>1
<1>3. (f.op = "not" => Len(f.kids) = 1) /\ \A i \in DOMAIN f.kids : Height[f.kids[i]] < Height[f]
  BY FilterAssumption, Zenon
<1>4. \A k \in Filters : Height[k] \in Nat
  BY <1>1
<1>5. ASSUME f.op = "not" PROVE 1 \in DOMAIN f.kids
  <2>1. DOMAIN f.kids = 1 .. 1
    BY <1>2, <1>3, <1>5, Zenon
  <2>2. 1 \in 1 .. 1
    OBVIOUS
  <2> QED BY <2>1, <2>2, Zenon
<1> QED BY <1>2, <1>3, <1>4, <1>5, Zenon

LEMMA FilterInduction ==
  ASSUME NEW T, \A f \in Filters : (\A i \in DOMAIN f.kids : f.kids[i] \in T) => f \in T
  PROVE  Filters \subseteq T
<1> SUFFICES ASSUME Filters \ T # {} PROVE FALSE
  OBVIOUS
<1> DEFINE H == {Height[f] : f \in Filters \ T}
<1>1. H \subseteq Nat /\ H # {}
  BY Parts
<1>2. PICK h \in H : \A k \in H : h <= k
  BY <1>1, Least
<1>3. PICK f \in Filters \ T : h = Height[f]
  OBVIOUS
<1>4. \A i \in DOMAIN f.kids : f.kids[i] \in T
  <2> SUFFICES ASSUME NEW i \in DOMAIN f.kids, f.kids[i] \notin T PROVE FALSE
    OBVIOUS
  <2>1. f.kids[i] \in Filters /\ Height[f.kids[i]] \in Nat /\ Height[f.kids[i]] < h /\ h \in Nat
    BY <1>3, Parts
  <2>2. Height[f.kids[i]] \in H
    BY <2>1
  <2>3. h <= Height[f.kids[i]]
    BY <1>2, <2>2
  <2> QED BY <2>1, <2>3
<1> QED BY <1>3, <1>4

\* The values of a function at the parts of a filter
OfParts(f, e) == [i \in DOMAIN f.kids |-> e[f.kids[i]]]
Tuples(W) == UNION {[1 .. n -> W] : n \in Nat}

LEMMA OfPartsIs ==
  ASSUME NEW W, NEW e \in [Filters -> W], NEW f \in Filters
  PROVE  OfParts(f, e) \in Tuples(W) /\ OfParts(f, e) \in [DOMAIN f.kids -> W]
<1>1. OfParts(f, e) \in [DOMAIN f.kids -> W]
  BY Parts DEF OfParts
<1>2. DOMAIN f.kids = 1 .. Len(f.kids) /\ Len(f.kids) \in Nat
  BY Parts
<1> QED BY <1>1, <1>2, Zenon DEF Tuples

Right(e, n, W, step) ==
  e \in [Filters -> W] /\ \A f \in Filters : Height[f] < n => e[f] = step[<<f, OfParts(f, e)>>]

\* A step from the values at the parts of a filter to one of its own defines
\* a function on all filters.
LEMMA FilterRecursion ==
  ASSUME NEW W, NEW w \in W, NEW step \in [Filters \X Tuples(W) -> W]
  PROVE  \E e \in [Filters -> W] : \A f \in Filters : e[f] = step[<<f, OfParts(f, e)>>]
<1>1. \A n \in Nat : \E e : Right(e, n, W, step)
  <2> DEFINE T == {n \in Nat : \E e : Right(e, n, W, step)}
  <2>1. 0 \in T
    <3>1. \A f \in Filters : ~(Height[f] < 0)
      BY Parts
    <3>2. Right([f \in Filters |-> w], 0, W, step)
      BY <3>1 DEF Right
    <3> QED BY <3>2
  <2>2. ASSUME NEW n \in Nat, n \in T PROVE n + 1 \in T
    <3>1. PICK e : Right(e, n, W, step)
      BY <2>2
    <3> DEFINE d == [f \in Filters |-> step[<<f, OfParts(f, e)>>]]
    <3>2. e \in [Filters -> W] /\ \A f \in Filters : Height[f] < n => e[f] = step[<<f, OfParts(f, e)>>]
      BY <3>1 DEF Right
    <3>3. \A f \in Filters : step[<<f, OfParts(f, e)>>] \in W
      BY <3>2, OfPartsIs
    <3>4. d \in [Filters -> W] /\ \A f \in Filters : d[f] = step[<<f, OfParts(f, e)>>]
      BY <3>3
    <3> HIDE DEF d
    <3>k. \A f \in Filters : Height[f] < n => d[f] = e[f]
      BY <3>2, <3>4
    <3>5. ASSUME NEW f \in Filters, Height[f] < n + 1 PROVE OfParts(f, d) = OfParts(f, e)
      <4>1. ASSUME NEW i \in DOMAIN f.kids PROVE d[f.kids[i]] = e[f.kids[i]]
        <5>1. f.kids[i] \in Filters /\ Height[f.kids[i]] < n
          BY <3>5, Parts
        <5> QED BY <3>k, <5>1
      <4> QED BY <4>1 DEF OfParts
    <3>6. Right(d, n + 1, W, step)
      BY <3>4, <3>5 DEF Right
    <3> QED BY <3>6
  <2> HIDE DEF T
  <2>3. Nat \subseteq T
    BY <2>1, <2>2, Induction
  <2> QED BY <2>3 DEF T
<1>2. ASSUME NEW n \in Nat, NEW m \in Nat, NEW e, NEW d, Right(e, n, W, step), Right(d, m, W, step),
             NEW g \in Filters, Height[g] < n, Height[g] < m
      PROVE  e[g] = d[g]
  <2> DEFINE T == {f \in Filters : Height[f] < n /\ Height[f] < m => e[f] = d[f]}
  <2>1. ASSUME NEW f \in Filters, \A i \in DOMAIN f.kids : f.kids[i] \in T PROVE f \in T
    <3> SUFFICES ASSUME Height[f] < n, Height[f] < m PROVE e[f] = d[f]
      OBVIOUS
    <3>1. ASSUME NEW i \in DOMAIN f.kids PROVE e[f.kids[i]] = d[f.kids[i]]
      <4>1. f.kids[i] \in Filters /\ Height[f.kids[i]] < n /\ Height[f.kids[i]] < m
        BY Parts
      <4> QED BY <2>1, <4>1
    <3>2. OfParts(f, e) = OfParts(f, d)
      BY <3>1 DEF OfParts
    <3> QED BY <1>2, <3>2 DEF Right
  <2> HIDE DEF T
  <2>2. Filters \subseteq T
    BY <2>1, FilterInduction
  <2> QED BY <1>2, <2>2 DEF T
<1> DEFINE G(n) == CHOOSE e : Right(e, n, W, step)
           a == [f \in Filters |-> G(Height[f] + 1)[f]]
<1>3. \A n \in Nat : Right(G(n), n, W, step)
  BY <1>1
<1> HIDE DEF G
<1>4. ASSUME NEW f \in Filters
      PROVE  /\ a[f] = G(Height[f] + 1)[f] /\ G(Height[f] + 1) \in [Filters -> W]
             /\ a[f] = step[<<f, OfParts(f, G(Height[f] + 1))>>]
             /\ \A i \in DOMAIN f.kids : a[f.kids[i]] = G(Height[f] + 1)[f.kids[i]]
  <2>1. Height[f] + 1 \in Nat /\ Height[f] < Height[f] + 1
    BY Parts
  <2>2. Right(G(Height[f] + 1), Height[f] + 1, W, step)
    BY <1>3, <2>1
  <2>3. a[f] = G(Height[f] + 1)[f]
    OBVIOUS
  <2>4. ASSUME NEW i \in DOMAIN f.kids PROVE a[f.kids[i]] = G(Height[f] + 1)[f.kids[i]]
    <3>1. /\ f.kids[i] \in Filters /\ Height[f.kids[i]] + 1 \in Nat
          /\ Height[f.kids[i]] < Height[f] + 1 /\ Height[f.kids[i]] < Height[f.kids[i]] + 1
      BY Parts
    <3>2. Right(G(Height[f.kids[i]] + 1), Height[f.kids[i]] + 1, W, step)
      BY <1>3, <3>1
    <3> DEFINE kid == f.kids[i]
               n == Height[f.kids[i]] + 1
               m == Height[f] + 1
               e == G(n)
               d == G(m)
    <3>3. /\ kid \in Filters /\ n \in Nat /\ m \in Nat /\ Height[kid] < n /\ Height[kid] < m
          /\ Right(e, n, W, step) /\ Right(d, m, W, step)
      BY <2>1, <2>2, <3>1, <3>2, Zenon
    <3>4. a[kid] = e[kid]
      BY <3>1
    <3> HIDE DEF kid, n, m, e, d
    <3>5. e[kid] = d[kid]
      BY <1>2, <3>3
    <3>6. a[kid] = d[kid]
      BY <3>4, <3>5
    <3> QED BY <3>6 DEF kid, d, m
  <2> QED BY <2>1, <2>2, <2>3, <2>4 DEF Right
<1>5. a \in [Filters -> W]
  <2>1. \A f \in Filters : a[f] \in W
    BY <1>4
  <2> QED BY <2>1
<1> HIDE DEF a
<1>6. ASSUME NEW f \in Filters PROVE a[f] = step[<<f, OfParts(f, a)>>]
  <2>1. OfParts(f, a) = OfParts(f, G(Height[f] + 1))
    BY <1>4 DEF OfParts
  <2> QED BY <1>4, <2>1
<1> QED BY <1>5, <1>6

-----------------------------------------------------------------------------
(* What all and any return *)

LEMMA AList ==
  ASSUME NEW S, NEW n \in Nat, NEW s \in [1 .. n -> S]
  PROVE  s \in Seq(S) /\ Len(s) = n
OBVIOUS

Paths(evals, stop, start, n) ==
  {path \in [0 .. n -> Lives] :
     /\ path[0] = start
     /\ \A i \in 1 .. n : <<~stop, path[i]>> \in evals[i][path[i - 1]]}

LEMMA UntilIs ==
  ASSUME NEW n \in Nat, NEW evals \in [1 .. n -> [Lives -> SUBSET (BOOLEAN \X Lives)]],
         NEW stop \in BOOLEAN, NEW start \in Lives, NEW o
  PROVE  o \in Until(evals, stop, start) <=>
           \/ \E m \in 1 .. n : \E path \in Paths(evals, stop, start, m - 1) :
                o \in evals[m][path[m - 1]] /\ o[1] = stop
           \/ \E path \in Paths(evals, stop, start, n) : o = <<~stop, path[n]>>
<1>1. Len(evals) = n /\ DOMAIN evals = 1 .. n
  BY AList
<1>2. Until(evals, stop, start) =
        (UNION {UNION {{a \in evals[m][path[m - 1]] : a[1] = stop} : path \in Paths(evals, stop, start, m - 1)} :
                  m \in 1 .. n})
          \cup {<<~stop, path[n]>> : path \in Paths(evals, stop, start, n)}
  BY <1>1, Zenon DEF Until, Paths
<1>3. o \in Until(evals, stop, start) <=>
        \/ o \in UNION {UNION {{a \in evals[m][path[m - 1]] : a[1] = stop} : path \in Paths(evals, stop, start, m - 1)} :
                          m \in 1 .. n}
        \/ o \in {<<~stop, path[n]>> : path \in Paths(evals, stop, start, n)}
  BY <1>2, Zenon
<1>4. o \in UNION {UNION {{a \in evals[m][path[m - 1]] : a[1] = stop} : path \in Paths(evals, stop, start, m - 1)} :
                   m \in 1 .. n} <=>
        \E m \in 1 .. n : \E path \in Paths(evals, stop, start, m - 1) : o \in evals[m][path[m - 1]] /\ o[1] = stop
  <2> DEFINE ends(m, path) == {a \in evals[m][path[m - 1]] : a[1] = stop}
             decided(m) == UNION {ends(m, path) : path \in Paths(evals, stop, start, m - 1)}
  <2>1. \A m, path : o \in ends(m, path) <=> o \in evals[m][path[m - 1]] /\ o[1] = stop
    BY Zenon
  <2> HIDE DEF ends
  <2>2. \A m : o \in decided(m) <=> \E path \in Paths(evals, stop, start, m - 1) : o \in ends(m, path)
    BY Zenon
  <2> HIDE DEF decided
  <2>3. o \in UNION {decided(m) : m \in 1 .. n} <=> \E m \in 1 .. n : o \in decided(m)
    BY Zenon
  <2>4. (\E m \in 1 .. n : o \in decided(m)) <=>
          \E m \in 1 .. n : \E path \in Paths(evals, stop, start, m - 1) : o \in evals[m][path[m - 1]] /\ o[1] = stop
    BY <2>1, <2>2, Zenon
  <2> QED BY <2>3, <2>4, Zenon DEF decided, ends
<1>5. o \in {<<~stop, path[n]>> : path \in Paths(evals, stop, start, n)} <=>
        \E path \in Paths(evals, stop, start, n) : o = <<~stop, path[n]>>
  BY Zenon
<1> QED BY <1>3, <1>4, <1>5, Zenon

LEMMA UntilType ==
  ASSUME NEW n \in Nat, NEW evals \in [1 .. n -> [Lives -> SUBSET (BOOLEAN \X Lives)]],
         NEW stop \in BOOLEAN, NEW start \in Lives
  PROVE  Until(evals, stop, start) \subseteq BOOLEAN \X Lives
<1> SUFFICES ASSUME NEW o \in Until(evals, stop, start) PROVE o \in BOOLEAN \X Lives
  OBVIOUS
<1>1. CASE \E m \in 1 .. n : \E path \in Paths(evals, stop, start, m - 1) :
             o \in evals[m][path[m - 1]] /\ o[1] = stop
  <2>0. PICK m \in 1 .. n : \E path \in Paths(evals, stop, start, m - 1) : o \in evals[m][path[m - 1]]
    BY <1>1
  <2>1. PICK path \in Paths(evals, stop, start, m - 1) : o \in evals[m][path[m - 1]]
    BY <2>0
  <2>2. path[m - 1] \in Lives
    <3>1. m - 1 \in 0 .. (m - 1) /\ path \in [0 .. (m - 1) -> Lives]
      BY DEF Paths
    <3> QED BY <3>1
  <2> QED BY <2>1, <2>2
<1>2. CASE \E path \in Paths(evals, stop, start, n) : o = <<~stop, path[n]>>
  <2>1. PICK path \in Paths(evals, stop, start, n) : o = <<~stop, path[n]>>
    BY <1>2
  <2>2. n \in 0 .. n /\ path \in [0 .. n -> Lives]
    BY DEF Paths
  <2>3. path[n] \in Lives
    BY <2>2
  <2>4. (~stop) \in BOOLEAN
    BY Zenon
  <2> QED BY <2>1, <2>3, <2>4, Zenon
<1> QED BY <1>1, <1>2, UntilIs

\* What eval gives to a process that lives to the end of an evaluation
Truthful(outcomes, meant) ==
  \A l \in Lives : \A o \in outcomes[l] : o[2] = "alive" => l = "alive" /\ (o[1] <=> meant)

AllTruthful(evals, meant, n) == \A i \in 1 .. n : Truthful(evals[i], meant[i])

\* A process that lives at the end of a path lived all along it, so that every
\* child on the path gave the answer that was meant.
LEMMA PathAlive ==
  ASSUME NEW n \in Nat, NEW evals, NEW meant, AllTruthful(evals, meant, n),
         NEW stop \in BOOLEAN, NEW start \in Lives, NEW k \in Nat, k <= n,
         NEW path \in Paths(evals, stop, start, k), path[k] = "alive"
  PROVE  start = "alive" /\ \A i \in 1 .. k : meant[i] <=> ~stop
<1> DEFINE T == {j \in Nat : j <= k => path[k - j] = "alive"}
<1>0. /\ path \in [0 .. k -> Lives] /\ path[0] = start
      /\ \A i \in 1 .. k : <<~stop, path[i]>> \in evals[i][path[i - 1]]
  BY DEF Paths
<1>n. \A i \in 1 .. k : i \in 1 .. n
  OBVIOUS
<1>1. ASSUME NEW i \in 1 .. k, path[i] = "alive"
      PROVE  path[i - 1] = "alive" /\ (meant[i] <=> ~stop)
  <2>1. i - 1 \in 0 .. k
    OBVIOUS
  <2>2. path[i - 1] \in Lives /\ <<~stop, "alive">> \in evals[i][path[i - 1]]
    BY <1>0, <1>1, <2>1
  <2>3. <<~stop, "alive">>[1] = ~stop /\ <<~stop, "alive">>[2] = "alive"
    OBVIOUS
  <2>4. Truthful(evals[i], meant[i])
    BY <1>n DEF AllTruthful
  <2> QED BY <2>2, <2>3, <2>4 DEF Truthful
<1>2. 0 \in T
  OBVIOUS
<1>3. ASSUME NEW j \in Nat, j \in T PROVE j + 1 \in T
  <2> SUFFICES ASSUME j + 1 <= k PROVE path[k - (j + 1)] = "alive"
    OBVIOUS
  <2>1. k - j \in 1 .. k /\ (k - j) - 1 = k - (j + 1) /\ j <= k
    OBVIOUS
  <2>2. path[k - j] = "alive"
    BY <1>3, <2>1
  <2> QED BY <1>1, <2>1, <2>2
<1> HIDE DEF T
<1>4. Nat \subseteq T
  BY <1>2, <1>3, Induction
<1>5. ASSUME NEW i \in 0 .. k PROVE path[i] = "alive"
  <2>1. k - i \in Nat /\ k - i <= k /\ k - (k - i) = i
    OBVIOUS
  <2>2. k - i \in T
    BY <1>4, <2>1
  <2> QED BY <2>1, <2>2 DEF T
<1>6. 0 \in 0 .. k /\ \A i \in 1 .. k : i \in 0 .. k
  OBVIOUS
<1> QED BY <1>0, <1>1, <1>5, <1>6

\* The answer of all or any, from the answers that were meant
Decided(answer, stop, meant, n) == answer = stop <=> \E i \in 1 .. n : meant[i] = stop

LEMMA UntilTruthful ==
  ASSUME NEW n \in Nat, NEW evals \in [1 .. n -> [Lives -> SUBSET (BOOLEAN \X Lives)]],
         NEW meant \in [1 .. n -> BOOLEAN], AllTruthful(evals, meant, n),
         NEW stop \in BOOLEAN, NEW start \in Lives, NEW o \in Until(evals, stop, start), o[2] = "alive"
  PROVE  start = "alive" /\ Decided(o[1], stop, meant, n)
<1> SUFFICES start = "alive" /\ (o[1] = stop <=> \E i \in 1 .. n : meant[i] = stop)
  BY DEF Decided
<1>1. CASE \E m \in 1 .. n : \E path \in Paths(evals, stop, start, m - 1) :
             o \in evals[m][path[m - 1]] /\ o[1] = stop
  <2>0. PICK m \in 1 .. n : \E path \in Paths(evals, stop, start, m - 1) :
                              o \in evals[m][path[m - 1]] /\ o[1] = stop
    BY <1>1
  <2>1. PICK path \in Paths(evals, stop, start, m - 1) : o \in evals[m][path[m - 1]] /\ o[1] = stop
    BY <2>0
  <2>2. m - 1 \in Nat /\ path[m - 1] \in Lives
    <3>1. m - 1 \in 0 .. (m - 1) /\ path \in [0 .. (m - 1) -> Lives]
      BY DEF Paths
    <3> QED BY <3>1
  <2>3. path[m - 1] = "alive" /\ (o[1] <=> meant[m])
    BY <2>1, <2>2 DEF Truthful, AllTruthful
  <2>4. start = "alive"
    <3>k. PICK k : k = m - 1
      OBVIOUS
    <3>1. k \in Nat /\ path \in Paths(evals, stop, start, k) /\ path[k] = "alive"
      BY <2>2, <2>3, <3>k, Zenon
    <3>2. k <= n
      BY <3>k
    <3> QED BY <3>1, <3>2, PathAlive
  <2>5. meant[m] = stop
    BY <2>1, <2>3
  <2> QED BY <2>1, <2>4, <2>5
<1>2. CASE \E path \in Paths(evals, stop, start, n) : o = <<~stop, path[n]>>
  <2>1. PICK path \in Paths(evals, stop, start, n) : o = <<~stop, path[n]>>
    BY <1>2
  <2>2. o[1] = ~stop /\ path[n] = "alive"
    BY <2>1
  <2>3. n <= n
    OBVIOUS
  <2>4. start = "alive" /\ \A i \in 1 .. n : meant[i] <=> ~stop
    BY <2>2, <2>3, PathAlive
  <2> QED BY <2>2, <2>4
<1> QED BY <1>1, <1>2, UntilIs

-----------------------------------------------------------------------------
(* Every evaluation *)

Answers == [Pids -> [Lives -> SUBSET (BOOLEAN \X Lives)]]

LEMMA LeafType ==
  ASSUME NEW f \in Filters, NEW p \in Pids, NEW l \in Lives
  PROVE  /\ f.op \in Reading => Reads(f, p, l) \subseteq BOOLEAN
         /\ f.op \in Knowing => Knows(f, p) \in BOOLEAN
         /\ Later(l) \subseteq Lives /\ ("alive" \in Later(l) => l = "alive")
<1>1. f.op \in Reading => Reads(f, p, l) \subseteq BOOLEAN
  <2>1. f.op \in Reading => Says(f, p) \in BOOLEAN
    <3>1. CASE f.op = "comm"
      BY <3>1 DEF Says
    <3>2. CASE f.op = "uid"
      BY <3>2 DEF Says
    <3>3. CASE f.op = "env_k"
      BY <3>3 DEF Says
    <3>4. CASE f.op = "env_kv"
      BY <3>4 DEF Says
    <3> QED BY <3>1, <3>2, <3>3, <3>4 DEF Reading
  <2>2. l = "alive" => Reads(f, p, l) = {Says(f, p)}
    BY DEF Reads
  <2>3. f.op \in Reading /\ l # "alive" => Reads(f, p, l) \in {BOOLEAN, {FALSE}}
    <3>1. CASE f.op \in {"comm", "uid"}
      BY <3>1 DEF Reads, Lives
    <3>2. CASE f.op \in {"env_k", "env_kv"}
      BY <3>2 DEF Reads, Lives
    <3> QED BY <3>1, <3>2 DEF Reading
  <2>4. CASE l = "alive"
    BY <2>1, <2>2, <2>4
  <2>5. CASE l # "alive"
    BY <2>3, <2>5
  <2> QED BY <2>4, <2>5
<1>2. f.op \in Knowing => Knows(f, p) \in BOOLEAN
  <2>1. CASE f.op = "pid"
    BY <2>1 DEF Knows
  <2>2. CASE f.op = "descendants"
    BY <2>2 DEF Knows
  <2>3. CASE f.op \in {"true", "false"}
    BY <2>3 DEF Knows
  <2> QED BY <2>1, <2>2, <2>3 DEF Knowing
<1>3. Later(l) \subseteq Lives /\ ("alive" \in Later(l) => l = "alive")
  BY DEF Lives, Later
<1> QED BY <1>1, <1>2, <1>3

LEMMA OpIs ==
  ASSUME NEW f \in Filters
  PROVE  /\ f.op \in {"and", "or", "not"} \/ f.op \in Reading \/ f.op \in Knowing
         /\ {"and", "or", "not"} \cap (Reading \cup Knowing) = {} /\ Reading \cap Knowing = {}
BY FilterAssumption DEF Operators, Reading, Knowing

\* What eval of each child does with a process
OfChildren(f, evals, p) == [i \in 1 .. Len(f.kids) |-> evals[i][p]]

\* One evaluation, from those of the children
Evaluated(f, evals, p, l) ==
  /\ f.op = "and" => Evaluate(f, evals)[p][l] = Until(OfChildren(f, evals, p), FALSE, l)
  /\ f.op = "or" => Evaluate(f, evals)[p][l] = Until(OfChildren(f, evals, p), TRUE, l)
  /\ f.op = "not" => Evaluate(f, evals)[p][l] = {<<~o[1], o[2]>> : o \in evals[1][p][l]}
  /\ f.op \in Reading => Evaluate(f, evals)[p][l] = UNION {Reads(f, p, k) \X {k} : k \in Later(l)}
  /\ f.op \in Knowing => Evaluate(f, evals)[p][l] = {<<Knows(f, p), l>>}

LEMMA EvaluateIs ==
  ASSUME NEW f \in Filters, NEW evals \in [DOMAIN f.kids -> Answers], NEW p \in Pids, NEW l \in Lives
  PROVE  /\ OfChildren(f, evals, p) \in [1 .. Len(f.kids) -> [Lives -> SUBSET (BOOLEAN \X Lives)]]
         /\ Evaluated(f, evals, p, l)
<1>1. Len(f.kids) \in Nat /\ DOMAIN f.kids = 1 .. Len(f.kids) /\ (f.op = "not" => 1 \in 1 .. Len(f.kids))
  BY Parts
<1>2. [i \in DOMAIN evals |-> evals[i][p]] = OfChildren(f, evals, p)
  BY <1>1 DEF OfChildren
<1>3. OfChildren(f, evals, p) \in [1 .. Len(f.kids) -> [Lives -> SUBSET (BOOLEAN \X Lives)]]
  <2>1. \A i \in 1 .. Len(f.kids) : evals[i] \in Answers
    BY <1>1
  <2>2. \A i \in 1 .. Len(f.kids) : evals[i][p] \in [Lives -> SUBSET (BOOLEAN \X Lives)]
    BY <2>1 DEF Answers
  <2> QED BY <2>2 DEF OfChildren
<1>4. f.op = "not" => OfChildren(f, evals, p)[1] = evals[1][p]
  BY <1>1 DEF OfChildren
<1>5. Evaluate(f, evals)[p][l] =
        CASE f.op = "and" -> Until(OfChildren(f, evals, p), FALSE, l)
          [] f.op = "or" -> Until(OfChildren(f, evals, p), TRUE, l)
          [] f.op = "not" -> {<<~o[1], o[2]>> : o \in OfChildren(f, evals, p)[1][l]}
          [] f.op \in Reading -> UNION {Reads(f, p, k) \X {k} : k \in Later(l)}
          [] f.op \in Knowing -> {<<Knows(f, p), l>>}
  BY <1>2, Zenon DEF Evaluate, EvalGiven
<1>6. ASSUME f.op = "and" PROVE Evaluate(f, evals)[p][l] = Until(OfChildren(f, evals, p), FALSE, l)
  BY <1>5, <1>6 DEF Reading, Knowing
<1>7. ASSUME f.op = "or" PROVE Evaluate(f, evals)[p][l] = Until(OfChildren(f, evals, p), TRUE, l)
  BY <1>5, <1>7 DEF Reading, Knowing
<1>8. ASSUME f.op = "not" PROVE Evaluate(f, evals)[p][l] = {<<~o[1], o[2]>> : o \in evals[1][p][l]}
  BY <1>4, <1>5, <1>8 DEF Reading, Knowing
<1>9. ASSUME f.op \in Reading
      PROVE  Evaluate(f, evals)[p][l] = UNION {Reads(f, p, k) \X {k} : k \in Later(l)}
  BY <1>5, <1>9 DEF Reading, Knowing
<1>10. ASSUME f.op \in Knowing PROVE Evaluate(f, evals)[p][l] = {<<Knows(f, p), l>>}
  BY <1>5, <1>10 DEF Reading, Knowing
<1> QED BY <1>3, <1>6, <1>7, <1>8, <1>9, <1>10, Zenon DEF Evaluated

LEMMA EvaluateType ==
  ASSUME NEW f \in Filters, NEW evals \in [DOMAIN f.kids -> Answers]
  PROVE  Evaluate(f, evals) \in Answers
<1>1. ASSUME NEW p \in Pids, NEW l \in Lives
      PROVE  Evaluate(f, evals)[p][l] \subseteq BOOLEAN \X Lives
  <2>0. /\ OfChildren(f, evals, p) \in [1 .. Len(f.kids) -> [Lives -> SUBSET (BOOLEAN \X Lives)]]
        /\ Len(f.kids) \in Nat /\ Evaluated(f, evals, p, l)
    BY EvaluateIs, Parts
  <2>1. CASE f.op = "and"
    <3>1. Evaluate(f, evals)[p][l] = Until(OfChildren(f, evals, p), FALSE, l)
      BY <2>0, <2>1, Zenon DEF Evaluated
    <3>2. FALSE \in BOOLEAN
      OBVIOUS
    <3>3. Until(OfChildren(f, evals, p), FALSE, l) \subseteq BOOLEAN \X Lives
      BY <2>0, <3>2, UntilType, Zenon
    <3> QED BY <3>1, <3>3, Zenon
  <2>2. CASE f.op = "or"
    <3>1. Evaluate(f, evals)[p][l] = Until(OfChildren(f, evals, p), TRUE, l)
      BY <2>0, <2>2, Zenon DEF Evaluated
    <3>2. TRUE \in BOOLEAN
      OBVIOUS
    <3>3. Until(OfChildren(f, evals, p), TRUE, l) \subseteq BOOLEAN \X Lives
      BY <2>0, <3>2, UntilType, Zenon
    <3> QED BY <3>1, <3>3, Zenon
  <2>3. CASE f.op = "not"
    <3>1. Evaluate(f, evals)[p][l] = {<<~o[1], o[2]>> : o \in evals[1][p][l]}
      BY <2>0, <2>3, Zenon DEF Evaluated
    <3>2. evals[1] \in Answers
      BY <2>3, Parts
    <3>3. evals[1][p][l] \subseteq BOOLEAN \X Lives
      BY <3>2 DEF Answers
    <3>4. \A o \in evals[1][p][l] : <<~o[1], o[2]>> \in BOOLEAN \X Lives
      BY <3>3
    <3> QED BY <3>1, <3>4, Zenon
  <2>4. CASE f.op \in Reading
    <3>1. Evaluate(f, evals)[p][l] = UNION {Reads(f, p, k) \X {k} : k \in Later(l)}
      BY <2>0, <2>4, Zenon DEF Evaluated
    <3>2. \A k \in Later(l) : k \in Lives /\ Reads(f, p, k) \subseteq BOOLEAN
      BY <2>4, LeafType
    <3> QED BY <3>1, <3>2
  <2>5. CASE f.op \in Knowing
    <3>1. Evaluate(f, evals)[p][l] = {<<Knows(f, p), l>>}
      BY <2>0, <2>5, Zenon DEF Evaluated
    <3>2. Knows(f, p) \in BOOLEAN
      BY <2>5, LeafType
    <3> QED BY <3>1, <3>2
  <2> QED BY <2>1, <2>2, <2>3, <2>4, <2>5, OpIs
<1>2. ASSUME NEW p \in Pids PROVE Evaluate(f, evals)[p] \in [Lives -> SUBSET (BOOLEAN \X Lives)]
  <2>1. \A l \in Lives : Evaluate(f, evals)[p][l] \in SUBSET (BOOLEAN \X Lives)
    BY <1>1
  <2>2. Evaluate(f, evals)[p] = [l \in Lives |-> Evaluate(f, evals)[p][l]]
    BY Zenon DEF Evaluate
  <2> QED BY <2>1, <2>2, Zenon
<1>3. Evaluate(f, evals) = [p \in Pids |-> Evaluate(f, evals)[p]]
  BY Zenon DEF Evaluate
<1> QED BY <1>2, <1>3, Zenon DEF Answers

LEMMA OutcomesIs ==
  /\ Outcomes \in [Filters -> Answers]
  /\ \A f \in Filters : Outcomes[f] = Evaluate(f, OfParts(f, Outcomes))
<1> DEFINE none == [p \in Pids |-> [l \in Lives |-> {}]]
           step == [fe \in Filters \X Tuples(Answers) |->
                      IF Evaluate(fe[1], fe[2]) \in Answers THEN Evaluate(fe[1], fe[2]) ELSE none]
           outcomes(o) == o = [f \in Filters |-> Evaluate(f, OfParts(f, o))]
<1>1. none \in Answers
  BY DEF Answers
<1> HIDE DEF none
<1>2. step \in [Filters \X Tuples(Answers) -> Answers]
  BY <1>1
<1>3. \A f \in Filters, evals \in Tuples(Answers) :
        Evaluate(f, evals) \in Answers => step[<<f, evals>>] = Evaluate(f, evals)
  OBVIOUS
<1> HIDE DEF step
<1>4. PICK e \in [Filters -> Answers] : \A f \in Filters : e[f] = step[<<f, OfParts(f, e)>>]
  BY <1>1, <1>2, FilterRecursion
<1>5. ASSUME NEW f \in Filters PROVE e[f] = Evaluate(f, OfParts(f, e))
  <2>1. OfParts(f, e) \in Tuples(Answers) /\ OfParts(f, e) \in [DOMAIN f.kids -> Answers]
    BY OfPartsIs
  <2>2. Evaluate(f, OfParts(f, e)) \in Answers
    BY <2>1, EvaluateType
  <2> QED BY <1>3, <1>4, <2>1, <2>2
<1>6. outcomes(e)
  BY <1>4, <1>5
<1>7. Outcomes = CHOOSE o : outcomes(o)
  BY Zenon DEF Outcomes, OfParts
<1>8. outcomes(Outcomes)
  <2> HIDE DEF outcomes
  <2> QED BY <1>6, <1>7
<1>9. \A f \in Filters : Outcomes[f] = Evaluate(f, OfParts(f, Outcomes))
  BY <1>8, Zenon
<1> DEFINE T == {f \in Filters : Outcomes[f] \in Answers}
<1>10. ASSUME NEW f \in Filters, \A i \in DOMAIN f.kids : f.kids[i] \in T PROVE f \in T
  <2>1. \A i \in DOMAIN f.kids : Outcomes[f.kids[i]] \in Answers
    BY <1>10
  <2>2. OfParts(f, Outcomes) \in [DOMAIN f.kids -> Answers]
    BY <2>1, Zenon DEF OfParts
  <2>3. Evaluate(f, OfParts(f, Outcomes)) \in Answers
    BY <2>2, EvaluateType
  <2> QED BY <1>9, <2>3
<1> HIDE DEF T
<1>11. Filters \subseteq T
  BY <1>10, FilterInduction
<1>12. \A f \in Filters : Outcomes[f] \in Answers
  BY <1>11 DEF T
<1>13. Outcomes = [f \in Filters |-> Outcomes[f]]
  BY <1>8, Zenon
<1> QED BY <1>9, <1>12, <1>13, Zenon

LEMMA AcceptsIs ==
  /\ Accepts \in [Filters -> SUBSET Pids]
  /\ \A f \in Filters : Accepts[f] = Accept(f, OfParts(f, Accepts))
<1> DEFINE W == SUBSET Pids
           step == [fe \in Filters \X Tuples(W) |-> Accept(fe[1], fe[2])]
           accepts(a) == a = [f \in Filters |-> Accept(f, OfParts(f, a))]
<1>1. ASSUME NEW f \in Filters, NEW meant PROVE Accept(f, meant) \in W
  <2>1. CASE f.op \in {"and", "or", "not"}
    BY <2>1 DEF Accept
  <2>2. CASE f.op \in Reading
    BY <2>2 DEF Accept, Reading
  <2>3. CASE f.op \in Knowing
    BY <2>3 DEF Accept, Reading, Knowing
  <2> QED BY <2>1, <2>2, <2>3, OpIs
<1>2. step \in [Filters \X Tuples(W) -> W] /\ {} \in W
  BY <1>1
<1>3. \A f \in Filters, meant \in Tuples(W) : step[<<f, meant>>] = Accept(f, meant)
  OBVIOUS
<1> HIDE DEF step, W
<1>4. PICK e \in [Filters -> W] : \A f \in Filters : e[f] = step[<<f, OfParts(f, e)>>]
  BY <1>2, FilterRecursion
<1>5. ASSUME NEW f \in Filters PROVE e[f] = Accept(f, OfParts(f, e))
  <2>1. OfParts(f, e) \in Tuples(W)
    BY OfPartsIs
  <2> QED BY <1>3, <1>4, <2>1
<1>6. accepts(e)
  BY <1>4, <1>5
<1>7. Accepts = CHOOSE a : accepts(a)
  BY Zenon DEF Accepts, OfParts
<1>8. accepts(Accepts)
  <2> HIDE DEF accepts
  <2> QED BY <1>6, <1>7
<1>9. \A f \in Filters : Accepts[f] = Accept(f, OfParts(f, Accepts))
  BY <1>8, Zenon
<1>10. Accepts = [f \in Filters |-> Accepts[f]]
  BY <1>8, Zenon
<1>11. \A f \in Filters : Accepts[f] \in W
  BY <1>1, <1>9, Zenon
<1> QED BY <1>9, <1>10, <1>11, Zenon DEF W

\* What a filter accepts, from what its parts accept
Accepted(f, q, meant) ==
  /\ f.op = "and" => (q \in Accept(f, meant) <=> \A i \in DOMAIN meant : q \in meant[i])
  /\ f.op = "or" => (q \in Accept(f, meant) <=> \E i \in DOMAIN meant : q \in meant[i])
  /\ f.op = "not" => (q \in Accept(f, meant) <=> ~(q \in meant[1]))
  /\ f.op \in Reading => (q \in Accept(f, meant) <=> Says(f, q))
  /\ f.op \in Knowing => (q \in Accept(f, meant) <=> Knows(f, q))

LEMMA AcceptIs ==
  ASSUME NEW f \in Filters, NEW q \in Pids, NEW meant
  PROVE  Accepted(f, q, meant)
<1>1. ASSUME f.op = "and" PROVE Accept(f, meant) = {p \in Pids : \A i \in DOMAIN meant : p \in meant[i]}
  BY <1>1 DEF Accept, Reading, Knowing
<1>2. ASSUME f.op = "or" PROVE Accept(f, meant) = {p \in Pids : \E i \in DOMAIN meant : p \in meant[i]}
  BY <1>2 DEF Accept, Reading, Knowing
<1>3. ASSUME f.op = "not" PROVE Accept(f, meant) = Pids \ meant[1]
  BY <1>3 DEF Accept, Reading, Knowing
<1>4. ASSUME f.op \in Reading PROVE Accept(f, meant) = {p \in Pids : Says(f, p)}
  BY <1>4 DEF Accept, Reading, Knowing
<1>5. ASSUME f.op \in Knowing PROVE Accept(f, meant) = {p \in Pids : Knows(f, p)}
  BY <1>5 DEF Accept, Reading, Knowing
<1> QED BY <1>1, <1>2, <1>3, <1>4, <1>5, Zenon DEF Accepted

\* The answer of a leaf that reads /proc is one while the process lives
LEMMA AliveReads ==
  ASSUME NEW f \in Filters, f.op \in Reading, NEW q \in Pids
  PROVE  Reads(f, q, "alive") = {Says(f, q)}
BY DEF Reads

\* Whatever a filter is made of and whenever the process changes or exits, eval
\* gives the answer that is meant to a process that lives unchanged to the end
\* of the evaluation, and such a process was so at its beginning.
MeantBy(f, q) == [i \in 1 .. Len(f.kids) |-> q \in Accepts[f.kids[i]]]

LEMMA MeantByIs ==
  ASSUME NEW f \in Filters, NEW q \in Pids
  PROVE  /\ MeantBy(f, q) \in [1 .. Len(f.kids) -> BOOLEAN]
         /\ \A i \in 1 .. Len(f.kids) : MeantBy(f, q)[i] <=> q \in Accepts[f.kids[i]]
         /\ f.op = "and" => (q \in Accepts[f] <=> \A i \in 1 .. Len(f.kids) : MeantBy(f, q)[i])
         /\ f.op = "or" => (q \in Accepts[f] <=> \E i \in 1 .. Len(f.kids) : MeantBy(f, q)[i])
         /\ f.op = "not" => (q \in Accepts[f] <=> ~MeantBy(f, q)[1])
<1>1. \A i \in 1 .. Len(f.kids) : MeantBy(f, q)[i] = (q \in Accepts[f.kids[i]])
  BY Zenon DEF MeantBy
<1>2. \A i \in 1 .. Len(f.kids) : (q \in Accepts[f.kids[i]]) \in BOOLEAN
  OBVIOUS
<1>3. MeantBy(f, q) \in [1 .. Len(f.kids) -> BOOLEAN]
  BY <1>2, Zenon DEF MeantBy
<1>4. /\ DOMAIN f.kids = 1 .. Len(f.kids) /\ (f.op = "not" => 1 \in 1 .. Len(f.kids))
  BY Parts
<1>5. DOMAIN OfParts(f, Accepts) = 1 .. Len(f.kids)
      /\ \A i \in 1 .. Len(f.kids) : OfParts(f, Accepts)[i] = Accepts[f.kids[i]]
  BY <1>4, Zenon DEF OfParts
<1>6. Accepts[f] = Accept(f, OfParts(f, Accepts))
  BY AcceptsIs
<1>7. \A i \in 1 .. Len(f.kids) : MeantBy(f, q)[i] <=> q \in OfParts(f, Accepts)[i]
  BY <1>1, <1>5, Zenon
<1>a. Accepted(f, q, OfParts(f, Accepts))
  BY AcceptIs
<1>8. f.op = "and" => (q \in Accepts[f] <=> \A i \in 1 .. Len(f.kids) : MeantBy(f, q)[i])
  <2>1. f.op = "and" => (q \in Accepts[f] <=> \A i \in 1 .. Len(f.kids) : q \in OfParts(f, Accepts)[i])
    BY <1>5, <1>6, <1>a, Zenon DEF Accepted
  <2> QED BY <1>7, <2>1, Zenon
<1>9. f.op = "or" => (q \in Accepts[f] <=> \E i \in 1 .. Len(f.kids) : MeantBy(f, q)[i])
  <2>1. f.op = "or" => (q \in Accepts[f] <=> \E i \in 1 .. Len(f.kids) : q \in OfParts(f, Accepts)[i])
    BY <1>5, <1>6, <1>a, Zenon DEF Accepted
  <2> QED BY <1>7, <2>1, Zenon
<1>10. f.op = "not" => (q \in Accepts[f] <=> ~MeantBy(f, q)[1])
  BY <1>4, <1>6, <1>7, <1>a, Zenon DEF Accepted
<1> QED BY <1>1, <1>3, <1>8, <1>9, <1>10, Zenon

\* What Truthful says of one outcome
TrueOf(o, l, answer) == o[2] = "alive" => l = "alive" /\ (o[1] <=> answer)

LEMMA OperatorTruthful ==
  ASSUME NEW f \in Filters, NEW q \in Pids, NEW evals \in [DOMAIN f.kids -> Answers],
         \A i \in DOMAIN f.kids : Truthful(evals[i][q], q \in Accepts[f.kids[i]]),
         NEW l \in Lives, NEW o \in Evaluate(f, evals)[q][l], f.op \in {"and", "or"}
  PROVE  TrueOf(o, l, q \in Accepts[f])
<1>1. PICK n \in Nat : n = Len(f.kids)
  BY Parts
<1>2. PICK children \in [1 .. n -> [Lives -> SUBSET (BOOLEAN \X Lives)]] : children = OfChildren(f, evals, q)
  BY <1>1, EvaluateIs
<1>3. PICK meant \in [1 .. n -> BOOLEAN] : meant = MeantBy(f, q)
  BY <1>1, MeantByIs
<1>4. DOMAIN f.kids = 1 .. n
  BY <1>1, Parts
<1>5. AllTruthful(children, meant, n)
  <2>1. ASSUME NEW i \in 1 .. n PROVE Truthful(children[i], meant[i])
    <3>1. children[i] = evals[i][q]
      BY <1>1, <1>2, Zenon DEF OfChildren
    <3>2. meant[i] = (q \in Accepts[f.kids[i]])
      BY <1>1, <1>3, Zenon DEF MeantBy
    <3> QED BY <1>4, <3>1, <3>2, Zenon
  <2> QED BY <2>1, Zenon DEF AllTruthful
<1>6. Evaluated(f, evals, q, l)
  BY EvaluateIs
<1>7. PICK stop \in BOOLEAN : stop = (f.op = "or")
  BY Zenon
<1>8. o \in Until(children, stop, l)
  <2>1. CASE f.op = "and"
    <3>1. stop = FALSE
      BY <1>7, <2>1
    <3> QED BY <1>2, <1>6, <2>1, <3>1, Zenon DEF Evaluated
  <2>2. CASE f.op = "or"
    <3>1. stop = TRUE
      BY <1>7, <2>2
    <3> QED BY <1>2, <1>6, <2>2, <3>1, Zenon DEF Evaluated
  <2> QED BY <2>1, <2>2
<1>9. o[1] \in BOOLEAN
  <2>1. Evaluate(f, evals) \in Answers
    BY EvaluateType
  <2>2. Evaluate(f, evals)[q][l] \subseteq BOOLEAN \X Lives
    BY <2>1 DEF Answers
  <2> QED BY <2>2
<1>10. o[2] = "alive" => l = "alive" /\ (o[1] = stop <=> \E i \in 1 .. n : meant[i] = stop)
  <2>1. ASSUME o[2] = "alive" PROVE l = "alive" /\ Decided(o[1], stop, meant, n)
    BY <1>5, <1>8, <2>1, UntilTruthful
  <2> QED BY <2>1, Zenon DEF Decided
<1>11. f.op = "and" => (q \in Accepts[f] <=> \A i \in 1 .. n : meant[i])
  BY <1>1, <1>3, MeantByIs, Zenon
<1>12. f.op = "or" => (q \in Accepts[f] <=> \E i \in 1 .. n : meant[i])
  BY <1>1, <1>3, MeantByIs, Zenon
<1>13. CASE f.op = "and"
  <2>1. stop = FALSE
    BY <1>7, <1>13
  <2>2. (\E i \in 1 .. n : meant[i] = FALSE) <=> ~(q \in Accepts[f])
    BY <1>11, <1>13
  <2>3. o[1] = FALSE <=> ~o[1]
    BY <1>9
  <2> QED BY <1>10, <2>1, <2>2, <2>3, Zenon DEF TrueOf
<1>14. CASE f.op = "or"
  <2>1. stop = TRUE
    BY <1>7, <1>14
  <2>2. (\E i \in 1 .. n : meant[i] = TRUE) <=> q \in Accepts[f]
    BY <1>12, <1>14
  <2>3. o[1] = TRUE <=> o[1]
    BY <1>9
  <2> QED BY <1>10, <2>1, <2>2, <2>3, Zenon DEF TrueOf
<1> QED BY <1>13, <1>14

LEMMA NotTruthful ==
  ASSUME NEW f \in Filters, NEW q \in Pids, NEW evals \in [DOMAIN f.kids -> Answers],
         \A i \in DOMAIN f.kids : Truthful(evals[i][q], q \in Accepts[f.kids[i]]),
         NEW l \in Lives, NEW o \in Evaluate(f, evals)[q][l], f.op = "not"
  PROVE  TrueOf(o, l, q \in Accepts[f])
<1>1. Evaluated(f, evals, q, l)
  BY EvaluateIs
<1>2. o \in {<<~a[1], a[2]>> : a \in evals[1][q][l]}
  BY <1>1, Zenon DEF Evaluated
<1>3. PICK a \in evals[1][q][l] : o = <<~a[1], a[2]>>
  BY <1>2
<1>4. 1 \in 1 .. Len(f.kids) /\ 1 \in DOMAIN f.kids
  BY Parts
<1>5. Truthful(evals[1][q], q \in Accepts[f.kids[1]])
  BY <1>4, Zenon
<1>6. o[2] = a[2] /\ (o[1] <=> ~a[1])
  BY <1>3
<1>7. a[2] = "alive" => l = "alive" /\ (a[1] <=> q \in Accepts[f.kids[1]])
  BY <1>5, Zenon DEF Truthful
<1>8. q \in Accepts[f] <=> ~(q \in Accepts[f.kids[1]])
  BY <1>4, MeantByIs, Zenon
<1> QED BY <1>6, <1>7, <1>8, Zenon DEF TrueOf

LEMMA LeafTruthful ==
  ASSUME NEW f \in Filters, NEW q \in Pids, NEW evals \in [DOMAIN f.kids -> Answers],
         NEW l \in Lives, NEW o \in Evaluate(f, evals)[q][l], f.op \in Reading \/ f.op \in Knowing
  PROVE  TrueOf(o, l, q \in Accepts[f])
<1>1. Evaluated(f, evals, q, l)
  BY EvaluateIs
<1>2. Accepts[f] = Accept(f, OfParts(f, Accepts))
  BY AcceptsIs
<1>5. Accepted(f, q, OfParts(f, Accepts))
  BY AcceptIs
<1>3. CASE f.op \in Reading
  <2>1. o \in UNION {Reads(f, q, k) \X {k} : k \in Later(l)}
    BY <1>1, <1>3, Zenon DEF Evaluated
  <2>2. PICK k \in Later(l) : o \in Reads(f, q, k) \X {k}
    BY <2>1
  <2>3. o[1] \in Reads(f, q, k) /\ o[2] = k
    BY <2>2
  <2>4. k = "alive" => l = "alive"
    BY LeafType
  <2>5. q \in Accepts[f] <=> Says(f, q)
    BY <1>2, <1>3, <1>5, Zenon DEF Accepted
  <2>6. Reads(f, q, "alive") = {Says(f, q)}
    BY <1>3, AliveReads
  <2>7. k = "alive" => o[1] = Says(f, q)
    BY <2>3, <2>6, Zenon
  <2> QED BY <2>3, <2>4, <2>5, <2>7, Zenon DEF TrueOf
<1>4. CASE f.op \in Knowing
  <2>1. o \in {<<Knows(f, q), l>>}
    BY <1>1, <1>4, Zenon DEF Evaluated
  <2>2. o[1] = Knows(f, q) /\ o[2] = l
    BY <2>1
  <2>3. q \in Accepts[f] <=> Knows(f, q)
    BY <1>2, <1>4, <1>5, Zenon DEF Accepted
  <2> QED BY <2>2, <2>3, Zenon DEF TrueOf
<1> QED BY <1>3, <1>4

LEMMA EvalTruthful ==
  ASSUME NEW filter \in Filters, NEW q \in Pids
  PROVE  Truthful(Outcomes[filter][q], q \in Accepts[filter])
<1> DEFINE T == {f \in Filters : Truthful(Outcomes[f][q], q \in Accepts[f])}
<1>1. ASSUME NEW f \in Filters, \A i \in DOMAIN f.kids : f.kids[i] \in T PROVE f \in T
  <2> DEFINE evals == OfParts(f, Outcomes)
  <2>1. evals \in [DOMAIN f.kids -> Answers] /\ \A i \in DOMAIN f.kids : evals[i] = Outcomes[f.kids[i]]
    BY OutcomesIs, OfPartsIs DEF OfParts
  <2>2. \A i \in DOMAIN f.kids : Truthful(Outcomes[f.kids[i]][q], q \in Accepts[f.kids[i]])
    BY <1>1
  <2>3. Outcomes[f] = Evaluate(f, evals)
    BY OutcomesIs
  <2> HIDE DEF evals
  <2>4. \A i \in DOMAIN f.kids : Truthful(evals[i][q], q \in Accepts[f.kids[i]])
    BY <2>1, <2>2, Zenon
  <2>5. ASSUME NEW l \in Lives, NEW o \in Evaluate(f, evals)[q][l] PROVE TrueOf(o, l, q \in Accepts[f])
    <3>1. f.op \in {"and", "or"} \/ f.op = "not" \/ f.op \in Reading \/ f.op \in Knowing
      BY OpIs
    <3>2. CASE f.op \in {"and", "or"}
      BY <2>1, <2>4, <3>2, OperatorTruthful, Zenon
    <3>3. CASE f.op = "not"
      BY <2>1, <2>4, <3>3, NotTruthful, Zenon
    <3>4. CASE f.op \in Reading \/ f.op \in Knowing
      BY <2>1, <3>4, LeafTruthful, Zenon
    <3> QED BY <3>1, <3>2, <3>3, <3>4
  <2>6. Truthful(Outcomes[f][q], q \in Accepts[f])
    BY <2>3, <2>5, Zenon DEF Truthful, TrueOf
  <2> QED BY <2>6, Zenon
<1> HIDE DEF T
<1>2. Filters \subseteq T
  BY <1>1, FilterInduction
<1>3. filter \in T
  BY <1>2
<1> QED BY <1>3, Zenon DEF T

\* One evaluation: what it says, and what the process is afterwards
LEMMA EvalStep ==
  ASSUME filters \in Seq(Named), life \in [Pids -> Lives], NEW p \in Pids, Eval(p)
  PROVE  \E answer \in BOOLEAN, l \in Lives :
           /\ life' = [life EXCEPT ![p] = l]
           /\ IF answer THEN taken' = taken \cup {p} /\ processes' = processes \ {p}
                        ELSE UNCHANGED <<taken, processes>>
           /\ l = "alive" => life[p] = "alive" /\ (answer <=> p \in Accepts[Head(filters).filter])
<1>1. Head(filters).filter \in Filters /\ life[p] \in Lives
  <2>1. filters # <<>>
    BY DEF Eval
  <2>2. Head(filters) \in Named
    BY <2>1
  <2> QED BY <2>2 DEF Named
<1>2. PICK f \in Filters : f = Head(filters).filter
  BY <1>1
<1>3. PICK o \in Outcomes[f][p][life[p]] :
        /\ life' = [life EXCEPT ![p] = o[2]]
        /\ IF o[1] THEN taken' = taken \cup {p} /\ processes' = processes \ {p}
                   ELSE UNCHANGED <<taken, processes>>
  BY <1>2, Zenon DEF Eval
<1>4. Outcomes[f][p][life[p]] \subseteq BOOLEAN \X Lives
  BY <1>1, OutcomesIs DEF Answers
<1>5. o[1] \in BOOLEAN /\ o[2] \in Lives
  BY <1>4
<1>6. Truthful(Outcomes[f][p], p \in Accepts[f])
  BY EvalTruthful
<1>7. o[2] = "alive" => life[p] = "alive" /\ (o[1] <=> p \in Accepts[f])
  BY <1>1, <1>6, Zenon DEF Truthful
<1> QED BY <1>2, <1>3, <1>5, <1>7, Zenon

-----------------------------------------------------------------------------
LEMMA InitInv == Init /\ DistinctFilters => Inv
<1> SUFFICES ASSUME Init, DistinctFilters PROVE Inv
  OBVIOUS
<1>1. Covered /\ Disjoint /\ Phases
  BY DEF Init, Covered, Disjoint, Phases, Procs
<1>0. /\ cli \in CommandLines /\ info \in [Pids -> Infos]
      /\ cli \in {s.cli : s \in Scans}
  BY GroupsAssumption DEF Init
<1>2. cli.custom \in Seq(Texts)
  BY <1>0 DEF CommandLines
<1>3. custom = [i \in 1 .. Len(cli.custom) |-> cli.custom[(Len(cli.custom) - i) + 1]]
  BY DEF Init, Reverse
<1>4. /\ Len(cli.custom) \in Nat /\ DOMAIN cli.custom = 1 .. Len(cli.custom)
      /\ \A i \in 1 .. Len(cli.custom) :
           /\ (Len(cli.custom) - i) + 1 \in DOMAIN cli.custom
           /\ cli.custom[i] \in Texts
  BY <1>2
<1>5. custom \in Seq(Texts) /\ DOMAIN custom = 1 .. Len(cli.custom)
  BY <1>3, <1>4
<1>6. CustomOK
  <2>1. \A n \in DOMAIN cli.custom : Distinct(cli.custom[n])
    BY DEF DistinctFilters
  <2>2. ASSUME NEW n \in DOMAIN custom PROVE Distinct(custom[n])
    <3>1. PICK m \in DOMAIN cli.custom : custom[n] = cli.custom[m]
      BY <1>3, <1>4, <1>5
    <3> QED BY <2>1, <3>1
  <2> QED BY <1>5, <2>2 DEF CustomOK
<1>7. MiscOK
  BY <1>0 DEF Init, MiscOK, Lives
<1> QED BY <1>1, <1>6, <1>7 DEF Inv

\* The splitters by key put every process of the list into the group of its key.
LEMMA ByKeyInv ==
  ASSUME Inv, phase = "idle", stage \notin {"end", "panic"}, NEW key, NEW name, SplitByKey(key, name)
  PROVE  Inv'
<1>1. /\ groups' = [k \in {key[p] : p \in processes} |->
                      [name |-> name[k], procs |-> {p \in processes : key[p] = k}]]
      /\ processes' = {} /\ phase' = "show"
      /\ UNCHANGED <<cli, info, life, stage, custom, filters, todo, taken>>
  BY DEF SplitByKey
<1>2. /\ DOMAIN groups' = {key[p] : p \in processes}
      /\ \A k \in DOMAIN groups' : Procs(k)' = {p \in processes : key[p] = k}
  BY <1>1 DEF Procs
<1>3. processes = Pids /\ taken = {} /\ filters = <<>> /\ todo = {}
  BY DEF Inv, Covered, Disjoint, Phases
<1>4. Covered'
  BY <1>2, <1>3 DEF Covered
<1>5. Disjoint'
  BY <1>1, <1>2, <1>3 DEF Disjoint
<1>6. Phases' /\ CustomOK' /\ MiscOK'
  <2>1. Phases'
    BY <1>1, <1>3 DEF Phases
  <2> QED BY <1>1, <1>3, <2>1 DEF Inv, CustomOK, MiscOK
<1> QED BY <1>4, <1>5, <1>6 DEF Inv

\* A custom splitter starts with the whole list and no group.
LEMMA StartInv ==
  ASSUME Inv, phase = "idle", stage \notin {"end", "panic"}, NEW fs \in Seq(Named), StartFilters(fs),
         \A i, j \in DOMAIN fs : fs[i].name = fs[j].name => i = j, CustomOK'
  PROVE  Inv'
<1>1. /\ phase' = "split" /\ filters' = fs /\ todo' = processes /\ taken' = {}
      /\ DOMAIN groups' = {} /\ UNCHANGED <<cli, info, life, stage, processes>>
  BY DEF StartFilters
<1>2. Covered' /\ Disjoint'
  BY <1>1 DEF Inv, Covered, Disjoint, Phases
<1>3. Phases'
  BY <1>1 DEF Phases, Fresh
<1>4. MiscOK'
  BY <1>1 DEF Inv, MiscOK
<1> QED BY <1>2, <1>3, <1>4 DEF Inv

LEMMA EvalInv ==
  ASSUME Inv, NEW p \in Pids, Eval(p)
  PROVE  Inv'
<1>1. /\ phase = "split" /\ phase' = "split" /\ filters # <<>> /\ p \in todo
      /\ todo' = todo \ {p} /\ UNCHANGED <<cli, info, stage, custom, filters, groups>>
      /\ \/ taken' = taken \cup {p} /\ processes' = processes \ {p}
         \/ UNCHANGED <<taken, processes>>
  BY DEF Eval
<1>2. p \in processes
  BY <1>1 DEF Inv, MiscOK
<1>3. Covered'
  BY <1>1 DEF Inv, Covered, Procs
<1>4. Disjoint'
  BY <1>1, <1>2 DEF Inv, Disjoint, Procs
<1>5. Phases' /\ CustomOK'
  BY <1>1 DEF Inv, Phases, Fresh, CustomOK
<1>6. life' \in [Pids -> Lives]
  <2>1. filters \in Seq(Named) /\ life \in [Pids -> Lives]
    BY <1>1 DEF Inv, Phases, Fresh, MiscOK
  <2>2. PICK l \in Lives : life' = [life EXCEPT ![p] = l]
    BY <2>1, EvalStep
  <2> QED BY <2>1, <2>2
<1>7. MiscOK'
  BY <1>1, <1>6 DEF Inv, MiscOK
<1> QED BY <1>3, <1>4, <1>5, <1>7 DEF Inv

\* Inserting under a new key keeps the groups that are there.
LEMMA InsertGroup ==
  ASSUME NEW key, key \notin DOMAIN groups, NEW procs,
         groups' = Insert(key, [name |-> key, procs |-> procs])
  PROVE  /\ DOMAIN groups' = DOMAIN groups \cup {key}
         /\ Procs(key)' = procs
         /\ \A k \in DOMAIN groups : Procs(k)' = Procs(k)
BY DEF Insert, Procs

LEMMA CloseGroupInv ==
  ASSUME Inv, CloseGroup
  PROVE  Inv'
<1>f. PICK f : f = Head(filters).name
  OBVIOUS
<1>t. PICK t : t = taken
  OBVIOUS
<1>1. /\ phase = "split" /\ phase' = "split" /\ filters # <<>>
      /\ groups' = Insert(f, [name |-> f, procs |-> t])
      /\ filters' = Tail(filters) /\ todo' = processes /\ taken' = {}
      /\ UNCHANGED <<cli, info, life, stage, custom, processes>>
  BY <1>f, <1>t DEF CloseGroup
<1>2. Fresh
  BY <1>1 DEF Inv, Phases
<1>3. /\ f = filters[1].name /\ f \in Names /\ f \notin DOMAIN groups
      /\ Tail(filters) \in Seq(Named)
      /\ DOMAIN Tail(filters) = 1 .. Len(filters) - 1
      /\ \A i \in DOMAIN Tail(filters) : /\ Tail(filters)[i] = filters[i + 1]
                                         /\ i + 1 \in DOMAIN filters /\ i + 1 # 1
  <2>1. filters \in Seq(Named) /\ filters # <<>>
    BY <1>1, <1>2 DEF Fresh
  <2>2. filters[1] \in Named /\ Head(filters) = filters[1] /\ 1 \in DOMAIN filters
    BY <2>1
  <2>3. f = filters[1].name /\ f \in Names
    BY <2>2, <1>f DEF Named
  <2>4. f \notin DOMAIN groups
    BY <2>2, <2>3, <1>2 DEF Fresh
  <2>5. /\ Tail(filters) \in Seq(Named)
        /\ DOMAIN Tail(filters) = 1 .. Len(filters) - 1
        /\ \A i \in DOMAIN Tail(filters) : /\ Tail(filters)[i] = filters[i + 1]
                                           /\ i + 1 \in DOMAIN filters /\ i + 1 # 1
    BY <2>1
  <2> QED BY <2>3, <2>4, <2>5
<1>4. /\ DOMAIN groups' = DOMAIN groups \cup {f}
      /\ Procs(f)' = t
      /\ \A k \in DOMAIN groups : Procs(k)' = Procs(k)
  BY <1>1, <1>3, InsertGroup
<1>5. Covered'
  <2> SUFFICES ASSUME NEW p \in Pids, p \notin processes
               PROVE  \E k \in DOMAIN groups' : p \in Procs(k)'
    BY <1>1 DEF Covered
  <2>1. p \in t \/ \E k \in DOMAIN groups : p \in Procs(k)
    BY <1>t DEF Inv, Covered
  <2> QED BY <1>4, <2>1
<1>6. Disjoint'
  BY <1>1, <1>3, <1>4, <1>t DEF Inv, Disjoint
<1>7. Fresh'
  <2>1. \A i \in DOMAIN Tail(filters) : Tail(filters)[i].name # f
    BY <1>1, <1>2, <1>3 DEF Fresh
  <2>2. \A i, j \in DOMAIN Tail(filters) : Tail(filters)[i].name = Tail(filters)[j].name => i = j
    BY <1>2, <1>3 DEF Fresh
  <2>3. Other # f
    BY <1>3, GroupsAssumption
  <2> QED BY <1>1, <1>2, <1>3, <1>4, <2>1, <2>2, <2>3 DEF Fresh
<1>8. Phases' /\ CustomOK' /\ MiscOK'
  BY <1>1, <1>7 DEF Inv, Phases, CustomOK, MiscOK
<1> QED BY <1>5, <1>6, <1>8 DEF Inv

LEMMA CloseOtherInv ==
  ASSUME Inv, CloseOther
  PROVE  Inv'
<1>r. PICK r : r = processes
  OBVIOUS
<1>1. /\ phase = "split" /\ phase' = "show" /\ filters = <<>> /\ taken = {}
      /\ groups' = Insert(Other, [name |-> Other, procs |-> r])
      /\ processes' = {} /\ todo' = {}
      /\ UNCHANGED <<cli, info, life, stage, custom, filters, taken>>
  BY <1>r DEF CloseOther, Inv, Phases
<1>2. /\ DOMAIN groups' = DOMAIN groups \cup {Other}
      /\ Procs(Other)' = r /\ Other \notin DOMAIN groups
      /\ \A k \in DOMAIN groups : Procs(k)' = Procs(k)
  BY <1>1, InsertGroup DEF Inv, Phases, Fresh
<1>3. Covered'
  BY <1>1, <1>2, <1>r DEF Inv, Covered
<1>4. Disjoint'
  BY <1>1, <1>2, <1>r DEF Inv, Disjoint
<1>5. Phases' /\ CustomOK' /\ MiscOK'
  BY <1>1 DEF Inv, Phases, CustomOK, MiscOK
<1> QED BY <1>3, <1>4, <1>5 DEF Inv

LEMMA CollectInv ==
  ASSUME Inv, ShowAndCollect
  PROVE  Inv'
<1>1. /\ phase = "show" /\ phase' = "idle" /\ processes = {} /\ taken = {} /\ filters = <<>>
      /\ processes' = UNION {Procs(k) : k \in DOMAIN groups}
      /\ DOMAIN groups' = {} /\ stage' = Following[stage]
      /\ UNCHANGED <<cli, info, life, custom, filters, todo, taken>>
  BY DEF ShowAndCollect, Inv, Phases, Procs
<1>2. processes' = Pids
  BY <1>1 DEF Inv, Covered, Disjoint
<1>3. Covered' /\ Disjoint'
  BY <1>1, <1>2 DEF Covered, Disjoint
<1>4. Phases' /\ CustomOK'
  BY <1>1 DEF Inv, Phases, CustomOK
<1>5. MiscOK'
  <2>1. stage' \in {"uid", "env", "pids", "custom", "end", "panic"}
    <3>1. stage \in {"uid", "env", "pids", "custom"}
      BY <1>1 DEF Inv, MiscOK
    <3>2. CASE stage = "uid"
      BY <1>1, <3>2 DEF Following
    <3>3. CASE stage = "env"
      BY <1>1, <3>3 DEF Following
    <3>4. CASE stage \in {"pids", "custom"}
      BY <1>1, <3>4 DEF Following
    <3> QED BY <3>1, <3>2, <3>3, <3>4
  <2>2. todo' \subseteq processes'
    BY <1>1 DEF Inv, MiscOK
  <2> QED BY <1>1, <2>1, <2>2 DEF Inv, MiscOK
<1> QED BY <1>3, <1>4, <1>5 DEF Inv

LEMMA PopInv ==
  ASSUME Inv, PopCustom \/ PopInvalid
  PROVE  Inv'
<1>1. stage = "custom" /\ phase = "idle" /\ custom # <<>> /\ custom' = Front(custom)
  BY DEF PopCustom, PopInvalid
<1>2. /\ custom \in Seq(Texts) /\ Len(custom) \in Nat \ {0}
      /\ DOMAIN custom = 1 .. Len(custom)
  BY <1>1 DEF Inv, CustomOK
<1>3. Last(custom) \in Texts /\ Distinct(Last(custom))
  BY <1>2 DEF Last, Inv, CustomOK
<1>5. /\ custom' \in Seq(Texts) /\ DOMAIN custom' \subseteq DOMAIN custom
      /\ \A n \in DOMAIN custom' : custom'[n] = custom[n]
  BY <1>1, <1>2 DEF Front
<1>6. CustomOK'
  BY <1>5 DEF Inv, CustomOK, Distinct
<1>7. CASE PopCustom
  <2>1. PICK fs : fs = New[Last(custom)]
    OBVIOUS
  <2>2. StartFilters(fs) /\ New[Last(custom)] # Invalid
    BY <1>7, <2>1 DEF PopCustom
  <2>3. fs \in Seq(Named) /\ \A i, j \in DOMAIN fs : fs[i].name = fs[j].name => i = j
    BY <1>3, <2>1, <2>2, NewType DEF Distinct
  <2> QED BY <1>1, <1>6, <2>2, <2>3, StartInv
<1>8. CASE PopInvalid
  <2>1. UNCHANGED <<cli, info, life, phase, processes, filters, todo, taken, groups>> /\ stage' = "panic"
    BY <1>8 DEF PopInvalid
  <2>2. Covered' /\ Disjoint'
    BY <2>1 DEF Inv, Covered, Disjoint, Procs
  <2>3. Phases' /\ MiscOK'
    BY <1>1, <2>1 DEF Inv, Phases, Fresh, MiscOK
  <2> QED BY <1>6, <2>2, <2>3 DEF Inv
<1> QED BY <1>7, <1>8

LEMMA PidsInv ==
  ASSUME Inv, DistinctFilters, SplitByPids
  PROVE  Inv'
<1>1. PICK fs : fs = New[cli.pids]
  OBVIOUS
<1>2. cli \in {s.cli : s \in Scans} => cli.pids \in Texts /\ New[cli.pids] # Invalid
  BY GroupsAssumption DEF SplitByPids
<1>3. fs \in Seq(Named) /\ \A i, j \in DOMAIN fs : fs[i].name = fs[j].name => i = j
  BY <1>1, <1>2, NewType DEF Inv, MiscOK, DistinctFilters, Distinct, SplitByPids
<1>4. CustomOK'
  BY DEF SplitByPids, Inv, CustomOK
<1>5. stage \notin {"end", "panic"} /\ phase = "idle" /\ StartFilters(fs)
  BY <1>1 DEF SplitByPids
<1> QED BY <1>3, <1>4, <1>5, StartInv

\* The steps that move no process
LEMMA QuietInv ==
  ASSUME Inv, \/ Skip \/ Finalize \/ (\E p \in Pids : Become(p)) \/ UNCHANGED vars
  PROVE  Inv'
<1>1. UNCHANGED <<cli, info, phase, custom, processes, filters, todo, taken, groups>>
  BY DEF Skip, Finalize, Become, Later, vars
<1>2. Covered' /\ Disjoint' /\ CustomOK'
  BY <1>1 DEF Inv, Covered, Disjoint, CustomOK, Procs, Distinct
<1>3. Phases'
  BY <1>1 DEF Inv, Phases, Fresh
<1>4. life' \in [Pids -> Lives]
  BY DEF Inv, MiscOK, Skip, Finalize, Become, Later, vars, Lives
<1>5. /\ stage' \in {"uid", "env", "pids", "custom", "end", "panic"}
      /\ stage' \in {"end", "panic"} => phase = "idle"
  <2>1. CASE Skip
    BY <2>1 DEF Skip, Following
  <2>2. CASE ~Skip
    BY <2>2 DEF Inv, MiscOK, Finalize, Become, Later, vars
  <2> QED BY <2>1, <2>2
<1> QED BY <1>1, <1>2, <1>3, <1>4, <1>5 DEF Inv, MiscOK

LEMMA NextInv == Inv /\ DistinctFilters /\ [Next]_vars => Inv' /\ DistinctFilters'
<1> SUFFICES ASSUME Inv, DistinctFilters, [Next]_vars PROVE Inv' /\ DistinctFilters'
  OBVIOUS
<1>0. cli' = cli
  BY DEF Next, Main, SplitByUid, SplitByEnv, SplitByKey, SplitByPids, PopCustom, PopInvalid, StartFilters,
         Eval, CloseGroup, CloseOther, ShowAndCollect, Skip, Finalize, Become, Later, vars
<1>1. DistinctFilters'
  BY <1>0 DEF DistinctFilters, Distinct
<1> SUFFICES Inv'
  BY <1>1
<1>2. CASE SplitByUid
  <2>1. PICK key, name : SplitByKey(key, name)
    BY <1>2 DEF SplitByUid
  <2> QED BY <1>2, <2>1, ByKeyInv DEF SplitByUid
<1>3. CASE SplitByEnv
  <2>1. PICK key, name : SplitByKey(key, name)
    BY <1>3 DEF SplitByEnv
  <2> QED BY <1>3, <2>1, ByKeyInv DEF SplitByEnv
<1>4. CASE SplitByPids
  BY <1>4, PidsInv
<1>5. CASE PopCustom \/ PopInvalid
  BY <1>5, PopInv
<1>6. CASE \E p \in Pids : Eval(p)
  BY <1>6, EvalInv
<1>7. CASE CloseGroup
  BY <1>7, CloseGroupInv
<1>8. CASE CloseOther
  BY <1>8, CloseOtherInv
<1>9. CASE ShowAndCollect
  BY <1>9, CollectInv
<1>10. CASE Skip \/ Finalize \/ (\E p \in Pids : Become(p)) \/ UNCHANGED vars
  BY <1>10, QuietInv
<1> QED BY <1>2, <1>3, <1>4, <1>5, <1>6, <1>7, <1>8, <1>9, <1>10 DEF Next, Main

\* Command lines that name a filter twice in a list keep doing so.
LEMMA NotDistinctStep == ~DistinctFilters /\ [Next]_vars => ~DistinctFilters'
<1> SUFFICES ASSUME [Next]_vars PROVE DistinctFilters' => DistinctFilters
  OBVIOUS
<1>1. cli' = cli
  BY DEF Next, Main, SplitByUid, SplitByEnv, SplitByKey, SplitByPids, PopCustom, PopInvalid, StartFilters,
         Eval, CloseGroup, CloseOther, ShowAndCollect, Skip, Finalize, Become, Later, vars
<1> QED BY <1>1 DEF DistinctFilters, Distinct

LEMMA Kept == Spec => [](DistinctFilters => Inv)
<1>1. Init => (DistinctFilters => Inv)
  BY InitInv
<1>2. (DistinctFilters => Inv) /\ [Next]_vars => (DistinctFilters => Inv)'
  BY NextInv, NotDistinctStep
<1> QED BY <1>1, <1>2, PTL DEF Spec

-----------------------------------------------------------------------------

\* Every report is about all the processes that were scanned.
THEOREM DatasetIsKept == Spec => []DatasetKept
<1>1. (DistinctFilters => Inv) => DatasetKept
  BY DEF DatasetKept, SameDataset, Inv, Covered, Disjoint, Phases
<1> QED BY <1>1, Kept, PTL

\* In every report, the groups are a partition of the processes.
THEOREM GroupsPartition == Spec => []Partitioned
<1>1. (DistinctFilters => Inv) => Partitioned
  <2> SUFFICES ASSUME Inv, phase = "show", NEW p \in Pids
               PROVE  \E k \in DOMAIN groups :
                        /\ p \in groups[k].procs
                        /\ \A h \in DOMAIN groups \ {k} : p \notin groups[h].procs
    BY DEF Partitioned
  <2>1. PICK k \in DOMAIN groups : p \in Procs(k)
    BY DEF Inv, Covered, Phases
  <2>2. \A h \in DOMAIN groups \ {k} : p \notin Procs(h)
    BY <2>1 DEF Inv, Disjoint
  <2> QED BY <2>1, <2>2 DEF Procs
<1> QED BY <1>1, Kept, PTL

\* The USS of a group is the memory of its processes that no other process
\* of the data set references, as long as no other group has its name.
THEOREM UssIsExact == Spec => []UssExact
<1>1. (DistinctFilters => Inv) => UssExact
  <2> SUFFICES ASSUME Inv, phase = "show", NEW k \in DOMAIN groups,
                      \A h \in DOMAIN groups \ {k} : groups[h].name # groups[k].name
               PROVE  UssPages(k) = {f \in Pages(k) : \A p \in Pids \ groups[k].procs :
                                                        f \notin info[p].pfns}
    BY DEF UssExact
  <2>1. {h \in DOMAIN groups : groups[h].name # groups[k].name} = DOMAIN groups \ {k}
    OBVIOUS
  <2>2. ASSUME NEW f PROVE f \in OtherPages(k) <=> \E p \in Pids \ Procs(k) : f \in info[p].pfns
    <3>1. f \in OtherPages(k) <=> \E h \in DOMAIN groups \ {k} : \E p \in Procs(h) : f \in info[p].pfns
      BY <2>1 DEF OtherPages, Pages, Procs
    <3>2. \A p \in Pids : p \notin Procs(k) <=> \E h \in DOMAIN groups \ {k} : p \in Procs(h)
      BY DEF Inv, Covered, Disjoint, Phases
    <3>3. \A h \in DOMAIN groups : Procs(h) \subseteq Pids
      BY DEF Inv, Disjoint
    <3> QED BY <3>1, <3>2, <3>3
  <2> QED BY <2>2 DEF UssPages, Procs
<1> QED BY <1>1, Kept, PTL

-----------------------------------------------------------------------------
(* Types, for any lists of filters *)

TypeRest ==
  /\ cli \in {s.cli : s \in Scans}
  /\ stage \in {"end", "panic"} => phase = "idle"
  /\ phase # "split" => taken = {} /\ todo = {}
  /\ phase = "split" /\ filters = <<>> => taken = {}

TypeInv == TypeOK /\ TypeRest

LEMMA StartTypes ==
  ASSUME TypeInv, phase = "idle", stage \notin {"end", "panic"}, NEW fs \in Seq(Named), StartFilters(fs),
         custom' \in Seq(Texts)
  PROVE  TypeInv'
BY DEF TypeInv, TypeOK, TypeRest, StartFilters

LEMMA SplitTypes ==
  ASSUME TypeInv, \/ SplitByUid \/ SplitByEnv \/ SplitByPids \/ PopCustom \/ PopInvalid
  PROVE  TypeInv'
<1>1. ASSUME NEW key, NEW name, SplitByKey(key, name), phase = "idle", stage \notin {"end", "panic"}
      PROVE  TypeInv'
  <2>1. /\ groups' = [k \in {key[p] : p \in processes} |->
                        [name |-> name[k], procs |-> {p \in processes : key[p] = k}]]
        /\ processes' = {} /\ phase' = "show" /\ todo = {}
        /\ UNCHANGED <<cli, info, life, stage, custom, filters, todo, taken>>
    BY <1>1 DEF SplitByKey, TypeInv, TypeRest
  <2>2. \A k \in DOMAIN groups' : groups'[k].procs \subseteq Pids
    BY <2>1 DEF TypeInv, TypeOK
  <2> QED BY <1>1, <2>1, <2>2 DEF TypeInv, TypeOK, TypeRest
<1>2. CASE SplitByUid \/ SplitByEnv
  BY <1>1, <1>2 DEF SplitByUid, SplitByEnv
<1>3. CASE SplitByPids
  <2>1. cli \in {s.cli : s \in Scans} => cli.pids \in Texts /\ New[cli.pids] # Invalid
    BY <1>3, GroupsAssumption DEF SplitByPids
  <2>2. New[cli.pids] \in Seq(Named)
    BY <2>1, NewType DEF TypeInv, TypeRest
  <2> QED BY <1>3, <2>2, StartTypes DEF SplitByPids, TypeInv, TypeOK
<1>4. CASE PopCustom \/ PopInvalid
  <2>1. custom # <<>> /\ custom \in Seq(Texts) /\ custom' = Front(custom)
    BY <1>4 DEF PopCustom, PopInvalid, TypeInv, TypeOK
  <2>2. Last(custom) \in Texts /\ custom' \in Seq(Texts)
    BY <2>1 DEF Last, Front
  <2>3. CASE PopCustom
    <3>1. New[Last(custom)] \in Seq(Named)
      BY <2>2, <2>3, NewType DEF PopCustom
    <3> QED BY <2>2, <2>3, <3>1, StartTypes DEF PopCustom
  <2>4. CASE PopInvalid
    BY <2>2, <2>4 DEF PopInvalid, TypeInv, TypeOK, TypeRest
  <2> QED BY <1>4, <2>3, <2>4
<1> QED BY <1>2, <1>3, <1>4

LEMMA EvalTypes ==
  ASSUME TypeInv, NEW p \in Pids, Eval(p)
  PROVE  TypeInv'
<1>2. filters \in Seq(Named) /\ life \in [Pids -> Lives]
  BY DEF TypeInv, TypeOK
<1>3. PICK answer \in BOOLEAN, l \in Lives :
        /\ life' = [life EXCEPT ![p] = l]
        /\ IF answer THEN taken' = taken \cup {p} /\ processes' = processes \ {p}
                     ELSE UNCHANGED <<taken, processes>>
  BY <1>2, EvalStep
<1>4. life' \in [Pids -> Lives]
  BY <1>2, <1>3
<1>5. /\ phase = "split" /\ filters # <<>> /\ p \in todo /\ todo' = todo \ {p}
      /\ UNCHANGED <<cli, info, stage, phase, custom, filters, groups>>
  BY DEF Eval
<1> QED BY <1>3, <1>4, <1>5 DEF TypeInv, TypeOK, TypeRest

LEMMA CloseTypes ==
  ASSUME TypeInv, CloseGroup \/ CloseOther \/ ShowAndCollect
  PROVE  TypeInv'
<1>1. ASSUME NEW key, NEW procs, procs \subseteq Pids, groups' = Insert(key, [name |-> key, procs |-> procs])
      PROVE  \A k \in DOMAIN groups' : groups'[k].procs \subseteq Pids
  BY <1>1 DEF Insert, TypeInv, TypeOK
<1>2. CASE CloseGroup
  <2>1. \A k \in DOMAIN groups' : groups'[k].procs \subseteq Pids
    BY <1>1, <1>2 DEF CloseGroup, TypeInv, TypeOK
  <2>2. Tail(filters) \in Seq(Named)
    BY <1>2 DEF CloseGroup, TypeInv, TypeOK
  <2> QED BY <1>2, <2>1, <2>2 DEF CloseGroup, TypeInv, TypeOK, TypeRest
<1>3. CASE CloseOther
  <2>1. \A k \in DOMAIN groups' : groups'[k].procs \subseteq Pids
    BY <1>1, <1>3 DEF CloseOther, TypeInv, TypeOK
  <2> QED BY <1>3, <2>1 DEF CloseOther, TypeInv, TypeOK, TypeRest
<1>4. CASE ShowAndCollect
  <2>1. /\ processes' \subseteq Pids /\ DOMAIN groups' = {} /\ phase' = "idle" /\ phase = "show"
        /\ stage' = Following[stage]
        /\ UNCHANGED <<cli, info, life, custom, filters, todo, taken>>
    BY <1>4 DEF ShowAndCollect, TypeInv, TypeOK
  <2>2. stage \in {"uid", "env", "pids", "custom"}
    BY <2>1 DEF TypeInv, TypeOK, TypeRest
  <2>3. stage' \in {"env", "pids", "custom"}
    BY <2>1, <2>2 DEF Following
  <2> QED BY <2>1, <2>3 DEF TypeInv, TypeOK, TypeRest
<1> QED BY <1>2, <1>3, <1>4

LEMMA TypeInit == Init => TypeInv
<1> SUFFICES ASSUME Init PROVE TypeInv
  OBVIOUS
<1>1. PICK s \in Scans : cli = s.cli /\ info = s.info
  BY DEF Init
<1>2. cli \in CommandLines /\ info \in [Pids -> Infos]
  BY <1>1, GroupsAssumption
<1>3. custom \in Seq(Texts)
  BY <1>2 DEF Init, CommandLines, Reverse
<1> QED BY <1>1, <1>2, <1>3 DEF Init, TypeInv, TypeOK, TypeRest, Lives

LEMMA TypeStep == TypeInv /\ [Next]_vars => TypeInv'
<1> SUFFICES ASSUME TypeInv, [Next]_vars PROVE TypeInv'
  OBVIOUS
<1>1. CASE Skip \/ Finalize
  <2>1. stage' \in {"env", "pids", "custom", "end"} /\ phase = "idle"
    BY <1>1 DEF Skip, Finalize, Following
  <2> QED BY <1>1, <2>1 DEF Skip, Finalize, TypeInv, TypeOK, TypeRest
<1>2. CASE \E p \in Pids : Become(p)
  BY <1>2 DEF Become, Later, TypeInv, TypeOK, TypeRest, Lives
<1>3. CASE UNCHANGED vars
  BY <1>3 DEF vars, TypeInv, TypeOK, TypeRest
<1> QED BY <1>1, <1>2, <1>3, SplitTypes, EvalTypes, CloseTypes DEF Next, Main

\* Whatever is on the command line, every variable keeps to its type.
THEOREM TypeCorrect == Spec => []TypeOK
<1>1. TypeInv => TypeOK
  BY DEF TypeInv
<1> QED BY <1>1, TypeInit, TypeStep, PTL DEF Spec

-----------------------------------------------------------------------------

\* To a process that lives to the end of an evaluation, eval gives the answer
\* that its filter means.
THEOREM EvalIsFaithful == Spec => AnswersMeant
<1>1. TypeOK /\ [Next]_vars =>
        [phase = "split" /\ filters # <<>> =>
           \A p \in todo \ todo' : life'[p] = "alive" =>
             life[p] = "alive" /\ (p \in taken' <=> p \in Accepts[Head(filters).filter])]_vars
  <2> SUFFICES ASSUME TypeOK, [Next]_vars, phase = "split", filters # <<>>,
                      NEW p \in todo \ todo', life'[p] = "alive"
               PROVE  life[p] = "alive" /\ (p \in taken' <=> p \in Accepts[Head(filters).filter])
    OBVIOUS
  <2>1. PICK q \in Pids : Eval(q)
    <3>1. CASE SplitByUid \/ SplitByEnv \/ SplitByPids \/ PopCustom \/ PopInvalid
      BY <3>1 DEF SplitByUid, SplitByEnv, SplitByPids, PopCustom, PopInvalid
    <3>2. CASE CloseGroup \/ CloseOther \/ ShowAndCollect \/ Skip \/ Finalize
      BY <3>2 DEF CloseGroup, CloseOther, ShowAndCollect, Skip, Finalize
    <3>3. CASE (\E q \in Pids : Become(q)) \/ UNCHANGED vars
      BY <3>3 DEF Become, Later, vars
    <3> QED BY <3>1, <3>2, <3>3 DEF Next, Main
  <2>2. p = q /\ p \in processes /\ p \notin taken /\ p \in Pids
    BY <2>1 DEF Eval, TypeOK
  <2>3. filters \in Seq(Named) /\ life \in [Pids -> Lives]
    BY DEF TypeOK
  <2>4. PICK answer \in BOOLEAN, l \in Lives :
          /\ life' = [life EXCEPT ![p] = l]
          /\ IF answer THEN taken' = taken \cup {p} /\ processes' = processes \ {p}
                       ELSE UNCHANGED <<taken, processes>>
          /\ l = "alive" => life[p] = "alive" /\ (answer <=> p \in Accepts[Head(filters).filter])
    BY <2>1, <2>2, <2>3, EvalStep
  <2>5. life'[p] = l
    BY <2>2, <2>3, <2>4
  <2>6. p \in taken' <=> answer
    BY <2>2, <2>4
  <2> QED BY <2>4, <2>5, <2>6
<1> QED BY <1>1, TypeCorrect, PTL DEF Spec, AnswersMeant

-----------------------------------------------------------------------------
(* The first filter that accepts *)

\* How many filters of the text were applied, and what the others are
Done == Len(New[Text]) - Len(filters)
Rejected(p, n) == \A i \in 1 .. n : p \notin Accepts[Asked[Text][i].filter]
Chosen(p, n) == n \in DOMAIN New[Text] /\ p \in Accepts[Asked[Text][n].filter] /\ Rejected(p, n - 1)

InFilters == phase # "idle" /\ stage \in {"pids", "custom"}

\* What is left of the lists are the last ones given, the last one first.
Popped ==
  /\ Len(custom) <= Len(cli.custom)
  /\ \A n \in DOMAIN custom : custom[n] = cli.custom[Len(cli.custom) + 1 - n]
  /\ phase = "split" => stage \in {"pids", "custom"}

\* What is left of the filters is the end of the list that was asked for.
Suffix ==
  InFilters =>
    /\ Text \in Texts /\ New[Text] # Invalid /\ FaithfulTo(Text)
    /\ Len(filters) <= Len(New[Text])
    /\ \A i \in DOMAIN filters : Done + i \in DOMAIN New[Text] /\ filters[i] = New[Text][Done + i]

\* Where a process that lives may be: in the list if all filters it was
\* evaluated on rejected it, among the accepted if this one is the first that
\* accepts it, and in the group of that one, or in Other if there is none.
Placed ==
  InFilters => \A p \in Pids : life[p] = "alive" =>
    /\ p \in processes => /\ Rejected(p, Done)
                          /\ p \notin todo /\ filters # <<>> => Rejected(p, Done + 1)
    /\ p \in taken => Chosen(p, Done + 1)
    /\ \A k \in DOMAIN groups : p \in Procs(k) =>
         \/ k = Other /\ Rejected(p, Len(New[Text]))
         \/ \E n \in 1 .. Done : Chosen(p, n) /\ Asked[Text][n].name = k

FirstInv == Inv /\ Popped /\ Suffix /\ Placed

ListsKept == DistinctFilters /\ ListsFaithful

LEMMA ListLen ==
  ASSUME NEW text \in Texts, New[text] # Invalid
  PROVE  Len(New[text]) \in Nat /\ DOMAIN New[text] = 1 .. Len(New[text])
BY NewType

LEMMA StartFirst ==
  ASSUME FirstInv, phase = "idle", NEW fs \in Seq(Named), StartFilters(fs), stage \in {"pids", "custom"},
         Inv', Popped', Text' \in Texts, New[Text'] # Invalid, fs = New[Text'], FaithfulTo(Text')
  PROVE  FirstInv'
<1>1. /\ phase' = "split" /\ filters' = fs /\ todo' = processes /\ taken' = {}
      /\ DOMAIN groups' = {} /\ UNCHANGED <<cli, info, life, stage, processes>>
  BY DEF StartFilters
<1>2. Len(fs) \in Nat /\ DOMAIN fs = 1 .. Len(fs)
  OBVIOUS
<1>3. Done' = 0
  BY <1>1, <1>2 DEF Done
<1>4. Suffix'
  BY <1>1, <1>2, <1>3 DEF Suffix
<1>5. Placed'
  BY <1>1, <1>3 DEF Placed, Rejected
<1> QED BY <1>4, <1>5 DEF FirstInv

LEMMA EvalFirst ==
  ASSUME FirstInv, NEW p \in Pids, Eval(p), Inv'
  PROVE  FirstInv'
<1>0. filters \in Seq(Named) /\ life \in [Pids -> Lives]
  BY DEF Eval, FirstInv, Inv, Phases, Fresh, MiscOK
<1>1. PICK answer \in BOOLEAN, l \in Lives :
        /\ life' = [life EXCEPT ![p] = l]
        /\ IF answer THEN taken' = taken \cup {p} /\ processes' = processes \ {p}
                     ELSE UNCHANGED <<taken, processes>>
        /\ l = "alive" => life[p] = "alive" /\ (answer <=> p \in Accepts[Head(filters).filter])
  BY <1>0, EvalStep
<1>2. /\ phase = "split" /\ filters # <<>> /\ p \in todo
      /\ todo' = todo \ {p}
      /\ UNCHANGED <<cli, info, stage, phase, custom, filters, groups>>
  BY DEF Eval
<1>3. /\ Text' = Text /\ Done' = Done /\ (InFilters' <=> InFilters) /\ InFilters
      /\ \A q, n : (Rejected(q, n)' <=> Rejected(q, n)) /\ (Chosen(q, n)' <=> Chosen(q, n))
      /\ \A k : Procs(k)' = Procs(k)
  BY <1>2 DEF Text, Done, InFilters, Rejected, Chosen, Procs, FirstInv, Popped
<1>4. Popped' /\ Suffix'
  BY <1>2, <1>3 DEF FirstInv, Popped, Suffix, FaithfulTo
<1>5. /\ Done \in Nat /\ Done + 1 \in DOMAIN New[Text]
      /\ filters # <<>> /\ 1 \in DOMAIN filters /\ Head(filters) = New[Text][Done + 1]
  <2>1. filters \in Seq(Named) /\ filters # <<>>
    BY <1>2 DEF FirstInv, Inv, Phases, Fresh
  <2>2. Head(filters) = filters[1] /\ 1 \in DOMAIN filters /\ Len(filters) \in Nat
    BY <2>1
  <2>3. Len(New[Text]) \in Nat
    BY <1>3, ListLen DEF FirstInv, Suffix
  <2> QED BY <1>3, <2>1, <2>2, <2>3 DEF FirstInv, Suffix, Done
<1>6. life \in [Pids -> Lives] /\ p \in processes
  BY <1>2 DEF FirstInv, Inv, MiscOK
<1>7. life'[p] = "alive" => life[p] = "alive" /\ (answer <=> p \in Accepts[Asked[Text][Done + 1].filter])
  <2>1. FaithfulTo(Text) /\ New[Text] # Invalid
    BY <1>3 DEF FirstInv, Suffix
  <2>2. New[Text] = Asked[Text]
    BY <2>1 DEF FaithfulTo
  <2>3. life'[p] = l
    BY <1>1, <1>6
  <2> QED BY <1>1, <1>5, <2>2, <2>3, Zenon
<1>8. ASSUME NEW q \in Pids, life'[q] = "alive", q # p
      PROVE  life[q] = "alive"
  BY <1>1, <1>6, <1>8
<1>9. Placed'
  <2> SUFFICES ASSUME NEW q \in Pids, life'[q] = "alive"
               PROVE  /\ q \in processes' => /\ Rejected(q, Done)
                                             /\ q \notin todo' => Rejected(q, Done + 1)
                      /\ q \in taken' => Chosen(q, Done + 1)
                      /\ \A k \in DOMAIN groups : q \in Procs(k) =>
                           \/ k = Other /\ Rejected(q, Len(New[Text]))
                           \/ \E n \in 1 .. Done : Chosen(q, n) /\ Asked[Text][n].name = k
    BY <1>2, <1>3 DEF Placed
  <2>1. life[q] = "alive"
    BY <1>7, <1>8
  <2>2. /\ q \in processes => /\ Rejected(q, Done)
                              /\ q \notin todo => Rejected(q, Done + 1)
        /\ q \in taken => Chosen(q, Done + 1)
        /\ \A k \in DOMAIN groups : q \in Procs(k) =>
             \/ k = Other /\ Rejected(q, Len(New[Text]))
             \/ \E n \in 1 .. Done : Chosen(q, n) /\ Asked[Text][n].name = k
    BY <1>2, <1>3, <2>1 DEF FirstInv, Placed
  <2>3. CASE q # p
    BY <1>1, <1>2, <2>2, <2>3
  <2>4. CASE q = p
    <3>1. Rejected(p, Done)
      BY <1>6, <2>2, <2>4
    <3>2. ~answer => Rejected(p, Done + 1)
      BY <1>5, <1>7, <2>4, <3>1 DEF Rejected
    <3>3. answer => Chosen(p, Done + 1)
      <4>1. (Done + 1) - 1 = Done
        BY <1>5
      <4> QED BY <1>5, <1>7, <2>4, <3>1, <4>1 DEF Chosen
    <3>4. p \notin taken
      BY <1>6 DEF FirstInv, Inv, Disjoint
    <3> QED BY <1>1, <2>2, <2>4, <3>1, <3>2, <3>3, <3>4
  <2> QED BY <2>3, <2>4
<1> QED BY <1>4, <1>9 DEF FirstInv

LEMMA CloseGroupFirst ==
  ASSUME FirstInv, CloseGroup, Inv'
  PROVE  FirstInv'
<1>f. PICK f : f = Head(filters).name
  OBVIOUS
<1>t. PICK t : t = taken
  OBVIOUS
<1>1. /\ phase = "split" /\ filters # <<>> /\ todo = {}
      /\ groups' = Insert(f, [name |-> f, procs |-> t])
      /\ filters' = Tail(filters) /\ todo' = processes /\ taken' = {}
      /\ UNCHANGED <<cli, info, life, stage, phase, custom, processes>>
  BY <1>f, <1>t DEF CloseGroup
<1>2. /\ Text' = Text /\ InFilters' /\ InFilters
      /\ \A q, n : (Rejected(q, n)' <=> Rejected(q, n)) /\ (Chosen(q, n)' <=> Chosen(q, n))
  BY <1>1 DEF Text, InFilters, Rejected, Chosen, FirstInv, Popped
<1>3. /\ Text \in Texts /\ New[Text] # Invalid /\ FaithfulTo(Text)
      /\ Len(New[Text]) \in Nat /\ DOMAIN New[Text] = 1 .. Len(New[Text])
      /\ Len(filters) <= Len(New[Text])
      /\ \A i \in DOMAIN filters : Done + i \in DOMAIN New[Text] /\ filters[i] = New[Text][Done + i]
  BY <1>2, ListLen DEF FirstInv, Suffix
<1>4. /\ filters \in Seq(Named) /\ filters # <<>>
      /\ Len(filters) \in Nat \ {0} /\ Len(Tail(filters)) = Len(filters) - 1
      /\ 1 \in DOMAIN filters /\ f = filters[1].name
      /\ DOMAIN Tail(filters) = 1 .. Len(filters) - 1
      /\ \A i \in DOMAIN Tail(filters) : Tail(filters)[i] = filters[i + 1] /\ i + 1 \in DOMAIN filters
  <2>1. filters \in Seq(Named) /\ filters # <<>>
    BY <1>1 DEF FirstInv, Inv, Phases, Fresh
  <2> QED BY <1>f, <2>1
<1>5. Done \in Nat /\ Done' = Done + 1 /\ Done + 1 \in DOMAIN New[Text]
  BY <1>1, <1>2, <1>3, <1>4 DEF Done
<1>6. Popped'
  BY <1>1 DEF FirstInv, Popped
<1>7. Suffix'
  <2>1. \A i \in DOMAIN Tail(filters) : /\ (Done + 1) + i \in DOMAIN New[Text]
                                        /\ Tail(filters)[i] = New[Text][(Done + 1) + i]
    <3> TAKE i \in DOMAIN Tail(filters)
    <3>1. i \in Nat /\ (Done + 1) + i = Done + (i + 1)
      BY <1>4, <1>5
    <3> QED BY <1>3, <1>4, <3>1
  <2>2. Len(Tail(filters)) <= Len(New[Text])
    BY <1>3, <1>4
  <2> QED BY <1>1, <1>2, <1>3, <1>5, <2>1, <2>2 DEF Suffix, FaithfulTo
<1>8. Asked[Text][Done + 1].name = f
  BY <1>3, <1>4, <1>5 DEF FaithfulTo
<1>9. /\ DOMAIN groups' = DOMAIN groups \cup {f}
      /\ Procs(f)' = t /\ f \notin DOMAIN groups
      /\ \A k \in DOMAIN groups : Procs(k)' = Procs(k)
  <2>1. f \notin DOMAIN groups
    BY <1>1, <1>4 DEF FirstInv, Inv, Phases, Fresh
  <2> QED BY <1>1, <2>1, InsertGroup
<1>10. Placed'
  <2> SUFFICES ASSUME NEW q \in Pids, life[q] = "alive"
               PROVE  /\ q \in processes => Rejected(q, Done + 1)
                      /\ \A k \in DOMAIN groups' : q \in Procs(k)' =>
                           \/ k = Other /\ Rejected(q, Len(New[Text]))
                           \/ \E n \in 1 .. Done + 1 : Chosen(q, n) /\ Asked[Text][n].name = k
    BY <1>1, <1>2, <1>5 DEF Placed
  <2>1. /\ q \in processes => Rejected(q, Done + 1)
        /\ q \in taken => Chosen(q, Done + 1)
        /\ \A k \in DOMAIN groups : q \in Procs(k) =>
             \/ k = Other /\ Rejected(q, Len(New[Text]))
             \/ \E n \in 1 .. Done : Chosen(q, n) /\ Asked[Text][n].name = k
    BY <1>1, <1>2 DEF FirstInv, Placed
  <2>2. q \in Procs(f)' => Chosen(q, Done + 1) /\ Asked[Text][Done + 1].name = f
    BY <1>8, <1>9, <1>t, <2>1
  <2>3. Done + 1 \in 1 .. Done + 1 /\ \A n \in 1 .. Done : n \in 1 .. Done + 1
    BY <1>5
  <2> QED BY <1>9, <2>1, <2>2, <2>3
<1> QED BY <1>6, <1>7, <1>10 DEF FirstInv

LEMMA CloseOtherFirst ==
  ASSUME FirstInv, CloseOther, Inv'
  PROVE  FirstInv'
<1>r. PICK r : r = processes
  OBVIOUS
<1>1. /\ phase = "split" /\ filters = <<>> /\ phase' = "show"
      /\ groups' = Insert(Other, [name |-> Other, procs |-> r])
      /\ processes' = {} /\ todo' = {} /\ taken = {}
      /\ UNCHANGED <<cli, info, life, stage, custom, filters, taken>>
  BY <1>r DEF CloseOther, FirstInv, Inv, Phases
<1>2. /\ Text' = Text /\ InFilters' /\ InFilters /\ Done' = Done
      /\ \A q, n : (Rejected(q, n)' <=> Rejected(q, n)) /\ (Chosen(q, n)' <=> Chosen(q, n))
  BY <1>1 DEF Text, InFilters, Rejected, Chosen, FirstInv, Popped, Done
<1>3. Popped' /\ Suffix'
  BY <1>1, <1>2 DEF FirstInv, Popped, Suffix, FaithfulTo
<1>4. Done = Len(New[Text])
  <2>1. Len(New[Text]) \in Nat
    BY <1>2, ListLen DEF FirstInv, Suffix
  <2> QED BY <1>1, <2>1 DEF Done
<1>5. /\ DOMAIN groups' = DOMAIN groups \cup {Other}
      /\ Procs(Other)' = r /\ Other \notin DOMAIN groups
      /\ \A k \in DOMAIN groups : Procs(k)' = Procs(k)
  BY <1>1, InsertGroup DEF FirstInv, Inv, Phases, Fresh
<1>6. Placed'
  <2> SUFFICES ASSUME NEW q \in Pids, life[q] = "alive", NEW k \in DOMAIN groups', q \in Procs(k)'
               PROVE  \/ k = Other /\ Rejected(q, Len(New[Text]))
                      \/ \E n \in 1 .. Done : Chosen(q, n) /\ Asked[Text][n].name = k
    BY <1>1, <1>2 DEF Placed
  <2>1. /\ q \in processes => Rejected(q, Done)
        /\ \A h \in DOMAIN groups : q \in Procs(h) =>
             \/ h = Other /\ Rejected(q, Len(New[Text]))
             \/ \E n \in 1 .. Done : Chosen(q, n) /\ Asked[Text][n].name = h
    BY <1>2 DEF FirstInv, Placed
  <2> QED BY <1>4, <1>5, <1>r, <2>1
<1> QED BY <1>3, <1>6 DEF FirstInv

LEMMA PopFirst ==
  ASSUME FirstInv, ListsKept, PopCustom \/ PopInvalid, Inv'
  PROVE  FirstInv'
<1>1. /\ stage = "custom" /\ phase = "idle" /\ custom # <<>> /\ custom' = Front(custom)
      /\ UNCHANGED cli
  BY DEF PopCustom, PopInvalid, StartFilters
<1>2. /\ custom \in Seq(Texts) /\ Len(custom) \in Nat \ {0} /\ DOMAIN custom = 1 .. Len(custom)
      /\ cli.custom \in Seq(Texts) /\ Len(cli.custom) \in Nat /\ DOMAIN cli.custom = 1 .. Len(cli.custom)
  <2>1. custom \in Seq(Texts) /\ cli.custom \in Seq(Texts)
    BY DEF FirstInv, Inv, CustomOK, MiscOK, CommandLines
  <2> QED BY <1>1, <2>1
<1>3. /\ Len(custom') = Len(custom) - 1 /\ DOMAIN custom' = 1 .. Len(custom) - 1
      /\ \A n \in DOMAIN custom' : custom'[n] = custom[n] /\ n \in DOMAIN custom
  BY <1>1, <1>2 DEF Front
<1>4. ASSUME phase' = "split" => stage' = "custom" PROVE Popped'
  BY <1>1, <1>2, <1>3, <1>4 DEF FirstInv, Popped
<1>5. CASE PopCustom
  <2>1. PICK fs : fs = New[Last(custom)]
    OBVIOUS
  <2>2. StartFilters(fs) /\ New[Last(custom)] # Invalid /\ stage' = "custom"
    BY <1>1, <1>5, <2>1 DEF PopCustom, StartFilters
  <2>3. Last(custom) = custom[Len(custom)] /\ Last(custom) \in Texts
    BY <1>2 DEF Last
  <2>4. /\ Len(cli.custom) - Len(custom') = Len(cli.custom) + 1 - Len(custom)
        /\ Len(custom) \in DOMAIN custom
    BY <1>2, <1>3
  <2>5. Text' = Last(custom)
    BY <1>1, <2>2, <2>3, <2>4 DEF Text, FirstInv, Popped
  <2>6. FaithfulTo(Text')
    <3>1. Len(cli.custom) + 1 - Len(custom) \in DOMAIN cli.custom
      BY <1>2 DEF FirstInv, Popped
    <3>2. FaithfulTo(cli.custom[Len(cli.custom) + 1 - Len(custom)])
      BY <3>1 DEF ListsKept, ListsFaithful
    <3> QED BY <2>3, <2>4, <2>5, <3>2 DEF FirstInv, Popped
  <2>7. fs \in Seq(Named)
    BY <2>1, <2>2, <2>3, NewType
  <2>8. Popped'
    BY <1>4, <2>2
  <2> QED BY <1>1, <2>1, <2>2, <2>3, <2>5, <2>6, <2>7, <2>8, StartFirst
<1>6. CASE PopInvalid
  <2>1. phase' = "idle"
    BY <1>6 DEF PopInvalid
  <2> QED BY <1>4, <2>1 DEF FirstInv, Suffix, Placed, InFilters
<1> QED BY <1>5, <1>6

LEMMA PidsFirst ==
  ASSUME FirstInv, ListsKept, SplitByPids, Inv'
  PROVE  FirstInv'
<1>1. PICK fs : fs = New[cli.pids]
  OBVIOUS
<1>2. /\ stage = "pids" /\ phase = "idle" /\ cli.pids # NoText /\ StartFilters(fs)
      /\ UNCHANGED <<cli, custom, stage>>
  BY <1>1 DEF SplitByPids, StartFilters
<1>3. cli.pids \in Texts /\ New[cli.pids] # Invalid
  BY <1>2, GroupsAssumption DEF FirstInv, Inv, MiscOK
<1>4. fs \in Seq(Named)
  BY <1>1, <1>3, NewType
<1>5. Text' = cli.pids
  BY <1>2 DEF Text
<1>6. FaithfulTo(cli.pids)
  BY <1>2 DEF ListsKept, ListsFaithful
<1>7. Popped'
  BY <1>2 DEF FirstInv, Popped
<1> QED BY <1>1, <1>2, <1>3, <1>4, <1>5, <1>6, <1>7, StartFirst

\* The steps after which no list of filters is being applied, and exits
LEMMA QuietFirst ==
  ASSUME FirstInv, Inv',
         \/ SplitByUid \/ SplitByEnv \/ ShowAndCollect \/ Skip \/ Finalize
         \/ (\E p \in Pids : Become(p)) \/ UNCHANGED vars
  PROVE  FirstInv'
<1>1. CASE SplitByUid \/ SplitByEnv \/ ShowAndCollect \/ Skip \/ Finalize
  <2>1. ~InFilters' /\ phase' # "split" /\ UNCHANGED <<cli, custom>>
    BY <1>1 DEF SplitByUid, SplitByEnv, SplitByKey, ShowAndCollect, Skip, Finalize, InFilters
  <2> QED BY <2>1 DEF FirstInv, Popped, Suffix, Placed
<1>2. CASE (\E p \in Pids : Become(p)) \/ UNCHANGED vars
  <2>1. UNCHANGED <<cli, info, stage, phase, custom, processes, filters, todo, taken, groups>>
    BY <1>2 DEF Become, Later, vars
  <2>2. \A q \in Pids : life'[q] = "alive" => life[q] = "alive"
    <3>1. CASE UNCHANGED vars
      BY <3>1 DEF vars
    <3>2. CASE \E p \in Pids : Become(p)
      <4>0. PICK p \in Pids : Become(p)
        BY <3>2
      <4>1. PICK l \in Later(life[p]) \ {life[p]} : life' = [life EXCEPT ![p] = l]
        BY <4>0 DEF Become
      <4>2. life \in [Pids -> Lives]
        BY DEF FirstInv, Inv, MiscOK
      <4>3. l # "alive"
        BY <4>1, <4>2, LeafType DEF Lives, Later
      <4> QED BY <4>1, <4>2, <4>3
    <3> QED BY <1>2, <3>1, <3>2
  <2>3. /\ Text' = Text /\ Done' = Done /\ (InFilters' <=> InFilters)
        /\ \A q, n : (Rejected(q, n)' <=> Rejected(q, n)) /\ (Chosen(q, n)' <=> Chosen(q, n))
        /\ \A k : Procs(k)' = Procs(k)
    BY <2>1 DEF Text, Done, InFilters, Rejected, Chosen, Procs
  <2>4. Popped' /\ Suffix'
    BY <2>1, <2>3 DEF FirstInv, Popped, Suffix, FaithfulTo
  <2>5. Placed'
    BY <2>1, <2>2, <2>3 DEF FirstInv, Placed
  <2> QED BY <2>4, <2>5 DEF FirstInv
<1> QED BY <1>1, <1>2

LEMMA CliKept == [Next]_vars => cli' = cli
BY DEF Next, Main, SplitByUid, SplitByEnv, SplitByKey, SplitByPids, PopCustom, PopInvalid, StartFilters,
       Eval, CloseGroup, CloseOther, ShowAndCollect, Skip, Finalize, Become, Later, vars

LEMMA ListsStep == [Next]_vars => /\ ListsKept' <=> ListsKept
                                  /\ ListsFaithful' <=> ListsFaithful
<1> SUFFICES ASSUME [Next]_vars PROVE (ListsKept' <=> ListsKept) /\ (ListsFaithful' <=> ListsFaithful)
  OBVIOUS
<1>1. ListsFaithful' <=> ListsFaithful
  BY CliKept DEF ListsFaithful, FaithfulTo
<1>2. DistinctFilters' <=> DistinctFilters
  BY CliKept DEF DistinctFilters, Distinct
<1> QED BY <1>1, <1>2 DEF ListsKept

LEMMA FirstInit == Init /\ ListsKept => FirstInv
<1> SUFFICES ASSUME Init, ListsKept PROVE FirstInv
  OBVIOUS
<1>1. Inv
  BY InitInv DEF ListsKept
<1>2. cli.custom \in Seq(Texts)
  BY <1>1 DEF Inv, MiscOK, CommandLines
<1>3. Len(cli.custom) \in Nat /\ custom = [i \in 1 .. Len(cli.custom) |-> cli.custom[(Len(cli.custom) - i) + 1]]
  BY <1>2 DEF Init, Reverse
<1>4. Len(custom) = Len(cli.custom) /\ DOMAIN custom = 1 .. Len(cli.custom)
  BY <1>1, <1>3 DEF Inv, CustomOK
<1>5. \A n \in DOMAIN custom : custom[n] = cli.custom[Len(cli.custom) + 1 - n]
  <2> TAKE n \in DOMAIN custom
  <2>1. (Len(cli.custom) - n) + 1 = Len(cli.custom) + 1 - n
    BY <1>3, <1>4
  <2> QED BY <1>3, <1>4, <2>1
<1>6. phase = "idle"
  BY DEF Init
<1>7. Len(custom) <= Len(cli.custom)
  BY <1>3, <1>4
<1>8. Popped
  BY <1>5, <1>6, <1>7, Zenon DEF Popped
<1>9. Suffix /\ Placed
  BY <1>6 DEF Suffix, Placed, InFilters
<1> QED BY <1>1, <1>8, <1>9 DEF FirstInv

LEMMA FirstStep == FirstInv /\ ListsKept /\ [Next]_vars => FirstInv'
<1> SUFFICES ASSUME FirstInv, ListsKept, [Next]_vars PROVE FirstInv'
  OBVIOUS
<1>1. Inv'
  BY NextInv DEF ListsKept, FirstInv
<1> QED BY <1>1, EvalFirst, CloseGroupFirst, CloseOtherFirst, PopFirst, PidsFirst, QuietFirst DEF Next, Main

\* If the lists on the command line were parsed as they were meant, then a
\* process that lives is shown in the group of the first filter that is meant
\* to accept it, whatever exits while eval reads /proc and however many filters
\* and processes there are.
THEOREM FirstFilterTakes == Spec /\ ListsFaithful => []FirstMatch
<1>1. Init /\ ListsFaithful => ListsFaithful /\ (ListsKept => FirstInv)
  BY FirstInit
<1>2. ListsFaithful /\ (ListsKept => FirstInv) /\ [Next]_vars => (ListsFaithful /\ (ListsKept => FirstInv))'
  <2> SUFFICES ASSUME ListsFaithful, ListsKept => FirstInv, [Next]_vars
               PROVE  ListsFaithful' /\ (ListsKept' => FirstInv')
    OBVIOUS
  <2> QED BY ListsStep, FirstStep
<1>3. ListsFaithful /\ (ListsKept => FirstInv) => FirstMatch
  <2> SUFFICES ASSUME ListsFaithful, ListsKept => FirstInv, DistinctFilters, phase = "show", stage \in {"pids", "custom"},
                      NEW p \in Pids, life[p] = "alive"
               PROVE  LET asked == Asked[Text]
                          accepting == {i \in DOMAIN asked : p \in Accepts[asked[i].filter]}
                      IN  IF accepting = {} THEN p \in groups[Other].procs
                          ELSE \E i \in accepting : /\ \A j \in accepting : i <= j
                                                    /\ p \in groups[asked[i].name].procs
    BY DEF FirstMatch
  <2>1. FirstInv /\ InFilters
    BY DEF ListsKept, InFilters
  <2>2. PICK k \in DOMAIN groups : p \in Procs(k)
    BY <2>1 DEF FirstInv, Inv, Covered, Phases
  <2>3. /\ Text \in Texts /\ New[Text] # Invalid /\ DOMAIN Asked[Text] = DOMAIN New[Text]
        /\ Len(New[Text]) \in Nat /\ DOMAIN New[Text] = 1 .. Len(New[Text])
        /\ filters = <<>>
    BY <2>1, ListLen DEF FirstInv, Suffix, FaithfulTo, Inv, Phases
  <2>4. Done = Len(New[Text])
    BY <2>3 DEF Done
  <2>5. \/ k = Other /\ Rejected(p, Len(New[Text]))
        \/ \E n \in 1 .. Len(New[Text]) : Chosen(p, n) /\ Asked[Text][n].name = k
    BY <2>1, <2>2, <2>4 DEF FirstInv, Placed
  <2>6. CASE k = Other /\ Rejected(p, Len(New[Text]))
    BY <2>2, <2>3, <2>6 DEF Rejected, Procs
  <2>7. CASE \E n \in 1 .. Len(New[Text]) : Chosen(p, n) /\ Asked[Text][n].name = k
    <3>1. PICK n \in 1 .. Len(New[Text]) : Chosen(p, n) /\ Asked[Text][n].name = k
      BY <2>7
    <3>2. n \in DOMAIN Asked[Text] /\ p \in Accepts[Asked[Text][n].filter]
      BY <2>3, <3>1 DEF Chosen
    <3>3. ASSUME NEW j \in DOMAIN Asked[Text], p \in Accepts[Asked[Text][j].filter] PROVE n <= j
      BY <2>3, <3>1, <3>3 DEF Chosen, Rejected
    <3> QED BY <2>2, <3>1, <3>2, <3>3 DEF Procs
  <2> QED BY <2>5, <2>6, <2>7
<1> QED BY <1>1, <1>2, <1>3, PTL DEF Spec

-----------------------------------------------------------------------------
(***************************************************************************)
(* Lists of filters are read as they were written.                         *)
(*                                                                         *)
(* Texts: parts of what is put together, and positions                     *)
(***************************************************************************)
Strings == Seq(Tokens)

LEMMA Slices ==
  ASSUME NEW S, NEW a \in Seq(S), NEW b \in Seq(S)
  PROVE  /\ SubSeq(a \o b, 1, Len(a)) = a
         /\ SubSeq(a \o b, Len(a) + 1, Len(a \o b)) = b
         /\ \A n \in 0 .. Len(a) : SubSeq(a \o b, 1, n) = SubSeq(a, 1, n)
         /\ \A n \in 0 .. Len(b) : SubSeq(a \o b, 1, Len(a) + n) = a \o SubSeq(b, 1, n)
<1> DEFINE c == a \o b
<1>1. /\ Len(a) \in Nat /\ Len(b) \in Nat /\ c \in Seq(S) /\ Len(c) = Len(a) + Len(b)
      /\ \A i \in 1 .. Len(a) : c[i] = a[i] /\ a[i] \in S
      /\ \A i \in 1 .. Len(b) : c[Len(a) + i] = b[i] /\ b[i] \in S
  <2>1. Len(a) \in Nat /\ Len(b) \in Nat /\ c \in Seq(S) /\ Len(c) = Len(a) + Len(b)
    BY ConcatProperties
  <2>2. ASSUME NEW i \in 1 .. Len(a) PROVE c[i] = a[i] /\ a[i] \in S
    BY <2>1, ConcatProperties
  <2>3. ASSUME NEW i \in 1 .. Len(b) PROVE c[Len(a) + i] = b[i] /\ b[i] \in S
    <3>1. Len(a) + i \in 1 .. Len(a) + Len(b) /\ ~(Len(a) + i <= Len(a)) /\ (Len(a) + i) - Len(a) = i
      BY <2>1
    <3>2. c[Len(a) + i] = b[(Len(a) + i) - Len(a)]
      BY <3>1, ConcatProperties
    <3> QED BY <3>1, <3>2
  <2> QED BY <2>1, <2>2, <2>3
<1>2. \A i \in 1 .. Len(c) : c[i] \in S
  BY <1>1
<1> HIDE DEF c
<1>3. ASSUME NEW n \in 0 .. Len(a) PROVE SubSeq(c, 1, n) = SubSeq(a, 1, n)
  <2>1. /\ SubSeq(c, 1, n) \in Seq(S) /\ Len(SubSeq(c, 1, n)) = n
        /\ \A i \in 1 .. n : SubSeq(c, 1, n)[i] = c[i]
    BY <1>1
  <2>2. /\ SubSeq(a, 1, n) \in Seq(S) /\ Len(SubSeq(a, 1, n)) = n
        /\ \A i \in 1 .. n : SubSeq(a, 1, n)[i] = a[i]
    BY <1>1
  <2>3. \A i \in 1 .. n : SubSeq(c, 1, n)[i] = SubSeq(a, 1, n)[i]
    BY <1>1, <2>1, <2>2
  <2> QED BY <2>1, <2>2, <2>3, SeqEqual
<1>4. ASSUME NEW n \in 0 .. Len(b) PROVE SubSeq(c, 1, Len(a) + n) = a \o SubSeq(b, 1, n)
  <2> DEFINE d == SubSeq(b, 1, n)
             e == SubSeq(c, 1, Len(a) + n)
  <2>1. /\ e \in Seq(S) /\ Len(e) = Len(a) + n
        /\ \A i \in 1 .. Len(a) + n : e[i] = c[i]
    BY <1>1
  <2>2. d \in Seq(S) /\ Len(d) = n /\ \A i \in 1 .. n : d[i] = b[i]
    BY <1>1
  <2> HIDE DEF d, e
  <2>3. /\ a \o d \in Seq(S) /\ Len(a \o d) = Len(a) + n
        /\ \A i \in 1 .. Len(a) + n : (a \o d)[i] = IF i <= Len(a) THEN a[i] ELSE d[i - Len(a)]
    BY <2>2, ConcatProperties
  <2>4. ASSUME NEW i \in 1 .. Len(a) + n PROVE e[i] = (a \o d)[i]
    <3>1. CASE i <= Len(a)
      <4>1. i \in 1 .. Len(a)
        BY <1>1, <3>1
      <4> QED BY <1>1, <2>1, <2>3, <3>1, <4>1
    <3>2. CASE ~(i <= Len(a))
      <4>1. i - Len(a) \in 1 .. n /\ i - Len(a) \in 1 .. Len(b) /\ Len(a) + (i - Len(a)) = i
        BY <1>1, <3>2
      <4>2. c[Len(a) + (i - Len(a))] = b[i - Len(a)]
        BY <1>1, <4>1
      <4> QED BY <2>1, <2>2, <2>3, <3>2, <4>1, <4>2
    <3> QED BY <3>1, <3>2
  <2>5. e = a \o d
    BY <2>1, <2>3, <2>4, SeqEqual
  <2> QED BY <2>5 DEF d, e
<1>5. SubSeq(c, 1, Len(a)) = a
  <2>1. Len(a) \in 0 .. Len(a)
    BY <1>1
  <2> QED BY <1>3, <2>1, SubSeqFull
<1>6. SubSeq(c, Len(a) + 1, Len(c)) = b
  <2> DEFINE d == SubSeq(c, Len(a) + 1, Len(c))
  <2>1. d \in Seq(S) /\ Len(d) = Len(b)
    BY <1>1
  <2>2. ASSUME NEW i \in 1 .. Len(b) PROVE d[i] = b[i]
    <3>1. d[i] = c[Len(a) + 1 + i - 1]
      BY <1>1
    <3>2. Len(a) + 1 + i - 1 = Len(a) + i
      BY <1>1
    <3> QED BY <1>1, <3>1, <3>2
  <2> HIDE DEF d
  <2>3. d = b
    BY <2>1, <2>2, SeqEqual
  <2> QED BY <2>3 DEF d
<1> QED BY <1>3, <1>4, <1>5, <1>6 DEF c

LEMMA TextSlices ==
  ASSUME NEW a \in Strings, NEW b \in Strings
  PROVE  /\ SubSeq(a \o b, 1, Len(a)) = a
         /\ SubSeq(a \o b, Len(a) + 1, Len(a \o b)) = b
         /\ \A n \in 0 .. Len(a) : SubSeq(a \o b, 1, n) = SubSeq(a, 1, n)
         /\ \A n \in 0 .. Len(b) : SubSeq(a \o b, 1, Len(a) + n) = a \o SubSeq(b, 1, n)
<1>1. a \in Seq(Tokens) /\ b \in Seq(Tokens)
  BY DEF Strings
<1> HIDE DEF Strings
<1> QED BY <1>1, Slices

LEMMA TextConcat ==
  ASSUME NEW a \in Strings, NEW b \in Strings
  PROVE  /\ a \o b \in Strings /\ Len(a) \in Nat /\ Len(b) \in Nat /\ Len(a \o b) = Len(a) + Len(b)
BY ConcatProperties DEF Strings

LEMMA TextIndex ==
  ASSUME NEW a \in Strings, NEW b \in Strings, NEW i \in 1 .. Len(a) + Len(b)
  PROVE  (a \o b)[i] = IF i <= Len(a) THEN a[i] ELSE b[i - Len(a)]
BY ConcatProperties DEF Strings

LEMMA Head1 ==
  ASSUME NEW a \in Strings, NEW b \in Strings, Len(a) >= 1
  PROVE  (a \o b)[1] = a[1]
<1> DEFINE i == 1
<1>1. Len(a) \in Nat /\ Len(b) \in Nat
  BY DEF Strings
<1>2. i \in 1 .. Len(a) + Len(b) /\ i <= Len(a)
  BY <1>1
<1> HIDE DEF i
<1>3. (a \o b)[i] = IF i <= Len(a) THEN a[i] ELSE b[i - Len(a)]
  BY <1>2, TextIndex, Zenon
<1>4. (a \o b)[i] = a[i]
  BY <1>2, <1>3, Zenon
<1> QED BY <1>4 DEF i

LEMMA TextAssociative ==
  ASSUME NEW a \in Strings, NEW b \in Strings, NEW c \in Strings
  PROVE  (a \o b) \o c = a \o (b \o c)
BY ConcatAssociative DEF Strings

LEMMA AsciiParts ==
  ASSUME NEW a \in Strings, NEW b \in Strings
  PROVE  Ascii(a \o b) <=> Ascii(a) /\ Ascii(b)
<1>1. /\ Len(a) \in Nat /\ Len(b) \in Nat
      /\ DOMAIN (a \o b) = 1 .. Len(a) + Len(b) /\ DOMAIN a = 1 .. Len(a) /\ DOMAIN b = 1 .. Len(b)
      /\ \A i \in 1 .. Len(a) + Len(b) : (a \o b)[i] = IF i <= Len(a) THEN a[i] ELSE b[i - Len(a)]
  BY ConcatProperties, LenProperties DEF Strings
<1>2. ASSUME Ascii(a \o b) PROVE Ascii(a)
  BY <1>1, <1>2 DEF Ascii
<1>3. ASSUME Ascii(a \o b), NEW i \in DOMAIN b PROVE b[i] \notin Wide
  <2>1. Len(a) + i \in DOMAIN (a \o b) /\ ~(Len(a) + i <= Len(a)) /\ Len(a) + i - Len(a) = i
    BY <1>1
  <2>2. (a \o b)[Len(a) + i] = b[i]
    BY <1>1, <2>1
  <2> QED BY <1>3, <2>1, <2>2 DEF Ascii
<1>4. ASSUME Ascii(a), Ascii(b), NEW i \in DOMAIN (a \o b) PROVE (a \o b)[i] \notin Wide
  <2>1. CASE i <= Len(a)
    BY <1>1, <1>4, <2>1 DEF Ascii
  <2>2. CASE ~(i <= Len(a))
    <3>1. i - Len(a) \in DOMAIN b
      BY <1>1, <2>2
    <3> QED BY <1>1, <1>4, <2>2, <3>1 DEF Ascii
  <2> QED BY <2>1, <2>2
<1> QED BY <1>2, <1>3, <1>4 DEF Ascii

LEMMA MarksAreTokens == Marks \cup Ops \subseteq Tokens /\ "(" \in Tokens /\ ")" \in Tokens /\ "," \in Tokens
<1>1. Marks \cup Ops \subseteq Tokens
  BY TokenAssumption
<1>2. {"(", ")", ","} \subseteq Tokens
  BY <1>1 DEF Marks
<1> QED BY <1>1, <1>2

LEMMA OneToken ==
  ASSUME NEW x \in Tokens
  PROVE  <<x>> \in Strings /\ Len(<<x>>) = 1
BY DEF Strings

\* In ASCII, positions of bytes are positions of characters.
LEMMA Positions ==
  ASSUME NEW text \in Strings, Ascii(text), NEW i \in 1 .. Len(text) + 1
  PROVE  Before(text, i) = i - 1
<1> DEFINE head == SubSeq(text, 1, i - 1)
<1>1. Len(text) \in Nat /\ i \in Int /\ DOMAIN text = 1 .. Len(text)
  BY DEF Strings
<1>2. head \in Strings /\ Len(head) = i - 1 /\ \A k \in 1 .. i - 1 : head[k] = text[k]
  BY <1>1 DEF Strings
<1>3. DOMAIN head = 1 .. i - 1
  BY <1>2 DEF Strings
<1>4. \A k \in DOMAIN head : head[k] \notin Wide
  BY <1>1, <1>2, <1>3 DEF Ascii
<1> HIDE DEF head
<1>5. {k \in DOMAIN head : head[k] \in Wide} = {}
  BY <1>4
<1>6. Cardinality({k \in DOMAIN head : head[k] \in Wide}) = 0
  BY <1>5, FS_EmptySet, Zenon
<1>7. Bytes(head) = Len(head) + Cardinality({k \in DOMAIN head : head[k] \in Wide})
  BY DEF Bytes
<1>8. Bytes(head) = i - 1
  <2> DEFINE wide == Cardinality({k \in DOMAIN head : head[k] \in Wide})
  <2>1. wide = 0 /\ Bytes(head) = Len(head) + wide /\ Len(head) = i - 1
    BY <1>2, <1>6, <1>7, Zenon
  <2> HIDE DEF wide
  <2> QED BY <1>1, <2>1
<1> QED BY <1>8 DEF Before, head

LEMMA Cuts ==
  ASSUME NEW a \in Strings, NEW b \in Strings, Ascii(a \o b)
  PROVE  From(a \o b, Len(a)) = {b} /\ To(a \o b, Len(a)) = {a}
<1> DEFINE c == a \o b
<1>1. Len(a) \in Nat /\ Len(b) \in Nat /\ c \in Strings /\ Len(c) = Len(a) + Len(b)
  BY ConcatProperties DEF Strings
<1>2. SubSeq(c, 1, Len(a)) = a /\ SubSeq(c, Len(a) + 1, Len(c)) = b
  BY TextSlices
<1>3. Ascii(c)
  OBVIOUS
<1> HIDE DEF c
<1>4. \A i \in 1 .. Len(c) + 1 : Before(c, i) = i - 1
  BY <1>3, <1>1, Positions
<1>5. {i \in 1 .. Len(c) + 1 : Before(c, i) = Len(a)} = {Len(a) + 1}
  BY <1>1, <1>4
<1>6. From(c, Len(a)) = {b}
  BY <1>2, <1>5 DEF From
<1>7. To(c, Len(a)) = {SubSeq(c, 1, Len(a) + 1 - 1)}
  BY <1>5 DEF To
<1>8. Len(a) + 1 - 1 = Len(a)
  BY <1>1
<1> QED BY <1>2, <1>6, <1>7, <1>8 DEF c

-----------------------------------------------------------------------------
(***************************************************************************)
(* Parentheses                                                             *)
(***************************************************************************)
LEMMA CountFinite ==
  ASSUME NEW a \in Strings, NEW c
  PROVE  IsFiniteSet({i \in DOMAIN a : a[i] = c}) /\ Count(c, a) \in Nat
<1> DEFINE A == {i \in DOMAIN a : a[i] = c}
<1>1. DOMAIN a = 1 .. Len(a) /\ Len(a) \in Nat
  BY DEF Strings
<1>2. IsFiniteSet(1 .. Len(a)) /\ A \subseteq 1 .. Len(a)
  BY <1>1, FS_Interval
<1>3. IsFiniteSet(A)
  BY <1>2, FS_Subset
<1> QED BY <1>3, FS_CardinalityType DEF Count

LEMMA CountParts ==
  ASSUME NEW a \in Strings, NEW b \in Strings, NEW c
  PROVE  Count(c, a \o b) = Count(c, a) + Count(c, b)
<1> DEFINE ab == a \o b
           A == {i \in DOMAIN a : a[i] = c}
           B == {i \in DOMAIN b : b[i] = c}
           C == {i \in DOMAIN ab : ab[i] = c}
           D == {i \in C : ~(i <= Len(a))}
           f == [i \in B |-> Len(a) + i]
<1>1. /\ Len(a) \in Nat /\ Len(b) \in Nat
      /\ DOMAIN ab = 1 .. Len(a) + Len(b) /\ DOMAIN a = 1 .. Len(a) /\ DOMAIN b = 1 .. Len(b)
      /\ \A i \in 1 .. Len(a) + Len(b) : ab[i] = IF i <= Len(a) THEN a[i] ELSE b[i - Len(a)]
  BY ConcatProperties, LenProperties DEF Strings
<1>2. IsFiniteSet(A) /\ IsFiniteSet(B)
  BY CountFinite
<1> HIDE DEF ab
<1>3. \A i \in B : i \in Int /\ f[i] = Len(a) + i /\ f[i] \in D
  <2> SUFFICES ASSUME NEW i \in B PROVE i \in Int /\ f[i] = Len(a) + i /\ f[i] \in D
    OBVIOUS
  <2>1. i \in 1 .. Len(b) /\ b[i] = c /\ f[i] = Len(a) + i
    BY <1>1
  <2>2. Len(a) + i \in 1 .. Len(a) + Len(b) /\ ~(Len(a) + i <= Len(a)) /\ Len(a) + i - Len(a) = i
    BY <1>1, <2>1
  <2>3. ab[Len(a) + i] = c
    BY <1>1, <2>1, <2>2
  <2> QED BY <1>1, <2>1, <2>2, <2>3
<1>4. \A d \in D : d - Len(a) \in B /\ f[d - Len(a)] = d
  <2> SUFFICES ASSUME NEW d \in D PROVE d - Len(a) \in B /\ f[d - Len(a)] = d
    OBVIOUS
  <2>1. d \in 1 .. Len(a) + Len(b) /\ ~(d <= Len(a)) /\ ab[d] = c
    BY <1>1
  <2>2. d - Len(a) \in 1 .. Len(b) /\ Len(a) + (d - Len(a)) = d
    BY <1>1, <2>1
  <2>3. b[d - Len(a)] = c
    BY <1>1, <2>1
  <2> QED BY <1>1, <2>2, <2>3
<1>5. f \in [B -> D]
  BY <1>3
<1>6. \A i, j \in B : f[i] = f[j] => i = j
  BY <1>1, <1>3
<1>7. \A d \in D : \E i \in B : f[i] = d
  BY <1>4
<1> HIDE DEF f, D, B
<1>8. f \in Bijection(B, D)
  BY <1>5, <1>6, <1>7 DEF Bijection, Injection, Surjection, IsInjective
<1>9. IsFiniteSet(D) /\ Cardinality(D) = Cardinality(B)
  BY <1>2, <1>8, FS_Bijection DEF ExistsBijection
<1>10. C = A \cup D /\ A \cap D = {}
  <2>1. \A i \in A : i \in C /\ i <= Len(a)
    BY <1>1
  <2>2. \A i \in C : i <= Len(a) => i \in A
    BY <1>1
  <2> HIDE DEF A, C
  <2> QED BY <2>1, <2>2 DEF D
<1>11. Cardinality(A) \in Nat /\ Cardinality(D) \in Nat
  BY <1>2, <1>9, FS_CardinalityType
<1>12. Cardinality(C) = Cardinality(A) + Cardinality(D)
  <2> HIDE DEF A, C
  <2>1. Cardinality(A \cup D) = Cardinality(A) + Cardinality(D) - Cardinality(A \cap D)
    BY <1>2, <1>9, FS_Union
  <2>2. Cardinality(A \cap D) = 0
    BY <1>10, FS_EmptySet
  <2> QED BY <1>10, <1>11, <2>1, <2>2
<1> QED BY <1>9, <1>12 DEF Count, ab, B

LEMMA CountOne ==
  ASSUME NEW x \in Tokens, NEW c
  PROVE  Count(c, <<x>>) = IF x = c THEN 1 ELSE 0
<1>1. DOMAIN <<x>> = {1} /\ <<x>>[1] = x
  OBVIOUS
<1>2. CASE x = c
  <2>1. {i \in DOMAIN <<x>> : <<x>>[i] = c} = {1}
    BY <1>1, <1>2
  <2> QED BY <1>2, <2>1, FS_Singleton DEF Count
<1>3. CASE x # c
  <2>1. {i \in DOMAIN <<x>> : <<x>>[i] = c} = {}
    BY <1>1, <1>3
  <2> QED BY <1>3, <2>1, FS_EmptySet DEF Count
<1> QED BY <1>2, <1>3

LEMMA CountNone ==
  ASSUME NEW a \in Strings, NEW c, \A i \in DOMAIN a : a[i] # c
  PROVE  Count(c, a) = 0
<1>1. {i \in DOMAIN a : a[i] = c} = {}
  OBVIOUS
<1> QED BY <1>1, FS_EmptySet DEF Count

LEMMA DepthParts ==
  ASSUME NEW a \in Strings, NEW b \in Strings
  PROVE  Depth(a) \in Int /\ Depth(b) \in Int /\ Depth(a \o b) = Depth(a) + Depth(b)
<1>1. /\ Count("(", a) \in Nat /\ Count("(", b) \in Nat /\ Count(")", a) \in Nat /\ Count(")", b) \in Nat
  BY CountFinite
<1>2. Count("(", a \o b) = Count("(", a) + Count("(", b)
  BY CountParts
<1>3. Count(")", a \o b) = Count(")", a) + Count(")", b)
  BY CountParts
<1>4. /\ Depth(a) = Count("(", a) - Count(")", a) /\ Depth(b) = Count("(", b) - Count(")", b)
      /\ Depth(a \o b) = Count("(", a \o b) - Count(")", a \o b)
  BY Zenon DEF Depth
<1> QED BY <1>1, <1>2, <1>3, <1>4

LEMMA DepthOne ==
  ASSUME NEW x \in Tokens
  PROVE  Depth(<<x>>) = IF x = "(" THEN 1 ELSE IF x = ")" THEN -1 ELSE 0
<1>1. Count("(", <<x>>) = IF x = "(" THEN 1 ELSE 0
  BY CountOne, Zenon
<1>2. Count(")", <<x>>) = IF x = ")" THEN 1 ELSE 0
  BY CountOne, Zenon
<1>3. Depth(<<x>>) = Count("(", <<x>>) - Count(")", <<x>>)
  BY Zenon DEF Depth
<1> QED BY <1>1, <1>2, <1>3



LEMMA NoParentheses ==
  ASSUME NEW a \in Strings, \A i \in DOMAIN a : a[i] \notin {"(", ")"}
  PROVE  Closed(a)
<1>1. ASSUME NEW b \in Strings, \A i \in DOMAIN b : b[i] \notin {"(", ")"} PROVE Depth(b) = 0
  <2>1. Count("(", b) = 0 /\ Count(")", b) = 0
    BY <1>1, CountNone
  <2> QED BY <2>1 DEF Depth
<1>2. ASSUME NEW n \in 0 .. Len(a) PROVE Depth(SubSeq(a, 1, n)) = 0
  <2> DEFINE b == SubSeq(a, 1, n)
  <2>1. Len(a) \in Nat /\ DOMAIN a = 1 .. Len(a)
    BY DEF Strings
  <2>2. b \in Strings /\ Len(b) = n /\ \A i \in 1 .. n : b[i] = a[i]
    BY <2>1 DEF Strings
  <2>3. DOMAIN b = 1 .. n
    BY <2>2 DEF Strings
  <2>4. \A i \in DOMAIN b : b[i] \notin {"(", ")"}
    BY <2>1, <2>2, <2>3
  <2> HIDE DEF b
  <2>5. Depth(b) = 0
    BY <1>1, <2>2, <2>4
  <2> QED BY <2>5 DEF b
<1>3. Depth(a) = 0
  BY <1>1
<1> QED BY <1>2, <1>3 DEF Closed

LEMMA ClosedParts ==
  ASSUME NEW a \in Strings, NEW b \in Strings, Closed(a), Closed(b)
  PROVE  Closed(a \o b)
<1>1. Len(a) \in Nat /\ Len(b) \in Nat /\ Len(a \o b) = Len(a) + Len(b)
  BY ConcatProperties DEF Strings
<1>2. Depth(a \o b) = 0
  BY DepthParts DEF Closed
<1>3. ASSUME NEW n \in 0 .. Len(a \o b) PROVE Depth(SubSeq(a \o b, 1, n)) >= 0
  <2>1. CASE n <= Len(a)
    <3>1. n \in 0 .. Len(a)
      BY <1>1, <2>1
    <3>2. SubSeq(a \o b, 1, n) = SubSeq(a, 1, n)
      BY <3>1, TextSlices
    <3> QED BY <3>1, <3>2 DEF Closed
  <2>2. CASE ~(n <= Len(a))
    <3> DEFINE m == n - Len(a)
               d == SubSeq(b, 1, m)
    <3>1. m \in 0 .. Len(b) /\ Len(a) + m = n
      BY <1>1, <2>2
    <3> HIDE DEF m
    <3>0. \A k \in 0 .. Len(b) : SubSeq(a \o b, 1, Len(a) + k) = a \o SubSeq(b, 1, k)
      BY TextSlices, Zenon
    <3>2. SubSeq(a \o b, 1, Len(a) + m) = a \o d
      BY <3>0, <3>1, Zenon
    <3>3. d \in Strings
      BY <1>1, <3>1 DEF Strings
    <3>4. Depth(d) >= 0
      BY <3>1 DEF Closed
    <3> HIDE DEF d
    <3>5. Depth(a \o d) = Depth(a) + Depth(d) /\ Depth(d) \in Int
      BY <3>3, DepthParts
    <3>6. Depth(a) = 0
      BY DEF Closed
    <3>7. Depth(a \o d) >= 0
      BY <3>4, <3>5, <3>6
    <3> QED BY <3>1, <3>2, <3>7
  <2> QED BY <2>1, <2>2
<1> QED BY <1>2, <1>3 DEF Closed

\* Inside of parentheses, the first is not closed.
LEMMA Inside ==
  ASSUME NEW a \in Strings, Closed(a)
  PROVE  /\ Depth(<<"(">> \o a \o <<")">>) = 0
         /\ \A n \in 0 .. Len(a) : Depth(SubSeq(<<"(">> \o a \o <<")">>, 1, n + 1)) > 0
<1> DEFINE open == <<"(">>
           close == <<")">>
           oa == open \o a
           oac == oa \o close
<1>0. "(" \in Tokens /\ ")" \in Tokens
  BY MarksAreTokens, Zenon
<1>1. /\ open \in Strings /\ close \in Strings
      /\ Len(open) = 1 /\ Len(close) = 1 /\ Len(a) \in Nat
  BY <1>0 DEF Strings
<1>2. Depth(open) = 1 /\ Depth(close) = -1
  BY <1>0, DepthOne
<1> HIDE DEF open, close
<1>3. oa \in Strings /\ Len(oa) = 1 + Len(a)
  <2>1. oa \in Strings /\ Len(oa) = Len(open) + Len(a)
    BY <1>1, TextConcat, Zenon
  <2> HIDE DEF oa
  <2> QED BY <1>1, <2>1
<1>4. Depth(oa) = 1
  BY <1>1, <1>2, DepthParts DEF Closed
<1> HIDE DEF oa
<1>5. Depth(oac) = 0
  BY <1>1, <1>2, <1>3, <1>4, DepthParts
<1>6. ASSUME NEW n \in 0 .. Len(a) PROVE Depth(SubSeq(oac, 1, n + 1)) > 0
  <2> DEFINE d == SubSeq(a, 1, n)
  <2>1. n + 1 \in 0 .. Len(oa) /\ n \in 0 .. Len(a) /\ n + 1 = 1 + n
    BY <1>1, <1>3
  <2>2. SubSeq(oac, 1, n + 1) = SubSeq(oa, 1, n + 1)
    <3>1. oa \in Strings /\ close \in Strings
      BY <1>1, <1>3
    <3>2. \A m \in 0 .. Len(oa) : SubSeq(oa \o close, 1, m) = SubSeq(oa, 1, m)
      BY <3>1, TextSlices
    <3> QED BY <2>1, <3>2, Zenon
  <2>3. SubSeq(open \o a, 1, Len(open) + n) = open \o d
    <3>1. open \in Strings /\ a \in Strings
      BY <1>1
    <3>2. \A m \in 0 .. Len(a) : SubSeq(open \o a, 1, Len(open) + m) = open \o SubSeq(a, 1, m)
      BY <3>1, TextSlices
    <3> QED BY <2>1, <3>2, Zenon
  <2>4. SubSeq(oac, 1, n + 1) = open \o d
    BY <1>1, <2>1, <2>2, <2>3 DEF oa
  <2>5. d \in Strings
    BY <1>1 DEF Strings
  <2>6. Depth(d) >= 0
    BY DEF Closed
  <2> HIDE DEF d, oac
  <2>7. Depth(open \o d) = Depth(open) + Depth(d) /\ Depth(d) \in Int
    BY <1>1, <2>5, DepthParts
  <2>8. Depth(open \o d) > 0
    BY <1>2, <2>6, <2>7
  <2> QED BY <2>4, <2>8
<1> QED BY <1>5, <1>6 DEF oac, oa, open, close

LEMMA ClosedInside ==
  ASSUME NEW a \in Strings, Closed(a)
  PROVE  Closed(<<"(">> \o a \o <<")">>)
<1> DEFINE c == <<"(">> \o a \o <<")">>
<1>0. "(" \in Tokens /\ ")" \in Tokens
  BY MarksAreTokens, Zenon
<1>1. Len(a) \in Nat
  BY DEF Strings
<1>2. c \in Strings /\ Len(c) = Len(a) + 2
  BY <1>0, <1>1 DEF Strings
<1>3. Depth(c) = 0 /\ \A n \in 0 .. Len(a) : Depth(SubSeq(c, 1, n + 1)) > 0
  BY Inside, Zenon
<1> HIDE DEF c
<1>4. ASSUME NEW n \in 0 .. Len(c) PROVE Depth(SubSeq(c, 1, n)) >= 0
  <2>1. CASE n = 0
    <3>1. SubSeq(c, 1, n) = <<>> /\ <<>> \in Strings
      BY <2>1, SubSeqEmpty DEF Strings
    <3>2. Count("(", <<>>) = 0 /\ Count(")", <<>>) = 0
      BY <3>1, CountNone
    <3>3. Depth(<<>>) = 0
      BY <3>2 DEF Depth
    <3>4. Depth(SubSeq(c, 1, n)) = 0
      BY <3>1, <3>3, Zenon
    <3> QED BY <3>4
  <2>2. CASE n \in 1 .. Len(a) + 1
    <3> DEFINE m == n - 1
    <3>1. m \in 0 .. Len(a) /\ n = m + 1
      BY <1>1, <2>2
    <3> HIDE DEF m
    <3>2. Depth(SubSeq(c, 1, m + 1)) > 0
      BY <1>3, <3>1, Zenon
    <3>3. SubSeq(c, 1, m + 1) \in Strings
      BY <1>1, <1>2, <3>1, <2>2 DEF Strings
    <3>4. Depth(SubSeq(c, 1, m + 1)) \in Int
      BY <3>3, DepthParts
    <3> QED BY <3>1, <3>2, <3>4
  <2>3. CASE n = Len(c)
    <3>1. SubSeq(c, 1, n) = c
      BY <1>2, <2>3, SubSeqFull, Zenon DEF Strings
    <3>2. Depth(SubSeq(c, 1, n)) = 0
      BY <1>3, <3>1, Zenon
    <3> QED BY <3>2
  <2> QED BY <1>1, <1>2, <2>1, <2>2, <2>3
<1> QED BY <1>3, <1>4 DEF Closed, c

-----------------------------------------------------------------------------
\* A step from later values to one defines a function on an interval.
FromLater(a, N, W, step) ==
  /\ step \in [(a .. N) \X [a .. N -> W] -> W]
  /\ \A n \in a .. N : \A e, d \in [a .. N -> W] :
       (\A m \in a .. N : m > n => e[m] = d[m]) => step[<<n, e>>] = step[<<n, d>>]

LEMMA Backward ==
  ASSUME NEW a \in Nat, NEW N \in Nat, NEW W, NEW w \in W, NEW step, FromLater(a, N, W, step)
  PROVE  \E e \in [a .. N -> W] : \A n \in a .. N : e[n] = step[<<n, e>>]
<1> DEFINE D == a .. N
           T == {k \in Nat : \E e \in [D -> W] : \A n \in D : n > N - k => e[n] = step[<<n, e>>]}
<1>0. /\ step \in [D \X [D -> W] -> W]
      /\ \A n \in D : \A e, d \in [D -> W] :
           (\A m \in D : m > n => e[m] = d[m]) => step[<<n, e>>] = step[<<n, d>>]
  BY DEF FromLater
<1>1. 0 \in T
  <2>1. [n \in D |-> w] \in [D -> W]
    OBVIOUS
  <2>2. \A n \in D : ~(n > N - 0)
    OBVIOUS
  <2> HIDE DEF D
  <2> QED BY <2>1, <2>2
<1>2. ASSUME NEW k \in Nat, k \in T PROVE k + 1 \in T
  <2>1. PICK e \in [D -> W] : \A n \in D : n > N - k => e[n] = step[<<n, e>>]
    BY <1>2
  <2> DEFINE d == [n \in D |-> step[<<n, e>>]]
  <2>2. d \in [D -> W] /\ \A n \in D : d[n] = step[<<n, e>>]
    BY <1>0, <2>1
  <2> HIDE DEF d
  <2>3. \A n \in D : n > N - k => d[n] = e[n]
    BY <2>1, <2>2
  <2>4. ASSUME NEW n \in D, n > N - (k + 1) PROVE d[n] = step[<<n, d>>]
    <3>1. \A m \in D : m > n => d[m] = e[m]
      <4> SUFFICES ASSUME NEW m \in D, m > n PROVE d[m] = e[m]
        OBVIOUS
      <4>1. m > N - k
        BY <2>4
      <4> QED BY <2>3, <4>1
    <3>2. step[<<n, d>>] = step[<<n, e>>]
      BY <1>0, <2>1, <2>2, <3>1
    <3> QED BY <2>2, <3>2
  <2>5. k + 1 \in Nat
    OBVIOUS
  <2> HIDE DEF D
  <2> QED BY <2>2, <2>4, <2>5
<1> HIDE DEF T
<1>3. Nat \subseteq T
  BY <1>1, <1>2, Induction
<1>4. N + 1 \in T
  BY <1>3
<1>5. PICK e \in [D -> W] : \A n \in D : n > N - (N + 1) => e[n] = step[<<n, e>>]
  BY <1>4 DEF T
<1>6. \A n \in D : n > N - (N + 1)
  OBVIOUS
<1> HIDE DEF D
<1>7. \A n \in D : e[n] = step[<<n, e>>]
  BY <1>5, <1>6
<1> QED BY <1>7 DEF D

\* What Items finds from a position on, given what it finds from later ones
ItemsFrom(text, first, items, from) ==
  UNION {LET next == from + this.ate + 1
         IN  IF next > Len(text) THEN {<<this.item>>}
             ELSE {<<this.item>> \o others : others \in items[next]} :
           this \in first[from]}

LEMMA ItemsIs ==
  ASSUME NEW text, Len(text) \in Nat, NEW first,
         \A from \in 0 .. Len(text) : \A this \in first[from] : this.ate \in Nat
  PROVE  \E items : /\ Items(text, first) = items[0]
                    /\ \A from \in 0 .. Len(text) : items[from] = ItemsFrom(text, first, items, from)
<1> DEFINE N == Len(text)
           I == UNION {{this.item : this \in first[from]} : from \in 0 .. N}
           W == SUBSET Seq(I)
           step == [ne \in (0 .. N) \X [0 .. N -> W] |-> ItemsFrom(text, first, ne[2], ne[1])]
           is(items) == items = [from \in 0 .. N |-> ItemsFrom(text, first, items, from)]
<1>1. ASSUME NEW n \in 0 .. N, NEW this \in first[n]
      PROVE  /\ this.ate \in Nat /\ this.item \in I /\ n + this.ate + 1 > n
             /\ n + this.ate + 1 > N \/ n + this.ate + 1 \in 0 .. N
  OBVIOUS
<1>2. ASSUME NEW n \in 0 .. N, NEW e \in [0 .. N -> W] PROVE ItemsFrom(text, first, e, n) \in W
  <2> DEFINE next(this) == n + this.ate + 1
             found(this) == IF next(this) > N THEN {<<this.item>>}
                            ELSE {<<this.item>> \o others : others \in e[next(this)]}
  <2>1. ASSUME NEW this \in first[n] PROVE found(this) \subseteq Seq(I)
    <3>1. this.item \in I /\ (next(this) > N \/ next(this) \in 0 .. N)
      BY <1>1
    <3>2. <<this.item>> \in Seq(I)
      BY <3>1
    <3>3. CASE next(this) > N
      BY <3>2, <3>3
    <3>4. CASE ~(next(this) > N)
      <4>1. e[next(this)] \subseteq Seq(I)
        BY <3>1, <3>4
      <4> HIDE DEF next, I
      <4>2. \A others \in e[next(this)] : <<this.item>> \o others \in Seq(I)
        BY <3>2, <4>1
      <4> QED BY <3>4, <4>2
    <3> QED BY <3>3, <3>4
  <2>2. ItemsFrom(text, first, e, n) = UNION {found(this) : this \in first[n]}
    BY Zenon DEF ItemsFrom
  <2> HIDE DEF found
  <2> QED BY <2>1, <2>2
<1>3. step \in [(0 .. N) \X [0 .. N -> W] -> W] /\ {} \in W
  <2> HIDE DEF N, W
  <2>1. \A ne \in (0 .. N) \X [0 .. N -> W] : ItemsFrom(text, first, ne[2], ne[1]) \in W
    BY <1>2
  <2>2. step \in [(0 .. N) \X [0 .. N -> W] -> W]
    BY <2>1
  <2> QED BY <2>2 DEF W
<1>4. ASSUME NEW n \in 0 .. N, NEW e \in [0 .. N -> W], NEW d \in [0 .. N -> W],
             \A m \in 0 .. N : m > n => e[m] = d[m]
      PROVE  ItemsFrom(text, first, e, n) = ItemsFrom(text, first, d, n)
  <2> DEFINE next(this) == n + this.ate + 1
             found(this, f) == IF next(this) > N THEN {<<this.item>>}
                               ELSE {<<this.item>> \o others : others \in f[next(this)]}
  <2>1. ASSUME NEW this \in first[n] PROVE found(this, e) = found(this, d)
    <3>1. CASE next(this) > N
      BY <3>1
    <3>2. CASE ~(next(this) > N)
      <4>1. next(this) \in 0 .. N /\ next(this) > n
        BY <1>1, <3>2
      <4>2. e[next(this)] = d[next(this)]
        BY <1>4, <4>1
      <4> QED BY <3>2, <4>2, Zenon
    <3> QED BY <3>1, <3>2, Zenon
  <2>2. /\ ItemsFrom(text, first, e, n) = UNION {found(this, e) : this \in first[n]}
        /\ ItemsFrom(text, first, d, n) = UNION {found(this, d) : this \in first[n]}
    BY Zenon DEF ItemsFrom
  <2> HIDE DEF found
  <2>3. {found(this, e) : this \in first[n]} = {found(this, d) : this \in first[n]}
    BY <2>1
  <2> QED BY <2>2, <2>3, Zenon
<1>5. \A n \in 0 .. N : \A e \in [0 .. N -> W] : step[<<n, e>>] = ItemsFrom(text, first, e, n)
  OBVIOUS
<1> HIDE DEF step, W
<1>6. \A n \in 0 .. N : \A e, d \in [0 .. N -> W] :
        (\A m \in 0 .. N : m > n => e[m] = d[m]) => step[<<n, e>>] = step[<<n, d>>]
  <2> SUFFICES ASSUME NEW n \in 0 .. N, NEW e \in [0 .. N -> W], NEW d \in [0 .. N -> W],
                      \A m \in 0 .. N : m > n => e[m] = d[m]
               PROVE  step[<<n, e>>] = step[<<n, d>>]
    OBVIOUS
  <2> HIDE DEF N
  <2>1. step[<<n, e>>] = ItemsFrom(text, first, e, n) /\ step[<<n, d>>] = ItemsFrom(text, first, d, n)
    BY <1>5, Zenon
  <2>2. ItemsFrom(text, first, e, n) = ItemsFrom(text, first, d, n)
    BY <1>4, Zenon
  <2> QED BY <2>1, <2>2, Zenon
<1>7. PICK e \in [0 .. N -> W] : \A n \in 0 .. N : e[n] = step[<<n, e>>]
  <2>1. N \in Nat /\ 0 \in Nat
    OBVIOUS
  <2> HIDE DEF N
  <2>2. FromLater(0, N, W, step)
    BY <1>3, <1>6, Zenon DEF FromLater
  <2> QED BY <1>3, <2>1, <2>2, Backward
<1>8. \A n \in 0 .. N : e[n] = ItemsFrom(text, first, e, n)
  BY <1>5, <1>7
<1>9. is(e)
  <2> HIDE DEF N
  <2>1. e = [n \in 0 .. N |-> e[n]]
    BY <1>7
  <2> QED BY <1>8, <2>1
<1> DEFINE items == CHOOSE items : is(items)
<1>10. is(items)
  <2> HIDE DEF is
  <2> QED BY <1>9
<1>11. Items(text, first) = items[0]
  BY Zenon DEF Items, ItemsFrom
<1>12. ASSUME NEW from \in 0 .. Len(text) PROVE items[from] = ItemsFrom(text, first, items, from)
  <2> HIDE DEF items
  <2>1. items = [n \in 0 .. Len(text) |-> ItemsFrom(text, first, items, n)]
    BY <1>10
  <2> QED BY <2>1
<1> QED BY <1>11, <1>12

-----------------------------------------------------------------------------
(***************************************************************************)
(* What filters are written as                                             *)
(***************************************************************************)
JoinedFrom(texts, joined, n) ==
  IF n = Len(texts) THEN texts[n] ELSE texts[n] \o <<",">> \o joined[n + 1]

\* Sets that have, with two texts, both and a comma between them
Joins(S) == \A a, b \in S : a \o <<",">> \o b \in S

LEMMA JoinedIs ==
  ASSUME NEW S, NEW texts \in Seq(S), texts # <<>>, Joins(S)
  PROVE  \E joined : /\ joined \in [1 .. Len(texts) -> S] /\ Joined(texts) = joined[1]
                     /\ \A n \in 1 .. Len(texts) : joined[n] = JoinedFrom(texts, joined, n)
<1> DEFINE N == Len(texts)
           step == [ne \in (1 .. N) \X [1 .. N -> S] |-> JoinedFrom(texts, ne[2], ne[1])]
           is(joined) == joined = [n \in 1 .. N |-> JoinedFrom(texts, joined, n)]
<1>1. N \in Nat /\ N >= 1 /\ \A n \in 1 .. N : texts[n] \in S
  BY EmptySeq, LenProperties
<1>3. ASSUME NEW n \in 1 .. N, NEW e \in [1 .. N -> S] PROVE JoinedFrom(texts, e, n) \in S
  <2>1. CASE n = N
    BY <1>1, <2>1 DEF JoinedFrom
  <2>2. CASE n # N
    <3>1. n + 1 \in 1 .. N
      BY <1>1, <2>2
    <3>2. texts[n] \in S /\ e[n + 1] \in S
      BY <1>1, <3>1
    <3>3. texts[n] \o <<",">> \o e[n + 1] \in S
      BY <3>2, Zenon DEF Joins
    <3> QED BY <2>2, <3>3 DEF JoinedFrom
  <2> QED BY <2>1, <2>2
<1>4. ASSUME NEW n \in 1 .. N, NEW e \in [1 .. N -> S], NEW d \in [1 .. N -> S],
             \A m \in 1 .. N : m > n => e[m] = d[m]
      PROVE  JoinedFrom(texts, e, n) = JoinedFrom(texts, d, n)
  <2>1. CASE n = N
    BY <2>1 DEF JoinedFrom
  <2>2. CASE n # N
    <3>1. n + 1 \in 1 .. N /\ n + 1 > n
      BY <1>1, <2>2
    <3>2. e[n + 1] = d[n + 1]
      BY <1>4, <3>1
    <3> QED BY <3>2, Zenon DEF JoinedFrom
  <2> QED BY <2>1, <2>2
<1> HIDE DEF N
<1>5. \A n \in 1 .. N : \A e \in [1 .. N -> S] : step[<<n, e>>] = JoinedFrom(texts, e, n)
  BY DEF step
<1>6. step \in [(1 .. N) \X [1 .. N -> S] -> S]
  <2>1. \A ne \in (1 .. N) \X [1 .. N -> S] : JoinedFrom(texts, ne[2], ne[1]) \in S
    BY <1>3
  <2> QED BY <2>1
<1> HIDE DEF step
<1>7. FromLater(1, N, S, step)
  <2>1. ASSUME NEW n \in 1 .. N, NEW e \in [1 .. N -> S], NEW d \in [1 .. N -> S],
               \A m \in 1 .. N : m > n => e[m] = d[m]
        PROVE  step[<<n, e>>] = step[<<n, d>>]
    <3>1. step[<<n, e>>] = JoinedFrom(texts, e, n) /\ step[<<n, d>>] = JoinedFrom(texts, d, n)
      BY <1>5, Zenon
    <3>2. JoinedFrom(texts, e, n) = JoinedFrom(texts, d, n)
      BY <1>4, <2>1, Zenon
    <3> QED BY <3>1, <3>2, Zenon
  <2> QED BY <1>6, <2>1, Zenon DEF FromLater
<1>8. PICK e \in [1 .. N -> S] : \A n \in 1 .. N : e[n] = step[<<n, e>>]
  <2>1. PICK w : w \in S
    BY <1>1
  <2>2. N \in Nat /\ 1 \in Nat
    BY <1>1
  <2> QED BY <1>7, <2>1, <2>2, Backward
<1>9. is(e)
  <2>1. e = [n \in 1 .. N |-> e[n]]
    BY <1>8
  <2>2. \A n \in 1 .. N : e[n] = JoinedFrom(texts, e, n)
    BY <1>5, <1>8
  <2> QED BY <2>1, <2>2
<1> DEFINE joined == CHOOSE joined : is(joined)
<1>10. is(joined)
  <2> HIDE DEF is
  <2> QED BY <1>9
<1>11. Joined(texts) = joined[1]
  BY Zenon DEF Joined, JoinedFrom, N
<1> HIDE DEF joined
<1>12. joined = [n \in 1 .. N |-> JoinedFrom(texts, joined, n)]
  BY <1>10
<1>13. \A n \in 1 .. N : joined[n] = JoinedFrom(texts, joined, n)
  BY <1>12
<1> DEFINE T == {k \in Nat : \A n \in 1 .. N : n >= N - k => joined[n] \in S}
<1>14. 0 \in T
  <2>1. \A n \in 1 .. N : n >= N - 0 => n = N
    BY <1>1
  <2>2. joined[N] \in S
    <3>1. N \in 1 .. N /\ texts[N] \in S
      BY <1>1
    <3>2. JoinedFrom(texts, joined, N) = texts[N]
      BY Zenon DEF JoinedFrom, N
    <3> QED BY <1>13, <3>1, <3>2
  <2> QED BY <2>1, <2>2
<1>15. ASSUME NEW k \in Nat, k \in T PROVE k + 1 \in T
  <2> SUFFICES ASSUME NEW n \in 1 .. N, n >= N - (k + 1) PROVE joined[n] \in S
    OBVIOUS
  <2>1. CASE n = N
    BY <1>1, <1>13, <2>1 DEF JoinedFrom, N
  <2>2. CASE n # N
    <3>1. n + 1 \in 1 .. N /\ n + 1 >= N - k
      BY <1>1, <2>2
    <3>2. joined[n + 1] \in S
      BY <1>15, <3>1
    <3>3. texts[n] \o <<",">> \o joined[n + 1] \in S
      BY <1>1, <3>2, Zenon DEF Joins
    <3>4. joined[n] = texts[n] \o <<",">> \o joined[n + 1]
      BY <1>13, <2>2 DEF JoinedFrom, N
    <3> QED BY <3>3, <3>4
  <2> QED BY <2>1, <2>2
<1> HIDE DEF T
<1>16. Nat \subseteq T
  BY <1>14, <1>15, Induction
<1>17. N \in T
  BY <1>1, <1>16
<1>18. \A n \in 1 .. N : joined[n] \in S
  BY <1>1, <1>17 DEF T
<1>19. joined \in [1 .. N -> S]
  BY <1>12, <1>18
<1> QED BY <1>11, <1>13, <1>19 DEF N

LEMMA JoinedType ==
  ASSUME NEW texts \in Seq(Strings), texts # <<>>
  PROVE  Joined(texts) \in Strings
<1>0. ASSUME NEW a \in Strings, NEW b \in Strings PROVE a \o <<",">> \o b \in Strings
  <2>1. <<",">> \in Strings
    BY MarksAreTokens, OneToken, Zenon
  <2> QED BY <2>1, ConcatProperties DEF Strings
<1>1. PICK joined : joined \in [1 .. Len(texts) -> Strings] /\ Joined(texts) = joined[1]
  BY <1>0, JoinedIs DEF Joins
<1>2. 1 \in 1 .. Len(texts)
  BY EmptySeq, LenProperties
<1> QED BY <1>1, <1>2

Inner(filter, texts) == IF filter.kids = <<>> THEN filter.arg ELSE Joined(texts)

LEMMA WriteType ==
  ASSUME NEW f \in Filters, NEW texts \in [DOMAIN f.kids -> Strings]
  PROVE  /\ Inner(f, texts) \in Strings /\ f.op \in Tokens
         /\ WriteGiven(f, texts) = <<f.op>> \o (<<"(">> \o Inner(f, texts) \o <<")">>)
         /\ WriteGiven(f, texts) \in Strings
<1>1. Inner(f, texts) \in Strings
  <2>1. CASE f.kids = <<>>
    <3>1. f.arg \in Strings
      BY ArgumentAssumption, Zenon DEF Strings
    <3> QED BY <2>1, <3>1, Zenon DEF Inner
  <2>2. CASE f.kids # <<>>
    <3>1. f.kids \in Seq(Filters) /\ DOMAIN f.kids = 1 .. Len(f.kids) /\ Len(f.kids) \in Nat
      BY FilterAssumption, Parts
    <3>2. Len(f.kids) # 0
      BY <2>2, <3>1, EmptySeq
    <3>3. texts \in Seq(Strings) /\ Len(texts) = Len(f.kids)
      BY <3>1
    <3>4. texts # <<>>
      BY <3>2, <3>3, EmptySeq
    <3>5. Joined(texts) \in Strings
      BY <3>3, <3>4, JoinedType
    <3> QED BY <2>2, <3>5, Zenon DEF Inner
  <2> QED BY <2>1, <2>2
<1>2. f.op \in Ops
  BY FilterAssumption DEF Ops
<1>3. f.op \in Tokens /\ "(" \in Tokens /\ ")" \in Tokens
  BY <1>2, MarksAreTokens
<1> DEFINE inner == Inner(f, texts)
           open == "("
           close == ")"
           op == f.op
<1>4. WriteGiven(f, texts) = <<op, open>> \o inner \o <<close>>
  BY Zenon DEF WriteGiven, Inner
<1>5. open \in Tokens /\ close \in Tokens /\ op \in Tokens /\ inner \in Strings
  BY <1>1, <1>3
<1> HIDE DEF inner, open, close, op
<1>6. <<op, open>> = <<op>> \o <<open>>
  BY <1>5
<1>7. <<op>> \in Seq(Tokens) /\ <<open>> \in Seq(Tokens) /\ <<close>> \in Seq(Tokens) /\ inner \in Seq(Tokens)
  BY <1>5, OneToken DEF Strings
<1>8. /\ (<<op>> \o <<open>>) \o inner = <<op>> \o (<<open>> \o inner)
      /\ <<open>> \o inner \in Seq(Tokens)
  BY <1>7, ConcatAssociative, ConcatProperties
<1>9. (<<op>> \o (<<open>> \o inner)) \o <<close>> = <<op>> \o ((<<open>> \o inner) \o <<close>>)
  <2> DEFINE a == <<op>>
             b == <<open>> \o inner
             c == <<close>>
  <2>1. a \in Seq(Tokens) /\ b \in Seq(Tokens) /\ c \in Seq(Tokens)
    BY <1>7, <1>8
  <2> HIDE DEF a, b, c
  <2>2. (a \o b) \o c = a \o (b \o c)
    BY <2>1, ConcatAssociative
  <2> QED BY <2>2 DEF a, b, c
<1>10. <<op>> \o ((<<open>> \o inner) \o <<close>>) \in Seq(Tokens)
  BY <1>7, <1>8, ConcatProperties
<1>11. WriteGiven(f, texts) = <<op>> \o (<<open>> \o inner \o <<close>>)
  BY <1>4, <1>6, <1>8, <1>9
<1> QED BY <1>1, <1>3, <1>10, <1>11 DEF inner, op, open, close, Strings

LEMMA WrittenIs ==
  /\ Written \in [Filters -> Strings]
  /\ \A f \in Filters : Written[f] = WriteGiven(f, OfParts(f, Written))
<1> DEFINE step == [fe \in Filters \X Tuples(Strings) |->
                      IF WriteGiven(fe[1], fe[2]) \in Strings THEN WriteGiven(fe[1], fe[2]) ELSE <<>>]
           written(w) == w = [f \in Filters |-> WriteGiven(f, OfParts(f, w))]
<1>0. <<>> \in Strings
  BY EmptySeq, Zenon DEF Strings
<1>1. step \in [Filters \X Tuples(Strings) -> Strings]
  BY <1>0
<1>2. \A f \in Filters, texts \in Tuples(Strings) :
        WriteGiven(f, texts) \in Strings => step[<<f, texts>>] = WriteGiven(f, texts)
  OBVIOUS
<1> HIDE DEF step
<1>3. PICK e \in [Filters -> Strings] : \A f \in Filters : e[f] = step[<<f, OfParts(f, e)>>]
  <2>1. PICK w : w \in Strings
    BY <1>0
  <2> QED BY <1>1, <2>1, FilterRecursion
<1>4. ASSUME NEW f \in Filters PROVE e[f] = WriteGiven(f, OfParts(f, e))
  <2>1. OfParts(f, e) \in Tuples(Strings) /\ OfParts(f, e) \in [DOMAIN f.kids -> Strings]
    BY OfPartsIs
  <2>2. WriteGiven(f, OfParts(f, e)) \in Strings
    BY <2>1, WriteType
  <2> QED BY <1>2, <1>3, <2>1, <2>2
<1>5. written(e)
  BY <1>3, <1>4
<1>6. Written = CHOOSE w : written(w)
  BY Zenon DEF Written, OfParts
<1>7. written(Written)
  <2> HIDE DEF written
  <2> QED BY <1>5, <1>6
<1>8. \A f \in Filters : Written[f] = WriteGiven(f, OfParts(f, Written))
  BY <1>7, Zenon
<1> DEFINE T == {f \in Filters : Written[f] \in Strings}
<1>9. ASSUME NEW f \in Filters, \A i \in DOMAIN f.kids : f.kids[i] \in T PROVE f \in T
  <2>1. \A i \in DOMAIN f.kids : Written[f.kids[i]] \in Strings
    BY <1>9
  <2>2. OfParts(f, Written) \in [DOMAIN f.kids -> Strings]
    BY <2>1, Zenon DEF OfParts
  <2>3. WriteGiven(f, OfParts(f, Written)) \in Strings
    BY <2>2, WriteType
  <2> QED BY <1>8, <2>3
<1> HIDE DEF T
<1>10. Filters \subseteq T
  BY <1>9, FilterInduction
<1>11. \A f \in Filters : Written[f] \in Strings
  BY <1>10 DEF T
<1>12. Written = [f \in Filters |-> Written[f]]
  BY <1>7, Zenon
<1> QED BY <1>8, <1>11, <1>12, Zenon

-----------------------------------------------------------------------------
(***************************************************************************)
(* What parse finds: a function on all texts, since it looks at what is    *)
(* inside of parentheses only, which is shorter                            *)
(***************************************************************************)
Same(e, d, n) == \A text \in Strings : Len(text) < n => e[text] = d[text]

LEMMA FromShorter ==
  ASSUME NEW inner \in Strings, NEW from, NEW rest \in From(inner, from)
  PROVE  rest \in Strings /\ Len(rest) <= Len(inner)
<1>1. PICK i \in 1 .. Len(inner) + 1 : rest = SubSeq(inner, i, Len(inner))
  BY DEF From
<1>2. Len(inner) \in Nat
  BY DEF Strings
<1> QED BY <1>1, <1>2 DEF Strings

LEMMA BeforeType ==
  ASSUME NEW text \in Strings, NEW i \in 1 .. Len(text) + 1
  PROVE  Before(text, i) \in Nat
<1> DEFINE head == SubSeq(text, 1, i - 1)
<1>1. Len(text) \in Nat
  BY DEF Strings
<1>2. head \in Strings
  BY <1>1 DEF Strings
<1> HIDE DEF head
<1>3. Len(head) \in Nat /\ DOMAIN head = 1 .. Len(head)
  BY <1>2 DEF Strings
<1>4. IsFiniteSet({k \in DOMAIN head : head[k] \in Wide})
  <2>1. IsFiniteSet(1 .. Len(head)) /\ {k \in DOMAIN head : head[k] \in Wide} \subseteq 1 .. Len(head)
    BY <1>3, FS_Interval
  <2> QED BY <2>1, FS_Subset
<1>5. Bytes(head) \in Nat
  BY <1>3, <1>4, FS_CardinalityType DEF Bytes
<1> QED BY <1>5 DEF Before, head

LEMMA CharsShorter ==
  ASSUME NEW text \in Strings, text # <<>>, NEW from \in Nat, from > 0, NEW n \in Int
  PROVE  Chars(text, from, n) \in Strings /\ Len(Chars(text, from, n)) < Len(text)
<1>1. Len(text) \in Nat /\ Len(text) > 0
  BY EmptySeq DEF Strings
<1> DEFINE to == IF from + n < Len(text) THEN from + n ELSE Len(text)
<1>2. to \in Int /\ to <= Len(text)
  BY <1>1
<1>3. Chars(text, from, n) = SubSeq(text, from + 1, to)
  BY Zenon DEF Chars
<1> HIDE DEF to
<1>4. SubSeq(text, from + 1, to) \in Seq(Tokens) /\ Len(SubSeq(text, from + 1, to)) < Len(text)
  BY <1>1, <1>2 DEF Strings
<1> QED BY <1>3, <1>4 DEF Strings

LEMMA MinIs ==
  ASSUME NEW S, S \subseteq Nat, S # {}
  PROVE  Min(S) \in S /\ \A y \in S : Min(S) <= y
<1>1. \E x \in S : \A y \in S : x <= y
  BY Least
<1> QED BY <1>1 DEF Min

\* Where a text opens its first parenthesis
Opens(text) == {i \in DOMAIN text : text[i] = "("}
Opening(text) == Before(text, Min(Opens(text)))

LEMMA OpeningType ==
  ASSUME NEW text \in Strings, Opens(text) # {}
  PROVE  Opening(text) \in Nat /\ text # <<>>
<1>1. DOMAIN text = 1 .. Len(text) /\ Len(text) \in Nat
  BY DEF Strings
<1>2. Opens(text) \subseteq Nat
  BY <1>1 DEF Opens
<1>3. Min(Opens(text)) \in DOMAIN text
  BY <1>2, MinIs DEF Opens
<1>4. Min(Opens(text)) \in 1 .. Len(text) + 1 /\ Len(text) # 0
  BY <1>1, <1>3
<1>5. Opening(text) \in Nat
  BY <1>4, BeforeType DEF Opening
<1>6. text # <<>>
  BY <1>4, EmptySeq
<1> QED BY <1>5, <1>6

LEMMA ClosingType ==
  ASSUME NEW text \in Strings, NEW idx \in Nat, NEW closing \in Closing(text, idx)
  PROVE  closing \in Nat
<1>1. PICK j \in idx + 1 .. Len(text) : closing = Before(text, j)
  BY DEF Closing
<1>2. j \in 1 .. Len(text) + 1
  BY <1>1 DEF Strings
<1> QED BY <1>1, <1>2, BeforeType

\* What a pair of parentheses makes of a text
Found(text, parse, closing) ==
  {[item |-> filter, ate |-> closing + 1] :
     filter \in Operator(Chars(text, 0, Opening(text)),
                         Chars(text, Opening(text) + 1, closing - Opening(text) - 1), parse)}

LEMMA ParseGivenIs ==
  ASSUME NEW text, NEW parse
  PROVE  ParseGiven(text, parse) =
           IF Opens(text) = {} THEN {}
           ELSE UNION {Found(text, parse, closing) : closing \in Closing(text, Opening(text))}
BY Zenon DEF ParseGiven, Opens, Opening, Found

LEMMA ParseGivenType ==
  ASSUME NEW text \in Strings, NEW parse, NEW result \in ParseGiven(text, parse)
  PROVE  result.ate \in Nat
<1>1. Opens(text) # {} /\ result \in UNION {Found(text, parse, closing) : closing \in Closing(text, Opening(text))}
  BY ParseGivenIs, Zenon
<1>2. PICK closing \in Closing(text, Opening(text)) : result \in Found(text, parse, closing)
  BY <1>1
<1>3. closing \in Nat
  BY <1>1, <1>2, OpeningType, ClosingType
<1>4. result.ate = closing + 1
  BY <1>2 DEF Found
<1> QED BY <1>3, <1>4

LEMMA OperatorSame ==
  ASSUME NEW name, NEW inner \in Strings, NEW e, NEW d, Same(e, d, Len(inner) + 1)
  PROVE  Operator(name, inner, e) = Operator(name, inner, d)
<1>0. Len(inner) \in Nat
  BY DEF Strings
<1>1. \A text \in Strings : Len(text) <= Len(inner) => e[text] = d[text]
  <2> SUFFICES ASSUME NEW text \in Strings, Len(text) <= Len(inner) PROVE e[text] = d[text]
    OBVIOUS
  <2>1. Len(text) \in Nat
    BY DEF Strings
  <2>2. Len(text) < Len(inner) + 1
    BY <1>0, <2>1
  <2> QED BY <2>2 DEF Same
<1>2. e[inner] = d[inner]
  BY <1>0, <1>1
<1>3. \A from : \A rest \in From(inner, from) : e[rest] = d[rest]
  BY <1>1, FromShorter
<1> DEFINE heads(f, from) == UNION {f[rest] : rest \in From(inner, from)}
<1>4. \A from : heads(e, from) = heads(d, from)
  <2> TAKE from
  <2>1. {e[rest] : rest \in From(inner, from)} = {d[rest] : rest \in From(inner, from)}
    BY <1>3
  <2> QED BY <2>1, Zenon
<1>5. Children(inner, e) = Children(inner, d)
  <2>1. /\ Children(inner, e) = Items(inner, [from \in 0 .. Len(inner) |-> heads(e, from)])
        /\ Children(inner, d) = Items(inner, [from \in 0 .. Len(inner) |-> heads(d, from)])
    BY Zenon DEF Children
  <2> HIDE DEF heads
  <2>2. [from \in 0 .. Len(inner) |-> heads(e, from)] = [from \in 0 .. Len(inner) |-> heads(d, from)]
    BY <1>4
  <2> QED BY <2>1, <2>2, Zenon
<1> QED BY <1>2, <1>5, Zenon DEF Operator

LEMMA ParseGivenSame ==
  ASSUME NEW text \in Strings, NEW e, NEW d, Same(e, d, Len(text))
  PROVE  ParseGiven(text, e) = ParseGiven(text, d)
<1> SUFFICES ASSUME Opens(text) # {} PROVE ParseGiven(text, e) = ParseGiven(text, d)
  BY ParseGivenIs, Zenon
<1>1. Len(text) \in Nat /\ Opening(text) \in Nat /\ text # <<>>
  BY OpeningType DEF Strings
<1>2. ASSUME NEW closing \in Closing(text, Opening(text)) PROVE Found(text, e, closing) = Found(text, d, closing)
  <2> DEFINE from == Opening(text) + 1
             n == closing - Opening(text) - 1
             inner == Chars(text, from, n)
  <2>1. from \in Nat /\ from > 0 /\ n \in Int
    BY <1>1, ClosingType
  <2> HIDE DEF from, n
  <2>2. inner \in Strings /\ Len(inner) < Len(text)
    BY <1>1, <2>1, CharsShorter
  <2> HIDE DEF inner
  <2>3. Same(e, d, Len(inner) + 1)
    <3> SUFFICES ASSUME NEW rest \in Strings, Len(rest) < Len(inner) + 1 PROVE e[rest] = d[rest]
      BY DEF Same
    <3>1. Len(rest) < Len(text)
      BY <1>1, <2>2 DEF Strings
    <3> QED BY <3>1 DEF Same
  <2>4. Operator(Chars(text, 0, Opening(text)), inner, e) = Operator(Chars(text, 0, Opening(text)), inner, d)
    BY <2>2, <2>3, OperatorSame
  <2> QED BY <2>4, Zenon DEF Found, inner, from, n
<1>3. {Found(text, e, closing) : closing \in Closing(text, Opening(text))}
        = {Found(text, d, closing) : closing \in Closing(text, Opening(text))}
  BY <1>2
<1> QED BY <1>3, ParseGivenIs, Zenon

\* A function that is right on the texts shorter than n
RightBelow(e, n) == /\ e = [text \in Strings |-> e[text]]
                    /\ \A text \in Strings : Len(text) < n => e[text] = ParseGiven(text, e)

LEMMA ParseIs == /\ Parse = [text \in Strings |-> Parse[text]]
                 /\ \A text \in Strings : Parse[text] = ParseGiven(text, Parse)
<1>0. \A text \in Strings : Len(text) \in Nat
  BY DEF Strings
<1> DEFINE is(p) == p = [text \in Strings |-> ParseGiven(text, p)]
<1>1. \A n \in Nat : \E e : RightBelow(e, n)
  <2> DEFINE T == {n \in Nat : \E e : RightBelow(e, n)}
  <2>1. 0 \in T
    <3> DEFINE e == [text \in Strings |-> {}]
    <3>1. e = [text \in Strings |-> e[text]]
      OBVIOUS
    <3>2. \A text \in Strings : ~(Len(text) < 0)
      BY <1>0
    <3> HIDE DEF e
    <3>3. RightBelow(e, 0)
      BY <3>1, <3>2 DEF RightBelow
    <3> QED BY <3>3
  <2>2. ASSUME NEW n \in Nat, n \in T PROVE n + 1 \in T
    <3>1. PICK e : RightBelow(e, n)
      BY <2>2
    <3> DEFINE d == [text \in Strings |-> ParseGiven(text, e)]
    <3>2. d = [text \in Strings |-> d[text]] /\ \A text \in Strings : d[text] = ParseGiven(text, e)
      OBVIOUS
    <3> HIDE DEF d
    <3>3. Same(d, e, n)
      BY <3>1, <3>2 DEF RightBelow, Same
    <3>4. ASSUME NEW text \in Strings, Len(text) < n + 1 PROVE d[text] = ParseGiven(text, d)
      <4>1. Same(d, e, Len(text))
        <5>1. \A s \in Strings : Len(s) < Len(text) => Len(s) < n
          BY <1>0, <3>4
        <5> QED BY <3>3, <5>1 DEF Same
      <4>2. ParseGiven(text, d) = ParseGiven(text, e)
        BY <4>1, ParseGivenSame
      <4> QED BY <3>2, <4>2
    <3>5. RightBelow(d, n + 1)
      BY <3>2, <3>4 DEF RightBelow
    <3> QED BY <3>5
  <2> HIDE DEF T
  <2>3. Nat \subseteq T
    BY <2>1, <2>2, Induction
  <2> QED BY <2>3 DEF T
<1>2. ASSUME NEW n \in Nat, NEW m \in Nat, n <= m, NEW e, NEW d, RightBelow(e, n), RightBelow(d, m) PROVE Same(e, d, n)
  <2> DEFINE T == {k \in Nat : k <= n => Same(e, d, k)}
  <2>1. 0 \in T
    BY <1>0 DEF Same
  <2>2. ASSUME NEW k \in Nat, k \in T PROVE k + 1 \in T
    <3> SUFFICES ASSUME k + 1 <= n, NEW text \in Strings, Len(text) < k + 1 PROVE e[text] = d[text]
      BY DEF Same
    <3>1. Len(text) < n /\ Len(text) < m /\ k <= n /\ Len(text) <= k
      BY <1>0, <1>2
    <3>2. Same(e, d, Len(text))
      <4>1. \A s \in Strings : Len(s) < Len(text) => Len(s) < k
        BY <1>0, <3>1
      <4> QED BY <2>2, <3>1, <4>1 DEF Same
    <3>3. ParseGiven(text, e) = ParseGiven(text, d)
      BY <3>2, ParseGivenSame
    <3> QED BY <1>2, <3>1, <3>3 DEF RightBelow
  <2> HIDE DEF T
  <2>3. Nat \subseteq T
    BY <2>1, <2>2, Induction
  <2>4. n \in T
    BY <2>3
  <2> QED BY <2>4 DEF T
<1> DEFINE G(n) == CHOOSE e : RightBelow(e, n)
           p == [text \in Strings |-> G(Len(text) + 1)[text]]
<1>3. \A n \in Nat : RightBelow(G(n), n)
  BY <1>1
<1> HIDE DEF G
<1>4. \A text \in Strings : p[text] = G(Len(text) + 1)[text]
  OBVIOUS
<1>5. p = [text \in Strings |-> p[text]]
  OBVIOUS
<1> HIDE DEF p
<1>6. ASSUME NEW text \in Strings PROVE p[text] = ParseGiven(text, p)
  <2> DEFINE n == Len(text) + 1
  <2>1. n \in Nat /\ Len(text) < n
    BY <1>0
  <2>2. Same(G(n), p, Len(text))
    <3> SUFFICES ASSUME NEW s \in Strings, Len(s) < Len(text) PROVE G(n)[s] = p[s]
      BY DEF Same
    <3> DEFINE m == Len(s) + 1
    <3>1. m \in Nat /\ m <= n /\ Len(s) < m
      BY <1>0
    <3> HIDE DEF n, m
    <3>2. Same(G(m), G(n), m)
      BY <1>2, <1>3, <2>1, <3>1
    <3>3. G(m)[s] = G(n)[s]
      BY <3>1, <3>2 DEF Same
    <3> QED BY <1>4, <3>3 DEF m
  <2> HIDE DEF n
  <2>3. G(n)[text] = ParseGiven(text, G(n))
    BY <1>3, <2>1 DEF RightBelow
  <2>4. ParseGiven(text, G(n)) = ParseGiven(text, p)
    BY <2>2, ParseGivenSame
  <2> QED BY <1>4, <2>3, <2>4 DEF n
<1>7. is(p)
  BY <1>5, <1>6
<1>8. Parse = CHOOSE q : is(q)
  BY Zenon DEF Parse, Strings
<1>9. is(Parse)
  <2> HIDE DEF is
  <2> QED BY <1>7, <1>8
<1> QED BY <1>9, Zenon

-----------------------------------------------------------------------------
(***************************************************************************)
(* What is written is parsed back.                                         *)
(***************************************************************************)
LEMMA Middle ==
  ASSUME NEW a \in Strings, NEW b \in Strings, NEW c \in Strings
  PROVE  SubSeq(a \o (b \o c), Len(a) + 1, Len(a) + Len(b)) = b
<1> DEFINE bc == b \o c
           t == a \o bc
           d == SubSeq(t, Len(a) + 1, Len(a) + Len(b))
<1>1. Len(a) \in Nat /\ Len(b) \in Nat /\ Len(c) \in Nat
  BY DEF Strings
<1>2. bc \in Strings /\ Len(bc) = Len(b) + Len(c)
  BY TextConcat
<1>2a. \A i \in 1 .. Len(b) : bc[i] = b[i]
  <2> SUFFICES ASSUME NEW i \in 1 .. Len(b) PROVE bc[i] = b[i]
    OBVIOUS
  <2>1. i \in 1 .. Len(b) + Len(c) /\ i <= Len(b)
    BY <1>1
  <2> QED BY <2>1, TextIndex
<1> HIDE DEF bc
<1>3. t \in Strings /\ Len(t) = Len(a) + Len(b) + Len(c)
  <2>1. t \in Strings /\ Len(t) = Len(a) + Len(bc)
    BY <1>2, TextConcat
  <2> QED BY <1>1, <1>2, <2>1
<1>4. ASSUME NEW i \in 1 .. Len(b) PROVE t[Len(a) + i] = b[i]
  <2>1. Len(a) + i \in 1 .. Len(a) + Len(bc) /\ ~(Len(a) + i <= Len(a)) /\ Len(a) + i - Len(a) = i
    BY <1>1, <1>2
  <2>2. t[Len(a) + i] = bc[Len(a) + i - Len(a)]
    BY <1>2, <2>1, TextIndex
  <2> QED BY <1>2a, <2>1, <2>2
<1> HIDE DEF t
<1>5. \A i \in Len(a) + 1 .. Len(a) + Len(b) : t[i] \in Tokens
  BY <1>1, <1>3 DEF Strings
<1>6. /\ d \in Strings /\ Len(d) = Len(b)
      /\ \A i \in 1 .. Len(b) : d[i] = t[Len(a) + 1 + i - 1]
  BY <1>1, <1>3 DEF Strings
<1>7. ASSUME NEW i \in 1 .. Len(b) PROVE d[i] = b[i]
  <2>1. Len(a) + 1 + i - 1 = Len(a) + i
    BY <1>1
  <2> QED BY <1>4, <1>6, <2>1
<1> HIDE DEF d
<1>8. d = b
  BY <1>6, <1>7, SeqEqual DEF Strings
<1> QED BY <1>8 DEF d, t, bc

\* A text behind one token
LEMMA Behind ==
  ASSUME NEW x \in Tokens, NEW q \in Strings, NEW n \in 0 .. Len(q)
  PROVE  SubSeq(<<x>> \o q, 2, n + 1) = SubSeq(q, 1, n)
<1> DEFINE h == SubSeq(q, 1, n)
           r == SubSeq(q, n + 1, Len(q))
           one == <<x>>
<1>1. Len(q) \in Nat /\ one \in Strings /\ Len(one) = 1
  BY OneToken DEF Strings
<1>2. h \in Strings /\ r \in Strings /\ Len(h) = n
  BY <1>1 DEF Strings
<1>3. SubSeq(q, 1, n) \o SubSeq(q, n + 1, Len(q)) = SubSeq(q, 1, Len(q))
  <2>1. 1 \in 1 .. Len(q) + 1 /\ n \in 1 - 1 .. Len(q) /\ Len(q) \in n .. Len(q)
    BY <1>1
  <2> QED BY <2>1, ConcatAdjacentSubSeq DEF Strings
<1>4. SubSeq(q, 1, Len(q)) = q
  BY SubSeqFull DEF Strings
<1>5. q = h \o r
  BY <1>3, <1>4
<1> HIDE DEF h, r, one
<1>6. SubSeq(one \o (h \o r), Len(one) + 1, Len(one) + Len(h)) = h
  BY <1>1, <1>2, Middle
<1>7. Len(one) + 1 = 2 /\ Len(one) + Len(h) = n + 1
  BY <1>1, <1>2
<1> QED BY <1>5, <1>6, <1>7 DEF one, h

LEMMA OpsAreWords == \A op \in Ops : op \in Tokens /\ op # "(" /\ op \notin Wide
<1>1. \A op \in Ops : op \in Tokens /\ op \notin Wide
  BY TokenAssumption, Zenon
<1>2. "(" \notin Ops
  BY DEF Ops, Operators, Reading, Knowing
<1> QED BY <1>1, <1>2

LEMMA OpsAreNames == \A op \in Ops : op # "(" /\ op # ")"
<1>1. "(" \notin Ops /\ ")" \notin Ops
  BY DEF Ops, Operators, Reading, Knowing
<1> QED BY <1>1, Zenon

\* An operator and what is between its parentheses, whatever follows
LEMMA OfOperator ==
  ASSUME NEW op \in Ops, NEW inner \in Strings, Closed(inner), NEW rest \in Strings, NEW parse,
         Ascii(<<op>> \o (<<"(">> \o inner \o <<")">>) \o rest)
  PROVE  ParseGiven(<<op>> \o (<<"(">> \o inner \o <<")">>) \o rest, parse)
           = {[item |-> filter, ate |-> Len(inner) + 3] : filter \in Operator(<<op>>, inner, parse)}
<1> DEFINE name == <<op>>
           open == <<"(">>
           close == <<")">>
           p == open \o inner \o close
           q == p \o rest
           L == Len(inner)
           text == name \o p \o rest
<1>1. "(" \in Tokens /\ ")" \in Tokens /\ op \in Tokens /\ op # "("
  BY MarksAreTokens, OpsAreWords, Zenon
<1>2. /\ name \in Strings /\ open \in Strings /\ close \in Strings
      /\ Len(name) = 1 /\ Len(open) = 1 /\ Len(close) = 1
  BY <1>1, OneToken, Zenon
<1>3. L \in Nat /\ Len(rest) \in Nat
  BY DEF Strings
<1>4. p \in Strings /\ Len(p) = L + 2
  <2> HIDE DEF open, close
  <2>1. open \o inner \in Strings /\ Len(open \o inner) = Len(open) + Len(inner)
    BY <1>2, TextConcat, Zenon
  <2>2. p \in Strings /\ Len(p) = Len(open \o inner) + Len(close)
    BY <1>2, <2>1, TextConcat, Zenon
  <2> HIDE DEF p
  <2> QED BY <1>2, <1>3, <2>1, <2>2
<1>5. Depth(p) = 0 /\ \A n \in 0 .. L : Depth(SubSeq(p, 1, n + 1)) > 0
  BY Inside, Zenon
<1>6. q = open \o (inner \o (close \o rest)) /\ inner \o (close \o rest) \in Strings /\ close \o rest \in Strings
  <2> HIDE DEF open, close
  <2>1. close \o rest \in Strings /\ open \o inner \in Strings
    BY <1>2, TextConcat
  <2>2. ((open \o inner) \o close) \o rest = (open \o inner) \o (close \o rest)
    <3> DEFINE oi == open \o inner
    <3>1. oi \in Strings
      BY <2>1
    <3> HIDE DEF oi
    <3>2. (oi \o close) \o rest = oi \o (close \o rest)
      BY <1>2, <3>1, TextAssociative, Zenon
    <3> QED BY <3>2 DEF oi
  <2>3. (open \o inner) \o (close \o rest) = open \o (inner \o (close \o rest))
    <3> DEFINE cr == close \o rest
    <3>1. open \in Strings /\ cr \in Strings
      BY <1>2, <2>1
    <3> HIDE DEF cr
    <3>2. (open \o inner) \o cr = open \o (inner \o cr)
      BY <3>1, TextAssociative, Zenon
    <3> QED BY <3>2 DEF cr
  <2>4. inner \o (close \o rest) \in Strings
    BY <2>1, TextConcat
  <2> QED BY <2>1, <2>2, <2>3, <2>4 DEF Strings
<1> HIDE DEF p
<1>7. q \in Strings /\ Len(q) = L + 2 + Len(rest)
  BY <1>3, <1>4, TextConcat
<1>8. text = name \o q
  <2>1. name \in Strings /\ p \in Strings
    BY <1>2, <1>4
  <2> HIDE DEF name
  <2>2. (name \o p) \o rest = name \o (p \o rest)
    BY <2>1, TextAssociative, Zenon
  <2> QED BY <2>2
<1>9. text \in Strings /\ Len(text) = L + 3 + Len(rest) /\ text[1] = op /\ text[2] = "("
  <2>1. name \o q \in Strings /\ Len(name \o q) = 1 + Len(q)
    BY <1>2, <1>7, TextConcat
  <2>2. (name \o q)[1] = name[1] /\ (name \o q)[2] = q[1]
    <3> HIDE DEF name, q
    <3>1. /\ Len(name) \in Nat /\ Len(name) >= 1 /\ 2 \in 1 .. Len(name) + Len(q)
          /\ ~(2 <= Len(name)) /\ 2 - Len(name) = 1
      BY <1>2, <1>3, <1>7
    <3>2. (name \o q)[1] = name[1]
      BY <1>2, <1>7, <3>1, Head1
    <3> DEFINE two == 2
    <3>3. two \in 1 .. Len(name) + Len(q) /\ ~(two <= Len(name)) /\ two - Len(name) = 1
      BY <3>1
    <3> HIDE DEF two
    <3>4. (name \o q)[two] = IF two <= Len(name) THEN name[two] ELSE q[two - Len(name)]
      BY <1>2, <1>7, <3>3, TextIndex, Zenon
    <3>5. (name \o q)[two] = q[1]
      BY <3>3, <3>4, Zenon
    <3> QED BY <3>2, <3>5 DEF two
  <2>3. q[1] = open[1]
    <3> DEFINE r == inner \o (close \o rest)
    <3>1. r \in Strings /\ q = open \o r
      BY <1>6
    <3> HIDE DEF r, q, open
    <3>2. Len(open) >= 1
      BY <1>2
    <3>3. (open \o r)[1] = open[1]
      BY <1>2, <3>1, <3>2, Head1
    <3> QED BY <3>1, <3>3
  <2>4. name[1] = op /\ open[1] = "("
    OBVIOUS
  <2> HIDE DEF text, name, open, q
  <2>5. text \in Strings /\ Len(text) = 1 + Len(q)
    BY <1>8, <2>1
  <2>6. text[1] = op
    BY <1>8, <2>2, <2>4, Zenon
  <2>7. text[2] = "("
    BY <1>8, <2>2, <2>3, <2>4, Zenon
  <2> QED BY <1>3, <1>7, <2>5, <2>6, <2>7 DEF Strings
<1>10. Ascii(text)
  BY Zenon DEF p
<1> HIDE DEF text, q
<1>11. \A i \in 1 .. Len(text) + 1 : Before(text, i) = i - 1
  BY <1>9, <1>10, Positions
<1>12. Opens(text) # {} /\ Opening(text) = 1
  <2>1. DOMAIN text = 1 .. Len(text)
    BY <1>9 DEF Strings
  <2>2. 2 \in Opens(text) /\ 1 \notin Opens(text) /\ Opens(text) \subseteq Nat /\ 0 \notin Opens(text)
    <3>1. 2 \in DOMAIN text /\ 0 \notin DOMAIN text /\ DOMAIN text \subseteq Nat
      BY <1>3, <1>9, <2>1
    <3> QED BY <1>1, <1>9, <3>1 DEF Opens
  <2>3. Min(Opens(text)) \in Opens(text) /\ Min(Opens(text)) <= 2
    BY <2>2, MinIs
  <2>4. Min(Opens(text)) = 2
    BY <2>2, <2>3
  <2>5. 2 \in 1 .. Len(text) + 1
    BY <1>3, <1>9
  <2> QED BY <1>11, <2>2, <2>4, <2>5 DEF Opening
<1>13. \A n \in 0 .. Len(p) : SubSeq(text, 2, n + 1) = SubSeq(p, 1, n)
  <2> SUFFICES ASSUME NEW n \in 0 .. Len(p) PROVE SubSeq(text, 2, n + 1) = SubSeq(p, 1, n)
    OBVIOUS
  <2>1. n \in 0 .. Len(q)
    BY <1>3, <1>4, <1>7
  <2>2. SubSeq(text, 2, n + 1) = SubSeq(q, 1, n)
    BY <1>1, <1>7, <1>8, <2>1, Behind
  <2>3. SubSeq(q, 1, n) = SubSeq(p, 1, n)
    BY <1>4, TextSlices DEF q
  <2> QED BY <2>2, <2>3
<1>14. ASSUME NEW k \in 2 .. L + 2 PROVE Depth(SubSeq(text, 2, k)) > 0
  <2> DEFINE n == k - 2
  <2>1. n \in 0 .. L /\ n + 1 \in 0 .. Len(p) /\ n + 1 + 1 = k
    BY <1>3, <1>4
  <2> HIDE DEF n
  <2>2. SubSeq(text, 2, n + 1 + 1) = SubSeq(p, 1, n + 1)
    BY <1>13, <2>1
  <2>3. Depth(SubSeq(p, 1, n + 1)) > 0
    BY <1>5, <2>1
  <2> QED BY <2>1, <2>2, <2>3
<1>15. Depth(SubSeq(text, 2, L + 3)) = 0
  <2>1. Len(p) \in 0 .. Len(p) /\ Len(p) + 1 = L + 3
    BY <1>3, <1>4
  <2>2. SubSeq(text, 2, Len(p) + 1) = SubSeq(p, 1, Len(p))
    BY <1>13, <2>1
  <2>3. SubSeq(p, 1, Len(p)) = p
    BY <1>4, SubSeqFull DEF Strings
  <2> QED BY <1>5, <2>1, <2>2, <2>3
<1>16. Closing(text, 1) = {L + 2}
  <2> DEFINE J == {j \in 1 + 1 .. Len(text) : /\ Depth(SubSeq(text, 1 + 1, j)) = 0
                                              /\ \A k \in 1 + 1 .. j - 1 : Depth(SubSeq(text, 1 + 1, k)) > 0}
  <2>1. 1 + 1 = 2
    OBVIOUS
  <2>2. L + 3 \in J
    <3>1. L + 3 \in 2 .. Len(text) /\ (L + 3) - 1 = L + 2
      BY <1>3, <1>9
    <3>2. \A k \in 2 .. (L + 3) - 1 : Depth(SubSeq(text, 2, k)) > 0
      BY <1>14, <3>1
    <3> QED BY <1>15, <2>1, <3>1, <3>2
  <2>3. ASSUME NEW j \in J PROVE j = L + 3
    <3>1. j \in 2 .. Len(text) /\ Depth(SubSeq(text, 2, j)) = 0 /\ \A k \in 2 .. j - 1 : Depth(SubSeq(text, 2, k)) > 0
      BY <2>1
    <3>2. ~(j \in 2 .. L + 2)
      BY <1>14, <3>1
    <3>3. ~(j > L + 3)
      <4> SUFFICES ASSUME j > L + 3 PROVE FALSE
        OBVIOUS
      <4>1. L + 3 \in 2 .. j - 1
        BY <1>3, <1>9, <3>1
      <4>2. Depth(SubSeq(text, 2, L + 3)) > 0
        BY <3>1, <4>1
      <4> QED BY <1>15, <4>2
    <3> QED BY <1>3, <1>9, <3>1, <3>2, <3>3
  <2>4. Closing(text, 1) = {Before(text, j) : j \in J}
    BY Zenon DEF Closing
  <2>5. J = {L + 3}
    <3> HIDE DEF J
    <3> QED BY <2>2, <2>3
  <2>6. Before(text, L + 3) = L + 2
    <3>1. L + 3 \in 1 .. Len(text) + 1 /\ (L + 3) - 1 = L + 2
      BY <1>3, <1>9
    <3> QED BY <1>11, <3>1
  <2> HIDE DEF J
  <2> QED BY <2>4, <2>5, <2>6
<1>17. Chars(text, 0, 1) = name
  <2>1. 0 + 1 < Len(text) /\ 0 + 1 = 1
    BY <1>3, <1>9
  <2>2. Chars(text, 0, 1) = SubSeq(text, 1, 1)
    BY <2>1 DEF Chars
  <2>3. SubSeq(name \o q, 1, Len(name)) = name
    BY <1>2, <1>7, TextSlices
  <2> QED BY <1>2, <1>8, <2>2, <2>3
<1>18. Chars(text, 1 + 1, (L + 2) - 1 - 1) = inner
  <2> DEFINE no == name \o open
             cr == close \o rest
  <2>1. (L + 2) - 1 - 1 = L /\ 1 + 1 = 2 /\ 2 + L < Len(text) /\ 2 + 1 = 3
    BY <1>3, <1>9
  <2>2. Chars(text, 2, L) = SubSeq(text, 3, 2 + L)
    BY <2>1 DEF Chars
  <2>3. no \in Strings /\ Len(no) = 2
    <3>1. no \in Strings /\ Len(no) = Len(name) + Len(open)
      BY <1>2, TextConcat, Zenon
    <3> HIDE DEF no, name, open
    <3> QED BY <1>2, <3>1
  <2>4. text = no \o (inner \o cr)
    <3> DEFINE r == inner \o cr
    <3>1. r \in Strings /\ text = name \o (open \o r)
      BY <1>6, <1>8
    <3>2. name \in Strings /\ open \in Strings
      BY <1>2
    <3> HIDE DEF name, open, r, text
    <3>3. \A x \in Strings : (name \o open) \o x = name \o (open \o x)
      BY <3>2, TextAssociative
    <3>4. (name \o open) \o r = name \o (open \o r)
      BY <3>1, <3>3, Zenon
    <3> QED BY <3>1, <3>4 DEF r
  <2>5. cr \in Strings
    BY <1>6
  <2> HIDE DEF no, cr
  <2>6. SubSeq(no \o (inner \o cr), Len(no) + 1, Len(no) + Len(inner)) = inner
    BY <2>3, <2>5, Middle
  <2> QED BY <2>1, <2>2, <2>3, <2>4, <2>6
<1>19. Found(text, parse, L + 2) = {[item |-> filter, ate |-> L + 3] : filter \in Operator(name, inner, parse)}
  <2> HIDE DEF name, L
  <2>1. Found(text, parse, L + 2) = {[item |-> filter, ate |-> (L + 2) + 1] : filter \in Operator(name, inner, parse)}
    BY <1>12, <1>17, <1>18, Zenon DEF Found
  <2>2. (L + 2) + 1 = L + 3
    BY <1>3
  <2> QED BY <2>1, <2>2
<1>20. ParseGiven(text, parse) = UNION {Found(text, parse, closing) : closing \in {L + 2}}
  BY <1>12, <1>16, ParseGivenIs, Zenon
<1>21. UNION {Found(text, parse, closing) : closing \in {L + 2}} = Found(text, parse, L + 2)
  <2> HIDE DEF L
  <2> QED OBVIOUS
<1> QED BY <1>19, <1>20, <1>21, Zenon DEF text, p

-----------------------------------------------------------------------------
\* The texts that stand between separators and parentheses
Good == {text \in Strings : Ascii(text) /\ Closed(text)}

LEMMA AsciiOne ==
  ASSUME NEW x \in Tokens, x \notin Wide
  PROVE  Ascii(<<x>>)
BY DEF Ascii

LEMMA MarksAreNarrow == "(" \notin Wide /\ ")" \notin Wide /\ "," \notin Wide
<1>1. \A x \in Marks : x \notin Wide
  BY TokenAssumption, Zenon
<1>2. "(" \in Marks /\ ")" \in Marks /\ "," \in Marks
  BY DEF Marks
<1> QED BY <1>1, <1>2, Zenon

LEMMA CommaIsGood == <<",">> \in Good
<1> DEFINE comma == ","
           text == <<comma>>
<1>1. comma \in Tokens /\ comma \notin Wide
  BY MarksAreTokens, MarksAreNarrow, Zenon
<1>2. comma \notin {"(", ")"}
  OBVIOUS
<1> HIDE DEF comma
<1>3. text \in Strings /\ Ascii(text)
  BY <1>1, OneToken, AsciiOne, Zenon
<1>4. \A i \in DOMAIN text : text[i] \notin {"(", ")"}
  <2>1. DOMAIN text = {1} /\ text[1] = comma
    BY <1>1
  <2> HIDE DEF text
  <2>2. \A i \in DOMAIN text : text[i] = comma
    BY <2>1, Zenon
  <2> QED BY <1>2, <2>2, Zenon
<1> HIDE DEF text
<1>5. Closed(text)
  BY <1>3, <1>4, NoParentheses, Zenon
<1>6. text \in Good
  BY <1>3, <1>5, Zenon DEF Good
<1> QED BY <1>6, Zenon DEF text, comma

LEMMA GoodParts ==
  ASSUME NEW a \in Good, NEW b \in Good
  PROVE  a \o b \in Good
<1>1. a \in Strings /\ b \in Strings /\ Ascii(a) /\ Ascii(b) /\ Closed(a) /\ Closed(b)
  BY DEF Good
<1>2. a \o b \in Strings
  BY <1>1, TextConcat, Zenon
<1>3. Ascii(a \o b)
  BY <1>1, AsciiParts, Zenon
<1>4. Closed(a \o b)
  BY <1>1, ClosedParts, Zenon
<1> QED BY <1>2, <1>3, <1>4, Zenon DEF Good

LEMMA GoodInside ==
  ASSUME NEW a \in Good
  PROVE  <<"(">> \o a \o <<")">> \in Good
<1> DEFINE open == <<"(">>
           close == <<")">>
<1>1. a \in Strings /\ Ascii(a) /\ Closed(a)
  BY DEF Good
<1>2. open \in Strings /\ close \in Strings /\ Ascii(open) /\ Ascii(close)
  BY MarksAreTokens, MarksAreNarrow, OneToken, AsciiOne, Zenon
<1>3. Closed(open \o a \o close)
  BY <1>1, ClosedInside, Zenon
<1> HIDE DEF open, close
<1>4. open \o a \in Strings /\ Ascii(open \o a)
  BY <1>1, <1>2, TextConcat, AsciiParts, Zenon
<1>5. (open \o a) \o close \in Strings /\ Ascii((open \o a) \o close)
  BY <1>2, <1>4, TextConcat, AsciiParts, Zenon
<1> QED BY <1>3, <1>5, Zenon DEF Good, open, close

LEMMA GoodJoined ==
  ASSUME NEW texts \in Seq(Good), texts # <<>>
  PROVE  Joined(texts) \in Good
<1>1. ASSUME NEW a \in Good, NEW b \in Good PROVE a \o <<",">> \o b \in Good
  <2>1. a \o <<",">> \in Good
    BY CommaIsGood, GoodParts, Zenon
  <2> QED BY <2>1, GoodParts, Zenon
<1>j. Joins(Good)
  BY <1>1, Zenon DEF Joins
<1>2. PICK joined : joined \in [1 .. Len(texts) -> Good] /\ Joined(texts) = joined[1]
  BY <1>j, JoinedIs, Zenon
<1>3. 1 \in 1 .. Len(texts)
  BY EmptySeq, LenProperties
<1> QED BY <1>2, <1>3

\* A text alone is joined as it is.
LEMMA JoinedOne ==
  ASSUME NEW text
  PROVE  Joined(<<text>>) = text
<1> DEFINE texts == <<text>>
<1>1. texts \in Seq({text}) /\ Len(texts) = 1 /\ texts # <<>> /\ texts[1] = text
  OBVIOUS
<1> DEFINE is(joined) == joined = [n \in 1 .. Len(texts) |-> JoinedFrom(texts, joined, n)]
           joined == CHOOSE joined : is(joined)
           e == [n \in 1 .. 1 |-> text]
<1> HIDE DEF texts
<1>2. is(e)
  <2>1. \A n \in 1 .. 1 : JoinedFrom(texts, e, n) = text
    BY <1>1 DEF JoinedFrom
  <2> HIDE DEF e
  <2>2. e = [n \in 1 .. 1 |-> JoinedFrom(texts, e, n)]
    BY <2>1 DEF e
  <2> QED BY <1>1, <2>2
<1>3. is(joined)
  <2> HIDE DEF is
  <2> QED BY <1>2
<1>4. Joined(texts) = joined[1]
  BY Zenon DEF Joined, JoinedFrom
<1> HIDE DEF joined
<1>5. joined[1] = JoinedFrom(texts, joined, 1)
  BY <1>1, <1>3
<1>6. JoinedFrom(texts, joined, 1) = text
  BY <1>1 DEF JoinedFrom
<1> QED BY <1>4, <1>5, <1>6 DEF texts

LEMMA Downward ==
  ASSUME NEW N \in Nat, N >= 1, NEW T, N \in T, \A n \in 1 .. N - 1 : n + 1 \in T => n \in T
  PROVE  1 \in T
<1> DEFINE U == {k \in Nat : k < N => N - k \in T}
<1>1. 0 \in U
  OBVIOUS
<1>2. ASSUME NEW k \in Nat, k \in U PROVE k + 1 \in U
  <2> SUFFICES ASSUME k + 1 < N PROVE N - (k + 1) \in T
    OBVIOUS
  <2>1. N - (k + 1) \in 1 .. N - 1 /\ N - (k + 1) + 1 = N - k /\ k < N
    OBVIOUS
  <2> QED BY <1>2, <2>1
<1> HIDE DEF U
<1>3. Nat \subseteq U
  BY <1>1, <1>2, Induction
<1>4. N - 1 \in U
  BY <1>3
<1> QED BY <1>4 DEF U

\* What begins at each position takes some bytes.
Takes(text, first) == \A from \in 0 .. Len(text) : \A this \in first[from] : this.ate \in Nat

\* One of a list's texts, where it stands in what they are joined to, is read
\* as its member of the list.
ReadsAt(inner, first, texts, list) ==
  \A n \in 1 .. Len(texts), before, behind \in Strings :
    inner = before \o (texts[n] \o behind)
      => first[Len(before)] = {[item |-> list[n], ate |-> Len(texts[n])]}

\* What follows one item
Followed(text, items, item, next) ==
  IF next > Len(text) THEN {<<item>>} ELSE {<<item>> \o others : others \in items[next]}

LEMMA OneItem ==
  ASSUME NEW text, NEW first, NEW items, NEW from, NEW item, NEW ate,
         first[from] = {[item |-> item, ate |-> ate]}
  PROVE  ItemsFrom(text, first, items, from) = Followed(text, items, item, from + ate + 1)
<1> DEFINE this == [item |-> item, ate |-> ate]
           found(i) == LET next == from + i.ate + 1
                       IN  IF next > Len(text) THEN {<<i.item>>}
                           ELSE {<<i.item>> \o others : others \in items[next]}
<1>1. ItemsFrom(text, first, items, from) = UNION {found(i) : i \in first[from]}
  BY Zenon DEF ItemsFrom
<1>2. UNION {found(i) : i \in first[from]} = found(this)
  <2> HIDE DEF found
  <2> QED OBVIOUS
<1>3. this.item = item /\ this.ate = ate
  OBVIOUS
<1> HIDE DEF this
<1>4. found(this) = Followed(text, items, item, from + ate + 1)
  BY <1>3, Zenon DEF Followed
<1> HIDE DEF found
<1> QED BY <1>1, <1>2, <1>4, Zenon

LEMMA Single ==
  ASSUME NEW L, NEW list \in Seq(L), NEW n \in 1 .. Len(list)
  PROVE  SubSeq(list, n, n) = <<list[n]>>
<1> DEFINE s == SubSeq(list, n, n)
           t == <<list[n]>>
<1>1. Len(list) \in Nat /\ list[n] \in L
  OBVIOUS
<1>2. s \in Seq(L) /\ Len(s) = 1 /\ \A i \in 1 .. 1 : s[i] = list[n + i - 1]
  BY <1>1
<1>3. t \in Seq(L) /\ Len(t) = 1 /\ \A i \in 1 .. 1 : t[i] = list[n]
  BY <1>1
<1>4. \A i \in 1 .. 1 : n + i - 1 = n
  OBVIOUS
<1> HIDE DEF s, t
<1>5. s = t
  BY <1>2, <1>3, <1>4, SeqEqual
<1> QED BY <1>5 DEF s, t

LEMMA HeadOfRest ==
  ASSUME NEW L, NEW list \in Seq(L), NEW n \in 1 .. Len(list)
  PROVE  <<list[n]>> \o SubSeq(list, n + 1, Len(list)) = SubSeq(list, n, Len(list))
<1>1. Len(list) \in Nat
  OBVIOUS
<1>2. SubSeq(list, n, n) \o SubSeq(list, n + 1, Len(list)) = SubSeq(list, n, Len(list))
  <2>1. n \in 1 .. Len(list) + 1 /\ n \in n - 1 .. Len(list) /\ Len(list) \in n .. Len(list)
    BY <1>1
  <2> QED BY <2>1, ConcatAdjacentSubSeq
<1>3. SubSeq(list, n, n) = <<list[n]>>
  BY Single
<1> QED BY <1>2, <1>3, Zenon

LEMMA ItemsOfJoined ==
  ASSUME NEW texts \in Seq(Strings), texts # <<>>, NEW L, NEW list \in Seq(L), Len(list) = Len(texts),
         NEW inner \in Strings, inner = Joined(texts),
         NEW first, Takes(inner, first), ReadsAt(inner, first, texts, list)
  PROVE  Items(inner, first) = {list}
<1> DEFINE N == Len(texts)
           comma == <<",">>
<1>0. N \in Nat /\ N >= 1 /\ Len(list) = N /\ \A n \in 1 .. N : texts[n] \in Strings
  BY EmptySeq, LenProperties
<1>1. comma \in Strings /\ Len(comma) = 1
  BY MarksAreTokens, OneToken, Zenon
<1>2. PICK joined : /\ joined \in [1 .. N -> Strings] /\ inner = joined[1]
                    /\ \A n \in 1 .. N : joined[n] = JoinedFrom(texts, joined, n)
  <2>1. ASSUME NEW a \in Strings, NEW b \in Strings PROVE a \o comma \o b \in Strings
    <3> HIDE DEF comma
    <3>1. a \o comma \in Strings
      BY <1>1, TextConcat, Zenon
    <3> QED BY <3>1, TextConcat, Zenon
  <2>2. Joins(Strings)
    BY <2>1, Zenon DEF Joins
  <2>3. PICK j : /\ j \in [1 .. Len(texts) -> Strings] /\ Joined(texts) = j[1]
                 /\ \A n \in 1 .. Len(texts) : j[n] = JoinedFrom(texts, j, n)
    BY <2>2, JoinedIs, Zenon
  <2> QED BY <2>3, Zenon
<1>3. PICK items : /\ Items(inner, first) = items[0]
                   /\ \A from \in 0 .. Len(inner) : items[from] = ItemsFrom(inner, first, items, from)
  <2>1. Len(inner) \in Nat
    BY DEF Strings
  <2> QED BY <2>1, ItemsIs DEF Takes
<1> HIDE DEF N
<1> DEFINE read(n) == \A before \in Strings :
                        inner = before \o joined[n] => items[Len(before)] = {SubSeq(list, n, N)}
           T == {n \in 1 .. N : read(n)}
<1>4. Len(inner) \in Nat
  BY DEF Strings
<1>5. ASSUME NEW n \in 1 .. N, NEW before \in Strings, inner = before \o joined[n], n = N
      PROVE  items[Len(before)] = {SubSeq(list, n, N)}
  <2> DEFINE text == texts[n]
  <2>1. text \in Strings /\ joined[n] = text /\ <<>> \in Strings
    <3>1. joined[n] = texts[n]
      BY <1>2, <1>5, Zenon DEF JoinedFrom, N
    <3>2. <<>> \in Strings
      BY EmptySeq, Zenon DEF Strings
    <3> QED BY <1>0, <3>1, <3>2, Zenon
  <2> HIDE DEF text
  <2>2. Len(before) \in Nat /\ Len(text) \in Nat /\ Len(inner) = Len(before) + Len(text)
    BY <1>5, <2>1, TextConcat
  <2>3. first[Len(before)] = {[item |-> list[n], ate |-> Len(text)]}
    <3>1. text \o <<>> = text
      BY <2>1, ConcatEmptySeq, Zenon DEF Strings
    <3>2. inner = before \o (text \o <<>>)
      BY <1>5, <2>1, <3>1, Zenon
    <3> QED BY <2>1, <3>2, Zenon DEF ReadsAt, N, text
  <2>4. Len(before) + Len(text) + 1 > Len(inner) /\ Len(before) \in 0 .. Len(inner)
    BY <2>2
  <2>5. items[Len(before)] = {<<list[n]>>}
    <3> DEFINE from == Len(before)
               ate == Len(text)
    <3>1. first[from] = {[item |-> list[n], ate |-> ate]} /\ from + ate + 1 > Len(inner)
      BY <2>3, <2>4
    <3>2. items[from] = ItemsFrom(inner, first, items, from)
      BY <1>3, <2>4, Zenon
    <3> HIDE DEF from, ate
    <3> DEFINE item == list[n]
    <3>5. first[from] = {[item |-> item, ate |-> ate]}
      BY <3>1, Zenon
    <3> HIDE DEF item
    <3>3. ItemsFrom(inner, first, items, from) = Followed(inner, items, item, from + ate + 1)
      BY <3>5, OneItem
    <3> USE DEF item
    <3>4. items[from] = {<<list[n]>>}
      BY <3>1, <3>2, <3>3, Zenon DEF Followed
    <3> QED BY <3>4 DEF from
  <2>6. SubSeq(list, n, n) = <<list[n]>>
    BY <1>0, Single
  <2> QED BY <1>5, <2>5, <2>6, Zenon
<1>6. ASSUME NEW n \in 1 .. N - 1, read(n + 1), NEW before \in Strings, inner = before \o joined[n]
      PROVE  items[Len(before)] = {SubSeq(list, n, N)}
  <2> DEFINE text == texts[n]
             rest == joined[n + 1]
             ahead == before \o (text \o comma)
  <2>1. n \in 1 .. N /\ n + 1 \in 1 .. N /\ n # N
    BY <1>0
  <2>2. text \in Strings /\ rest \in Strings /\ joined[n] = (text \o comma) \o rest
    <3>1. joined[n] = texts[n] \o <<",">> \o joined[n + 1]
      BY <1>2, <2>1, Zenon DEF JoinedFrom, N
    <3>2. joined[n + 1] \in Strings
      BY <1>2, <2>1, Zenon
    <3> QED BY <1>0, <2>1, <3>1, <3>2, Zenon
  <2> HIDE DEF text, rest, comma
  <2>3. text \o comma \in Strings /\ comma \o rest \in Strings
    BY <1>1, <2>2, TextConcat, Zenon
  <2>4. joined[n] = text \o (comma \o rest)
    <3>1. text \in Strings /\ comma \in Strings /\ rest \in Strings
      BY <1>1, <2>2
    <3>2. \A x \in Strings : (text \o comma) \o x = text \o (comma \o x)
      BY <3>1, TextAssociative
    <3>3. (text \o comma) \o rest = text \o (comma \o rest)
      BY <3>1, <3>2, Zenon
    <3> QED BY <2>2, <3>3, Zenon
  <2>5. inner = ahead \o rest
    <3> DEFINE tc == text \o comma
    <3>1. tc \in Strings /\ inner = before \o (tc \o rest)
      BY <1>6, <2>2, <2>3, Zenon
    <3> HIDE DEF tc
    <3>2. (before \o tc) \o rest = before \o (tc \o rest)
      BY <2>2, <3>1, TextAssociative, Zenon
    <3> QED BY <3>1, <3>2, Zenon DEF tc
  <2>6. /\ ahead \in Strings /\ Len(before) \in Nat /\ Len(text) \in Nat /\ Len(rest) \in Nat
        /\ Len(ahead) = Len(before) + Len(text) + 1 /\ Len(inner) = Len(ahead) + Len(rest)
    <3>1. ahead \in Strings /\ Len(ahead) = Len(before) + Len(text \o comma)
      BY <2>3, TextConcat, Zenon
    <3>2. Len(text \o comma) = Len(text) + Len(comma)
      BY <1>1, <2>2, TextConcat, Zenon
    <3> HIDE DEF ahead
    <3>3. Len(inner) = Len(ahead) + Len(rest)
      BY <2>2, <2>5, <3>1, TextConcat, Zenon
    <3>4. Len(before) \in Nat /\ Len(text) \in Nat /\ Len(rest) \in Nat
      BY <2>2 DEF Strings
    <3>5. Len(ahead) = Len(before) + Len(text) + 1
      <4> HIDE DEF comma
      <4> QED BY <1>1, <3>1, <3>2, <3>4
    <3> QED BY <3>1, <3>3, <3>4, <3>5, Zenon
  <2> HIDE DEF ahead
  <2>7. items[Len(ahead)] = {SubSeq(list, n + 1, N)}
    BY <1>6, <2>5, <2>6, Zenon DEF rest
  <2>8. first[Len(before)] = {[item |-> list[n], ate |-> Len(text)]}
    <3>1. inner = before \o (text \o (comma \o rest))
      BY <1>6, <2>4, Zenon
    <3> QED BY <2>1, <2>3, <3>1, Zenon DEF ReadsAt, N, text
  <2>9. /\ ~(Len(before) + Len(text) + 1 > Len(inner)) /\ Len(before) \in 0 .. Len(inner)
        /\ Len(before) + Len(text) + 1 = Len(ahead)
    BY <2>6
  <2>10. items[Len(before)] = {<<list[n]>> \o others : others \in items[Len(ahead)]}
    <3> DEFINE from == Len(before)
               ate == Len(text)
               next == Len(ahead)
    <3>0. first[from] = {[item |-> list[n], ate |-> ate]}
      BY <2>8
    <3>1. ~(from + ate + 1 > Len(inner)) /\ from + ate + 1 = next
      BY <2>9
    <3>2. items[from] = ItemsFrom(inner, first, items, from)
      BY <1>3, <2>9, Zenon
    <3> HIDE DEF from, ate, next
    <3> DEFINE item == list[n]
    <3>7. first[from] = {[item |-> item, ate |-> ate]}
      BY <3>0, Zenon
    <3> HIDE DEF item
    <3>3. ItemsFrom(inner, first, items, from) = Followed(inner, items, item, from + ate + 1)
      BY <3>7, OneItem
    <3> USE DEF item
    <3> DEFINE after == from + ate + 1
    <3>4. items[from] = Followed(inner, items, list[n], after)
      BY <3>2, <3>3, Zenon
    <3>5. ~(after > Len(inner)) /\ after = next
      BY <3>1, Zenon
    <3> HIDE DEF after
    <3>6. items[from] = {<<list[n]>> \o others : others \in items[after]}
      BY <3>4, <3>5, Zenon DEF Followed
    <3> QED BY <3>5, <3>6, Zenon DEF from, next
  <2>11. items[Len(before)] = {<<list[n]>> \o SubSeq(list, n + 1, N)}
    <3> HIDE DEF read
    <3> QED BY <2>7, <2>10
  <2>12. <<list[n]>> \o SubSeq(list, n + 1, N) = SubSeq(list, n, N)
    BY <1>0, <2>1, HeadOfRest
  <2> QED BY <2>11, <2>12, Zenon
<1>7. N \in T
  <2>1. N \in 1 .. N
    BY <1>0
  <2>2. read(N)
    BY <1>5, <2>1, Zenon
  <2> HIDE DEF read
  <2> QED BY <2>1, <2>2, Zenon
<1>8. \A n \in 1 .. N - 1 : n + 1 \in T => n \in T
  <2> SUFFICES ASSUME NEW n \in 1 .. N - 1, n + 1 \in T PROVE n \in T
    OBVIOUS
  <2>1. read(n)
    BY <1>6
  <2>2. n \in 1 .. N
    BY <1>0
  <2> HIDE DEF read
  <2> QED BY <2>1, <2>2
<1> HIDE DEF T
<1>9. 1 \in T
  BY <1>0, <1>7, <1>8, Downward
<1>10. read(1)
  BY <1>9 DEF T
<1>11. items[0] = {SubSeq(list, 1, N)}
  <2>1. <<>> \in Strings /\ Len(<<>>) = 0 /\ <<>> \o joined[1] = joined[1]
    <3>1. 1 \in 1 .. N
      BY <1>0
    <3>2. joined[1] \in Strings
      BY <1>2, <3>1
    <3> HIDE DEF read
    <3> QED BY <3>2, EmptySeq, ConcatEmptySeq DEF Strings
  <2> QED BY <1>2, <1>10, <2>1, Zenon
<1>12. SubSeq(list, 1, N) = list
  BY <1>0, SubSeqFull, Zenon
<1> QED BY <1>3, <1>11, <1>12, Zenon

\* What reads a text takes some bytes,
Measures(read) == \A text \in Strings : \A this \in read[text] : this.ate \in Nat

\* and reads each of these texts as a member of the list, whatever follows.
ReadsEach(read, texts, list) ==
  \A n \in 1 .. Len(texts), rest \in Strings :
    Ascii(rest) => read[texts[n] \o rest] = {[item |-> list[n], ate |-> Len(texts[n])]}

LEMMA ItemsRead ==
  ASSUME NEW texts \in Seq(Good), texts # <<>>, NEW L, NEW list \in Seq(L), Len(list) = Len(texts),
         NEW read, Measures(read), ReadsEach(read, texts, list)
  PROVE  Items(Joined(texts),
               [from \in 0 .. Len(Joined(texts)) |-> UNION {read[rest] : rest \in From(Joined(texts), from)}])
           = {list}
<1> DEFINE inner == Joined(texts)
           heads(from) == UNION {read[rest] : rest \in From(inner, from)}
           first == [from \in 0 .. Len(inner) |-> heads(from)]
<1>1. inner \in Strings /\ Ascii(inner)
  BY GoodJoined, Zenon DEF Good
<1>2. texts \in Seq(Strings) /\ \A n \in 1 .. Len(texts) : texts[n] \in Strings
  <2>1. Good \subseteq Strings
    BY DEF Good
  <2> QED BY <2>1
<1>3. \A from \in 0 .. Len(inner) : first[from] = heads(from)
  OBVIOUS
<1>4. inner = Joined(texts)
  OBVIOUS
<1> HIDE DEF inner, first
<1>5. Takes(inner, first)
  <2>1. ASSUME NEW from \in 0 .. Len(inner), NEW this \in first[from] PROVE this.ate \in Nat
    <3>1. PICK rest \in From(inner, from) : this \in read[rest]
      BY <1>3
    <3>2. rest \in Strings
      BY <1>1, <3>1, FromShorter, Zenon
    <3> QED BY <3>1, <3>2, Zenon DEF Measures
  <2> QED BY <2>1, Zenon DEF Takes
<1>6. ReadsAt(inner, first, texts, list)
  <2>1. ASSUME NEW n \in 1 .. Len(texts), NEW before \in Strings, NEW behind \in Strings,
               inner = before \o (texts[n] \o behind)
        PROVE  first[Len(before)] = {[item |-> list[n], ate |-> Len(texts[n])]}
    <3> DEFINE tail == texts[n] \o behind
               one == {[item |-> list[n], ate |-> Len(texts[n])]}
    <3>1. texts[n] \in Strings
      BY <1>2, Zenon
    <3>2. tail \in Strings
      BY <3>1, TextConcat, Zenon
    <3>3. Ascii(behind)
      <4>1. Ascii(tail)
        <5> HIDE DEF tail
        <5> QED BY <1>1, <2>1, <3>2, AsciiParts, Zenon DEF tail
      <4> QED BY <3>1, <4>1, AsciiParts, Zenon
    <3>4. read[tail] = one
      BY <3>3, Zenon DEF ReadsEach
    <3> HIDE DEF tail, one
    <3>5. inner = before \o tail
      BY <2>1, Zenon DEF tail
    <3>6. From(inner, Len(before)) = {tail}
      BY <1>1, <3>2, <3>5, Cuts, Zenon
    <3>7. Len(before) \in 0 .. Len(inner)
      <4>1. Len(before) \in Nat /\ Len(tail) \in Nat /\ Len(inner) = Len(before) + Len(tail)
        BY <3>2, <3>5, TextConcat, Zenon
      <4> QED BY <4>1
    <3>8. first[Len(before)] = UNION {read[rest] : rest \in {tail}}
      BY <1>3, <3>6, <3>7, Zenon
    <3>9. UNION {read[rest] : rest \in {tail}} = read[tail]
      OBVIOUS
    <3> QED BY <3>4, <3>8, <3>9, Zenon DEF one
  <2> QED BY <2>1, Zenon DEF ReadsAt
<1>7. Items(inner, first) = {list}
  <2>1. texts \in Seq(Strings) /\ inner \in Strings
    BY <1>1, <1>2
  <2> QED BY <1>4, <1>5, <1>6, <2>1, ItemsOfJoined
<1>8. first = [from \in 0 .. Len(Joined(texts)) |-> UNION {read[rest] : rest \in From(Joined(texts), from)}]
  BY Zenon DEF first, inner
<1> QED BY <1>4, <1>7, <1>8, Zenon

-----------------------------------------------------------------------------
(* The operators, by the name before the parentheses *)

LEMMA NameIs ==
  ASSUME NEW op, NEW ops
  PROVE  <<op>> \in {<<o>> : o \in ops} <=> op \in ops
OBVIOUS

OperatorOf(op, inner, parse) ==
  CASE op \in {"and", "or"} -> {Node(op, kids) : kids \in Children(inner, parse)}
    [] op \in {"not"} -> {Node("not", <<child.item>>) : child \in parse[inner]}
    [] op \in {"descendants", "pid", "uid"} /\ IsNumber(inner) -> {Leaf(op, inner)}
    [] op \in {"env_kv"} /\ ~Fields(inner).one ->
         {Leaf("env_kv", Fields(inner).key \o <<",">> \o Fields(inner).value)}
    [] op \in {"comm", "env_k", "true", "false"} -> {Leaf(op, inner)}
    [] OTHER -> {}

LEMMA OperatorIs ==
  ASSUME NEW op, NEW inner, NEW parse
  PROVE  Operator(<<op>>, inner, parse) = OperatorOf(op, inner, parse)
<1> DEFINE is(ops) == op \in ops
           name == <<op>>
<1>1. name[1] = op
  OBVIOUS
<1> HIDE DEF name
<1>2. \A ops : (name \in {<<o>> : o \in ops}) = is(ops)
  <2> TAKE ops
  <2>1. name \in {<<o>> : o \in ops} <=> is(ops)
    BY NameIs, Zenon DEF name
  <2> DEFINE both == name \in {<<o>> : o \in ops}
  <2>2. both \in BOOLEAN /\ is(ops) \in BOOLEAN
    OBVIOUS
  <2> QED BY <2>1, <2>2
<1>3. Operator(name, inner, parse) = OperatorOf(op, inner, parse)
  <2> HIDE DEF is
  <2> QED BY <1>1, <1>2, Zenon DEF Operator, OperatorOf, is
<1> QED BY <1>3, Zenon DEF name

NodeOps == {"and", "or"}
NumberOps == {"descendants", "pid", "uid"}
WordOps == {"comm", "env_k", "true", "false"}

LEMMA OperatorNode ==
  ASSUME NEW op, NEW inner, NEW parse, op \in NodeOps
  PROVE  Operator(<<op>>, inner, parse) = {Node(op, kids) : kids \in Children(inner, parse)}
<1> DEFINE result == {Node(op, kids) : kids \in Children(inner, parse)}
<1>1. OperatorOf(op, inner, parse) = result
  BY Zenon DEF OperatorOf, NodeOps
<1> QED BY <1>1, OperatorIs, Zenon

LEMMA OperatorNot ==
  ASSUME NEW op, NEW inner, NEW parse, op = "not"
  PROVE  Operator(<<op>>, inner, parse) = {Node("not", <<child.item>>) : child \in parse[inner]}
<1> DEFINE result == {Node("not", <<child.item>>) : child \in parse[inner]}
           other == {Node(op, kids) : kids \in Children(inner, parse)}
<1>1. op \notin {"and", "or"} /\ op \in {"not"}
  OBVIOUS
<1>2. OperatorOf(op, inner, parse) = result
  <2> DEFINE C == OperatorOf(op, inner, parse)
  <2> QED BY <1>1, Zenon DEF OperatorOf
<1> QED BY <1>2, OperatorIs, Zenon

LEMMA OperatorNumber ==
  ASSUME NEW op, NEW inner, NEW parse, op \in NumberOps, IsNumber(inner)
  PROVE  Operator(<<op>>, inner, parse) = {Leaf(op, inner)}
<1>1. op \notin {"and", "or"} /\ op \notin {"not"}
  BY DEF NumberOps
<1>2. OperatorOf(op, inner, parse) = {Leaf(op, inner)}
  BY <1>1, Zenon DEF OperatorOf, NumberOps
<1> QED BY <1>2, OperatorIs, Zenon

LEMMA OperatorPair ==
  ASSUME NEW op, NEW inner, NEW parse, op = "env_kv", ~Fields(inner).one
  PROVE  Operator(<<op>>, inner, parse) = {Leaf(op, Fields(inner).key \o <<",">> \o Fields(inner).value)}
<1>1. op \notin {"and", "or"} /\ op \notin {"not"} /\ op \notin {"descendants", "pid", "uid"} /\ op \in {"env_kv"}
  OBVIOUS
<1>2. OperatorOf(op, inner, parse) = {Leaf(op, Fields(inner).key \o <<",">> \o Fields(inner).value)}
  BY <1>1, Zenon DEF OperatorOf
<1> QED BY <1>2, OperatorIs, Zenon

LEMMA OperatorAny ==
  ASSUME NEW op, NEW inner, NEW parse, op \in WordOps
  PROVE  Operator(<<op>>, inner, parse) = {Leaf(op, inner)}
<1>1. op \notin {"and", "or"} /\ op \notin {"not"} /\ op \notin {"descendants", "pid", "uid"} /\ op \notin {"env_kv"}
  BY DEF WordOps
<1>2. OperatorOf(op, inner, parse) = {Leaf(op, inner)}
  BY <1>1, Zenon DEF OperatorOf, WordOps
<1> QED BY <1>2, OperatorIs, Zenon

\* A text with one comma is what is before and behind it.
OneComma(arg) == Count(",", arg) = 1
AtComma(arg) == ~Fields(arg).one /\ Fields(arg).key \o <<",">> \o Fields(arg).value = arg

LEMMA FieldsOne ==
  ASSUME NEW arg \in Strings, OneComma(arg)
  PROVE  AtComma(arg)
<1> DEFINE comma == ","
           commas == {i \in DOMAIN arg : arg[i] = comma}
           N == Len(arg)
<1>c. Cardinality(commas) = 1
  BY Zenon DEF Count, OneComma
<1>f. IsFiniteSet(commas)
  BY CountFinite, Zenon
<1>k. comma \in Tokens
  BY MarksAreTokens, Zenon
<1>m. ~Fields(arg).one /\ Fields(arg).key \o <<comma>> \o Fields(arg).value = arg => AtComma(arg)
  BY Zenon DEF AtComma
<1>r. \A first, second :
        /\ first = IF commas = {} THEN N + 1 ELSE Min(commas)
        /\ second = IF commas \ {first} = {} THEN N + 1 ELSE Min(commas \ {first})
        => Fields(arg) = [one |-> commas = {}, key |-> SubSeq(arg, 1, first - 1),
                          value |-> SubSeq(arg, first + 1, second - 1)]
  BY Zenon DEF Fields
<1> HIDE DEF comma
<1>1. DOMAIN arg = 1 .. N /\ N \in Nat
  BY DEF Strings
<1>2. IsFiniteSet(commas) /\ Cardinality(commas) = 1
  BY <1>c, <1>f
<1>3. PICK c : commas = {c}
  <2> HIDE DEF commas
  <2> QED BY <1>2, FS_Singleton
<1>4. c \in DOMAIN arg /\ arg[c] = comma
  BY <1>3
<1> HIDE DEF commas
<1>5. c \in 1 .. N /\ c \in Nat
  BY <1>1, <1>4
<1>6. Min(commas) = c
  BY <1>3, <1>5, MinIs
<1> DEFINE pair == [one |-> FALSE, key |-> SubSeq(arg, 1, c - 1), value |-> SubSeq(arg, c + 1, N)]
<1>7. Fields(arg) = pair
  <2> DEFINE first == IF commas = {} THEN N + 1 ELSE Min(commas)
             rest == commas \ {first}
             second == IF rest = {} THEN N + 1 ELSE Min(rest)
  <2>1. Fields(arg) = [one |-> commas = {}, key |-> SubSeq(arg, 1, first - 1),
                       value |-> SubSeq(arg, first + 1, second - 1)]
    BY <1>r, Zenon
  <2>2. commas # {} /\ (commas = {}) = FALSE
    BY <1>3
  <2>3. first = c
    BY <1>6, <2>2
  <2>4. rest = {}
    BY <1>3, <2>3
  <2>5. second - 1 = N
    <3>1. second = N + 1
      BY <2>4
    <3> HIDE DEF second
    <3> QED BY <1>1, <3>1
  <2> HIDE DEF first, second
  <2> QED BY <2>1, <2>2, <2>3, <2>5
<1>8. SubSeq(arg, 1, c - 1) \o SubSeq(arg, c, N) = SubSeq(arg, 1, N)
  <2>1. c - 1 \in 1 - 1 .. N /\ N \in c - 1 .. N /\ 1 \in 1 .. N + 1 /\ (c - 1) + 1 = c
    BY <1>1, <1>5
  <2> QED BY <2>1, ConcatAdjacentSubSeq DEF Strings
<1>9. SubSeq(arg, 1, N) = arg
  BY SubSeqFull DEF Strings
<1>10. <<comma>> \o SubSeq(arg, c + 1, N) = SubSeq(arg, c, N)
  BY <1>4, <1>5, HeadOfRest DEF Strings
<1>11. SubSeq(arg, 1, c - 1) \in Strings /\ SubSeq(arg, c + 1, N) \in Strings
  BY <1>1, <1>5 DEF Strings
<1>12. <<comma>> \in Strings
  BY <1>k, OneToken, Zenon
<1> DEFINE key == SubSeq(arg, 1, c - 1)
           value == SubSeq(arg, c + 1, N)
<1>13. (key \o <<comma>>) \o value = key \o (<<comma>> \o value)
  BY <1>11, <1>12, TextAssociative, Zenon
<1>14. (key \o <<comma>>) \o value = arg
  BY <1>8, <1>9, <1>10, <1>13, Zenon
<1>15. ~pair.one /\ pair.key = key /\ pair.value = value
  OBVIOUS
<1> HIDE DEF pair, key, value
<1> QED BY <1>7, <1>14, <1>15, <1>m, Zenon

\* The text of a filter has it, wherever the text stands.
Parses(f) ==
  /\ Written[f] \in Good
  /\ \A rest \in Strings : Ascii(rest) => Parse[Written[f] \o rest] = {[item |-> f, ate |-> Len(Written[f])]}

LEMMA ParseMeasures == Measures(Parse)
<1>1. ASSUME NEW text \in Strings, NEW this \in Parse[text] PROVE this.ate \in Nat
  <2>1. this \in ParseGiven(text, Parse)
    BY <1>1, ParseIs, Zenon
  <2> QED BY <2>1, ParseGivenType, Zenon
<1> QED BY <1>1, Zenon DEF Measures

\* The texts of filters, with commas between them
LEMMA KidsParsed ==
  ASSUME NEW kids \in Seq(Filters), kids # <<>>, \A i \in DOMAIN kids : Parses(kids[i])
  PROVE  /\ TextOf(kids) \in Good
         /\ Children(TextOf(kids), Parse) = {kids}
<1> DEFINE texts == [i \in DOMAIN kids |-> Written[kids[i]]]
<1>1. Len(kids) \in Nat /\ DOMAIN kids = 1 .. Len(kids)
  OBVIOUS
<1>2. \A i \in DOMAIN kids : Written[kids[i]] \in Good
  BY Zenon DEF Parses
<1>3. texts \in Seq(Good) /\ Len(texts) = Len(kids) /\ \A i \in 1 .. Len(kids) : texts[i] = Written[kids[i]]
  <2>1. texts \in [1 .. Len(kids) -> Good] /\ \A i \in 1 .. Len(kids) : texts[i] = Written[kids[i]]
    BY <1>1, <1>2
  <2> HIDE DEF texts
  <2> QED BY <1>1, <2>1
<1>4. TextOf(kids) = Joined(texts)
  BY Zenon DEF TextOf
<1> HIDE DEF texts
<1>5. texts # <<>>
  BY <1>1, <1>3, EmptySeq
<1>6. TextOf(kids) \in Good
  BY <1>3, <1>4, <1>5, GoodJoined, Zenon
<1>7. ReadsEach(Parse, texts, kids)
  <2>1. ASSUME NEW n \in 1 .. Len(texts), NEW rest \in Strings, Ascii(rest)
        PROVE  Parse[texts[n] \o rest] = {[item |-> kids[n], ate |-> Len(texts[n])]}
    <3>1. Parses(kids[n]) /\ texts[n] = Written[kids[n]]
      BY <1>1, <1>3, Zenon
    <3> QED BY <2>1, <3>1, Zenon DEF Parses
  <2> QED BY <2>1, Zenon DEF ReadsEach
<1>8. Items(Joined(texts), [from \in 0 .. Len(Joined(texts)) |->
                              UNION {Parse[rest] : rest \in From(Joined(texts), from)}]) = {kids}
  BY <1>3, <1>5, <1>7, ParseMeasures, ItemsRead
<1> QED BY <1>4, <1>6, <1>8, Zenon DEF Children

\* What is between the parentheses of a filter is read as it.
LEMMA LeafRead ==
  ASSUME NEW f \in Filters, f.op \notin Operators, Writable(f)
  PROVE  f.arg \in Good /\ Operator(<<f.op>>, f.arg, Parse) = {f} /\ f.kids = <<>>
<1> DEFINE op == f.op
           arg == f.arg
<1>1. /\ f = Leaf(op, arg) /\ Ascii(arg) /\ Closed(arg)
      /\ op \in NumberOps => IsNumber(arg)
      /\ op = "env_kv" => OneComma(arg)
      /\ op \in Reading \cup Knowing
  BY Zenon DEF Writable, OneComma, NumberOps
<1>2. arg \in Strings /\ arg \in Good
  <2>1. arg \in Strings
    BY ArgumentAssumption, Zenon DEF Strings
  <2> QED BY <1>1, <2>1, Zenon DEF Good
<1> HIDE DEF op, arg
<1>3. Operator(<<op>>, arg, Parse) = {Leaf(op, arg)}
  <2>1. CASE op \in NumberOps
    BY <1>1, <2>1, OperatorNumber, Zenon
  <2>2. CASE op = "env_kv"
    <3>1. AtComma(arg)
      BY <1>1, <1>2, <2>2, FieldsOne, Zenon
    <3>2. ~Fields(arg).one
      BY <3>1, Zenon DEF AtComma
    <3>3. Operator(<<op>>, arg, Parse) = {Leaf(op, Fields(arg).key \o <<",">> \o Fields(arg).value)}
      BY <2>2, <3>2, OperatorPair, Zenon
    <3> QED BY <3>1, <3>3, Zenon DEF AtComma
  <2>3. CASE op \in WordOps
    BY <2>3, OperatorAny, Zenon
  <2>4. op \in NumberOps \/ op = "env_kv" \/ op \in WordOps
    BY <1>1, Zenon DEF Reading, Knowing, NumberOps, WordOps
  <2> QED BY <2>1, <2>2, <2>3, <2>4, Zenon
<1>4. Leaf(op, arg).kids = <<>>
  BY DEF Leaf
<1>5. f.kids = <<>>
  BY <1>1, <1>4, Zenon
<1>6. Operator(<<op>>, arg, Parse) = {f}
  BY <1>1, <1>3, Zenon
<1> QED BY <1>2, <1>5, <1>6, Zenon DEF op, arg

LEMMA NodeRead ==
  ASSUME NEW f \in Filters, f.op \in Operators, Writable(f), \A i \in DOMAIN f.kids : Parses(f.kids[i])
  PROVE  TextOf(f.kids) \in Good /\ Operator(<<f.op>>, TextOf(f.kids), Parse) = {f} /\ f.kids # <<>>
<1> DEFINE op == f.op
           kids == f.kids
           inner == TextOf(kids)
<1>1. op \notin Reading \cup Knowing
  <2> HIDE DEF op
  <2> QED BY Zenon DEF Operators, Reading, Knowing, op
<1>2. f = Node(op, kids) /\ kids # <<>> /\ kids \in Seq(Filters)
  <2>1. kids \in Seq(Filters)
    BY FilterAssumption, Zenon
  <2> QED BY <1>1, <2>1, Zenon DEF Writable
<1>3. inner \in Good /\ Children(inner, Parse) = {kids}
  BY <1>2, KidsParsed, Zenon
<1>4. CASE op \in NodeOps
  <2> DEFINE node(k) == Node(op, k)
  <2>1. Operator(<<op>>, inner, Parse) = {node(k) : k \in Children(inner, Parse)}
    <3> HIDE DEF op, inner
    <3> QED BY <1>4, OperatorNode, Zenon
  <2> HIDE DEF node
  <2>2. {node(k) : k \in {kids}} = {node(kids)}
    OBVIOUS
  <2>3. Operator(<<op>>, inner, Parse) = {node(kids)}
    BY <1>3, <2>1, <2>2, Zenon
  <2> QED BY <1>2, <1>3, <2>3, Zenon DEF node
<1>5. CASE op = "not"
  <2> DEFINE kid == kids[1]
             text == Written[kid]
  <2>1. Len(kids) = 1
    BY <1>5, FilterAssumption, Zenon
  <2>2. kids = <<kid>> /\ 1 \in DOMAIN kids
    <3> HIDE DEF kids
    <3> QED BY <1>2, <2>1
  <2>3. Parses(kid)
    BY <2>2, Zenon
  <2>4. inner = text
    <3> DEFINE texts == [i \in DOMAIN kids |-> Written[kids[i]]]
    <3>1. texts = <<text>>
      <4>1. DOMAIN kids = 1 .. 1
        <5> HIDE DEF kids
        <5> QED BY <1>2, <2>1
      <4>2. \A i \in 1 .. 1 : texts[i] = text
        BY <4>1
      <4>3. texts = [i \in 1 .. 1 |-> text]
        BY <4>1, <4>2
      <4> HIDE DEF texts, text
      <4>4. [i \in 1 .. 1 |-> text] = <<text>>
        OBVIOUS
      <4> QED BY <4>3, <4>4, Zenon
    <3> HIDE DEF texts, text
    <3>2. Joined(texts) = text
      BY <3>1, JoinedOne, Zenon
    <3> QED BY <3>2, Zenon DEF TextOf, texts
  <2>5. text \o <<>> = text /\ <<>> \in Strings /\ Ascii(<<>>)
    <3>1. text \in Strings /\ <<>> \in Strings
      BY <2>3, EmptySeq, Zenon DEF Parses, Good, Strings
    <3>2. text \o <<>> = text
      BY <3>1, ConcatEmptySeq, Zenon DEF Strings
    <3>3. Ascii(<<>>)
      BY DEF Ascii
    <3> QED BY <3>1, <3>2, <3>3, Zenon
  <2> DEFINE result == [item |-> kid, ate |-> Len(text)]
             node(child) == Node("not", <<child.item>>)
  <2>6. Parse[text] = {result}
    <3>1. Parse[text \o <<>>] = {result}
      BY <2>3, <2>5, Zenon DEF Parses
    <3> QED BY <2>5, <3>1, Zenon
  <2>7. result.item = kid
    OBVIOUS
  <2>8. Operator(<<op>>, inner, Parse) = {node(child) : child \in Parse[text]}
    <3>1. Operator(<<op>>, inner, Parse) = {node(child) : child \in Parse[inner]}
      BY <1>5, OperatorNot, Zenon
    <3> QED BY <2>4, <3>1, Zenon
  <2>9. node(result) = Node("not", <<kid>>)
    <3> HIDE DEF result
    <3> QED BY <2>7, Zenon
  <2> HIDE DEF node, result
  <2>10. {node(child) : child \in {result}} = {node(result)}
    OBVIOUS
  <2>11. Operator(<<op>>, inner, Parse) = {Node("not", <<kid>>)}
    BY <2>6, <2>8, <2>9, <2>10, Zenon
  <2> QED BY <1>2, <1>3, <1>5, <2>2, <2>11, Zenon
<1> QED BY <1>4, <1>5, Zenon DEF Operators, NodeOps

LEMMA FilterParsed ==
  ASSUME NEW f \in Filters, Writable(f), \A i \in DOMAIN f.kids : Parses(f.kids[i])
  PROVE  Parses(f)
<1> DEFINE op == f.op
           inner == Inner(f, OfParts(f, Written))
           closed == <<"(">> \o inner \o <<")">>
           name == <<op>>
           text == Written[f]
<1>1. inner \in Good /\ Operator(name, inner, Parse) = {f}
  <2>1. CASE op \in Operators
    <3>1. TextOf(f.kids) \in Good /\ Operator(name, TextOf(f.kids), Parse) = {f} /\ f.kids # <<>>
      BY <2>1, NodeRead, Zenon
    <3>2. inner = TextOf(f.kids)
      BY <3>1, Zenon DEF Inner, TextOf, OfParts
    <3> QED BY <3>1, <3>2, Zenon
  <2>2. CASE op \notin Operators
    <3>1. f.arg \in Good /\ Operator(name, f.arg, Parse) = {f} /\ f.kids = <<>>
      BY <2>2, LeafRead, Zenon
    <3>2. inner = f.arg
      BY <3>1, Zenon DEF Inner
    <3> QED BY <3>1, <3>2, Zenon
  <2> QED BY <2>1, <2>2, Zenon
<1>2. op \in Ops /\ op \in Tokens /\ op \notin Wide
  <2>1. op \in Ops
    BY FilterAssumption, Zenon DEF Ops
  <2> QED BY <2>1, OpsAreWords, Zenon
<1>3. text = name \o closed
  <2>1. OfParts(f, Written) \in [DOMAIN f.kids -> Strings]
    BY WrittenIs, OfPartsIs, Zenon
  <2> QED BY <2>1, WrittenIs, WriteType, Zenon
<1>4. inner \in Strings /\ Closed(inner)
  BY <1>1, Zenon DEF Good
<1>5. closed \in Good
  BY <1>1, GoodInside, Zenon
<1>6. name \in Good /\ Len(name) = 1
  <2>1. name \in Strings /\ Len(name) = 1 /\ Ascii(name)
    BY <1>2, OneToken, AsciiOne, Zenon
  <2>2. op # "(" /\ op # ")"
    BY <1>2, OpsAreNames, Zenon
  <2>3. DOMAIN name = {1} /\ name[1] = op
    OBVIOUS
  <2> HIDE DEF name
  <2>4. \A i \in DOMAIN name : name[i] \notin {"(", ")"}
    BY <2>2, <2>3, Zenon
  <2>5. Closed(name)
    BY <2>1, <2>4, NoParentheses, Zenon
  <2> QED BY <2>1, <2>5, Zenon DEF Good
<1>7. Len(closed) = Len(inner) + 2
  <2> DEFINE open == <<"(">>
             close == <<")">>
  <2>1. open \in Strings /\ close \in Strings /\ Len(open) = 1 /\ Len(close) = 1
    BY MarksAreTokens, OneToken, Zenon
  <2>2. closed = (open \o inner) \o close
    OBVIOUS
  <2> HIDE DEF open, close, closed, inner
  <2>3. open \o inner \in Strings /\ Len(open \o inner) = Len(open) + Len(inner) /\ Len(inner) \in Nat
    BY <1>4, <2>1, TextConcat, Zenon
  <2>4. Len((open \o inner) \o close) = Len(open \o inner) + Len(close)
    BY <2>1, <2>3, TextConcat, Zenon
  <2> QED BY <2>1, <2>2, <2>3, <2>4
<1> HIDE DEF name, text
<1>8. text \in Good /\ Len(text) = Len(inner) + 3
  <2> HIDE DEF closed
  <2>1. text \in Good
    BY <1>3, <1>5, <1>6, GoodParts, Zenon
  <2>2. Len(text) = Len(name) + Len(closed)
    BY <1>3, <1>5, <1>6, TextConcat, Zenon DEF Good
  <2>3. Len(inner) \in Nat
    BY <1>4, TextConcat, Zenon
  <2> HIDE DEF inner
  <2> QED BY <1>6, <1>7, <2>1, <2>2, <2>3
<1>9. ASSUME NEW rest \in Strings, Ascii(rest)
      PROVE  Parse[text \o rest] = {[item |-> f, ate |-> Len(text)]}
  <2>1. text \o rest \in Strings /\ Ascii(text \o rest)
    <3>1. text \in Strings /\ Ascii(text)
      BY <1>8, Zenon DEF Good
    <3> QED BY <1>9, <3>1, TextConcat, AsciiParts, Zenon
  <2>2. ParseGiven(name \o closed \o rest, Parse)
          = {[item |-> filter, ate |-> Len(inner) + 3] : filter \in Operator(name, inner, Parse)}
    <3>1. Ascii(name \o closed \o rest)
      BY <1>3, <2>1, Zenon
    <3> HIDE DEF inner, op
    <3>2. Ascii(<<op>> \o (<<"(">> \o inner \o <<")">>) \o rest)
      BY <3>1, Zenon DEF name
    <3>3. ParseGiven(<<op>> \o (<<"(">> \o inner \o <<")">>) \o rest, Parse)
            = {[item |-> filter, ate |-> Len(inner) + 3] : filter \in Operator(<<op>>, inner, Parse)}
      BY <1>2, <1>4, <3>2, OfOperator
    <3> QED BY <3>3, Zenon DEF name
  <2>3. Parse[text \o rest] = ParseGiven(name \o closed \o rest, Parse)
    BY <1>3, <2>1, ParseIs, Zenon
  <2> DEFINE result(filter) == [item |-> filter, ate |-> Len(text)]
  <2>4. Parse[text \o rest] = {result(filter) : filter \in {f}}
    BY <1>1, <1>8, <2>2, <2>3, Zenon
  <2> HIDE DEF result
  <2>5. {result(filter) : filter \in {f}} = {result(f)}
    OBVIOUS
  <2> QED BY <2>4, <2>5, Zenon DEF result
<1> QED BY <1>8, <1>9, Zenon DEF Parses, text

LEMMA AllParse ==
  ASSUME \A f \in Filters : Writable(f)
  PROVE  \A f \in Filters : Parses(f)
<1> DEFINE T == {f \in Filters : Parses(f)}
<1>1. ASSUME NEW f \in Filters, \A i \in DOMAIN f.kids : f.kids[i] \in T PROVE f \in T
  BY <1>1, FilterParsed, Zenon
<1> HIDE DEF T
<1>2. Filters \subseteq T
  BY <1>1, FilterInduction
<1> QED BY <1>2 DEF T

\* parse reads what a filter is written as, at the beginning of any text, and
\* takes all of it and nothing of what follows (parse, src/filters.rs:140-276):
\* through the search for the parenthesis that closes, the positions of what is
\* inside and the separators between the parts of and and or.
THEOREM ParseOfWritten ==
  ASSUME \A f \in Filters : Writable(f)
  PROVE  \A f \in Filters : \A rest \in Seq(Tokens) :
           Ascii(rest) => Parse[Written[f] \o rest] = {[item |-> f, ate |-> Len(Written[f])]}
BY AllParse, Zenon DEF Parses, Strings

-----------------------------------------------------------------------------
(* The lists of filters of a splitter *)

\* Piece, as a function of texts
Pieces == [rest \in Strings |-> Piece(rest)]

LEMMA PieceMeasures == Measures(Pieces)
<1>1. ASSUME NEW text \in Strings, NEW this \in Piece(text) PROVE this.ate \in Nat
  <2>1. PICK first \in Parse[text] :
          this \in {[item |-> [name |-> name, filter |-> first.item], ate |-> first.ate] : name \in To(text, first.ate)}
    BY <1>1, Zenon DEF Piece
  <2>2. this.ate = first.ate
    BY <2>1
  <2>3. first.ate \in Nat
    BY <2>1, ParseMeasures, Zenon DEF Measures
  <2> QED BY <2>2, <2>3
<1>2. \A text \in Strings : Pieces[text] = Piece(text)
  BY DEF Pieces
<1> QED BY <1>1, <1>2, Zenon DEF Measures

LEMMA PieceRead ==
  ASSUME NEW f \in Filters, Parses(f), NEW rest \in Strings, Ascii(rest)
  PROVE  Pieces[Written[f] \o rest] =
           {[item |-> [name |-> Written[f], filter |-> f], ate |-> Len(Written[f])]}
<1> DEFINE text == Written[f]
           first == [item |-> f, ate |-> Len(text)]
           all == text \o rest
           piece(name, this) == [item |-> [name |-> name, filter |-> this.item], ate |-> this.ate]
           pieces(this) == {piece(name, this) : name \in To(all, this.ate)}
<1>1. text \in Strings /\ Ascii(text)
  BY Zenon DEF Parses, Good
<1>2. all \in Strings /\ Ascii(all)
  BY <1>1, TextConcat, AsciiParts, Zenon
<1>3. Parse[all] = {first}
  BY Zenon DEF Parses
<1>4. To(all, Len(text)) = {text}
  BY <1>1, <1>2, Cuts, Zenon
<1>5. Pieces[all] = UNION {pieces(this) : this \in Parse[all]}
  <2>1. Pieces[all] = Piece(all)
    <3> HIDE DEF all
    <3> QED BY <1>2, Zenon DEF Pieces
  <2> QED BY <2>1, Zenon DEF Piece
<1>6. first.item = f /\ first.ate = Len(text)
  OBVIOUS
<1>7. piece(text, first) = [item |-> [name |-> text, filter |-> f], ate |-> Len(text)]
  <2> HIDE DEF first
  <2> QED BY <1>6, Zenon
<1> HIDE DEF first, text, all
<1>8. pieces(first) = {piece(text, first)}
  <2> HIDE DEF piece
  <2>1. pieces(first) = {piece(name, first) : name \in {text}}
    BY <1>4, <1>6, Zenon
  <2>2. {piece(name, first) : name \in {text}} = {piece(text, first)}
    OBVIOUS
  <2> QED BY <2>1, <2>2, Zenon
<1> HIDE DEF pieces
<1>9. UNION {pieces(this) : this \in {first}} = pieces(first)
  OBVIOUS
<1>10. Pieces[all] = {piece(text, first)}
  BY <1>3, <1>5, <1>8, <1>9, Zenon
<1> QED BY <1>7, <1>10, Zenon DEF all, text

LEMMA ListParsed ==
  ASSUME NEW list \in Seq(Filters), list # <<>>, \A i \in DOMAIN list : Parses(list[i])
  PROVE  NewFilters(TextOf(list)) = {Meant(list)}
<1> DEFINE texts == [i \in DOMAIN list |-> Written[list[i]]]
           meant == Meant(list)
           S == [name : Strings, filter : Filters]
           text == TextOf(list)
<1>1. Len(list) \in Nat /\ DOMAIN list = 1 .. Len(list) /\ \A i \in 1 .. Len(list) : list[i] \in Filters
  OBVIOUS
<1>2. \A i \in 1 .. Len(list) : Parses(list[i]) /\ Written[list[i]] \in Good /\ Written[list[i]] \in Strings
  BY <1>1, Zenon DEF Parses, Good
<1>3. texts \in Seq(Good) /\ Len(texts) = Len(list) /\ \A i \in 1 .. Len(list) : texts[i] = Written[list[i]]
  <2>1. texts \in [1 .. Len(list) -> Good] /\ \A i \in 1 .. Len(list) : texts[i] = Written[list[i]]
    BY <1>1, <1>2
  <2> HIDE DEF texts
  <2> QED BY <1>1, <2>1
<1>4. /\ meant \in Seq(S) /\ Len(meant) = Len(list)
      /\ \A i \in 1 .. Len(list) : meant[i] = [name |-> Written[list[i]], filter |-> list[i]]
  <2>1. /\ meant \in [1 .. Len(list) -> S]
        /\ \A i \in 1 .. Len(list) : meant[i] = [name |-> Written[list[i]], filter |-> list[i]]
    BY <1>1, <1>2 DEF Meant
  <2> HIDE DEF meant, S
  <2> QED BY <1>1, <2>1
<1>5. text = Joined(texts) /\ text \in Good
  <2>1. text = Joined(texts)
    BY Zenon DEF TextOf
  <2>2. text \in Good
    BY KidsParsed, Zenon
  <2> QED BY <2>1, <2>2, Zenon
<1> HIDE DEF texts, meant, S, text
<1>6. texts # <<>>
  BY <1>1, <1>3, EmptySeq
<1>7. ReadsEach(Pieces, texts, meant)
  <2>1. ASSUME NEW n \in 1 .. Len(texts), NEW rest \in Strings, Ascii(rest)
        PROVE  Pieces[texts[n] \o rest] = {[item |-> meant[n], ate |-> Len(texts[n])]}
    <3>1. /\ list[n] \in Filters /\ Parses(list[n]) /\ texts[n] = Written[list[n]]
          /\ meant[n] = [name |-> Written[list[n]], filter |-> list[n]]
      BY <1>1, <1>2, <1>3, <1>4, Zenon
    <3> QED BY <2>1, <3>1, PieceRead, Zenon
  <2> QED BY <2>1, Zenon DEF ReadsEach
<1> DEFINE heads(from) == UNION {Pieces[rest] : rest \in From(text, from)}
<1>8. Items(text, [from \in 0 .. Len(text) |-> heads(from)]) = {meant}
  <2>1. Items(Joined(texts), [from \in 0 .. Len(Joined(texts)) |->
                                UNION {Pieces[rest] : rest \in From(Joined(texts), from)}]) = {meant}
    BY <1>3, <1>4, <1>6, <1>7, PieceMeasures, ItemsRead
  <2> QED BY <1>5, <2>1, Zenon
<1>9. ASSUME NEW from PROVE UNION {Piece(rest) : rest \in From(text, from)} = heads(from)
  <2>1. \A rest \in From(text, from) : rest \in Strings
    BY <1>5, FromShorter, Zenon DEF Good
  <2>2. \A rest \in From(text, from) : Pieces[rest] = Piece(rest)
    BY <2>1 DEF Pieces
  <2>3. {Piece(rest) : rest \in From(text, from)} = {Pieces[rest] : rest \in From(text, from)}
    BY <2>2
  <2> QED BY <2>3, Zenon
<1> HIDE DEF heads
<1>10. Loop(text) = Items(text, [from \in 0 .. Len(text) |-> heads(from)])
  <2>1. [from \in 0 .. Len(text) |-> UNION {Piece(rest) : rest \in From(text, from)}]
          = [from \in 0 .. Len(text) |-> heads(from)]
    BY <1>9, Zenon
  <2> QED BY <2>1, Zenon DEF Loop
<1>11. Ascii(text)
  BY <1>5, Zenon DEF Good
<1>12. NewFilters(text) = {meant}
  BY <1>8, <1>10, <1>11, Zenon DEF NewFilters
<1> QED BY <1>12, Zenon DEF text, meant

\* The splitter of a text that is a list of filters has these filters, in their
\* order, each under its own piece of the text (ProcessSplitterCustomFilter::new,
\* src/groups.rs:170-204).
THEOREM NewOfWritten ==
  ASSUME \A f \in Filters : Writable(f), NEW list \in Seq(Filters), list # <<>>
  PROVE  NewFilters(TextOf(list)) = {Meant(list)}
<1>1. \A f \in Filters : Parses(f)
  BY AllParse
<1>2. \A i \in DOMAIN list : list[i] \in Filters
  OBVIOUS
<1> QED BY <1>1, <1>2, ListParsed, Zenon

-----------------------------------------------------------------------------
(* The lists of the command line *)

LEMMA TextRead ==
  ASSUME NEW text \in Texts, Understood(text)
  PROVE  New[text] = Asked[text]
<1>1. New[text] = IF NewFilters(text) = {} THEN Invalid ELSE CHOOSE list \in NewFilters(text) : TRUE
  BY ParserAssumption
<1>2. CASE ~IsWritten(text)
  <2>1. NewFilters(text) = {}
    BY <1>2, Zenon DEF Understood
  <2>2. Asked[text] = Invalid
    BY <1>2, MeaningAssumption
  <2> QED BY <1>1, <2>1, <2>2, Zenon
<1>3. CASE IsWritten(text)
  <2>1. PICK list \in Lists : text = TextOf(list) /\ Asked[text] = Meant(list)
    BY <1>3, MeaningAssumption
  <2>2. list \in Seq(Filters) /\ list # <<>>
    BY MeaningAssumption
  <2>3. NewFilters(text) = {Meant(list)}
    BY <2>1, <2>2, NewOfWritten, WritableAssumption, Zenon
  <2> DEFINE meant == Meant(list)
  <2> HIDE DEF meant
  <2>4. NewFilters(text) = {meant} /\ Asked[text] = meant
    BY <2>1, <2>3, Zenon DEF meant
  <2>5. New[text] = CHOOSE l \in {meant} : TRUE
    BY <1>1, <2>4
  <2>6. New[text] = meant
    BY <2>5
  <2> QED BY <2>4, <2>6, Zenon
<1> QED BY <1>2, <1>3, Zenon

\* Every list of the command line is parsed as it was meant, or refused when it
\* means nothing.
Agreed == /\ cli.pids # NoText => New[cli.pids] = Asked[cli.pids]
          /\ \A n \in DOMAIN cli.custom : New[cli.custom[n]] = Asked[cli.custom[n]]

LEMMA InitAgreed == Init /\ TextsUnderstood => Agreed
<1> SUFFICES ASSUME Init, TextsUnderstood PROVE Agreed
  OBVIOUS
<1>1. cli \in CommandLines /\ (cli.pids # NoText => cli.pids \in Texts)
  BY GroupsAssumption DEF Init
<1>2. cli.custom \in Seq(Texts)
  BY <1>1 DEF CommandLines
<1>3. \A n \in DOMAIN cli.custom : cli.custom[n] \in Texts
  BY <1>2
<1>4. ASSUME cli.pids # NoText PROVE New[cli.pids] = Asked[cli.pids]
  BY <1>1, <1>4, TextRead, Zenon DEF TextsUnderstood
<1>5. ASSUME NEW n \in DOMAIN cli.custom PROVE New[cli.custom[n]] = Asked[cli.custom[n]]
  BY <1>3, TextRead, Zenon DEF TextsUnderstood
<1> QED BY <1>4, <1>5, Zenon DEF Agreed

LEMMA InitFaithful == Init /\ TextsUnderstood => ListsFaithful
BY InitAgreed DEF Agreed, ListsFaithful, FaithfulTo

\* The splitters of "memstats groups" (--split-pids and --split-custom,
\* src/bin/memstats.rs:718-767) have the filters that the texts of the command
\* line mean, in their order and under their names, if every text is written
\* as a list of filters or refused.
THEOREM ListsAreFaithful == Spec /\ TextsUnderstood => []ListsFaithful
<1>1. ListsFaithful /\ [Next]_vars => ListsFaithful'
  BY ListsStep
<1> QED BY <1>1, InitFaithful, PTL DEF Spec

\* With such texts, from the characters of the command line to the reports: a
\* process that lives is shown in the group of the first filter that is meant
\* to accept it.
THEOREM WrittenFiltersTake == Spec /\ TextsUnderstood => []FirstMatch
BY InitFaithful, FirstFilterTakes, PTL DEF Spec

-----------------------------------------------------------------------------
(* The order of the reports *)

\* The names that are still to come
Coming == {filters[i].name : i \in DOMAIN filters}

\* Only reports that were asked for are made.
Wanted ==
  phase # "idle" => /\ stage = "uid" => cli.uid
                    /\ stage = "env" => cli.env
                    /\ stage = "pids" => cli.pids # NoText

\* The groups of a report and those to come are the groups of its text.
KeysKept ==
  InFilters => /\ phase = "split" => DOMAIN groups \cup Coming \cup {Other} = NamesIn(Text)
               /\ phase = "show" => DOMAIN groups = NamesIn(Text)

UidPart == IF cli.uid THEN <<<<"uid", {}>>>> ELSE <<>>
EnvPart == IF cli.env THEN <<<<"env", {}>>>> ELSE <<>>
PidsPart == IF cli.pids # NoText THEN <<<<"pids", NamesIn(cli.pids)>>>> ELSE <<>>
CustomReport(n) == <<"custom", NamesIn(cli.custom[n])>>
CustomPart(n) == [m \in 1 .. n |-> CustomReport(m)]
FixedPart == UidPart \o EnvPart \o PidsPart

\* How many custom lists were popped, and how many of them were shown
PoppedSoFar == Len(cli.custom) - Len(custom)
ShownSoFar == IF (stage = "custom" /\ phase # "idle") \/ stage = "panic" THEN PoppedSoFar - 1 ELSE PoppedSoFar

ValidTo(n) == \A m \in 1 .. n : Asked[cli.custom[m]] # Invalid

\* What was shown, at each place of main
ShownKept ==
  /\ stage = "uid" => shown = <<>>
  /\ stage = "env" => shown = UidPart
  /\ stage = "pids" => shown = UidPart \o EnvPart
  /\ stage \in {"custom", "end", "panic"} => shown = FixedPart \o CustomPart(ShownSoFar)

PoppedValid ==
  /\ stage \in {"uid", "env", "pids"} => PoppedSoFar = 0
  /\ stage = "custom" /\ phase # "idle" => PoppedSoFar >= 1
  /\ stage # "panic" => ValidTo(PoppedSoFar)
  /\ stage = "end" => custom = <<>>
  /\ stage = "panic" => /\ PoppedSoFar >= 1 /\ ValidTo(PoppedSoFar - 1)
                        /\ Asked[cli.custom[PoppedSoFar]] = Invalid

OrderInv == TypeInv /\ Popped /\ Wanted /\ KeysKept /\ ShownKept /\ PoppedValid /\ Agreed

\* All reports there may be
ReportSet == {<<"uid", {}>>, <<"env", {}>>, <<"pids", NamesIn(cli.pids)>>} \cup {CustomReport(n) : n \in Nat}

LEMMA PartsAre ==
  /\ UidPart \in Seq(ReportSet) /\ EnvPart \in Seq(ReportSet) /\ PidsPart \in Seq(ReportSet)
  /\ \A n \in Nat : CustomReport(n) \in ReportSet
<1> DEFINE u == <<"uid", {}>>
           e == <<"env", {}>>
           p == <<"pids", NamesIn(cli.pids)>>
<1>1. u \in ReportSet /\ e \in ReportSet /\ p \in ReportSet
  BY Zenon DEF ReportSet
<1>2. UidPart = (IF cli.uid THEN <<u>> ELSE <<>>) /\ EnvPart = (IF cli.env THEN <<e>> ELSE <<>>)
      /\ PidsPart = (IF cli.pids # NoText THEN <<p>> ELSE <<>>)
  BY Zenon DEF UidPart, EnvPart, PidsPart
<1>3. \A n \in Nat : CustomReport(n) \in ReportSet
  BY Zenon DEF ReportSet
<1> HIDE DEF u, e, p
<1>4. UidPart \in Seq(ReportSet) /\ EnvPart \in Seq(ReportSet) /\ PidsPart \in Seq(ReportSet)
  BY <1>1, <1>2
<1> QED BY <1>3, <1>4

LEMMA CustomPartIs ==
  ASSUME NEW n \in Nat
  PROVE  /\ CustomPart(n) \in Seq(ReportSet) /\ Len(CustomPart(n)) = n
         /\ \A m \in 1 .. n : CustomPart(n)[m] = CustomReport(m)
<1>1. \A m \in 1 .. n : CustomReport(m) \in ReportSet
  BY PartsAre
<1> QED BY <1>1 DEF CustomPart

LEMMA FixedPartIs == FixedPart \in Seq(ReportSet) /\ UidPart \o EnvPart \in Seq(ReportSet)
<1>1. UidPart \o EnvPart \in Seq(ReportSet)
  BY PartsAre, ConcatProperties
<1>2. (UidPart \o EnvPart) \o PidsPart \in Seq(ReportSet)
  BY <1>1, PartsAre, ConcatProperties
<1> QED BY <1>1, <1>2 DEF FixedPart

\* One more custom report
LEMMA CustomNext ==
  ASSUME NEW n \in Nat
  PROVE  Append(FixedPart \o CustomPart(n), CustomReport(n + 1)) = FixedPart \o CustomPart(n + 1)
<1> DEFINE m == n + 1
           x == CustomReport(m)
           a == CustomPart(n)
           b == CustomPart(m)
<1>1. /\ m \in Nat /\ m = n + 1 /\ x \in ReportSet
      /\ a \in Seq(ReportSet) /\ Len(a) = n /\ b \in Seq(ReportSet) /\ Len(b) = m
      /\ \A i \in 1 .. n : a[i] = CustomReport(i)
      /\ \A i \in 1 .. m : b[i] = CustomReport(i)
  BY PartsAre, CustomPartIs
<1>2. x = CustomReport(m)
  OBVIOUS
<1> HIDE DEF m, x, a, b
<1>3. Append(a, x) \in Seq(ReportSet) /\ Len(Append(a, x)) = m
  BY <1>1, AppendProperties
<1>4. ASSUME NEW i \in 1 .. m PROVE Append(a, x)[i] = b[i]
  <2>1. CASE i = m
    BY <1>1, <1>2, <2>1
  <2>2. CASE i # m
    <3>1. i \in 1 .. n
      BY <1>1, <2>2
    <3> QED BY <1>1, <3>1
  <2> QED BY <2>1, <2>2
<1>5. Append(a, x) = b
  BY <1>1, <1>3, <1>4, SeqEqual
<1>6. Append(FixedPart \o a, x) = FixedPart \o Append(a, x)
  <2> DEFINE f == FixedPart
             g == f \o a
             one == <<x>>
  <2>1. f \in Seq(ReportSet) /\ one \in Seq(ReportSet)
    BY <1>1, FixedPartIs
  <2>2. g \in Seq(ReportSet)
    BY <1>1, <2>1, ConcatProperties
  <2> HIDE DEF f, g
  <2>3. Append(g, x) = g \o one /\ Append(a, x) = a \o one
    BY <1>1, <2>2, AppendIsConcat
  <2> HIDE DEF one
  <2>4. \A s, t, u \in Seq(ReportSet) : (s \o t) \o u = s \o (t \o u)
    BY ConcatAssociative
  <2>5. (f \o a) \o one = f \o (a \o one)
    BY <1>1, <2>1, <2>4
  <2> QED BY <2>3, <2>5 DEF f, g
<1> QED BY <1>5, <1>6 DEF a, b, x, m

LEMMA PrefixOfConcat ==
  ASSUME NEW S, NEW a \in Seq(S), NEW b \in Seq(S)
  PROVE  IsPrefix(a, a \o b)
<1>1. Len(a) \in Nat /\ Len(b) \in Nat /\ Len(a \o b) = Len(a) + Len(b)
  BY ConcatProperties
<1>2. \A n \in 0 .. Len(a) : SubSeq(a \o b, 1, n) = SubSeq(a, 1, n)
  BY Slices
<1>3. SubSeq(a \o b, 1, Len(a)) = SubSeq(a, 1, Len(a))
  <2> DEFINE n == Len(a)
  <2>1. n \in 0 .. Len(a)
    BY <1>1
  <2> HIDE DEF n
  <2>2. SubSeq(a \o b, 1, n) = SubSeq(a, 1, n)
    BY <1>2, <2>1
  <2> QED BY <2>2 DEF n
<1> QED BY <1>1, <1>3 DEF IsPrefix

\* The first custom reports are the beginning of more of them.
LEMMA CustomPrefix ==
  ASSUME NEW k \in Nat, NEW n \in Nat, k <= n
  PROVE  IsPrefix(FixedPart \o CustomPart(k), FixedPart \o CustomPart(n))
<1> DEFINE a == CustomPart(k)
           b == CustomPart(n)
           c == [i \in 1 .. n - k |-> CustomReport(k + i)]
<1>1. /\ a \in Seq(ReportSet) /\ Len(a) = k /\ b \in Seq(ReportSet) /\ Len(b) = n
      /\ \A i \in 1 .. k : a[i] = CustomReport(i)
      /\ \A i \in 1 .. n : b[i] = CustomReport(i)
  BY CustomPartIs
<1>2. \A i \in 1 .. n - k : CustomReport(k + i) \in ReportSet
  BY PartsAre
<1>3. c \in Seq(ReportSet) /\ Len(c) = n - k /\ \A i \in 1 .. n - k : c[i] = CustomReport(k + i)
  BY <1>2
<1> HIDE DEF a, b, c
<1>4. /\ a \o c \in Seq(ReportSet) /\ Len(a \o c) = n
      /\ \A i \in 1 .. n : (a \o c)[i] = IF i <= k THEN a[i] ELSE c[i - k]
  <2>1. /\ a \o c \in Seq(ReportSet) /\ Len(a \o c) = Len(a) + Len(c)
        /\ \A i \in 1 .. Len(a) + Len(c) : (a \o c)[i] = IF i <= Len(a) THEN a[i] ELSE c[i - Len(a)]
    BY <1>1, <1>3, ConcatProperties
  <2>2. Len(a) + Len(c) = n
    BY <1>1, <1>3
  <2> QED BY <1>1, <2>1, <2>2
<1>5. ASSUME NEW i \in 1 .. n PROVE b[i] = (a \o c)[i]
  <2>1. CASE i <= k
    <3>1. i \in 1 .. k
      BY <2>1
    <3> QED BY <1>1, <1>4, <2>1, <3>1
  <2>2. CASE ~(i <= k)
    <3>1. i - k \in 1 .. n - k /\ k + (i - k) = i
      BY <2>2
    <3>2. c[i - k] = CustomReport(i)
      BY <1>3, <3>1
    <3> QED BY <1>1, <1>4, <2>2, <3>2
  <2> QED BY <2>1, <2>2
<1>6. b = a \o c
  BY <1>1, <1>4, <1>5, SeqEqual
<1>7. FixedPart \o a \in Seq(ReportSet) /\ (FixedPart \o a) \o c = FixedPart \o (a \o c)
  <2>1. FixedPart \in Seq(ReportSet) /\ a \in Seq(ReportSet) /\ c \in Seq(ReportSet)
    BY <1>1, <1>3, FixedPartIs
  <2>2. FixedPart \o a \in Seq(ReportSet)
    BY <2>1, ConcatProperties, Zenon
  <2>3. \A s, t, u \in Seq(ReportSet) : (s \o t) \o u = s \o (t \o u)
    BY ConcatAssociative
  <2> QED BY <2>1, <2>2, <2>3
<1>8. IsPrefix(FixedPart \o a, (FixedPart \o a) \o c)
  BY <1>3, <1>7, PrefixOfConcat
<1> QED BY <1>6, <1>7, <1>8 DEF a, b

\* What was made of the command line stays as it is.
LEMMA PartsKept ==
  ASSUME cli' = cli
  PROVE  /\ UidPart' = UidPart /\ EnvPart' = EnvPart /\ FixedPart' = FixedPart
         /\ \A n : CustomPart(n)' = CustomPart(n) /\ (ValidTo(n)' <=> ValidTo(n))
         /\ Agreed' <=> Agreed
<1>1. \A text : NamesIn(text)' = NamesIn(text)
  BY DEF NamesIn
<1>2. UidPart' = UidPart /\ EnvPart' = EnvPart /\ PidsPart' = PidsPart
  BY <1>1 DEF UidPart, EnvPart, PidsPart
<1>3. FixedPart' = FixedPart
  BY <1>2 DEF FixedPart
<1>4. \A n : CustomReport(n)' = CustomReport(n)
  BY <1>1 DEF CustomReport
<1>5. \A n : CustomPart(n)' = CustomPart(n)
  BY <1>4 DEF CustomPart
<1>6. \A n : ValidTo(n)' <=> ValidTo(n)
  BY DEF ValidTo
<1>7. Agreed' <=> Agreed
  BY DEF Agreed
<1> QED BY <1>2, <1>3, <1>5, <1>6, <1>7

LEMMA CountsAre ==
  ASSUME TypeInv, Popped
  PROVE  /\ custom \in Seq(Texts) /\ Len(custom) \in Nat /\ DOMAIN custom = 1 .. Len(custom)
         /\ cli.custom \in Seq(Texts) /\ Len(cli.custom) \in Nat /\ DOMAIN cli.custom = 1 .. Len(cli.custom)
         /\ PoppedSoFar \in Nat /\ PoppedSoFar <= Len(cli.custom) /\ Len(custom) = Len(cli.custom) - PoppedSoFar
<1>1. custom \in Seq(Texts) /\ cli.custom \in Seq(Texts)
  BY DEF TypeInv, TypeOK, CommandLines
<1>2. /\ Len(custom) \in Nat /\ DOMAIN custom = 1 .. Len(custom)
      /\ Len(cli.custom) \in Nat /\ DOMAIN cli.custom = 1 .. Len(cli.custom)
  BY <1>1
<1>3. Len(custom) <= Len(cli.custom)
  BY DEF Popped
<1> QED BY <1>1, <1>2, <1>3 DEF PoppedSoFar

\* The list that is popped
LEMMA LastIs ==
  ASSUME OrderInv, custom # <<>>, custom' = Front(custom), cli' = cli, phase' = "split" => stage' = "custom"
  PROVE  /\ PoppedSoFar + 1 \in DOMAIN cli.custom
         /\ Last(custom) = cli.custom[PoppedSoFar + 1] /\ Last(custom) \in Texts
         /\ New[Last(custom)] = Asked[Last(custom)]
         /\ PoppedSoFar' = PoppedSoFar + 1 /\ Popped'
<1> DEFINE C == cli.custom
           q == PoppedSoFar
<1>1. /\ custom \in Seq(Texts) /\ Len(custom) \in Nat /\ DOMAIN custom = 1 .. Len(custom)
      /\ C \in Seq(Texts) /\ Len(C) \in Nat /\ DOMAIN C = 1 .. Len(C)
      /\ q \in Nat /\ q <= Len(C) /\ Len(custom) = Len(C) - q
  BY CountsAre DEF OrderInv
<1>2. \A n \in DOMAIN custom : custom[n] = C[Len(C) + 1 - n]
  BY DEF OrderInv, Popped
<1>3. Len(custom) \in 1 .. Len(custom)
  BY <1>1
<1>4. /\ custom' \in Seq(Texts) /\ Len(custom') = Len(custom) - 1 /\ DOMAIN custom' = 1 .. Len(custom) - 1
      /\ \A n \in 1 .. Len(custom) - 1 : custom'[n] = custom[n]
  <2> DEFINE front == Front(custom)
  <2>0. custom \in Seq(Texts) /\ Len(custom) \in Nat \ {0}
    BY <1>1, <1>3
  <2>1. front \in Seq(Texts) /\ Len(front) = Len(custom) - 1
    <3> DEFINE m == Len(custom) - 1
    <3>1. front = SubSeq(custom, 1, m)
      BY DEF Front
    <3>2. m \in Nat /\ \A i \in 1 .. m : custom[i] \in Texts
      BY <2>0
    <3> HIDE DEF front, m
    <3>3. SubSeq(custom, 1, m) \in Seq(Texts) /\ Len(SubSeq(custom, 1, m)) = m
      BY <3>2, SubSeqProperties
    <3> QED BY <3>1, <3>3 DEF m
  <2>2. \A n \in 1 .. Len(custom) - 1 : front[n] = custom[n]
    BY <2>0 DEF Front
  <2>3. custom' = front
    OBVIOUS
  <2> HIDE DEF front
  <2> QED BY <1>1, <2>1, <2>2, <2>3
<1>5. q' = Len(C) - Len(custom')
  BY DEF PoppedSoFar
<1> HIDE DEF C, q
<1>6. Last(custom) = C[q + 1] /\ q + 1 \in DOMAIN C
  <2>1. custom[Len(custom)] = C[Len(C) + 1 - Len(custom)]
    BY <1>1, <1>2, <1>3
  <2>2. Len(C) + 1 - Len(custom) = q + 1 /\ q + 1 \in 1 .. Len(C)
    BY <1>1, <1>3
  <2> QED BY <1>1, <2>1, <2>2 DEF Last
<1>7. C[q + 1] \in Texts
  BY <1>1, <1>6
<1>8. New[C[q + 1]] = Asked[C[q + 1]]
  BY <1>6 DEF OrderInv, Agreed, C
<1>9. q' = q + 1
  BY <1>1, <1>4, <1>5
<1>10. Popped'
  <2>1. Len(custom') <= Len(C)
    BY <1>1, <1>4
  <2>2. \A n \in 1 .. Len(custom) - 1 : custom'[n] = C[Len(C) + 1 - n]
    <3> SUFFICES ASSUME NEW n \in 1 .. Len(custom) - 1 PROVE custom'[n] = C[Len(C) + 1 - n]
      OBVIOUS
    <3>1. n \in DOMAIN custom
      BY <1>1
    <3>2. custom[n] = C[Len(C) + 1 - n]
      BY <1>2, <3>1
    <3>3. custom'[n] = custom[n]
      BY <1>4
    <3> QED BY <3>2, <3>3
  <2> QED BY <1>4, <2>1, <2>2 DEF Popped, C
<1> QED BY <1>6, <1>7, <1>8, <1>9, <1>10 DEF C, q

\* A splitter starts without groups, and with all the names of its text.
LEMMA ListStarts ==
  ASSUME NEW text, New[text] = Asked[text], StartFilters(New[text]), Text' = text
  PROVE  KeysKept'
<1>1. DOMAIN groups' = {} /\ filters' = New[text] /\ phase' = "split"
  BY DEF StartFilters
<1>2. Coming' = {Asked[text][i].name : i \in DOMAIN Asked[text]}
  BY <1>1 DEF Coming
<1>3. NamesIn(Text)' = Coming' \cup {Other}
  BY <1>2 DEF NamesIn
<1> QED BY <1>1, <1>3 DEF KeysKept

\* One more list is taken from the command line.
LEMMA PopOrder ==
  ASSUME OrderInv, TypeInv', PopCustom
  PROVE  OrderInv'
<1>t. PICK text : text = Last(custom)
  OBVIOUS
<1>q. PICK q : q = PoppedSoFar
  OBVIOUS
<1>1. /\ stage = "custom" /\ phase = "idle" /\ custom # <<>> /\ custom' = Front(custom)
      /\ New[text] # Invalid /\ StartFilters(New[text])
  BY <1>t DEF PopCustom
<1>2. /\ phase' = "split" /\ stage' = "custom" /\ UNCHANGED <<cli, stage, shown>>
  BY <1>1 DEF StartFilters
<1>3. /\ q + 1 \in DOMAIN cli.custom /\ text = cli.custom[q + 1] /\ text \in Texts /\ New[text] = Asked[text]
      /\ PoppedSoFar' = q + 1 /\ Popped'
  BY <1>t, <1>q, <1>1, <1>2, LastIs, Zenon
<1>4. q \in Nat /\ (ValidTo(q + 1)' <=> ValidTo(q + 1))
  BY <1>q, <1>2, CountsAre, PartsKept DEF OrderInv
<1>5. ShownSoFar = q /\ ShownSoFar' = q
  BY <1>q, <1>1, <1>2, <1>3, <1>4 DEF ShownSoFar
<1>6. Text' = text
  BY <1>q, <1>2, <1>3 DEF Text, PoppedSoFar
<1>7. ValidTo(q + 1)
  <2>1. ValidTo(q)
    BY <1>q, <1>1 DEF OrderInv, PoppedValid
  <2>2. Asked[cli.custom[q + 1]] # Invalid
    BY <1>1, <1>3
  <2>3. \A m \in 1 .. q + 1 : m \in 1 .. q \/ m = q + 1
    BY <1>4
  <2> QED BY <2>1, <2>2, <2>3 DEF ValidTo
<1>8. PoppedValid'
  <2>1. PoppedSoFar' = q + 1 /\ ValidTo(q + 1)'
    BY <1>3, <1>4, <1>7
  <2>2. (PoppedSoFar >= 1 /\ ValidTo(PoppedSoFar))'
    BY <1>4, <2>1
  <2> QED BY <1>2, <2>2 DEF PoppedValid
<1>9. ShownKept'
  <2>1. shown = FixedPart \o CustomPart(q)
    BY <1>1, <1>5 DEF OrderInv, ShownKept
  <2>2. (FixedPart \o CustomPart(ShownSoFar))' = FixedPart \o CustomPart(q)
    BY <1>2, <1>5, PartsKept
  <2> QED BY <1>2, <2>1, <2>2 DEF ShownKept
<1>10. KeysKept'
  BY <1>1, <1>3, <1>6, ListStarts, Zenon
<1>11. Wanted'
  BY <1>2 DEF Wanted
<1>12. Agreed'
  BY <1>2, PartsKept DEF OrderInv
<1> QED BY <1>3, <1>8, <1>9, <1>10, <1>11, <1>12 DEF OrderInv

\* A text is refused, and memstats stops.
LEMMA RefuseOrder ==
  ASSUME OrderInv, TypeInv', PopInvalid
  PROVE  OrderInv'
<1>t. PICK text : text = Last(custom)
  OBVIOUS
<1>q. PICK q : q = PoppedSoFar
  OBVIOUS
<1>1. /\ stage = "custom" /\ phase = "idle" /\ custom # <<>> /\ custom' = Front(custom)
      /\ New[text] = Invalid /\ stage' = "panic" /\ UNCHANGED <<cli, phase, shown>>
  BY <1>t DEF PopInvalid
<1>2. phase' # "split"
  BY <1>1
<1>3. /\ q + 1 \in DOMAIN cli.custom /\ text = cli.custom[q + 1] /\ New[text] = Asked[text]
      /\ PoppedSoFar' = q + 1 /\ Popped'
  BY <1>t, <1>q, <1>1, <1>2, LastIs, Zenon
<1>4. q \in Nat /\ (ValidTo(q)' <=> ValidTo(q)) /\ ValidTo(q)
  BY <1>q, <1>1, CountsAre, PartsKept DEF OrderInv, PoppedValid
<1>5. ShownSoFar = q /\ ShownSoFar' = q
  BY <1>q, <1>1, <1>3, <1>4 DEF ShownSoFar
<1>6. PoppedValid'
  <2>1. PoppedSoFar' = q + 1 /\ (q + 1) - 1 = q /\ q + 1 >= 1
    BY <1>3, <1>4
  <2>2. Asked[cli.custom[q + 1]]' = Invalid
    BY <1>1, <1>3
  <2>3. (PoppedSoFar >= 1 /\ ValidTo(PoppedSoFar - 1) /\ Asked[cli.custom[PoppedSoFar]] = Invalid)'
    BY <1>4, <2>1, <2>2
  <2> QED BY <1>1, <2>3 DEF PoppedValid
<1>7. ShownKept'
  <2>1. shown = FixedPart \o CustomPart(q)
    BY <1>1, <1>5 DEF OrderInv, ShownKept
  <2>2. (FixedPart \o CustomPart(ShownSoFar))' = FixedPart \o CustomPart(q)
    BY <1>1, <1>5, PartsKept
  <2> QED BY <1>1, <2>1, <2>2 DEF ShownKept
<1>8. KeysKept' /\ Wanted'
  BY <1>1 DEF KeysKept, InFilters, Wanted
<1>9. Agreed'
  BY <1>1, PartsKept DEF OrderInv
<1> QED BY <1>3, <1>6, <1>7, <1>8, <1>9 DEF OrderInv

LEMMA PidsOrder ==
  ASSUME OrderInv, TypeInv', SplitByPids
  PROVE  OrderInv'
<1>1. /\ stage = "pids" /\ phase = "idle" /\ cli.pids # NoText /\ StartFilters(New[cli.pids])
      /\ phase' = "split" /\ stage' = "pids" /\ UNCHANGED <<cli, custom, shown>>
  BY DEF SplitByPids, StartFilters
<1>2. New[cli.pids] = Asked[cli.pids] /\ Text' = cli.pids
  BY <1>1 DEF OrderInv, Agreed, Text
<1>3. KeysKept'
  BY <1>1, <1>2, ListStarts, Zenon
<1>4. PoppedSoFar' = PoppedSoFar /\ Popped'
  BY <1>1 DEF PoppedSoFar, OrderInv, Popped
<1>5. PoppedValid'
  BY <1>1, <1>4, PartsKept DEF OrderInv, PoppedValid
<1>6. ShownKept'
  BY <1>1, PartsKept DEF OrderInv, ShownKept
<1>7. Wanted' /\ Agreed'
  BY <1>1, PartsKept DEF Wanted, OrderInv
<1> QED BY <1>3, <1>4, <1>5, <1>6, <1>7 DEF OrderInv

\* Steps that neither pop a list nor show a report
LEMMA SameOrder ==
  ASSUME OrderInv, UNCHANGED <<cli, custom, stage, shown>>, phase' = "split" => phase = "split",
         phase' = "idle" <=> phase = "idle"
  PROVE  Popped' /\ ShownKept' /\ PoppedValid' /\ Agreed' /\ (Wanted => Wanted')
<1>1. PoppedSoFar' = PoppedSoFar /\ ShownSoFar' = ShownSoFar
  BY DEF PoppedSoFar, ShownSoFar
<1>2. Popped'
  BY DEF OrderInv, Popped
<1>3. PoppedValid'
  <2>1. \A n : ValidTo(n)' <=> ValidTo(n)
    BY PartsKept
  <2>2. PICK q : q = PoppedSoFar
    OBVIOUS
  <2>3. /\ ValidTo(PoppedSoFar)' <=> ValidTo(PoppedSoFar)
        /\ ValidTo(PoppedSoFar - 1)' <=> ValidTo(PoppedSoFar - 1)
    BY <1>1, <2>1, <2>2
  <2> QED BY <1>1, <2>3 DEF OrderInv, PoppedValid
<1>4. ShownKept'
  <2>1. PICK n : n = ShownSoFar
    OBVIOUS
  <2>2. (FixedPart \o CustomPart(ShownSoFar))' = FixedPart \o CustomPart(n)
    BY <1>1, <2>1, PartsKept
  <2>3. (UidPart \o EnvPart)' = UidPart \o EnvPart
    BY PartsKept
  <2> QED BY <2>1, <2>2, <2>3, PartsKept DEF OrderInv, ShownKept
<1> QED BY <1>2, <1>3, <1>4, PartsKept DEF OrderInv, Wanted

\* The filters of a text, one after the other
LEMMA FilterOrder ==
  ASSUME OrderInv, TypeInv', (\E p \in Pids : Eval(p)) \/ CloseGroup \/ CloseOther
  PROVE  OrderInv'
<1>1. /\ UNCHANGED <<cli, custom, stage, shown>> /\ phase = "split" /\ phase' \in {"split", "show"}
  BY DEF Eval, CloseGroup, CloseOther
<1>2. Popped' /\ ShownKept' /\ PoppedValid' /\ Agreed' /\ (Wanted => Wanted')
  BY <1>1, SameOrder
<1>3. /\ InFilters /\ DOMAIN groups \cup Coming \cup {Other} = NamesIn(Text)
      /\ NamesIn(Text)' = NamesIn(Text)
  <2>1. Text' = Text
    BY <1>1 DEF Text
  <2> QED BY <1>1, <2>1 DEF OrderInv, Popped, KeysKept, InFilters, NamesIn
<1>4. KeysKept'
  <2>1. CASE \E p \in Pids : Eval(p)
    <3>1. UNCHANGED <<phase, groups, filters>>
      BY <2>1 DEF Eval
    <3> QED BY <1>1, <1>3, <3>1 DEF KeysKept, Coming
  <2>2. CASE CloseGroup
    <3>1. /\ filters # <<>> /\ filters \in Seq(Named) /\ filters' = Tail(filters) /\ phase' = "split"
          /\ DOMAIN groups' = DOMAIN groups \cup {Head(filters).name}
      BY <2>2 DEF CloseGroup, Insert, OrderInv, TypeInv, TypeOK
    <3>2. Coming = {Head(filters).name} \cup Coming'
      <4>1. /\ Len(filters) \in Nat \ {0} /\ DOMAIN filters = 1 .. Len(filters) /\ Head(filters) = filters[1]
            /\ DOMAIN Tail(filters) = 1 .. Len(filters) - 1
            /\ \A i \in 1 .. Len(filters) - 1 : Tail(filters)[i] = filters[i + 1]
        BY <3>1
      <4> DEFINE rest == Tail(filters)
                 f == filters
      <4>2. Coming' = {rest[i].name : i \in DOMAIN rest}
        BY <3>1 DEF Coming
      <4>3. Coming = {f[i].name : i \in DOMAIN f} /\ Head(filters) = f[1]
        BY <4>1 DEF Coming
      <4>4. /\ Len(f) \in Nat \ {0} /\ DOMAIN f = 1 .. Len(f) /\ DOMAIN rest = 1 .. Len(f) - 1
            /\ \A i \in 1 .. Len(f) - 1 : rest[i] = f[i + 1]
        BY <4>1
      <4> HIDE DEF rest, f
      <4>5. ASSUME NEW i \in DOMAIN f PROVE f[i].name \in {f[1].name} \cup {rest[k].name : k \in DOMAIN rest}
        <5>1. CASE i = 1
          BY <5>1
        <5>2. CASE i # 1
          <6>1. i - 1 \in 1 .. Len(f) - 1 /\ (i - 1) + 1 = i
            BY <4>4, <5>2
          <6>2. rest[i - 1] = f[i] /\ i - 1 \in DOMAIN rest
            BY <4>4, <6>1
          <6> QED BY <6>2
        <5> QED BY <5>1, <5>2
      <4>6. ASSUME NEW i \in DOMAIN rest PROVE rest[i].name \in {f[k].name : k \in DOMAIN f}
        <5>1. rest[i] = f[i + 1] /\ i + 1 \in DOMAIN f
          BY <4>4
        <5> QED BY <5>1
      <4>7. 1 \in DOMAIN f
        BY <4>4
      <4> QED BY <4>2, <4>3, <4>5, <4>6, <4>7
    <3> QED BY <1>3, <3>1, <3>2 DEF KeysKept
  <2>3. CASE CloseOther
    <3>1. filters = <<>> /\ phase' = "show" /\ DOMAIN groups' = DOMAIN groups \cup {Other}
      BY <2>3 DEF CloseOther, Insert
    <3>2. Coming = {}
      BY <3>1 DEF Coming
    <3> QED BY <1>3, <3>1, <3>2 DEF KeysKept
  <2> QED BY <2>1, <2>2, <2>3
<1>5. Wanted
  BY DEF OrderInv
<1> QED BY <1>2, <1>4, <1>5 DEF OrderInv

LEMMA KeyOrder ==
  ASSUME OrderInv, TypeInv', SplitByUid \/ SplitByEnv
  PROVE  OrderInv'
<1>1. /\ UNCHANGED <<cli, custom, stage, shown>> /\ phase = "idle" /\ phase' = "show"
      /\ (stage = "uid" /\ cli.uid) \/ (stage = "env" /\ cli.env)
  BY DEF SplitByUid, SplitByEnv, SplitByKey
<1>2. PoppedSoFar' = PoppedSoFar /\ Popped'
  BY <1>1 DEF PoppedSoFar, OrderInv, Popped
<1>3. PoppedValid'
  BY <1>1, <1>2, PartsKept DEF OrderInv, PoppedValid
<1>4. ShownKept'
  BY <1>1, PartsKept DEF OrderInv, ShownKept
<1>5. KeysKept' /\ Wanted' /\ Agreed'
  BY <1>1, PartsKept DEF KeysKept, InFilters, Wanted, OrderInv
<1> QED BY <1>2, <1>3, <1>4, <1>5 DEF OrderInv

LEMMA NoCustom == CustomPart(0) = <<>> /\ FixedPart \o CustomPart(0) = FixedPart
<1> DEFINE n == 0
<1>1. n \in Nat
  OBVIOUS
<1>2. n = 0
  OBVIOUS
<1> HIDE DEF n
<1>3. CustomPart(n) \in Seq(ReportSet) /\ Len(CustomPart(n)) = n
  BY <1>1, CustomPartIs
<1>4. CustomPart(n) = <<>>
  BY <1>2, <1>3
<1>5. FixedPart \o <<>> = FixedPart
  BY FixedPartIs, ConcatEmptySeq, Zenon
<1> QED BY <1>4, <1>5 DEF n

LEMMA OneMore ==
  ASSUME NEW a \in Seq(ReportSet), NEW x \in ReportSet
  PROVE  Append(a, x) = a \o <<x>>
BY AppendIsConcat, Zenon

\* The report of the place main is at becomes the last one shown.
LEMMA ShowParts ==
  ASSUME OrderInv, ShowAndCollect
  PROVE  /\ stage = "uid" => shown' = UidPart
         /\ stage = "env" => shown' = UidPart \o EnvPart
         /\ stage = "pids" => shown' = FixedPart
         /\ stage = "custom" => shown' = FixedPart \o CustomPart(PoppedSoFar) /\ PoppedSoFar >= 1
<1> DEFINE u == <<"uid", {}>>
           e == <<"env", {}>>
           p == <<"pids", NamesIn(cli.pids)>>
<1>1. shown' = Append(shown, Report) /\ phase = "show"
  BY DEF ShowAndCollect
<1>2. u \in ReportSet /\ e \in ReportSet /\ p \in ReportSet
  BY Zenon DEF ReportSet
<1>3. /\ stage = "uid" => UidPart = <<u>> /\ Report = u
      /\ stage = "env" => EnvPart = <<e>> /\ Report = e
  BY <1>1 DEF OrderInv, Wanted, UidPart, EnvPart, Report
<1>4. ASSUME stage = "pids" PROVE PidsPart = <<p>> /\ Report = p
  <2>1. Text = cli.pids /\ InFilters
    BY <1>1, <1>4 DEF Text, InFilters
  <2>2. DOMAIN groups = NamesIn(cli.pids)
    BY <1>1, <2>1 DEF OrderInv, KeysKept
  <2>3. cli.pids # NoText
    BY <1>1, <1>4 DEF OrderInv, Wanted
  <2> QED BY <1>4, <2>2, <2>3 DEF PidsPart, Report
<1> HIDE DEF u, e, p
<1>5. ASSUME stage = "uid" PROVE shown' = UidPart
  <2>1. shown = <<>>
    BY <1>5 DEF OrderInv, ShownKept
  <2>2. Append(<<>>, u) = <<u>>
    OBVIOUS
  <2> QED BY <1>1, <1>3, <1>5, <2>1, <2>2
<1>6. ASSUME stage = "env" PROVE shown' = UidPart \o EnvPart
  <2>1. shown = UidPart
    BY <1>6 DEF OrderInv, ShownKept
  <2>2. Append(UidPart, e) = UidPart \o <<e>>
    BY <1>2, PartsAre, OneMore, Zenon
  <2> QED BY <1>1, <1>3, <1>6, <2>1, <2>2
<1>7. ASSUME stage = "pids" PROVE shown' = FixedPart
  <2> DEFINE b == UidPart \o EnvPart
  <2>1. shown = b
    BY <1>7 DEF OrderInv, ShownKept
  <2>2. b \in Seq(ReportSet)
    BY FixedPartIs
  <2>3. FixedPart = b \o PidsPart
    BY DEF FixedPart
  <2> HIDE DEF b
  <2>4. Append(b, p) = b \o <<p>>
    BY <1>2, <2>2, OneMore, Zenon
  <2> QED BY <1>1, <1>4, <1>7, <2>1, <2>3, <2>4
<1>8. ASSUME stage = "custom" PROVE shown' = FixedPart \o CustomPart(PoppedSoFar) /\ PoppedSoFar >= 1
  <2> DEFINE n == PoppedSoFar - 1
  <2>1. n \in Nat /\ n + 1 = PoppedSoFar /\ PoppedSoFar >= 1
    BY <1>1, <1>8, CountsAre DEF OrderInv, PoppedValid
  <2>2. ShownSoFar = n
    BY <1>1, <1>8 DEF ShownSoFar
  <2>3. shown = FixedPart \o CustomPart(n)
    BY <1>8, <2>2 DEF OrderInv, ShownKept
  <2>4. Report = CustomReport(n + 1)
    <3>1. Text = cli.custom[n + 1] /\ InFilters
      BY <1>1, <1>8, <2>1 DEF Text, InFilters, PoppedSoFar
    <3>2. DOMAIN groups = NamesIn(cli.custom[n + 1])
      BY <1>1, <3>1 DEF OrderInv, KeysKept
    <3> QED BY <1>8, <3>2 DEF Report, CustomReport
  <2> HIDE DEF n
  <2>5. shown' = FixedPart \o CustomPart(n + 1)
    BY <1>1, <2>1, <2>3, <2>4, CustomNext
  <2> QED BY <2>1, <2>5
<1> QED BY <1>5, <1>6, <1>7, <1>8

\* Without groups in hand, the invariant is about what was popped and shown.
LEMMA AtRest ==
  ASSUME OrderInv, TypeInv', UNCHANGED <<cli, custom>>, phase' = "idle",
         stage' \in {"env", "pids", "custom", "end"},
         stage' \in {"env", "pids"} => PoppedSoFar = 0,
         ValidTo(PoppedSoFar), stage' = "end" => custom = <<>>,
         stage' = "env" => shown' = UidPart, stage' = "pids" => shown' = UidPart \o EnvPart,
         stage' \in {"custom", "end"} => shown' = FixedPart \o CustomPart(PoppedSoFar)
  PROVE  OrderInv'
<1>q. PICK q : q = PoppedSoFar
  OBVIOUS
<1>1. PoppedSoFar' = q /\ ShownSoFar' = q
  BY <1>q DEF PoppedSoFar, ShownSoFar
<1>2. Popped' /\ KeysKept' /\ Wanted' /\ Agreed'
  BY PartsKept DEF OrderInv, Popped, KeysKept, InFilters, Wanted
<1>3. PoppedValid'
  <2>1. ValidTo(q)' <=> ValidTo(q)
    BY PartsKept
  <2>2. ValidTo(PoppedSoFar)'
    BY <1>q, <1>1, <2>1
  <2> QED BY <1>q, <1>1, <2>2 DEF PoppedValid
<1>4. ShownKept'
  <2>1. (FixedPart \o CustomPart(ShownSoFar))' = FixedPart \o CustomPart(q)
    BY <1>1, PartsKept
  <2> QED BY <1>q, <2>1, PartsKept DEF ShownKept
<1> QED BY <1>2, <1>3, <1>4 DEF OrderInv

LEMMA ShowOrder ==
  ASSUME OrderInv, TypeInv', ShowAndCollect
  PROVE  OrderInv'
<1>1. /\ UNCHANGED <<cli, custom>> /\ phase = "show" /\ phase' = "idle" /\ stage' = Following[stage]
  BY DEF ShowAndCollect
<1>2. stage \in {"uid", "env", "pids", "custom"}
  BY <1>1 DEF OrderInv, TypeInv, TypeOK, TypeRest
<1>3. /\ stage = "uid" => stage' = "env"
      /\ stage = "env" => stage' = "pids"
      /\ stage \in {"pids", "custom"} => stage' = "custom"
  BY <1>1 DEF Following
<1>4. stage # "custom" => PoppedSoFar = 0
  BY <1>2 DEF OrderInv, PoppedValid
<1>5. ValidTo(PoppedSoFar)
  BY <1>2 DEF OrderInv, PoppedValid
<1>6. /\ stage' = "env" => shown' = UidPart
      /\ stage' = "pids" => shown' = UidPart \o EnvPart
      /\ stage' = "custom" => shown' = FixedPart \o CustomPart(PoppedSoFar)
  BY <1>2, <1>3, <1>4, ShowParts, NoCustom
<1> QED BY <1>1, <1>2, <1>3, <1>4, <1>5, <1>6, AtRest

LEMMA SkipOrder ==
  ASSUME OrderInv, TypeInv', Skip \/ Finalize
  PROVE  OrderInv'
<1>1. UNCHANGED <<cli, custom, shown>> /\ phase' = "idle" /\ phase = "idle"
  BY DEF Skip, Finalize
<1>2. CASE Skip
  <2>1. stage' = Following[stage] /\ (\/ stage = "uid" /\ ~cli.uid
                                      \/ stage = "env" /\ ~cli.env
                                      \/ stage = "pids" /\ cli.pids = NoText)
    BY <1>2 DEF Skip
  <2>2. /\ stage = "uid" => stage' = "env"
        /\ stage = "env" => stage' = "pids"
        /\ stage = "pids" => stage' = "custom"
    BY <2>1 DEF Following
  <2>3. PoppedSoFar = 0 /\ ValidTo(PoppedSoFar)
    BY <2>1 DEF OrderInv, PoppedValid
  <2>4. /\ stage = "uid" => UidPart = <<>>
        /\ stage = "env" => EnvPart = <<>>
        /\ stage = "pids" => PidsPart = <<>>
    BY <2>1 DEF UidPart, EnvPart, PidsPart
  <2>5. UidPart \o <<>> = UidPart /\ (UidPart \o EnvPart) \o <<>> = UidPart \o EnvPart
    BY PartsAre, FixedPartIs, ConcatEmptySeq, Zenon
  <2>6. /\ stage' = "env" => shown' = UidPart
        /\ stage' = "pids" => shown' = UidPart \o EnvPart
        /\ stage' = "custom" => shown' = FixedPart
    BY <1>1, <2>1, <2>2, <2>4, <2>5 DEF OrderInv, ShownKept, FixedPart
  <2>7. stage' = "custom" => shown' = FixedPart \o CustomPart(PoppedSoFar)
    BY <2>3, <2>6, NoCustom
  <2> QED BY <1>1, <2>1, <2>2, <2>3, <2>6, <2>7, AtRest
<1>3. CASE Finalize
  <2>1. stage = "custom" /\ stage' = "end" /\ custom = <<>>
    BY <1>3 DEF Finalize
  <2>2. ShownSoFar = PoppedSoFar
    BY <1>1, <2>1 DEF ShownSoFar
  <2>3. shown' = FixedPart \o CustomPart(PoppedSoFar) /\ ValidTo(PoppedSoFar)
    BY <1>1, <2>1, <2>2 DEF OrderInv, ShownKept, PoppedValid
  <2> QED BY <1>1, <2>1, <2>3, AtRest
<1> QED BY <1>2, <1>3

\* Processes exit, whatever main does.
LEMMA QuietOrder ==
  ASSUME OrderInv, TypeInv', (\E p \in Pids : Become(p)) \/ UNCHANGED vars
  PROVE  OrderInv'
<1>1. UNCHANGED <<cli, custom, stage, phase, shown, groups, filters>>
  BY DEF Become, Later, vars
<1>2. Popped' /\ ShownKept' /\ PoppedValid' /\ Agreed' /\ (Wanted => Wanted')
  BY <1>1, SameOrder
<1>3. KeysKept'
  <2>1. Text' = Text /\ Coming' = Coming /\ (InFilters' <=> InFilters)
    BY <1>1 DEF Text, Coming, InFilters
  <2>2. NamesIn(Text)' = NamesIn(Text)
    BY <2>1 DEF NamesIn
  <2> QED BY <1>1, <2>1, <2>2 DEF OrderInv, KeysKept
<1> QED BY <1>2, <1>3 DEF OrderInv

LEMMA OrderStep == OrderInv /\ [Next]_vars => OrderInv'
<1> SUFFICES ASSUME OrderInv, [Next]_vars PROVE OrderInv'
  OBVIOUS
<1>1. TypeInv'
  BY TypeStep DEF OrderInv
<1> QED BY <1>1, PopOrder, RefuseOrder, PidsOrder, FilterOrder, KeyOrder, ShowOrder, SkipOrder, QuietOrder DEF Next, Main

LEMMA OrderInit == Init /\ Agreed => OrderInv
<1> SUFFICES ASSUME Init, Agreed PROVE OrderInv
  OBVIOUS
<1>1. TypeInv
  BY TypeInit
<1>2. stage = "uid" /\ phase = "idle" /\ shown = <<>>
  BY DEF Init
<1>3. cli.custom \in Seq(Texts)
  BY <1>1 DEF TypeInv, TypeOK, CommandLines
<1>4. Len(cli.custom) \in Nat /\ custom = [i \in 1 .. Len(cli.custom) |-> cli.custom[(Len(cli.custom) - i) + 1]]
  BY <1>3 DEF Init, Reverse
<1>5. custom \in Seq(Texts)
  BY <1>1 DEF TypeInv, TypeOK
<1>6. Len(custom) = Len(cli.custom) /\ DOMAIN custom = 1 .. Len(cli.custom)
  BY <1>4, <1>5
<1>7. \A n \in DOMAIN custom : custom[n] = cli.custom[Len(cli.custom) + 1 - n]
  <2> TAKE n \in DOMAIN custom
  <2>1. (Len(cli.custom) - n) + 1 = Len(cli.custom) + 1 - n
    BY <1>4, <1>6
  <2> QED BY <1>4, <1>6, <2>1
<1>8. Len(custom) <= Len(cli.custom)
  BY <1>4, <1>6
<1>9. Popped
  BY <1>2, <1>7, <1>8, Zenon DEF Popped
<1>10. PoppedSoFar = 0
  BY <1>4, <1>6 DEF PoppedSoFar
<1>11. PoppedValid
  BY <1>2, <1>10 DEF PoppedValid, ValidTo
<1>12. ShownKept /\ KeysKept /\ Wanted
  BY <1>2 DEF ShownKept, KeysKept, InFilters, Wanted
<1> QED BY <1>1, <1>9, <1>11, <1>12 DEF OrderInv

\* The lists before the first text that is refused
LEMMA ValidIs ==
  ASSUME cli.custom \in Seq(Texts)
  PROVE  \E v \in 0 .. Len(cli.custom) : /\ Valid = 1 .. v /\ Cardinality(Valid) = v /\ ValidTo(v)
                                         /\ v < Len(cli.custom) => Asked[cli.custom[v + 1]] = Invalid
<1> DEFINE C == cli.custom
           Bad == {n \in DOMAIN C : Asked[C[n]] = Invalid}
<1>1. Len(C) \in Nat /\ DOMAIN C = 1 .. Len(C)
  OBVIOUS
<1>2. \E v \in 0 .. Len(C) : (v < Len(C) => v + 1 \in Bad) /\ \A n \in Bad : v < n
  <2>1. CASE Bad = {}
    BY <1>1, <2>1
  <2>2. CASE Bad # {}
    <3>0. Bad \subseteq Nat
      BY <1>1
    <3> HIDE DEF Bad
    <3>1. PICK n \in Bad : \A m \in Bad : n <= m
      BY <2>2, <3>0, Least
    <3> USE DEF Bad
    <3>2. n \in 1 .. Len(C) /\ n - 1 \in 0 .. Len(C) /\ (n - 1) + 1 = n
      BY <1>1
    <3>3. \A m \in Bad : n - 1 < m
      <4> TAKE m \in Bad
      <4>1. n <= m /\ m \in Int
        BY <1>1, <3>1
      <4> QED BY <3>2, <4>1
    <3> QED BY <3>2, <3>3
  <2> QED BY <2>1, <2>2
<1>3. PICK v \in 0 .. Len(C) : (v < Len(C) => v + 1 \in Bad) /\ \A n \in Bad : v < n
  BY <1>2
<1>4. ValidTo(v)
  <2> SUFFICES ASSUME NEW m \in 1 .. v, Asked[C[m]] = Invalid PROVE FALSE
    BY DEF ValidTo
  <2>1. m \in Bad
    BY <1>1
  <2> QED BY <1>3, <2>1
<1>5. Valid = 1 .. v
  <2>1. \A n \in DOMAIN C : n \in 1 .. Len(C) /\ (n \in Valid <=> ValidTo(n))
    BY <1>1 DEF Valid, ValidTo
  <2>2. ASSUME NEW n \in 1 .. v PROVE n \in Valid
    <3>1. n \in DOMAIN C /\ \A m \in 1 .. n : m \in 1 .. v
      BY <1>1
    <3> QED BY <1>4, <2>1, <3>1 DEF ValidTo
  <2>3. ASSUME NEW n \in Valid PROVE n \in 1 .. v
    <3>1. n \in DOMAIN C /\ n \in 1 .. Len(C) /\ ValidTo(n)
      BY <2>1 DEF Valid
    <3>2. CASE n > v
      <4>1. v < Len(C) /\ v + 1 \in 1 .. n
        BY <1>1, <3>1, <3>2
      <4>2. Asked[C[v + 1]] = Invalid
        BY <1>3, <4>1
      <4> QED BY <3>1, <4>1, <4>2 DEF ValidTo
    <3> QED BY <3>1, <3>2
  <2> QED BY <2>2, <2>3
<1>6. Cardinality(1 .. v) = v
  <2>1. v \in Int /\ 1 \in Int
    OBVIOUS
  <2>2. Cardinality(1 .. v) = IF 1 > v THEN 0 ELSE v - 1 + 1
    BY <2>1, FS_Interval
  <2> QED BY <2>2
<1>7. v < Len(C) => Asked[C[v + 1]] = Invalid
  BY <1>3
<1> QED BY <1>4, <1>5, <1>6, <1>7

\* The reports to expect, in the parts of the command line they come from
LEMMA ExpectedIs ==
  ASSUME NEW v \in Nat, Cardinality(Valid) = v
  PROVE  Expected = FixedPart \o CustomPart(v)
BY Zenon DEF Expected, FixedPart, UidPart, EnvPart, PidsPart, CustomPart, CustomReport

\* What is shown at any place is the beginning of what is expected.
LEMMA PrefixAt ==
  ASSUME NEW v \in Nat
  PROVE  LET expected == FixedPart \o CustomPart(v)
         IN  IsPrefix(<<>>, expected) /\ IsPrefix(UidPart, expected) /\ IsPrefix(UidPart \o EnvPart, expected)
<1> DEFINE Reports == Seq(ReportSet)
           Associates(s, t, r) == (s \o t) \o r = s \o (t \o r)
<1>1. /\ UidPart \in Reports /\ EnvPart \in Reports /\ PidsPart \in Reports /\ CustomPart(v) \in Reports
      /\ <<>> \in Reports
  BY PartsAre, CustomPartIs
<1>2. \A s, t, r \in Reports : Associates(s, t, r)
  BY ConcatAssociative
<1>3. \A s, t \in Reports : s \o t \in Reports
  BY ConcatProperties
<1>4. \A s \in Reports : <<>> \o s = s
  BY ConcatEmptySeq
<1>5. \A s, t \in Reports : IsPrefix(s, s \o t)
  BY PrefixOfConcat, Zenon
<1>6. \A s \in Reports : IsPrefix(<<>>, s)
  BY <1>1, <1>4, <1>5, Zenon
<1> HIDE DEF Reports, Associates
<1>7. PICK rest \in Reports : rest = PidsPart \o CustomPart(v)
  BY <1>1, <1>3
<1>8. PICK tail \in Reports : tail = EnvPart \o rest
  BY <1>1, <1>3
<1>9. PICK two \in Reports : two = UidPart \o EnvPart
  BY <1>1, <1>3
<1>10. PICK all \in Reports : all = two \o rest
  BY <1>3
<1>11. (two \o PidsPart) \o CustomPart(v) = all
  <2>1. Associates(two, PidsPart, CustomPart(v))
    BY <1>1, <1>2, Zenon
  <2> QED BY <1>7, <1>10, <2>1, Zenon DEF Associates
<1>12. all = UidPart \o tail
  <2>1. Associates(UidPart, EnvPart, rest)
    BY <1>1, <1>2, Zenon
  <2> QED BY <1>8, <1>9, <1>10, <2>1, Zenon DEF Associates
<1>13. IsPrefix(<<>>, all) /\ IsPrefix(UidPart, all) /\ IsPrefix(two, all)
  BY <1>1, <1>5, <1>6, <1>10, <1>12, Zenon
<1>14. FixedPart \o CustomPart(v) = all
  BY <1>9, <1>11, Zenon DEF FixedPart
<1> QED BY <1>9, <1>13, <1>14, Zenon

LEMMA OrderShown == OrderInv => ReportsInOrder
<1> SUFFICES ASSUME OrderInv PROVE ReportsInOrder
  OBVIOUS
<1>1. PICK len \in Nat, q \in Nat :
        /\ cli.custom \in Seq(Texts) /\ Len(cli.custom) = len /\ DOMAIN cli.custom = 1 .. len
        /\ q = PoppedSoFar /\ q <= len /\ Len(custom) = len - q
  BY CountsAre DEF OrderInv
<1>2. PICK v \in 0 .. len : /\ Valid = 1 .. v /\ Cardinality(Valid) = v /\ ValidTo(v)
                            /\ v < len => Asked[cli.custom[v + 1]] = Invalid
  BY <1>1, ValidIs
<1>3. v \in Nat /\ v <= len
  OBVIOUS
<1>4. Expected = FixedPart \o CustomPart(v)
  BY <1>2, <1>3, ExpectedIs
<1>5. ASSUME NEW n \in Nat, n <= len, ValidTo(n) PROVE n <= v
  <2> SUFFICES ASSUME v < n PROVE FALSE
    BY <1>3
  <2>1. v < len /\ v + 1 \in 1 .. n
    BY <1>3, <1>5
  <2> QED BY <1>2, <1>5, <2>1 DEF ValidTo
<1>6. stage \in {"uid", "env", "pids", "custom", "end", "panic"}
  BY DEF OrderInv, TypeInv, TypeOK, TypeRest
<1>7. CASE stage \in {"uid", "env", "pids"}
  <2>1. shown = <<>> \/ shown = UidPart \/ shown = UidPart \o EnvPart
    BY <1>7 DEF OrderInv, ShownKept
  <2>2. IsPrefix(shown, Expected)
    BY <1>3, <1>4, <2>1, PrefixAt, Zenon
  <2> QED BY <1>7, <2>2 DEF ReportsInOrder
<1>8. CASE stage \in {"custom", "end"}
  <2>1. ValidTo(q) /\ (ShownSoFar = q \/ (ShownSoFar = q - 1 /\ q >= 1))
    BY <1>1, <1>8 DEF OrderInv, PoppedValid, ShownSoFar
  <2>2. q <= v
    BY <1>1, <1>5, <2>1
  <2>3. PICK n \in Nat : n = ShownSoFar /\ n <= v
    BY <1>3, <2>1, <2>2
  <2>4. shown = FixedPart \o CustomPart(n)
    BY <1>8, <2>3 DEF OrderInv, ShownKept
  <2>5. IsPrefix(FixedPart \o CustomPart(n), FixedPart \o CustomPart(v))
    BY <1>3, <2>3, CustomPrefix
  <2>6. IsPrefix(shown, Expected)
    BY <1>4, <2>4, <2>5, Zenon
  <2>7. ASSUME stage = "end" PROVE Valid = DOMAIN cli.custom /\ shown = Expected
    <3>0. custom = <<>> /\ ShownSoFar = q
      BY <1>1, <2>7 DEF OrderInv, PoppedValid, ShownSoFar
    <3>1. Len(custom) = 0 /\ ShownSoFar = q
      BY <3>0
    <3>2. q = len
      BY <1>1, <3>1
    <3>3. v = len /\ n = v
      BY <1>1, <1>3, <2>2, <2>3, <3>1, <3>2
    <3> QED BY <1>1, <1>2, <1>4, <2>4, <3>3
  <2> QED BY <1>8, <2>6, <2>7 DEF ReportsInOrder
<1>9. CASE stage = "panic"
  <2>1. q >= 1 /\ ValidTo(q - 1) /\ Asked[cli.custom[q]] = Invalid /\ ShownSoFar = q - 1
    BY <1>1, <1>9 DEF OrderInv, PoppedValid, ShownSoFar
  <2>2. q - 1 <= v
    <3>1. q - 1 \in Nat /\ q - 1 <= len
      BY <1>1, <2>1
    <3> QED BY <1>5, <2>1, <3>1
  <2>3. v < q
    <3> SUFFICES ASSUME q <= v PROVE FALSE
      BY <1>3
    <3>1. q \in 1 .. v
      BY <1>3, <2>1
    <3> QED BY <1>2, <2>1, <3>1 DEF ValidTo
  <2>4. v = q - 1
    BY <1>3, <2>2, <2>3
  <2>5. Valid # DOMAIN cli.custom
    <3>1. q \in DOMAIN cli.custom /\ q \notin 1 .. v
      BY <1>1, <2>1, <2>4
    <3> QED BY <1>2, <3>1
  <2>6. shown = Expected
    BY <1>4, <1>9, <2>1, <2>4 DEF OrderInv, ShownKept
  <2>7. IsPrefix(shown, Expected)
    BY <1>3, <1>4, <2>6, CustomPrefix
  <2> QED BY <1>9, <2>5, <2>6, <2>7 DEF ReportsInOrder
<1> QED BY <1>6, <1>7, <1>8, <1>9

\* The reports of "memstats groups" (src/bin/memstats.rs:718-767) come by user,
\* by variable, by pids and by the custom lists as given, each with the groups
\* of its own text, however many lists there are: main pops them from a list
\* that it reversed.  At the end all of them were shown; a text that is refused
\* stops memstats after exactly the reports of the lists before it.
THEOREM ReportsComeInOrder == Spec /\ TextsUnderstood => []ReportsInOrder
<1>1. Init /\ TextsUnderstood => OrderInv
  BY InitAgreed, OrderInit
<1> QED BY <1>1, OrderStep, OrderShown, PTL DEF Spec

=============================================================================
