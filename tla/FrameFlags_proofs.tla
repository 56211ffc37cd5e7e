-------------------------- MODULE FrameFlags_proofs --------------------------
(***************************************************************************)
(* Safety of the way from frames to a picture and back, for every layout   *)
(* of physical memory, page size and size of compound page.                *)
(*                                                                         *)
(* The recursive functions of FrameFlags (the index at which a segment     *)
(* begins, the pixels of a curve, the counters of the Stats tab) are       *)
(* reasoned about with sets of naturals: a set that has 0 and, with a      *)
(* number, the next one has them all, because its complement would have a  *)
(* least element.                                                          *)
(***************************************************************************)
EXTENDS FrameFlags, WellFoundedInduction, FiniteSetTheorems, TLAPS

(***************************************************************************)
(* Induction and recursion                                                 *)
(***************************************************************************)
LEMMA Least ==
  ASSUME NEW T, T \subseteq Nat, T # {}
  PROVE  \E x \in T : \A y \in T : x <= y
<1> DEFINE Smaller == OpToRel(<, Nat)
<1>1. IsWellFoundedOn(Smaller, Nat)
  BY NatLessThanWellFounded
<1>2. Smaller = {ss \in Nat \X Nat : ss[1] < ss[2]}
  BY DEF OpToRel
<1> HIDE DEF Smaller
<1>3. PICK x \in T : \A y \in T : ~(<<y, x>> \in Smaller)
  BY <1>1, WFMin
<1>4. ASSUME NEW y \in T PROVE x <= y
  <2>1. x \in Nat /\ y \in Nat /\ ~(<<y, x>> \in Smaller)
    BY <1>3
  <2>2. y < x => <<y, x>> \in Smaller
    BY <1>2, <2>1
  <2> QED BY <2>1, <2>2
<1> QED BY <1>4

LEMMA Induction ==
  ASSUME NEW T, 0 \in T, \A n \in Nat : n \in T => n + 1 \in T
  PROVE  Nat \subseteq T
<1> SUFFICES ASSUME Nat \ T # {} PROVE FALSE
  OBVIOUS
<1>1. PICK x \in Nat \ T : \A y \in Nat \ T : x <= y
  BY Least
<1>2. x # 0 /\ x - 1 \in Nat
  BY <1>1
<1>3. x - 1 \in T
  BY <1>1, <1>2
<1> QED BY <1>1, <1>2, <1>3

LEMMA MinOf ==
  ASSUME NEW T, T \subseteq Nat, T # {}
  PROVE  Min(T) \in T /\ \A y \in T : Min(T) <= y
BY Least DEF Min

LEMMA MaxOf ==
  ASSUME NEW T, NEW b \in Nat, T \subseteq 0..b, T # {}
  PROVE  Max(T) \in T /\ \A y \in T : y <= Max(T)
<1> DEFINE D == {b - y : y \in T}
<1>0. \A y \in T : y \in Nat /\ b - y \in Nat
  OBVIOUS
<1>1. D \subseteq Nat /\ D # {}
  BY <1>0, Zenon
<1>2. PICK d \in D : \A e \in D : d <= e
  BY <1>1, Least
<1>3. PICK x \in T : d = b - x
  BY <1>2
<1>4. \A y \in T : y <= x
  BY <1>2, <1>3
<1> QED BY <1>3, <1>4 DEF Max

Follows(g, V, base, step) ==
  g \in [Nat -> V] /\ g[0] = base /\ \A n \in Nat : g[n + 1] = step[<<n, g[n]>>]

\* A step from any number and value to a value defines a function.
LEMMA Recursion ==
  ASSUME NEW V, NEW base \in V, NEW step \in [Nat \X V -> V]
  PROVE  \E g : Follows(g, V, base, step)
<1> DEFINE Upto(n) == {g \in [0..n -> V] : g[0] = base /\ \A m \in 0..n : m < n => g[m + 1] = step[<<m, g[m]>>]}
<1>1. \A n \in Nat : Upto(n) # {}
  <2> DEFINE T == {n \in Nat : Upto(n) # {}}
  <2>1. 0 \in T
    <3>1. [m \in 0..0 |-> base] \in Upto(0)
      OBVIOUS
    <3> QED BY <3>1
  <2>2. ASSUME NEW n \in Nat, n \in T PROVE n + 1 \in T
    <3>1. PICK g : g \in Upto(n)
      BY <2>2
    <3> DEFINE h == [m \in 0..(n + 1) |-> IF m = n + 1 THEN step[<<n, g[n]>>] ELSE g[m]]
    <3>2. g \in [0..n -> V] /\ n \in 0..n
      BY <3>1
    <3>3. step[<<n, g[n]>>] \in V
      BY <3>2
    <3>4. h \in [0..(n + 1) -> V]
      BY <3>2, <3>3
    <3>5. h[0] = base
      BY <3>1
    <3>6. ASSUME NEW m \in 0..(n + 1), m < n + 1 PROVE h[m + 1] = step[<<m, h[m]>>]
      <4>1. h[m] = g[m] /\ m \in 0..n
        BY <3>6
      <4>2. CASE m = n
        BY <4>1, <4>2
      <4>3. CASE m # n
        <5>1. m < n /\ m + 1 \in 0..(n + 1) /\ m + 1 # n + 1
          BY <3>6, <4>3
        <5>2. g[m + 1] = step[<<m, g[m]>>]
          BY <3>1, <4>1, <5>1
        <5> QED BY <4>1, <5>1, <5>2
      <4> QED BY <4>2, <4>3
    <3>7. h \in Upto(n + 1)
      BY <3>4, <3>5, <3>6
    <3> HIDE DEF h, Upto
    <3> QED BY <3>7
  <2> HIDE DEF T
  <2>3. Nat \subseteq T
    BY <2>1, <2>2, Induction
  <2> QED BY <2>3 DEF T
<1>2. ASSUME NEW n \in Nat, NEW k \in Nat, n <= k, NEW g \in Upto(n), NEW h \in Upto(k) PROVE g[n] = h[n]
  <2> DEFINE T == {m \in Nat : m <= n => g[m] = h[m]}
  <2>1. 0 \in T
    BY <1>2
  <2>2. ASSUME NEW m \in Nat, m \in T PROVE m + 1 \in T
    <3> SUFFICES ASSUME m + 1 <= n PROVE g[m + 1] = h[m + 1]
      OBVIOUS
    <3>1. m \in 0..n /\ m \in 0..k /\ m < n /\ m < k
      BY <1>2
    <3>2. g[m + 1] = step[<<m, g[m]>>] /\ h[m + 1] = step[<<m, h[m]>>]
      BY <3>1
    <3> QED BY <2>2, <3>1, <3>2
  <2> HIDE DEF T
  <2>3. Nat \subseteq T
    BY <2>1, <2>2, Induction
  <2> QED BY <2>3 DEF T
<1> DEFINE G(n) == CHOOSE g : g \in Upto(n)
           f == [n \in Nat |-> G(n)[n]]
<1>3. \A n \in Nat : G(n) \in Upto(n)
  <2> TAKE n \in Nat
  <2>1. \E g : g \in Upto(n)
    BY <1>1
  <2> HIDE DEF Upto
  <2> QED BY <2>1
<1>4. f \in [Nat -> V]
  <2>1. ASSUME NEW n \in Nat PROVE G(n)[n] \in V
    <3> HIDE DEF G
    <3>1. G(n) \in [0..n -> V] /\ n \in 0..n
      BY <1>3
    <3> QED BY <3>1
  <2> HIDE DEF G
  <2> QED BY <2>1
<1>5. f[0] = base
  <2> HIDE DEF G
  <2>1. G(0)[0] = base
    BY <1>3
  <2> QED BY <2>1
<1>6. ASSUME NEW n \in Nat PROVE f[n + 1] = step[<<n, f[n]>>]
  <2> HIDE DEF G
  <2>0. G(n) \in Upto(n) /\ G(n + 1) \in Upto(n + 1)
    BY <1>3
  <2>1. G(n)[n] = G(n + 1)[n]
    <3>1. n + 1 \in Nat /\ n <= n + 1
      OBVIOUS
    <3> HIDE DEF Upto
    <3> QED BY <1>2, <2>0, <3>1
  <2>2. G(n + 1)[n + 1] = step[<<n, G(n + 1)[n]>>]
    BY <2>0
  <2> QED BY <2>1, <2>2
<1> HIDE DEF f
<1> QED BY <1>4, <1>5, <1>6 DEF Follows

-----------------------------------------------------------------------------
(***************************************************************************)
(* Layouts: where segments lie, and the index at which each begins         *)
(***************************************************************************)
LEMMA Pages ==
  ASSUME NEW a \in Nat, NEW b \in Nat
  PROVE  /\ a \div PageSize \in Nat
         /\ a <= b => a \div PageSize <= b \div PageSize
         /\ (a + 1) \div PageSize \in {a \div PageSize, a \div PageSize + 1}
<1>1. PageSize \in Nat /\ PageSize > 0
  BY FrameAssumption
<1>2. \A c \in Nat : /\ c \div PageSize \in Nat
                     /\ PageSize * (c \div PageSize) <= c
                     /\ c < PageSize * (c \div PageSize) + PageSize
  BY <1>1
<1> DEFINE q == a \div PageSize
           r == b \div PageSize
           s == (a + 1) \div PageSize
<1>3. \A x, y \in Nat : x + 1 <= y => PageSize * x + PageSize <= PageSize * y
  BY <1>1
<1>4. q \in Nat /\ r \in Nat /\ s \in Nat
  BY <1>2
<1>5. a <= b => q <= r
  BY <1>1, <1>2, <1>3, <1>4
<1>6. q <= s
  BY <1>1, <1>2, <1>3, <1>4
<1>7. ~(q + 1 + 1 <= s)
  <2> SUFFICES ASSUME q + 1 + 1 <= s PROVE FALSE
    OBVIOUS
  <2>1. PageSize * q + PageSize <= PageSize * (q + 1) /\ PageSize * (q + 1) + PageSize <= PageSize * s
    BY <1>3, <1>4
  <2>2. a + 1 \in Nat /\ PageSize * s <= a + 1 /\ a < PageSize * q + PageSize
    BY <1>2
  <2> QED BY <1>1, <1>4, <2>1, <2>2
<1> QED BY <1>4, <1>5, <1>6, <1>7

LEMMA Segment ==
  ASSUME NEW ram \in Layouts
  PROVE  /\ Len(ram) \in Nat /\ Len(ram) > 2 /\ DOMAIN ram = 1..Len(ram)
         /\ \A i \in DOMAIN ram :
              /\ FirstFrame(ram[i]) \in Nat /\ LastFrame(ram[i]) \in Nat /\ EndFrame(ram[i]) \in Nat
              /\ FirstFrame(ram[i]) <= LastFrame(ram[i]) /\ FirstFrame(ram[i]) <= EndFrame(ram[i])
              /\ EndFrame(ram[i]) <= LastFrame(ram[i]) + 1
              /\ Size(ram[i]) \in Nat /\ Size(ram[i]) > 0 /\ Count(ram[i]) \in Nat
              /\ Frames(ram[i]) \subseteq FirstFrame(ram[i]) .. LastFrame(ram[i])
              /\ Frames(ram[i]) \subseteq Nat
<1>1. ram \in Seq(Nat \X Nat) /\ Len(ram) > 2 /\ \A i \in DOMAIN ram : ram[i][1] <= ram[i][2]
  BY FrameAssumption
<1>2. Len(ram) \in Nat /\ DOMAIN ram = 1..Len(ram)
  BY <1>1
<1>3. ASSUME NEW i \in DOMAIN ram
      PROVE  /\ FirstFrame(ram[i]) \in Nat /\ LastFrame(ram[i]) \in Nat /\ EndFrame(ram[i]) \in Nat
             /\ FirstFrame(ram[i]) <= LastFrame(ram[i]) /\ FirstFrame(ram[i]) <= EndFrame(ram[i])
             /\ EndFrame(ram[i]) <= LastFrame(ram[i]) + 1
  <2>1. ram[i][1] \in Nat /\ ram[i][2] \in Nat /\ ram[i][1] <= ram[i][2] + 1 /\ ram[i][2] + 1 \in Nat
    <3>1. ram[i] \in Nat \X Nat
      BY <1>1, <1>2
    <3> QED BY <1>1, <3>1
  <2>2. FirstFrame(ram[i]) \in Nat /\ EndFrame(ram[i]) \in Nat /\ FirstFrame(ram[i]) <= EndFrame(ram[i])
    BY <2>1, Pages DEF FirstFrame, EndFrame
  <2>3. LastFrame(ram[i]) \in Nat /\ EndFrame(ram[i]) \in {LastFrame(ram[i]), LastFrame(ram[i]) + 1}
    BY <2>1, Pages DEF LastFrame, EndFrame
  <2>4. FirstFrame(ram[i]) <= LastFrame(ram[i])
    BY <1>1, <2>1, Pages DEF FirstFrame, LastFrame
  <2> QED BY <2>2, <2>3, <2>4
<1>4. ASSUME NEW i \in DOMAIN ram
      PROVE  /\ Size(ram[i]) \in Nat /\ Size(ram[i]) > 0 /\ Count(ram[i]) \in Nat
             /\ Frames(ram[i]) \subseteq FirstFrame(ram[i]) .. LastFrame(ram[i])
             /\ Frames(ram[i]) \subseteq Nat
  BY <1>3 DEF Size, Count, Frames
<1> QED BY <1>1, <1>2, <1>3, <1>4

\* The segments are in order, so that a frame is in one segment at most.
LEMMA Sorted ==
  ASSUME NEW ram \in Layouts, NEW i \in DOMAIN ram, NEW j \in DOMAIN ram, i < j
  PROVE  LastFrame(ram[i]) < FirstFrame(ram[j])
<1> DEFINE T == {n \in Nat : i + 1 + n \in DOMAIN ram => LastFrame(ram[i]) < FirstFrame(ram[i + 1 + n])}
<1>0. Len(ram) \in Nat /\ DOMAIN ram = 1..Len(ram) /\ i \in Nat /\ j \in Nat
  BY Segment
<1>1. \A k \in 1..(Len(ram) - 1) : LastFrame(ram[k]) < FirstFrame(ram[k + 1])
  BY FrameAssumption DEF FirstFrame, LastFrame
<1>2. 0 \in T
  BY <1>0, <1>1
<1>3. ASSUME NEW n \in Nat, n \in T PROVE n + 1 \in T
  <2> SUFFICES ASSUME i + 1 + (n + 1) \in DOMAIN ram PROVE LastFrame(ram[i]) < FirstFrame(ram[i + 1 + (n + 1)])
    OBVIOUS
  <2> DEFINE k == i + 1 + n
  <2>1. k \in DOMAIN ram /\ k \in 1..(Len(ram) - 1) /\ i + 1 + (n + 1) = k + 1 /\ k + 1 \in DOMAIN ram
    BY <1>0
  <2>2. LastFrame(ram[i]) < FirstFrame(ram[k])
    BY <1>3, <2>1
  <2>3. FirstFrame(ram[k]) <= LastFrame(ram[k]) /\ LastFrame(ram[k]) < FirstFrame(ram[k + 1])
    BY <1>1, <2>1, Segment
  <2>4. {FirstFrame(ram[k]), LastFrame(ram[k]), FirstFrame(ram[k + 1]), LastFrame(ram[i])} \subseteq Nat
    BY <2>1, Segment
  <2> HIDE DEF k
  <2> QED BY <2>1, <2>2, <2>3, <2>4
<1> HIDE DEF T
<1>4. Nat \subseteq T
  BY <1>2, <1>3, Induction
<1>5. j - (i + 1) \in Nat /\ i + 1 + (j - (i + 1)) = j
  BY <1>0
<1>6. j - (i + 1) \in T
  BY <1>4, <1>5
<1> QED BY <1>5, <1>6 DEF T

LEMMA OneSegment ==
  ASSUME NEW ram \in Layouts, NEW i \in DOMAIN ram, NEW j \in DOMAIN ram, NEW p \in Nat,
         p \in FirstFrame(ram[i]) .. LastFrame(ram[i]), p \in FirstFrame(ram[j]) .. LastFrame(ram[j])
  PROVE  i = j
<1>1. i \in Nat /\ j \in Nat
  <2>1. DOMAIN ram = 1..Len(ram) /\ Len(ram) \in Nat
    BY Segment, Zenon
  <2> QED BY <2>1
<1>2. {FirstFrame(ram[i]), FirstFrame(ram[j]), LastFrame(ram[i]), LastFrame(ram[j])} \subseteq Nat
  BY Segment
<1>3. ~(i < j)
  BY <1>2, Sorted
<1>4. ~(j < i)
  BY <1>2, Sorted
<1> QED BY <1>1, <1>3, <1>4

LEMMA BeforeIs ==
  ASSUME NEW ram \in Layouts
  PROVE  /\ Before(ram) \in [1..(Len(ram) + 1) -> Int]
         /\ Before(ram)[1] = 0
         /\ \A i \in DOMAIN ram : Before(ram)[i + 1] = Before(ram)[i] + Size(ram[i])
<1> DEFINE I == 1..(Len(ram) + 1)
           step == [nv \in Nat \X Int |-> nv[2] + IF nv[1] + 1 \in DOMAIN ram THEN Size(ram[nv[1] + 1]) ELSE 0]
<1>0. Len(ram) \in Nat /\ DOMAIN ram = 1..Len(ram) /\ \A i \in DOMAIN ram : Size(ram[i]) \in Int
  BY Segment
<1>1. step \in [Nat \X Int -> Int] /\ 0 \in Int
  BY <1>0
<1> HIDE DEF step
<1>2. PICK g \in [Nat -> Int] : g[0] = 0 /\ \A n \in Nat : g[n + 1] = step[<<n, g[n]>>]
  <2>1. \E g : Follows(g, Int, 0, step)
    BY <1>1, Recursion
  <2> QED BY <2>1 DEF Follows
<1> DEFINE h == [i \in I |-> g[i - 1]]
<1>3. \A i \in 1..Len(ram) : g[i] = g[i - 1] + Size(ram[i])
  <2> TAKE i \in 1..Len(ram)
  <2>1. i - 1 \in Nat /\ (i - 1) + 1 = i /\ g[i - 1] \in Int
    BY <1>0, <1>2
  <2>2. g[i] = step[<<i - 1, g[i - 1]>>]
    BY <1>2, <2>1
  <2> QED BY <1>0, <2>1, <2>2 DEF step
<1>4. h = [i \in I |-> IF i = 1 THEN 0 ELSE h[i - 1] + Size(ram[i - 1])]
  <2>1. \A i \in I : h[i] = IF i = 1 THEN 0 ELSE h[i - 1] + Size(ram[i - 1])
    <3> TAKE i \in I
    <3>1. CASE i = 1
      BY <1>2, <3>1
    <3>2. CASE i # 1
      <4>1. i - 1 \in 1..Len(ram) /\ i - 1 \in I
        BY <1>0, <3>2
      <4> QED BY <1>3, <3>2, <4>1
    <3> QED BY <3>1, <3>2
  <2> QED BY <2>1
<1> HIDE DEF h
<1>5. Before(ram) = [i \in I |-> IF i = 1 THEN 0 ELSE Before(ram)[i - 1] + Size(ram[i - 1])]
  BY <1>4 DEF Before
<1> DEFINE B == Before(ram)
<1> HIDE DEF B
<1>6. B = [i \in I |-> IF i = 1 THEN 0 ELSE B[i - 1] + Size(ram[i - 1])]
  BY <1>5 DEF B
<1>7. B[1] = 0 /\ \A i \in DOMAIN ram : B[i + 1] = B[i] + Size(ram[i])
  <2>1. 1 \in I /\ \A i \in DOMAIN ram : i + 1 \in I /\ i + 1 # 1 /\ (i + 1) - 1 = i
    BY <1>0
  <2>2. \A i \in I : B[i] = IF i = 1 THEN 0 ELSE B[i - 1] + Size(ram[i - 1])
    BY <1>6
  <2> HIDE DEF I
  <2> QED BY <2>1, <2>2
<1>8. \A i \in I : B[i] \in Int
  <2> DEFINE T == {n \in Nat : n + 1 \in I => B[n + 1] \in Int}
  <2>1. 0 \in T
    BY <1>7
  <2>2. ASSUME NEW n \in Nat, n \in T PROVE n + 1 \in T
    <3> SUFFICES ASSUME n + 1 + 1 \in I PROVE B[n + 1 + 1] \in Int
      OBVIOUS
    <3>1. n + 1 \in I /\ n + 1 \in DOMAIN ram
      BY <1>0
    <3>2. B[n + 1] \in Int /\ Size(ram[n + 1]) \in Int /\ B[n + 1 + 1] = B[n + 1] + Size(ram[n + 1])
      BY <1>0, <1>7, <2>2, <3>1
    <3> QED BY <3>2
  <2> HIDE DEF T
  <2>3. Nat \subseteq T
    BY <2>1, <2>2, Induction
  <2> SUFFICES ASSUME NEW i \in I PROVE B[i] \in Int
    OBVIOUS
  <2>4. i - 1 \in Nat /\ (i - 1) + 1 = i
    BY <1>0
  <2>5. i - 1 \in T
    BY <2>3, <2>4
  <2> QED BY <2>4, <2>5 DEF T
<1>9. B \in [I -> Int]
  BY <1>6, <1>8
<1> QED BY <1>7, <1>9 DEF B

\* A segment's indices follow those of the segments before it.
LEMMA BeforeGrows ==
  ASSUME NEW ram \in Layouts, NEW i \in 1..(Len(ram) + 1), NEW j \in i..(Len(ram) + 1)
  PROVE  /\ 0 <= Before(ram)[i] /\ Before(ram)[i] <= Before(ram)[j]
         /\ i < j => Before(ram)[i] + Size(ram[i]) <= Before(ram)[j]
<1> DEFINE B == Before(ram)
           N == Len(ram)
<1>0. N \in Nat /\ DOMAIN ram = 1..N /\ \A k \in 1..N : Size(ram[k]) \in Nat
  BY Segment
<1>1. /\ \A k \in 1..(N + 1) : B[k] \in Int
      /\ B[1] = 0 /\ \A k \in 1..N : B[k + 1] = B[k] + Size(ram[k])
  BY <1>0, BeforeIs
<1> HIDE DEF B, N
<1>2. ASSUME NEW k \in 1..(N + 1), NEW n \in k..(N + 1) PROVE B[k] <= B[n]
  <2> DEFINE T == {m \in Nat : k + m \in k..(N + 1) => B[k] <= B[k + m]}
  <2>1. 0 \in T
    BY <1>0, <1>1
  <2>2. ASSUME NEW m \in Nat, m \in T PROVE m + 1 \in T
    <3> SUFFICES ASSUME k + (m + 1) \in k..(N + 1) PROVE B[k] <= B[k + (m + 1)]
      OBVIOUS
    <3>1. k + m \in k..(N + 1) /\ k + m \in 1..N /\ k + (m + 1) = (k + m) + 1 /\ k \in 1..(N + 1)
      BY <1>0
    <3>2. B[k] <= B[k + m] /\ B[(k + m) + 1] = B[k + m] + Size(ram[k + m])
      BY <1>1, <2>2, <3>1
    <3>3. B[k] \in Int /\ B[k + m] \in Int /\ Size(ram[k + m]) \in Nat
      BY <1>0, <1>1, <3>1
    <3> QED BY <3>1, <3>2, <3>3
  <2> HIDE DEF T
  <2>3. Nat \subseteq T
    BY <2>1, <2>2, Induction
  <2>4. n - k \in Nat /\ k + (n - k) = n /\ n \in k..(N + 1)
    BY <1>0
  <2>5. n - k \in T
    BY <2>3, <2>4
  <2> QED BY <2>4, <2>5 DEF T
<1>3. i \in 1..(N + 1) /\ i \in Nat /\ j \in i..(N + 1)
  BY <1>0 DEF N
<1>4. B[i] <= B[j]
  BY <1>2, <1>3
<1>5. 0 <= B[i]
  BY <1>0, <1>1, <1>2, <1>3
<1>6. i < j => B[i] + Size(ram[i]) <= B[j]
  <2> SUFFICES ASSUME i < j PROVE B[i + 1] <= B[j]
    BY <1>0, <1>1, <1>3
  <2>1. i + 1 \in 1..(N + 1) /\ j \in (i + 1)..(N + 1)
    BY <1>0, <1>3
  <2> QED BY <1>2, <2>1
<1> QED BY <1>4, <1>5, <1>6 DEF B

LEMMA CountIs ==
  ASSUME NEW ram \in Layouts
  PROVE  get_pfn_count(ram) \in Nat
<1> DEFINE I == 0..Len(ram)
           step == [nv \in Nat \X Nat |-> nv[2] + IF nv[1] + 1 \in DOMAIN ram THEN Count(ram[nv[1] + 1]) ELSE 0]
           counts(c) == c = [i \in I |-> IF i = 0 THEN 0 ELSE c[i - 1] + Count(ram[i])]
           count == CHOOSE c : counts(c)
<1>0. Len(ram) \in Nat /\ DOMAIN ram = 1..Len(ram) /\ \A i \in DOMAIN ram : Count(ram[i]) \in Nat
  BY Segment
<1>len. Len(ram) \in Nat /\ DOMAIN ram = 1..Len(ram)
  BY <1>0
<1>nat. Len(ram) \in Nat
  BY <1>0
<1>1. step \in [Nat \X Nat -> Nat] /\ 0 \in Nat
  BY <1>0
<1> HIDE DEF step
<1>2. PICK g \in [Nat -> Nat] : g[0] = 0 /\ \A n \in Nat : g[n + 1] = step[<<n, g[n]>>]
  <2>1. \E g : Follows(g, Nat, 0, step)
    BY <1>1, Recursion
  <2> QED BY <2>1 DEF Follows
<1>3. \A i \in 1..Len(ram) : g[i] = g[i - 1] + Count(ram[i])
  <2> TAKE i \in 1..Len(ram)
  <2>1. i - 1 \in Nat /\ (i - 1) + 1 = i /\ g[i - 1] \in Nat
    BY <1>0, <1>2
  <2>2. g[i] = step[<<i - 1, g[i - 1]>>]
    BY <1>2, <2>1
  <2> QED BY <1>0, <2>1, <2>2 DEF step
<1> DEFINE h == [i \in I |-> g[i]]
<1>4. counts(h)
  <2>1. ASSUME NEW i \in I PROVE h[i] = IF i = 0 THEN 0 ELSE h[i - 1] + Count(ram[i])
    <3>1. CASE i = 0
      BY <1>0, <1>2, <3>1
    <3>2. CASE i # 0
      <4>1. i \in 1..Len(ram) /\ i - 1 \in I
        BY <1>0, <3>2
      <4> QED BY <1>3, <3>2, <4>1
    <3> QED BY <3>1, <3>2
  <2> DEFINE rhs == [i \in I |-> IF i = 0 THEN 0 ELSE h[i - 1] + Count(ram[i])]
  <2>2. \A i \in I : rhs[i] = IF i = 0 THEN 0 ELSE h[i - 1] + Count(ram[i])
    BY Zenon
  <2>3. \A i \in I : h[i] = rhs[i]
    BY <2>1, <2>2, Zenon
  <2>4. h = [i \in I |-> rhs[i]]
    BY <2>3, Zenon
  <2>5. rhs = [i \in I |-> rhs[i]]
    OBVIOUS
  <2> QED BY <2>4, <2>5, Zenon
<1> HIDE DEF h
<1>5. counts(count)
  BY <1>4, Zenon
<1>get. get_pfn_count(ram) = count[Len(ram)]
  BY Zenon DEF get_pfn_count
<1> HIDE DEF count
<1>6. \A i \in I : count[i] \in Nat
  <2> DEFINE T == {n \in Nat : n \in I => count[n] \in Nat}
  <2>1. 0 \in T
    BY <1>0, <1>5
  <2>2. ASSUME NEW n \in Nat, n \in T PROVE n + 1 \in T
    <3> SUFFICES ASSUME n + 1 \in I PROVE count[n + 1] \in Nat
      OBVIOUS
    <3>a. n \in I /\ n + 1 \in 1..Len(ram)
      BY <1>nat
    <3>b. (n + 1) - 1 = n /\ n + 1 # 0
      OBVIOUS
    <3>1. n \in I /\ n + 1 \in DOMAIN ram /\ (n + 1) - 1 = n /\ n + 1 # 0
      BY <1>len, <3>a, <3>b, Zenon
    <3>2. count[n + 1] = count[n] + Count(ram[n + 1])
      BY <1>5, <3>1
    <3>3. count[n] \in Nat
      BY <2>2, <3>1
    <3>4. Count(ram[n + 1]) \in Nat
      BY <1>0, <3>1
    <3>5. \A a, b \in Nat : a + b \in Nat
      OBVIOUS
    <3> QED BY <3>2, <3>3, <3>4, <3>5, Zenon
  <2> HIDE DEF T
  <2>3. Nat \subseteq T
    BY <2>1, <2>2, Induction
  <2> QED BY <1>0, <2>3 DEF T
<1>7. Len(ram) \in I
  BY <1>0
<1> HIDE DEF I
<1> QED BY <1>get, <1>6, <1>7, Zenon

LEMMA PixelsIs ==
  \A n \in Nat : Pixels[n] \in Nat /\ Pixels[n] >= n
<1> DEFINE step == [nv \in Nat \X Nat |-> 4 * nv[2]]
           pixels(p) == p = [n \in Nat |-> IF n = 0 THEN 1 ELSE 4 * p[n - 1]]
<1>1. step \in [Nat \X Nat -> Nat] /\ 1 \in Nat /\ \A n, v \in Nat : step[<<n, v>>] = 4 * v
  OBVIOUS
<1> HIDE DEF step
<1>2. PICK g \in [Nat -> Nat] : g[0] = 1 /\ \A n \in Nat : g[n + 1] = step[<<n, g[n]>>]
  <2>1. \E g : Follows(g, Nat, 1, step)
    BY <1>1, Recursion
  <2> QED BY <2>1 DEF Follows
<1>3. \A n \in Nat : g[n] = IF n = 0 THEN 1 ELSE 4 * g[n - 1]
  <2> TAKE n \in Nat
  <2>1. CASE n = 0
    BY <1>2, <2>1
  <2>2. CASE n # 0
    <3>1. n - 1 \in Nat /\ (n - 1) + 1 = n
      BY <2>2
    <3> QED BY <1>1, <1>2, <2>2, <3>1
  <2> QED BY <2>1, <2>2
<1>4. pixels(g)
  BY <1>3
<1>5. pixels(Pixels)
  BY <1>4 DEF Pixels
<1> DEFINE T == {n \in Nat : Pixels[n] \in Nat /\ Pixels[n] >= n /\ Pixels[n] > 0}
<1>6. 0 \in T
  BY <1>5
<1>7. ASSUME NEW n \in Nat, n \in T PROVE n + 1 \in T
  <2>1. Pixels[n + 1] = 4 * Pixels[n]
    BY <1>5
  <2> QED BY <1>7, <2>1
<1> HIDE DEF T
<1>8. Nat \subseteq T
  BY <1>6, <1>7, Induction
<1> QED BY <1>8 DEF T

LEMMA CanvasIs ==
  ASSUME NEW ram \in Layouts
  PROVE  \E order \in 0..get_pfn_count(ram) :
           Pixels[order] >= get_pfn_count(ram) /\ Canvas(ram) = 0..(Pixels[order] - 1)
<1> DEFINE count == get_pfn_count(ram)
           T == {o \in 0..count : Pixels[o] >= count}
<1>1. count \in Nat
  BY CountIs
<1>2. T \subseteq Nat /\ count \in T
  BY <1>1, PixelsIs
<1>3. Min(T) \in T
  BY <1>2, MinOf
<1> QED BY <1>3 DEF Canvas

-----------------------------------------------------------------------------
(***************************************************************************)
(* From frames to indices and back                                         *)
(***************************************************************************)
LEMMA FirstOfIs ==
  ASSUME NEW segs, segs \subseteq Nat
  PROVE  /\ FirstOf(segs) = None <=> segs = {}
         /\ segs # {} => FirstOf(segs) \in segs /\ \A i \in segs : FirstOf(segs) <= i
BY MinOf, FrameAssumption DEF FirstOf

\* A frame that is read has the index at which its segment begins, and its place in it.
LEMMA IndexOfFrame ==
  ASSUME NEW ram \in Layouts, NEW i \in DOMAIN ram, NEW p \in Frames(ram[i]), p # 0
  PROVE  /\ pfn_to_index(ram, p) = Before(ram)[i] + p - FirstFrame(ram[i])
         /\ pfn_to_index(ram, p) \in 0..(Before(ram)[Len(ram) + 1] - 1)
         /\ index_to_pfn(ram, pfn_to_index(ram, p)) = p
<1> DEFINE B == Before(ram)
           F == FirstFrame(ram[i])
           index == B[i] + p - F
<1>1. /\ Len(ram) \in Nat /\ DOMAIN ram = 1..Len(ram) /\ p \in Nat /\ F \in Nat
      /\ F <= p /\ p <= LastFrame(ram[i]) /\ LastFrame(ram[i]) \in Nat /\ Size(ram[i]) = LastFrame(ram[i]) - F + 1
  BY Segment DEF Size
<1>2. /\ B[i] \in Int /\ B[Len(ram) + 1] \in Int /\ 0 <= B[i]
      /\ B[i] + Size(ram[i]) <= B[Len(ram) + 1]
  <2>1. i \in 1..(Len(ram) + 1) /\ Len(ram) + 1 \in i..(Len(ram) + 1) /\ i < Len(ram) + 1
    BY <1>1
  <2> HIDE DEF B
  <2>2. B[i] \in Int /\ B[Len(ram) + 1] \in Int
    <3>1. B \in [1..(Len(ram) + 1) -> Int]
      BY BeforeIs, Zenon DEF B
    <3>2. Len(ram) + 1 \in 1..(Len(ram) + 1)
      BY <1>1
    <3> QED BY <2>1, <3>1, <3>2
  <2> QED BY <2>1, <2>2, BeforeGrows DEF B
<1>3. pfn_to_index(ram, p) = index
  <2> DEFINE T == {j \in DOMAIN ram : p <= LastFrame(ram[j])}
  <2>1. T \subseteq Nat /\ i \in T
    BY <1>1
  <2>2. \A j \in T : i <= j
    <3> SUFFICES ASSUME NEW j \in DOMAIN ram, j < i PROVE LastFrame(ram[j]) < p
      BY <1>1, Segment
    <3>1. LastFrame(ram[j]) < F /\ LastFrame(ram[j]) \in Nat
      BY Sorted, Segment
    <3> QED BY <1>1, <3>1
  <2>3. FirstOf(T) = i /\ i # None
    <3>1. FirstOf(T) \in T /\ FirstOf(T) <= i
      BY <2>1, FirstOfIs
    <3>2. i \in Nat /\ FirstOf(T) \in Nat /\ i <= FirstOf(T)
      BY <2>1, <2>2, <3>1
    <3> QED BY <3>1, <3>2, FrameAssumption
  <2> QED BY <1>1, <2>3 DEF pfn_to_index
<1>4. index \in 0..(B[Len(ram) + 1] - 1) /\ B[i] <= index /\ index < B[i] + Size(ram[i])
  BY <1>1, <1>2
<1>5. index_to_pfn(ram, index) = p
  <2> DEFINE T == {j \in DOMAIN ram : index < B[j] + Size(ram[j])}
  <2>1. T \subseteq Nat /\ i \in T
    BY <1>1, <1>4
  <2>2. \A j \in T : i <= j
    <3> SUFFICES ASSUME NEW j \in DOMAIN ram, j < i PROVE ~(index < B[j] + Size(ram[j]))
      BY <1>1
    <3>0. j \in 1..(Len(ram) + 1) /\ i \in j..(Len(ram) + 1)
      BY <1>1
    <3> HIDE DEF B
    <3>1. B[j] + Size(ram[j]) <= B[i]
      BY <3>0, BeforeGrows DEF B
    <3>2. B[j] \in Int /\ Size(ram[j]) \in Nat
      BY <3>0, BeforeIs, Segment DEF B
    <3> QED BY <1>2, <1>4, <3>1, <3>2
  <2>3. FirstOf(T) = i /\ i # None
    <3>1. FirstOf(T) \in T /\ FirstOf(T) <= i
      BY <2>1, FirstOfIs
    <3>2. i \in Nat /\ FirstOf(T) \in Nat /\ i <= FirstOf(T)
      BY <2>1, <2>2, <3>1
    <3> QED BY <3>1, <3>2, FrameAssumption
  <2>4. index_to_pfn(ram, index) = index - B[i] + F
    BY <2>3 DEF index_to_pfn
  <2> QED BY <1>1, <1>2, <2>4
<1> QED BY <1>3, <1>4, <1>5

\* An index leads to a frame number that has this index, or to none.
LEMMA FrameOfIndex ==
  ASSUME NEW ram \in Layouts, NEW index \in Nat, index_to_pfn(ram, index) # None
  PROVE  \E i \in DOMAIN ram :
           /\ index_to_pfn(ram, index) \in FirstFrame(ram[i]) .. LastFrame(ram[i])
           /\ index = Before(ram)[i] + index_to_pfn(ram, index) - FirstFrame(ram[i])
<1> DEFINE B == Before(ram)
           T == {j \in DOMAIN ram : index < B[j] + Size(ram[j])}
           i == FirstOf(T)
<1>1. Len(ram) \in Nat /\ DOMAIN ram = 1..Len(ram)
  BY Segment
<1>2. i # None /\ index_to_pfn(ram, index) = index - B[i] + FirstFrame(ram[i])
  BY DEF index_to_pfn
<1>3. T \subseteq Nat
  BY <1>1
<1>4. i \in T /\ \A j \in T : i <= j
  BY <1>2, <1>3, FirstOfIs
<1> HIDE DEF i
<1>5. B[i] <= index
  <2>1. CASE i = 1
    BY <2>1, BeforeIs
  <2>2. CASE i # 1
    <3>1. i - 1 \in DOMAIN ram /\ i - 1 \notin T /\ (i - 1) + 1 = i
      BY <1>1, <1>4, <2>2
    <3>2. ~(index < B[i - 1] + Size(ram[i - 1]))
      BY <3>1
    <3>3. B \in [1..(Len(ram) + 1) -> Int] /\ \A j \in DOMAIN ram : B[j + 1] = B[j] + Size(ram[j])
      BY BeforeIs, Zenon
    <3>4. B[i] = B[i - 1] + Size(ram[i - 1])
      BY <3>1, <3>3, Zenon
    <3>5. i \in 1..(Len(ram) + 1)
      BY <1>1, <1>4
    <3>6. B[i] \in Int
      BY <3>3, <3>5
    <3> QED BY <3>2, <3>4, <3>6
  <2> QED BY <2>1, <2>2
<1>6. /\ B[i] \in Int /\ FirstFrame(ram[i]) \in Nat /\ LastFrame(ram[i]) \in Nat
      /\ index < B[i] + (LastFrame(ram[i]) - FirstFrame(ram[i]) + 1)
  BY <1>1, <1>4, BeforeIs, Segment DEF Size
<1> QED BY <1>2, <1>4, <1>5, <1>6

-----------------------------------------------------------------------------
(***************************************************************************)
(* compute_compound_pages                                                  *)
(***************************************************************************)
Acc == [head : SUBSET Flags, failed : BOOLEAN, counters : [Flags -> Nat]]
Start == [head |-> {}, failed |-> FALSE, counters |-> [flag \in Flags |-> 0]]

LEMMA CountFrameIs ==
  ASSUME NEW acc \in Acc, NEW flags \in SUBSET Flags
  PROVE  /\ CountFrame(acc, flags) \in Acc
         /\ acc.failed => CountFrame(acc, flags).failed
         /\ CompoundTail \in flags /\ acc.head = {} => CountFrame(acc, flags).failed
         /\ CompoundTail \in flags /\ acc.head # {} =>
              /\ CountFrame(acc, flags).failed = acc.failed
              /\ CountFrame(acc, flags).head = acc.head
              /\ CountFrame(acc, flags).counters = Tally(acc.counters, Merged(acc.head, flags))
         /\ CompoundTail \notin flags =>
              /\ CountFrame(acc, flags).failed = acc.failed
              /\ CountFrame(acc, flags).head = IF CompoundHead \in flags THEN flags ELSE {}
              /\ CountFrame(acc, flags).counters = Tally(acc.counters, flags)
<1>1. \A counters \in [Flags -> Nat], marks \in SUBSET Flags : Tally(counters, marks) \in [Flags -> Nat]
  BY DEF Tally
<1>2. acc.head \in SUBSET Flags /\ acc.failed \in BOOLEAN /\ acc.counters \in [Flags -> Nat]
  BY DEF Acc
<1>3. Merged(acc.head, flags) \in SUBSET Flags
  BY <1>2 DEF Merged
<1>4. CASE CompoundTail \in flags /\ acc.head = {}
  BY <1>2, <1>4 DEF CountFrame, Acc
<1>5. CASE CompoundTail \in flags /\ acc.head # {}
  <2>1. Tally(acc.counters, Merged(acc.head, flags)) \in [Flags -> Nat]
    BY <1>1, <1>2, <1>3
  <2> QED BY <1>2, <1>5, <2>1 DEF CountFrame, Acc
<1>6. CASE CompoundTail \notin flags
  <2>1. Tally(acc.counters, flags) \in [Flags -> Nat]
    BY <1>1, <1>2
  <2> QED BY <1>2, <1>6, <2>1 DEF CountFrame, Acc
<1> QED BY <1>4, <1>5, <1>6

\* The count frame by frame
Counting(acc, data) ==
  /\ acc \in [0..Len(data) -> Acc] /\ acc[0] = Start
  /\ \A n \in 1..Len(data) : acc[n] = CountFrame(acc[n - 1], data[n])
  /\ compute_compound_pages(data) = IF acc[Len(data)].failed THEN Panic ELSE acc[Len(data)].counters

LEMMA CountedIs ==
  ASSUME NEW data \in Seq(SUBSET Flags)
  PROVE  \E acc : Counting(acc, data)
<1> DEFINE N == Len(data)
           counts(c) == c = [n \in 0..N |-> IF n = 0 THEN Start ELSE CountFrame(c[n - 1], data[n])]
           counted == CHOOSE c : counts(c)
           step == [na \in Nat \X Acc |-> IF na[1] + 1 \in 1..N THEN CountFrame(na[2], data[na[1] + 1]) ELSE na[2]]
<1>0. N \in Nat /\ \A n \in 1..N : data[n] \in SUBSET Flags
  OBVIOUS
<1>1. step \in [Nat \X Acc -> Acc] /\ \A n \in 1..N, a \in Acc : step[<<n - 1, a>>] = CountFrame(a, data[n])
  <2> HIDE DEF N
  <2>1. \A n \in Nat, a \in Acc : n + 1 \in 1..N => CountFrame(a, data[n + 1]) \in Acc
    BY <1>0, CountFrameIs
  <2> QED BY <1>0, <2>1
<1>2. Start \in Acc
  BY DEF Start, Acc
<1> HIDE DEF step, N
<1>3. PICK g \in [Nat -> Acc] : g[0] = Start /\ \A n \in Nat : g[n + 1] = step[<<n, g[n]>>]
  <2>1. \E g : Follows(g, Acc, Start, step)
    BY <1>1, <1>2, Recursion
  <2> QED BY <2>1 DEF Follows
<1>4. \A n \in 1..N : g[n] = CountFrame(g[n - 1], data[n])
  <2> TAKE n \in 1..N
  <2>1. n - 1 \in Nat /\ (n - 1) + 1 = n /\ g[n - 1] \in Acc
    BY <1>0, <1>3
  <2> QED BY <1>1, <1>3, <2>1
<1> DEFINE h == [n \in 0..N |-> g[n]]
<1>5. counts(h)
  <2>1. \A n \in 0..N : h[n] = IF n = 0 THEN Start ELSE CountFrame(h[n - 1], data[n])
    BY <1>0, <1>3, <1>4
  <2> QED BY <2>1
<1>6. counts(counted)
  BY <1>5
<1> HIDE DEF counted
<1>7. /\ counted[0] = Start
      /\ \A n \in 1..N : counted[n] = CountFrame(counted[n - 1], data[n])
      /\ counted = [n \in 0..N |-> counted[n]]
  <2>1. \A n \in 0..N : counted[n] = IF n = 0 THEN Start ELSE CountFrame(counted[n - 1], data[n])
    BY <1>6
  <2>2. counted = [n \in 0..N |-> counted[n]]
    BY <1>6
  <2>3. 0 \in 0..N /\ \A n \in 1..N : n \in 0..N /\ n # 0
    BY <1>0
  <2>4. counted[0] = Start
    BY <2>1, <2>3, Zenon
  <2>5. \A n \in 1..N : counted[n] = CountFrame(counted[n - 1], data[n])
    BY <2>1, <2>3, Zenon
  <2> QED BY <2>2, <2>4, <2>5, Zenon
<1>8. \A n \in 0..N : counted[n] \in Acc
  <2> DEFINE T == {n \in Nat : n \in 0..N => counted[n] \in Acc}
  <2>1. 0 \in T
    BY <1>2, <1>7
  <2>2. ASSUME NEW n \in Nat, n \in T PROVE n + 1 \in T
    <3> SUFFICES ASSUME n + 1 \in 0..N PROVE counted[n + 1] \in Acc
      OBVIOUS
    <3>1. n \in 0..N /\ n + 1 \in 1..N /\ (n + 1) - 1 = n
      BY <1>0
    <3>2. counted[n] \in Acc /\ data[n + 1] \in SUBSET Flags /\ counted[n + 1] = CountFrame(counted[n], data[n + 1])
      BY <1>0, <1>7, <2>2, <3>1
    <3> QED BY <3>2, CountFrameIs
  <2> HIDE DEF T
  <2>3. Nat \subseteq T
    BY <2>1, <2>2, Induction
  <2> QED BY <1>0, <2>3 DEF T
<1>9. counted \in [0..N -> Acc]
  BY <1>7, <1>8
<1>10. compute_compound_pages(data) = IF counted[N].failed THEN Panic ELSE counted[N].counters
  BY DEF compute_compound_pages, counted, N, Start
<1>11. Counting(counted, data)
  BY <1>7, <1>9, <1>10 DEF Counting, N
<1> QED BY <1>11

LEMMA CountType ==
  ASSUME NEW data \in Seq(SUBSET Flags)
  PROVE  compute_compound_pages(data) \in {Panic} \cup [Flags -> Nat]
<1>1. PICK acc : Counting(acc, data)
  BY CountedIs
<1>2. Len(data) \in 0..Len(data)
  OBVIOUS
<1>3. acc[Len(data)] \in Acc
  BY <1>1, <1>2 DEF Counting
<1> QED BY <1>1, <1>3 DEF Counting, Acc

\* Every tail follows a head or a tail.
Led(data) ==
  \A k \in DOMAIN data : CompoundTail \in data[k] => k > 1 /\ data[k - 1] \cap {CompoundHead, CompoundTail} # {}

\* The count of such a segment does not fail.
LEMMA LedIsCounted ==
  ASSUME NEW data \in Seq(SUBSET Flags), Led(data)
  PROVE  compute_compound_pages(data) # Panic
<1>1. PICK acc : Counting(acc, data)
  BY CountedIs
<1> DEFINE N == Len(data)
           Fine(n) == /\ ~acc[n].failed
                      /\ n > 0 /\ data[n] \cap {CompoundHead, CompoundTail} # {} => acc[n].head # {}
           T == {n \in Nat : n \in 0..N => Fine(n)}
<1>2. N \in Nat /\ DOMAIN data = 1..N /\ \A n \in 1..N : data[n] \in SUBSET Flags
  OBVIOUS
<1>3. /\ acc[0] = Start /\ \A n \in 0..N : acc[n] \in Acc
      /\ \A n \in 1..N : acc[n] = CountFrame(acc[n - 1], data[n])
  BY <1>1 DEF Counting
<1>4. 0 \in T
  BY <1>3 DEF Start
<1>5. ASSUME NEW n \in Nat, n \in T PROVE n + 1 \in T
  <2> SUFFICES ASSUME n + 1 \in 0..N PROVE Fine(n + 1)
    OBVIOUS
  <2>1. n \in 0..N /\ n + 1 \in 1..N /\ (n + 1) - 1 = n
    BY <1>2
  <2>2. Fine(n)
    BY <1>5, <2>1
  <2>3. acc[n] \in Acc /\ data[n + 1] \in SUBSET Flags /\ acc[n + 1] = CountFrame(acc[n], data[n + 1])
    BY <1>2, <1>3, <2>1
  <2>4. CompoundTail \in data[n + 1] => acc[n].head # {}
    <3> SUFFICES ASSUME CompoundTail \in data[n + 1] PROVE acc[n].head # {}
      OBVIOUS
    <3>1. n + 1 > 1 /\ data[n] \cap {CompoundHead, CompoundTail} # {}
      BY <1>2, <2>1 DEF Led
    <3> QED BY <2>2, <3>1
  <2>5. CASE CompoundTail \in data[n + 1]
    BY <2>2, <2>3, <2>4, <2>5, CountFrameIs
  <2>6. CASE CompoundTail \notin data[n + 1]
    <3>1. ~acc[n + 1].failed /\ acc[n + 1].head = IF CompoundHead \in data[n + 1] THEN data[n + 1] ELSE {}
      BY <2>2, <2>3, <2>6, CountFrameIs
    <3> QED BY <2>6, <3>1
  <2> QED BY <2>5, <2>6
<1> HIDE DEF T
<1>6. Nat \subseteq T
  BY <1>4, <1>5, Induction
<1>7. ~acc[N].failed /\ acc[N].counters \in [Flags -> Nat]
  BY <1>2, <1>3, <1>6 DEF T, Acc
<1> QED BY <1>1, <1>7, FrameAssumption DEF Counting

\* No frame is both head and tail.
OneKind(data) == \A k \in DOMAIN data : ~(CompoundHead \in data[k] /\ CompoundTail \in data[k])

Heads(data, n) == {j \in 1..n : CompoundHead \in data[j]}

\* Frame k counts for a flag: the reference of CountersExact
Counts(data, k, flag) ==
  \/ flag \in data[k]
  \/ flag # CompoundHead /\ CompoundTail \in data[k] /\ flag \in data[Max(Heads(data, k))]

LEMMA OneMore ==
  ASSUME NEW n \in Nat, NEW S, S \subseteq 1..n
  PROVE  Cardinality(S) \in Nat /\ Cardinality(S \cup {n + 1}) = Cardinality(S) + 1
<1>1. IsFiniteSet(1..n)
  BY FS_Interval
<1>2. IsFiniteSet(S) /\ n + 1 \notin S
  <2>1. IsFiniteSet(S)
    BY <1>1, FS_Subset, Zenon
  <2>2. n + 1 \notin S
    OBVIOUS
  <2> QED BY <2>1, <2>2
<1>3. Cardinality(S) \in Nat
  BY <1>2, FS_CardinalityType
<1>4. Cardinality(S \cup {n + 1}) = Cardinality(S) + 1
  BY <1>2, FS_AddElement
<1> QED BY <1>3, <1>4

\* Unless it fails, the count is that of the reference.
LEMMA CountIsExact ==
  ASSUME NEW data \in Seq(SUBSET Flags), OneKind(data), compute_compound_pages(data) # Panic
  PROVE  \A flag \in Flags :
           compute_compound_pages(data)[flag] = Cardinality({k \in DOMAIN data : Counts(data, k, flag)})
<1>1. PICK acc : Counting(acc, data)
  BY CountedIs
<1> DEFINE N == Len(data)
           Found(n, flag) == {k \in 1..n : Counts(data, k, flag)}
           HeadIs(n) == acc[n].head # {} => Heads(data, n) # {} /\ acc[n].head = data[Max(Heads(data, n))]
           Exact(n) == \A flag \in Flags : acc[n].counters[flag] = Cardinality(Found(n, flag))
           T == {n \in Nat : n \in 0..N /\ ~acc[n].failed => HeadIs(n) /\ Exact(n)}
<1>2. N \in Nat /\ DOMAIN data = 1..N /\ \A n \in 1..N : data[n] \in SUBSET Flags
  OBVIOUS
<1>3. /\ acc[0] = Start /\ \A n \in 0..N : acc[n] \in Acc
      /\ \A n \in 1..N : acc[n] = CountFrame(acc[n - 1], data[n])
  BY <1>1 DEF Counting
<1>4. 0 \in T
  <2>1. HeadIs(0)
    BY <1>3 DEF Start
  <2>2. \A flag \in Flags : Found(0, flag) = {}
    OBVIOUS
  <2>3. \A flag \in Flags : acc[0].counters[flag] = 0
    BY <1>3 DEF Start
  <2>4. Exact(0)
    BY <2>2, <2>3, FS_EmptySet
  <2> QED BY <2>1, <2>4
<1>5. ASSUME NEW n \in Nat, n \in T PROVE n + 1 \in T
  <2> SUFFICES ASSUME n + 1 \in 0..N, ~acc[n + 1].failed PROVE HeadIs(n + 1) /\ Exact(n + 1)
    OBVIOUS
  <2> DEFINE frame == data[n + 1]
             a == acc[n]
             b == acc[n + 1]
  <2>1. n \in 0..N /\ n + 1 \in 1..N /\ (n + 1) - 1 = n /\ 1..(n + 1) = (1..n) \cup {n + 1}
    BY <1>2
  <2>2. a \in Acc /\ frame \in SUBSET Flags /\ b = CountFrame(a, frame)
    BY <1>2, <1>3, <2>1
  <2>3. ~a.failed
    BY <2>2, CountFrameIs
  <2>4. HeadIs(n) /\ Exact(n)
    BY <1>5, <2>1, <2>3
  <2> HIDE DEF frame, a, b
  <2>5. Heads(data, n + 1) = IF CompoundHead \in frame THEN Heads(data, n) \cup {n + 1} ELSE Heads(data, n)
    BY <2>1 DEF Heads, frame
  <2>6. HeadIs(n + 1)
    <3>1. CASE CompoundTail \in frame
      <4>1. b.head = a.head /\ CompoundHead \notin frame
        BY <1>2, <2>1, <2>2, <3>1, CountFrameIs DEF OneKind, frame, b
      <4> QED BY <2>4, <2>5, <4>1 DEF a, b
    <3>2. CASE CompoundTail \notin frame
      <4>1. b.head = IF CompoundHead \in frame THEN frame ELSE {}
        BY <2>2, <3>2, CountFrameIs
      <4>2. CompoundHead \in frame => Max(Heads(data, n + 1)) = n + 1
        <5> SUFFICES ASSUME CompoundHead \in frame PROVE Max(Heads(data, n + 1)) = n + 1
          OBVIOUS
        <5>1. n + 1 \in Heads(data, n + 1) /\ Heads(data, n + 1) \subseteq 0..(n + 1) /\ n + 1 \in Nat
          BY <2>1, <2>5 DEF Heads
        <5>2. Max(Heads(data, n + 1)) \in 0..(n + 1) /\ n + 1 <= Max(Heads(data, n + 1))
          BY <5>1, MaxOf
        <5> QED BY <5>2
      <4> QED BY <2>5, <4>1, <4>2 DEF frame, b
    <3> QED BY <3>1, <3>2
  <2>7. ASSUME NEW flag \in Flags PROVE b.counters[flag] = Cardinality(Found(n + 1, flag))
    <3>1. a.counters[flag] = Cardinality(Found(n, flag))
      BY <2>4 DEF a
    <3>2. b.counters[flag] = a.counters[flag] + IF Counts(data, n + 1, flag) THEN 1 ELSE 0
      <4>1. CASE CompoundTail \in frame
        <5>1. a.head # {} /\ b.counters = Tally(a.counters, Merged(a.head, frame)) /\ b.head = a.head
          BY <2>2, <4>1, CountFrameIs DEF b
        <5>2. a.head = data[Max(Heads(data, n + 1))]
          BY <2>6, <5>1 DEF b
        <5>3. flag \in Merged(a.head, frame) <=> Counts(data, n + 1, flag)
          BY <4>1, <5>2 DEF Merged, Counts, frame
        <5> QED BY <5>1, <5>3 DEF Tally
      <4>2. CASE CompoundTail \notin frame
        <5>1. b.counters = Tally(a.counters, frame)
          BY <2>2, <4>2, CountFrameIs
        <5>2. flag \in frame <=> Counts(data, n + 1, flag)
          BY <4>2 DEF Counts, frame
        <5> QED BY <5>1, <5>2 DEF Tally
      <4> QED BY <4>1, <4>2
    <3>3. Found(n + 1, flag) = IF Counts(data, n + 1, flag) THEN Found(n, flag) \cup {n + 1} ELSE Found(n, flag)
      BY <2>1
    <3>4. Found(n, flag) \subseteq 1..n
      OBVIOUS
    <3> HIDE DEF Found
    <3>5. Cardinality(Found(n, flag)) \in Nat
          /\ Cardinality(Found(n, flag) \cup {n + 1}) = Cardinality(Found(n, flag)) + 1
      BY <3>4, OneMore
    <3> QED BY <3>1, <3>2, <3>3, <3>5
  <2> QED BY <2>6, <2>7 DEF b
<1> HIDE DEF T
<1>6. Nat \subseteq T
  BY <1>4, <1>5, Induction
<1>7. ~acc[N].failed /\ compute_compound_pages(data) = acc[N].counters
  BY <1>1 DEF Counting
<1>8. Exact(N)
  BY <1>2, <1>6, <1>7 DEF T
<1> QED BY <1>2, <1>7, <1>8

-----------------------------------------------------------------------------
(***************************************************************************)
(* Types                                                                   *)
(***************************************************************************)
LEMMA AllFramesIs ==
  ASSUME NEW ram \in Layouts
  PROVE  /\ AllFrames(ram) \subseteq Nat
         /\ \A i \in DOMAIN ram : Frames(ram[i]) \subseteq AllFrames(ram)
         /\ \A p \in AllFrames(ram) : \E i \in DOMAIN ram : p \in Frames(ram[i])
BY Segment DEF AllFrames

LEMMA MarkIs ==
  ASSUME NEW flags, DOMAIN flags \subseteq Int, NEW p \in Int, NEW size \in Nat, size > 1, NEW lru \in SUBSET {"LRU"}
  PROVE  /\ DOMAIN Mark(flags, p, size, lru) = DOMAIN flags
         /\ \A q \in DOMAIN flags :
              Mark(flags, p, size, lru)[q] =
                IF q = p THEN {CompoundHead} \cup lru ELSE IF q \in p..(p + size - 1) THEN {CompoundTail} ELSE flags[q]
         /\ {CompoundHead} \cup lru \in SUBSET Flags /\ {CompoundTail} \in SUBSET Flags
BY DEF Mark, CompoundHead, CompoundTail, Flags

LEMMA MarkType ==
  ASSUME NEW ram \in Layouts, NEW flags \in [AllFrames(ram) -> SUBSET Flags],
         NEW p \in Int, NEW size \in Nat, NEW lru \in SUBSET {"LRU"}
  PROVE  Mark(flags, p, size, lru) \in [AllFrames(ram) -> SUBSET Flags]
BY DEF Mark, CompoundHead, CompoundTail, Flags

LEMMA ThirdSegment ==
  ASSUME TypeOK
  PROVE  /\ iomem \in Layouts /\ 3 \in DOMAIN iomem
         /\ segments[3] \in Seq(SUBSET Flags)
<1>1. iomem \in Layouts
  BY DEF TypeOK
<1>2. 3 \in DOMAIN iomem
  BY <1>1, Segment
<1> QED BY <1>1, <1>2 DEF TypeOK

LEMMA TypeInit == Init => TypeOK
<1> SUFFICES ASSUME Init PROVE TypeOK
  OBVIOUS
<1> USE DEF Init
<1> DEFINE free == [p \in AllFrames(iomem) |-> {}]
<1>1. iomem \in Layouts /\ free \in [AllFrames(iomem) -> SUBSET Flags]
  OBVIOUS
<1>2. kflags \in [AllFrames(iomem) -> SUBSET Flags]
  <2>1. CASE kflags = free
    BY <1>1, <2>1
  <2>2. ASSUME NEW i \in DOMAIN iomem, NEW size \in CompoundSizes, NEW p \in Frames(iomem[i]),
               kflags = Mark(free, p, size, {"LRU"})
        PROVE  kflags \in [AllFrames(iomem) -> SUBSET Flags]
    <3>1. p \in Int /\ size \in Nat /\ {"LRU"} \in SUBSET {"LRU"}
      BY FrameAssumption DEF Frames
    <3> HIDE DEF free, Init
    <3> QED BY <1>1, <2>2, <3>1, MarkType
  <2> QED BY <2>1, <2>2
<1>3. segments \in [DOMAIN iomem -> Seq(SUBSET Flags)] /\ \A i \in DOMAIN iomem : Len(segments[i]) <= Count(iomem[i])
  <2>1. \A i \in DOMAIN iomem : segments[i] = <<>>
    OBVIOUS
  <2>2. \A i \in DOMAIN iomem : Count(iomem[i]) \in Nat
    BY Segment
  <2> QED BY <2>1, <2>2
<1>4. events \in 0..MaxEvents
  BY FrameAssumption
<1>5. DOMAIN image \subseteq Canvas(iomem)
  BY SMT
<1> QED BY <1>1, <1>2, <1>3, <1>4, <1>5 DEF TypeOK

LEMMA TypeKernel == TypeOK /\ Kernel => TypeOK'
<1> SUFFICES ASSUME TypeOK, Kernel PROVE TypeOK'
  OBVIOUS
<1>1. kflags' \in [AllFrames(iomem) -> SUBSET Flags]
  <2>0. iomem \in Layouts /\ kflags \in [AllFrames(iomem) -> SUBSET Flags]
    BY DEF TypeOK
  <2>1. ASSUME NEW p \in AllFrames(iomem), NEW size \in CompoundSizes, NEW lru \in SUBSET {"LRU"}, Form(p, size, lru)
        PROVE  kflags' \in [AllFrames(iomem) -> SUBSET Flags]
    <3>1. p \in Int /\ size \in Nat /\ kflags' = Mark(kflags, p, size, lru)
      BY <2>0, <2>1, AllFramesIs, FrameAssumption DEF Form
    <3> QED BY <2>0, <3>1, MarkType
  <2>2. ASSUME NEW p \in AllFrames(iomem), Split(p) PROVE kflags' \in [AllFrames(iomem) -> SUBSET Flags]
    BY <2>0, <2>2 DEF Split
  <2> QED BY <2>1, <2>2 DEF Kernel
<1>2. PICK p \in AllFrames(iomem) : Disturb(p)
  BY DEF Kernel, Form, Split
<1>3. events' \in 0..MaxEvents /\ torn' \in BOOLEAN
  <2>1. events \in 0..MaxEvents /\ events < MaxEvents /\ events' = events + 1 /\ MaxEvents \in Nat
    BY <1>2, FrameAssumption DEF TypeOK, Disturb
  <2>2. torn' \in BOOLEAN
    BY <1>2 DEF TypeOK, Disturb
  <2> QED BY <2>1, <2>2
<1> QED BY <1>1, <1>2, <1>3 DEF TypeOK, Disturb

\* What ReadFrame does to the segment it reads
LEMMA ReadFrameIs ==
  ASSUME TypeOK, ReadFrame
  PROVE  \/ pc' = "draw" /\ UNCHANGED segments
         \/ /\ pc' = pc
            /\ \E i \in DOMAIN iomem :
                 /\ Len(segments[i]) < Count(iomem[i])
                 /\ FirstFrame(iomem[i]) + Len(segments[i]) \in Frames(iomem[i])
                 /\ segments' = [segments EXCEPT
                      ![i] = Append(segments[i], kflags[FirstFrame(iomem[i]) + Len(segments[i])])]
<1> DEFINE todo == {i \in DOMAIN iomem : Len(segments[i]) < Count(iomem[i])}
           i == Min(todo)
<1>0. iomem \in Layouts /\ segments \in [DOMAIN iomem -> Seq(SUBSET Flags)]
  BY DEF TypeOK
<1>1. todo \subseteq Nat
  BY <1>0, Segment
<1>2. CASE todo = {}
  BY <1>2 DEF ReadFrame
<1>3. CASE todo # {}
  <2>1. i \in todo
    BY <1>1, <1>3, MinOf
  <2>2. pc' = pc /\ segments' = [segments EXCEPT ![i] = Append(@, kflags[FirstFrame(iomem[i]) + Len(@)])]
    BY <1>3 DEF ReadFrame
  <2>3. FirstFrame(iomem[i]) \in Nat /\ EndFrame(iomem[i]) \in Nat /\ Len(segments[i]) \in Nat
    BY <1>0, <2>1, Segment
  <2>4. FirstFrame(iomem[i]) + Len(segments[i]) \in Frames(iomem[i])
    BY <2>1, <2>3 DEF Frames, Count
  <2> HIDE DEF i
  <2> QED BY <1>0, <2>1, <2>2, <2>4
<1> QED BY <1>2, <1>3

LEMMA TypeRead == TypeOK /\ ReadFrame => TypeOK'
<1> SUFFICES ASSUME TypeOK, ReadFrame PROVE TypeOK'
  OBVIOUS
<1>0. UNCHANGED <<iomem, kflags, events, torn, image, pfn, panel, stats>>
  BY DEF ReadFrame
<1>1. CASE pc' = "draw" /\ UNCHANGED segments
  BY <1>0, <1>1 DEF TypeOK
<1>2. ASSUME NEW i \in DOMAIN iomem, pc' = pc,
             Len(segments[i]) < Count(iomem[i]),
             FirstFrame(iomem[i]) + Len(segments[i]) \in Frames(iomem[i]),
             segments' = [segments EXCEPT
               ![i] = Append(segments[i], kflags[FirstFrame(iomem[i]) + Len(segments[i])])]
      PROVE  TypeOK'
  <2> DEFINE flags == kflags[FirstFrame(iomem[i]) + Len(segments[i])]
  <2>1. iomem \in Layouts /\ segments \in [DOMAIN iomem -> Seq(SUBSET Flags)] /\ kflags \in [AllFrames(iomem) -> SUBSET Flags]
    BY DEF TypeOK
  <2>2. flags \in SUBSET Flags
    BY <1>2, <2>1, AllFramesIs
  <2>3. segments[i] \in Seq(SUBSET Flags) /\ Count(iomem[i]) \in Nat
    BY <2>1, Segment
  <2>4. /\ Append(segments[i], flags) \in Seq(SUBSET Flags)
        /\ Len(Append(segments[i], flags)) <= Count(iomem[i])
    <3> HIDE DEF flags
    <3> QED BY <1>2, <2>2, <2>3
  <2>5. segments' \in [DOMAIN iomem -> Seq(SUBSET Flags)] /\ \A j \in DOMAIN iomem : Len(segments'[j]) <= Count(iomem[j])
    <3> HIDE DEF flags
    <3> QED BY <1>2, <2>1, <2>4 DEF TypeOK, flags
  <2> QED BY <1>0, <1>2, <2>5 DEF TypeOK
<1> QED BY <1>1, <1>2, ReadFrameIs

FlagsRead(p) ==
  LET i == CHOOSE j \in DOMAIN iomem : p \in Frames(iomem[j])
  IN  segments[i][p - FirstFrame(iomem[i]) + 1]

\* The pixels are those of the indices, but for indices out of the picture.
LEMMA DrawIs ==
  ASSUME Draw
  PROVE  \/ /\ pc' = "panic" /\ UNCHANGED image
            /\ \E p \in AllFrames(iomem) :
                 \/ pfn_to_index(iomem, p) = None
                 \/ index_to_pfn(iomem, pfn_to_index(iomem, p)) # p
                 \/ pfn_to_index(iomem, p) \notin Canvas(iomem)
         \/ /\ pc' = "ready"
            /\ \E pixel \in [AllFrames(iomem) -> Canvas(iomem)] :
                 /\ \A p \in AllFrames(iomem) :
                      pfn_to_index(iomem, p) \in Canvas(iomem) => pixel[p] = pfn_to_index(iomem, p)
                 /\ image' = [x \in {pixel[p] : p \in AllFrames(iomem)} |->
                                FlagsRead(Max({p \in AllFrames(iomem) : pixel[p] = x}))]
<1> DEFINE frames == AllFrames(iomem)
           canvas == Canvas(iomem)
           index == [p \in frames |-> pfn_to_index(iomem, p)]
           lost == {p \in frames : index[p] \notin canvas}
           mapsBack == \A p \in frames : index[p] # None /\ index_to_pfn(iomem, index[p]) = p
           pixels(wrapped) == [p \in frames |-> IF p \in lost THEN wrapped[p] ELSE index[p]]
           drawn(pixel) == [x \in {pixel[p] : p \in frames} |-> FlagsRead(Max({p \in frames : pixel[p] = x}))]
<1>1. \/ (~mapsBack \/ lost # {}) /\ pc' = "panic" /\ UNCHANGED image
      \/ (\E wrapped \in [lost -> canvas] : image' = drawn(pixels(wrapped))) /\ pc' = "ready"
  BY DEF Draw, FlagsRead
<1>2. CASE (~mapsBack \/ lost # {}) /\ pc' = "panic" /\ UNCHANGED image
  BY <1>2
<1>3. ASSUME NEW wrapped \in [lost -> canvas], image' = drawn(pixels(wrapped)), pc' = "ready"
      PROVE  \E pixel \in [frames -> canvas] :
               /\ \A p \in frames : pfn_to_index(iomem, p) \in canvas => pixel[p] = pfn_to_index(iomem, p)
               /\ image' = drawn(pixel)
  <2>1. pixels(wrapped) \in [frames -> canvas]
    OBVIOUS
  <2>2. \A p \in frames : pfn_to_index(iomem, p) \in canvas => pixels(wrapped)[p] = pfn_to_index(iomem, p)
    OBVIOUS
  <2> HIDE DEF pixels, drawn
  <2> QED BY <1>3, <2>1, <2>2
<1> QED BY <1>1, <1>2, <1>3

LEMMA TypeDraw == TypeOK /\ Draw => TypeOK'
<1> SUFFICES ASSUME TypeOK, Draw PROVE TypeOK'
  OBVIOUS
<1>1. pc' \in {"panic", "ready"}
  BY DEF Draw
<1>2. DOMAIN image' \subseteq Canvas(iomem)
  <2>1. UNCHANGED image \/ \E pixel \in [AllFrames(iomem) -> Canvas(iomem)] :
                              DOMAIN image' = {pixel[p] : p \in AllFrames(iomem)}
    BY DrawIs
  <2>2. \A pixel \in [AllFrames(iomem) -> Canvas(iomem)] : {pixel[p] : p \in AllFrames(iomem)} \subseteq Canvas(iomem)
    OBVIOUS
  <2>3. UNCHANGED image => DOMAIN image' \subseteq Canvas(iomem)
    BY DEF TypeOK
  <2> QED BY <2>1, <2>2, <2>3
<1> QED BY <1>1, <1>2 DEF TypeOK, Draw

LEMMA TypeSelect == ASSUME TypeOK, NEW index \in Canvas(iomem), Select(index) PROVE TypeOK'
<1>1. iomem \in Layouts /\ index \in Nat
  <2>1. iomem \in Layouts
    BY DEF TypeOK
  <2>2. PICK order : Canvas(iomem) = 0..(Pixels[order] - 1)
    BY <2>1, CanvasIs
  <2> QED BY <2>1, <2>2
<1>2. pfn' = None \/ pfn' \in Nat
  <2> SUFFICES ASSUME pfn' # None PROVE pfn' \in Nat
    OBVIOUS
  <2>1. pfn' = index_to_pfn(iomem, index)
    BY DEF Select
  <2>2. PICK i \in DOMAIN iomem : pfn' \in FirstFrame(iomem[i]) .. LastFrame(iomem[i])
    BY <1>1, <2>1, FrameOfIndex
  <2>3. FirstFrame(iomem[i]) \in Nat
    BY <1>1, Segment
  <2> QED BY <2>2, <2>3
<1> QED BY <1>2 DEF TypeOK, Select

LEMMA TypeStats == TypeOK /\ Stats => TypeOK'
<1> SUFFICES ASSUME TypeOK, Stats PROVE TypeOK'
  OBVIOUS
<1>1. segments[3] \in Seq(SUBSET Flags)
  BY ThirdSegment
<1>2. stats' \in {Panic} \cup [Flags -> Nat]
  BY <1>1, CountType DEF Stats
<1>3. pc' \in {"ready", "panic"}
  BY DEF Stats
<1> QED BY <1>2, <1>3 DEF TypeOK, Stats

LEMMA TypeStep == TypeOK /\ [Next]_vars => TypeOK'
<1> SUFFICES ASSUME TypeOK, [Next]_vars PROVE TypeOK'
  OBVIOUS
<1>1. CASE UNCHANGED vars
  BY <1>1 DEF TypeOK, vars
<1> QED BY <1>1, TypeKernel, TypeRead, TypeDraw, TypeSelect, TypeStats DEF Next

-----------------------------------------------------------------------------
(***************************************************************************)
(* Compound pages in the kernel, and in what is read of it                 *)
(***************************************************************************)
\* A compound page lies in one segment, its tails one after the other behind its head.
Compounds ==
  \A i \in DOMAIN iomem : \A q \in Frames(iomem[i]) :
    /\ ~(CompoundHead \in kflags[q] /\ CompoundTail \in kflags[q])
    /\ CompoundTail \in kflags[q] =>
         q - 1 \in Frames(iomem[i]) /\ kflags[q - 1] \cap {CompoundHead, CompoundTail} # {}

\* While the third segment is read undisturbed, what was read is what the
\* kernel has; and then every tail in it was read after its head.
Reading ==
  /\ \A i \in DOMAIN iomem : OneKind(segments[i])
  /\ ~torn => Led(segments[3])
  /\ ~torn /\ Len(segments[3]) < Count(iomem[3]) =>
       \A k \in DOMAIN segments[3] : segments[3][k] = kflags[FirstFrame(iomem[3]) + k - 1]

\* What becomes of the marks when frames p .. p + size - 1 of a segment become
\* a compound page.
LEMMA MarkCompounds ==
  ASSUME NEW ram \in Layouts, NEW flags \in [AllFrames(ram) -> SUBSET Flags],
         NEW i \in DOMAIN ram, NEW p \in Nat, NEW size \in CompoundSizes, NEW lru \in SUBSET {"LRU"},
         p .. (p + size - 1) \subseteq Frames(ram[i]),
         \A q \in p .. (p + size - 1) : flags[q] = {},
         NEW j \in DOMAIN ram, NEW q \in Frames(ram[j]),
         ~(CompoundHead \in flags[q] /\ CompoundTail \in flags[q]),
         CompoundTail \in flags[q] => q - 1 \in Frames(ram[j]) /\ flags[q - 1] \cap {CompoundHead, CompoundTail} # {}
  PROVE  LET marked == Mark(flags, p, size, lru)
         IN  /\ ~(CompoundHead \in marked[q] /\ CompoundTail \in marked[q])
             /\ CompoundTail \in marked[q] =>
                  q - 1 \in Frames(ram[j]) /\ marked[q - 1] \cap {CompoundHead, CompoundTail} # {}
<1> DEFINE marked == Mark(flags, p, size, lru)
<1>0. size \in Nat /\ size > 1 /\ AllFrames(ram) \subseteq Int /\ p \in Int /\ Frames(ram[j]) \subseteq AllFrames(ram)
      /\ Frames(ram[i]) \subseteq AllFrames(ram) /\ q \in Int /\ p \in p .. (p + size - 1)
  <2>1. size \in Nat /\ size > 1
    BY FrameAssumption
  <2>2. AllFrames(ram) \subseteq Nat /\ Frames(ram[j]) \subseteq AllFrames(ram) /\ Frames(ram[i]) \subseteq AllFrames(ram)
    BY AllFramesIs, Zenon
  <2>3. p \in p .. (p + size - 1)
    BY <2>1
  <2> QED BY <2>1, <2>2, <2>3
<1>1. /\ \A r \in AllFrames(ram) : marked[r] = IF r = p THEN {CompoundHead} \cup lru
                                   ELSE IF r \in p..(p + size - 1) THEN {CompoundTail} ELSE flags[r]
  BY DEF Mark
<1> HIDE DEF marked
<1>2. CompoundHead # CompoundTail /\ CompoundTail \notin lru
  BY DEF CompoundHead, CompoundTail
<1>3. CASE q \in p .. (p + size - 1)
  <2>1. i = j
    BY <1>0, <1>3, OneSegment, Segment
  <2>2. CASE q = p
    BY <1>0, <1>1, <1>2, <2>2 DEF marked
  <2>3. CASE q # p
    <3>1. q - 1 \in p .. (p + size - 1) /\ q - 1 \in AllFrames(ram) /\ q \in AllFrames(ram)
      BY <1>0, <1>3, <2>3
    <3>2. marked[q] = {CompoundTail} /\ marked[q - 1] \cap {CompoundHead, CompoundTail} # {}
      BY <1>1, <1>3, <2>3, <3>1
    <3> QED BY <1>2, <2>1, <3>1, <3>2 DEF marked
  <2> QED BY <2>2, <2>3
<1>4. CASE q \notin p .. (p + size - 1)
  <2>1. marked[q] = flags[q]
    BY <1>0, <1>1, <1>4
  <2>2. CompoundTail \in flags[q] => q - 1 \in AllFrames(ram) /\ q - 1 \notin p .. (p + size - 1)
    BY <1>0
  <2>3. CompoundTail \in flags[q] => marked[q - 1] = flags[q - 1]
    BY <1>0, <1>1, <2>2
  <2> QED BY <2>1, <2>3 DEF marked
<1> QED BY <1>3, <1>4

LEMMA InitCompounds == Init => Compounds /\ Reading
<1> SUFFICES ASSUME Init PROVE Compounds /\ Reading
  OBVIOUS
<1> DEFINE free == [p \in AllFrames(iomem) |-> {}]
<1>1. iomem \in Layouts /\ free \in [AllFrames(iomem) -> SUBSET Flags]
      /\ \A i \in DOMAIN iomem : Frames(iomem[i]) \subseteq AllFrames(iomem)
  BY AllFramesIs DEF Init
<1>2. \/ kflags = free
      \/ \E i \in DOMAIN iomem, size \in CompoundSizes : \E p \in Frames(iomem[i]) :
           p .. (p + size - 1) \subseteq Frames(iomem[i]) /\ kflags = Mark(free, p, size, {"LRU"})
  BY DEF Init
<1>3. ASSUME kflags = free PROVE Compounds
  BY <1>1, <1>3 DEF Compounds
<1>4. ASSUME NEW i \in DOMAIN iomem, NEW size \in CompoundSizes, NEW p \in Frames(iomem[i]),
             p .. (p + size - 1) \subseteq Frames(iomem[i]), kflags = Mark(free, p, size, {"LRU"})
      PROVE  Compounds
  <2>1. p \in Nat /\ \A q \in p .. (p + size - 1) : free[q] = {}
    BY <1>1, <1>4, AllFramesIs
  <2>2. \A j \in DOMAIN iomem : \A q \in Frames(iomem[j]) : free[q] = {}
    BY <1>1
  <2> HIDE DEF free
  <2>3. \A j \in DOMAIN iomem : \A q \in Frames(iomem[j]) :
          LET marked == Mark(free, p, size, {"LRU"})
          IN  /\ ~(CompoundHead \in marked[q] /\ CompoundTail \in marked[q])
              /\ CompoundTail \in marked[q] =>
                   q - 1 \in Frames(iomem[j]) /\ marked[q - 1] \cap {CompoundHead, CompoundTail} # {}
    BY <1>1, <1>4, <2>1, <2>2, MarkCompounds
  <2> QED BY <1>4, <2>3 DEF Compounds
<1>5. Reading
  <2>1. 3 \in DOMAIN iomem /\ \A i \in DOMAIN iomem : segments[i] = <<>>
    BY <1>1, Segment DEF Init
  <2> QED BY <2>1 DEF Reading, OneKind, Led
<1> HIDE DEF free
<1>6. Compounds
  BY <1>2, <1>3, <1>4, Zenon
<1> QED BY <1>5, <1>6

LEMMA FormCompounds ==
  ASSUME TypeOK, Compounds, NEW p \in AllFrames(iomem), NEW size \in CompoundSizes,
         NEW lru \in SUBSET {"LRU"}, Form(p, size, lru)
  PROVE  Compounds'
<1>1. iomem \in Layouts /\ kflags \in [AllFrames(iomem) -> SUBSET Flags] /\ p \in Nat
  BY AllFramesIs DEF TypeOK
<1>2. PICK i \in DOMAIN iomem : p .. (p + size - 1) \subseteq Frames(iomem[i])
  BY DEF Form
<1>3. /\ iomem' = iomem /\ kflags' = Mark(kflags, p, size, lru)
      /\ \A q \in p .. (p + size - 1) : kflags[q] = {}
  BY DEF Form, Disturb
<1> SUFFICES ASSUME NEW j \in DOMAIN iomem, NEW q \in Frames(iomem[j])
             PROVE  /\ ~(CompoundHead \in kflags'[q] /\ CompoundTail \in kflags'[q])
                    /\ CompoundTail \in kflags'[q] =>
                         q - 1 \in Frames(iomem[j]) /\ kflags'[q - 1] \cap {CompoundHead, CompoundTail} # {}
  BY <1>3 DEF Compounds
<1>4. /\ ~(CompoundHead \in kflags[q] /\ CompoundTail \in kflags[q])
      /\ CompoundTail \in kflags[q] =>
           q - 1 \in Frames(iomem[j]) /\ kflags[q - 1] \cap {CompoundHead, CompoundTail} # {}
  BY DEF Compounds
<1> QED BY <1>1, <1>2, <1>3, <1>4, MarkCompounds

LEMMA SplitCompounds ==
  ASSUME TypeOK, Compounds, NEW p \in AllFrames(iomem), Split(p)
  PROVE  Compounds'
<1>1. iomem \in Layouts /\ kflags \in [AllFrames(iomem) -> SUBSET Flags] /\ p \in Nat
  BY AllFramesIs DEF TypeOK
<1>2. /\ iomem' = iomem
      /\ \A q \in AllFrames(iomem) : kflags'[q] = IF q \in Compound(kflags, p) THEN {} ELSE kflags[q]
  BY <1>1 DEF Split, Disturb
<1> SUFFICES ASSUME NEW j \in DOMAIN iomem, NEW q \in Frames(iomem[j])
             PROVE  /\ ~(CompoundHead \in kflags'[q] /\ CompoundTail \in kflags'[q])
                    /\ CompoundTail \in kflags'[q] =>
                         q - 1 \in Frames(iomem[j]) /\ kflags'[q - 1] \cap {CompoundHead, CompoundTail} # {}
  BY <1>2 DEF Compounds
<1>3. /\ ~(CompoundHead \in kflags[q] /\ CompoundTail \in kflags[q])
      /\ CompoundTail \in kflags[q] =>
           q - 1 \in Frames(iomem[j]) /\ kflags[q - 1] \cap {CompoundHead, CompoundTail} # {}
  BY DEF Compounds
<1>4. q \in AllFrames(iomem) /\ q \in Nat /\ (q - 1 \in Frames(iomem[j]) => q - 1 \in AllFrames(iomem))
  BY <1>1, AllFramesIs
<1>5. CASE q \in Compound(kflags, p)
  BY <1>2, <1>4, <1>5
<1>6. CASE q \notin Compound(kflags, p)
  <2>1. kflags'[q] = kflags[q]
    BY <1>2, <1>4, <1>6
  \* The tail behind a frame of the compound page is one of its frames.
  <2>2. CompoundTail \in kflags[q] => q - 1 \notin Compound(kflags, p)
    <3> SUFFICES ASSUME CompoundTail \in kflags[q], q - 1 \in Compound(kflags, p) PROVE FALSE
      OBVIOUS
    <3>1. q - 1 >= p /\ \A r \in (p + 1)..(q - 1) : r \in DOMAIN kflags /\ CompoundTail \in kflags[r]
      BY DEF Compound
    <3>2. q >= p /\ \A r \in (p + 1)..q : r \in DOMAIN kflags /\ CompoundTail \in kflags[r]
      BY <1>1, <1>4, <3>1
    <3>3. q \in DOMAIN kflags
      BY <1>1, <1>4
    <3> QED BY <1>6, <3>2, <3>3 DEF Compound
  <2>3. CompoundTail \in kflags[q] => kflags'[q - 1] = kflags[q - 1]
    BY <1>2, <1>3, <1>4, <2>2
  <2> QED BY <1>3, <2>1, <2>3
<1> QED BY <1>5, <1>6

\* The kernel changes the segment of the frame it begins with, and no other.
LEMMA KernelStaysInSegment ==
  ASSUME TypeOK, Compounds, NEW p \in AllFrames(iomem),
         NEW i \in DOMAIN iomem, p \notin Frames(iomem[i]), NEW q \in Frames(iomem[i]),
         \/ \E size \in CompoundSizes, lru \in SUBSET {"LRU"} : Form(p, size, lru)
         \/ Split(p)
  PROVE  kflags'[q] = kflags[q]
<1>1. iomem \in Layouts /\ kflags \in [AllFrames(iomem) -> SUBSET Flags]
      /\ p \in Nat /\ q \in Nat /\ q \in AllFrames(iomem)
  BY AllFramesIs DEF TypeOK
<1>2. ASSUME NEW size \in CompoundSizes, NEW lru \in SUBSET {"LRU"}, Form(p, size, lru) PROVE kflags'[q] = kflags[q]
  <2>1. PICK j \in DOMAIN iomem : p .. (p + size - 1) \subseteq Frames(iomem[j])
    BY <1>2 DEF Form
  <2>2. kflags' = Mark(kflags, p, size, lru) /\ size \in Nat /\ size > 1
    BY <1>2, FrameAssumption DEF Form
  <2>3. q \notin p .. (p + size - 1) /\ q # p
    <3>1. p \in p .. (p + size - 1)
      BY <1>1, <2>2
    <3>2. \A r \in Frames(iomem[i]) : r \notin Frames(iomem[j])
      <4>1. i # j
        BY <2>1, <3>1
      <4> QED BY <1>1, <4>1, OneSegment, Segment
    <3> QED BY <2>1, <3>1, <3>2
  <2> QED BY <1>1, <2>2, <2>3 DEF Mark
<1>3. ASSUME Split(p) PROVE kflags'[q] = kflags[q]
  <2>1. q \notin Compound(kflags, p)
    <3> SUFFICES ASSUME q \in Compound(kflags, p) PROVE FALSE
      OBVIOUS
    <3>1. q >= p /\ \A r \in (p + 1)..q : CompoundTail \in kflags[r]
      BY DEF Compound
    <3>2. PICK j \in DOMAIN iomem : p \in Frames(iomem[j])
      BY <1>1, AllFramesIs
    <3> DEFINE F == FirstFrame(iomem[i])
    <3>3. F \in Nat /\ F <= q /\ q < EndFrame(iomem[i]) /\ EndFrame(iomem[i]) \in Nat /\ Frames(iomem[i]) = F..(EndFrame(iomem[i]) - 1)
      BY <1>1, Segment DEF Frames
    <3>4. p < F
      BY <1>1, <3>1, <3>3
    <3>5. F \in (p + 1)..q /\ F \in Frames(iomem[i])
      BY <1>1, <3>3, <3>4
    <3>6. F - 1 \in Frames(iomem[i])
      BY <3>1, <3>5 DEF Compounds
    <3> QED BY <3>3, <3>6
  <2> QED BY <1>1, <1>3, <2>1 DEF Split
<1> QED BY <1>2, <1>3

LEMMA KernelReading ==
  ASSUME TypeOK, Compounds, Reading, Kernel
  PROVE  Reading'
<1>1. PICK p \in AllFrames(iomem) :
        \/ \E size \in CompoundSizes, lru \in SUBSET {"LRU"} : Form(p, size, lru)
        \/ Split(p)
  BY DEF Kernel
<1>2. /\ UNCHANGED <<iomem, segments>>
      /\ torn' = (torn \/ (ReadingThird /\ p \in Frames(iomem[3])))
  BY <1>1 DEF Form, Split, Disturb
<1>3. iomem \in Layouts /\ 3 \in DOMAIN iomem /\ Len(segments[3]) \in Nat /\ Count(iomem[3]) \in Nat
      /\ DOMAIN segments[3] = 1..Len(segments[3]) /\ FirstFrame(iomem[3]) \in Nat /\ EndFrame(iomem[3]) \in Nat
  BY ThirdSegment, Segment
<1>4. ASSUME ~torn', Len(segments[3]) < Count(iomem[3]), NEW k \in DOMAIN segments[3]
      PROVE  segments[3][k] = kflags'[FirstFrame(iomem[3]) + k - 1]
  <2> DEFINE q == FirstFrame(iomem[3]) + k - 1
  <2>1. ReadingThird
    BY <1>3, <1>4 DEF ReadingThird
  <2>2. ~torn /\ p \notin Frames(iomem[3])
    BY <1>2, <1>4, <2>1
  <2>3. q \in Frames(iomem[3])
    BY <1>3, <1>4 DEF Frames, Count
  <2>4. kflags'[q] = kflags[q]
    BY <1>1, <1>3, <2>2, <2>3, KernelStaysInSegment
  <2> QED BY <1>4, <2>2, <2>4 DEF Reading
<1>5. ~torn' => ~torn
  BY <1>2
<1> QED BY <1>2, <1>4, <1>5 DEF Reading

LEMMA ReadReading ==
  ASSUME TypeOK, Compounds, Reading, ReadFrame
  PROVE  Compounds' /\ Reading'
<1>0. UNCHANGED <<iomem, kflags, events, torn, image, pfn, panel, stats>>
  BY DEF ReadFrame
<1>1. Compounds'
  BY <1>0 DEF Compounds
<1>2. CASE pc' = "draw" /\ UNCHANGED segments
  BY <1>0, <1>1, <1>2 DEF Reading
<1>3. ASSUME NEW i \in DOMAIN iomem,
             Len(segments[i]) < Count(iomem[i]),
             FirstFrame(iomem[i]) + Len(segments[i]) \in Frames(iomem[i]),
             segments' = [segments EXCEPT
               ![i] = Append(segments[i], kflags[FirstFrame(iomem[i]) + Len(segments[i])])]
      PROVE  Reading'
  <2> DEFINE data == segments[i]
             n == Len(data)
             F == FirstFrame(iomem[i])
             flags == kflags[F + n]
             longer == Append(data, flags)
  <2>1. iomem \in Layouts /\ segments \in [DOMAIN iomem -> Seq(SUBSET Flags)] /\ 3 \in DOMAIN iomem
    BY ThirdSegment DEF TypeOK
  <2>2. /\ data \in Seq(SUBSET Flags) /\ n \in Nat /\ F \in Nat /\ DOMAIN data = 1..n /\ EndFrame(iomem[i]) \in Nat
        /\ DOMAIN longer = 1..(n + 1) /\ longer[n + 1] = flags /\ \A k \in 1..n : longer[k] = data[k]
        /\ Len(longer) = n + 1
    <3>1. data \in Seq(SUBSET Flags) /\ F \in Nat /\ EndFrame(iomem[i]) \in Nat
      BY <2>1, Segment
    <3> HIDE DEF data, F, flags
    <3> QED BY <3>1
  <2>3. segments'[i] = longer /\ \A j \in DOMAIN iomem : j # i => segments'[j] = segments[j]
    BY <1>3, <2>1
  <2>4. /\ ~(CompoundHead \in flags /\ CompoundTail \in flags)
        /\ CompoundTail \in flags =>
             (F + n) - 1 \in Frames(iomem[i]) /\ kflags[(F + n) - 1] \cap {CompoundHead, CompoundTail} # {}
    <3> DEFINE q == F + n
    <3>1. q \in Frames(iomem[i])
      BY <1>3
    <3> HIDE DEF q
    <3>2. /\ ~(CompoundHead \in kflags[q] /\ CompoundTail \in kflags[q])
          /\ CompoundTail \in kflags[q] =>
               q - 1 \in Frames(iomem[i]) /\ kflags[q - 1] \cap {CompoundHead, CompoundTail} # {}
      BY <3>1 DEF Compounds
    <3> QED BY <3>2 DEF q
  <2> HIDE DEF data, n, F, flags, longer
  <2>5. OneKind(longer)
    <3>1. OneKind(data)
      BY DEF Reading, data
    <3> QED BY <2>2, <2>4, <3>1 DEF OneKind
  <2>6. ASSUME i = 3, ~torn
        PROVE  Led(longer) /\ \A k \in 1..(n + 1) : longer[k] = kflags[F + k - 1]
    <3>1. Led(data) /\ \A k \in 1..n : data[k] = kflags[F + k - 1]
      BY <1>3, <2>2, <2>6 DEF Reading, data, n, F
    <3>2. longer[n + 1] = kflags[F + (n + 1) - 1]
      <4>1. F + (n + 1) - 1 = F + n
        BY <2>2
      <4> QED BY <2>2, <4>1 DEF flags
    <3>3. \A k \in 1..(n + 1) : longer[k] = kflags[F + k - 1]
      <4> TAKE k \in 1..(n + 1)
      <4>1. k \in 1..n \/ k = n + 1
        BY <2>2
      <4> QED BY <2>2, <3>1, <3>2, <4>1
    <3>4. CompoundTail \in flags => n + 1 > 1 /\ longer[n] \cap {CompoundHead, CompoundTail} # {}
      <4> SUFFICES ASSUME CompoundTail \in flags PROVE n + 1 > 1 /\ longer[n] \cap {CompoundHead, CompoundTail} # {}
        OBVIOUS
      <4>1. (F + n) - 1 >= F
        BY <2>2, <2>4 DEF Frames, F
      <4>2. n \in 1..n /\ n + 1 > 1
        BY <2>2, <4>1
      <4> QED BY <2>2, <2>4, <3>1, <4>2
    <3>5. \A k \in 1..n : k - 1 \in Nat /\ (k > 1 => longer[k - 1] = data[k - 1] /\ k - 1 \in 1..n)
      BY <2>2
    <3>6. \A k \in 1..n : CompoundTail \in longer[k] => k > 1 /\ longer[k - 1] \cap {CompoundHead, CompoundTail} # {}
      BY <2>2, <3>1, <3>5 DEF Led
    <3>7. Led(longer)
      <4> SUFFICES ASSUME NEW k \in 1..(n + 1), CompoundTail \in longer[k]
                   PROVE  k > 1 /\ longer[k - 1] \cap {CompoundHead, CompoundTail} # {}
        BY <2>2 DEF Led
      <4>1. CASE k \in 1..n
        BY <3>6, <4>1
      <4>2. CASE k = n + 1
        BY <2>2, <3>4, <4>2
      <4> QED BY <2>2, <4>1, <4>2
    <3> QED BY <3>3, <3>7
  <2>7. \A j \in DOMAIN iomem : OneKind(segments'[j])
    BY <2>3, <2>5 DEF Reading
  <2>8. CASE i = 3
    BY <1>0, <2>2, <2>3, <2>6, <2>7, <2>8 DEF Reading, F
  <2>9. CASE i # 3
    BY <1>0, <2>1, <2>3, <2>7, <2>9 DEF Reading
  <2> QED BY <2>8, <2>9
<1>4. Reading'
  BY <1>2, <1>3, ReadFrameIs
<1> QED BY <1>1, <1>4

LEMMA ReadingStep == TypeOK /\ Compounds /\ Reading /\ [Next]_vars => Compounds' /\ Reading'
<1> SUFFICES ASSUME TypeOK, Compounds, Reading, [Next]_vars PROVE Compounds' /\ Reading'
  OBVIOUS
<1>1. CASE Kernel
  <2>1. Compounds'
    BY <1>1, FormCompounds, SplitCompounds DEF Kernel
  <2> QED BY <1>1, <2>1, KernelReading
<1>2. CASE ReadFrame
  BY <1>2, ReadReading
<1>3. CASE UNCHANGED <<iomem, kflags, torn, segments>>
  BY <1>3 DEF Compounds, Reading
<1>4. Draw \/ Stats \/ (\E index \in Canvas(iomem) : Select(index)) \/ UNCHANGED vars
      => UNCHANGED <<iomem, kflags, torn, segments>>
  BY DEF Draw, Stats, Select, vars
<1> QED BY <1>1, <1>2, <1>3, <1>4 DEF Next

-----------------------------------------------------------------------------
(***************************************************************************)
(* The picture, the panel and the counters                                 *)
(***************************************************************************)
LEMMA ShownIs ==
  ASSUME iomem \in Layouts, NEW i \in DOMAIN iomem, NEW p \in Frames(iomem[i])
  PROVE  /\ Shown(p) = segments[i][p - FirstFrame(iomem[i]) + 1]
         /\ FlagsRead(p) = segments[i][p - FirstFrame(iomem[i]) + 1]
<1>1. i \in Nat /\ \A j \in DOMAIN iomem : p \in Frames(iomem[j]) <=> j = i
  BY OneSegment, Segment
<1>2. {j \in DOMAIN iomem : p \in Frames(iomem[j])} = {i}
  BY <1>1
<1>3. Max({i}) = i
  <2>1. {i} \subseteq 0..i /\ {i} # {}
    BY <1>1
  <2>2. Max({i}) \in {i}
    BY <1>1, <2>1, MaxOf
  <2> QED BY <2>2
<1>4. Shown(p) = segments[i][p - FirstFrame(iomem[i]) + 1]
  BY <1>2, <1>3 DEF Shown
<1>5. (CHOOSE j \in DOMAIN iomem : p \in Frames(iomem[j])) = i
  BY <1>1
<1>6. FlagsRead(p) = segments[i][p - FirstFrame(iomem[i]) + 1]
  BY <1>5 DEF FlagsRead
<1> QED BY <1>4, <1>6

\* On a drawable machine the indices of all frames are in the picture.
LEMMA DrawableIs ==
  ASSUME iomem \in Layouts, Drawable, NEW p \in AllFrames(iomem)
  PROVE  /\ pfn_to_index(iomem, p) \in Canvas(iomem) /\ pfn_to_index(iomem, p) # None
         /\ index_to_pfn(iomem, pfn_to_index(iomem, p)) = p
<1>1. p # 0
  BY DEF Drawable
<1>2. PICK i \in DOMAIN iomem : p \in Frames(iomem[i])
  BY AllFramesIs
<1> DEFINE end == Before(iomem)[Len(iomem) + 1]
           index == pfn_to_index(iomem, p)
<1>3. index \in 0..(end - 1) /\ index_to_pfn(iomem, index) = p
  BY <1>1, <1>2, IndexOfFrame
<1>4. end \in Int
  <2>1. Len(iomem) + 1 \in 1..(Len(iomem) + 1)
    BY Segment
  <2>2. Before(iomem) \in [1..(Len(iomem) + 1) -> Int]
    BY BeforeIs
  <2> QED BY <2>1, <2>2
<1>5. PICK order \in 0..get_pfn_count(iomem) :
        Pixels[order] >= get_pfn_count(iomem) /\ Canvas(iomem) = 0..(Pixels[order] - 1)
  BY CanvasIs
<1>6. Pixels[order] \in Nat /\ Pixels[order] >= end
  BY <1>5, CountIs, PixelsIs DEF Drawable
<1> HIDE DEF index, end
<1>7. index \in Canvas(iomem) /\ index # None
  BY <1>3, <1>4, <1>5, <1>6, FrameAssumption
<1> QED BY <1>3, <1>7 DEF index

\* The picture has a pixel for every frame, with its flags, and no others.
Drawn ==
  Drawable /\ pc = "ready" =>
    /\ DOMAIN image = {pfn_to_index(iomem, p) : p \in AllFrames(iomem)}
    /\ \A p \in AllFrames(iomem) : image[pfn_to_index(iomem, p)] = FlagsRead(p)

Late ==
  /\ stats # None => pc \in {"ready", "panic"}
  /\ panel.index # None => pc \in {"ready", "panic"}
  /\ Drawable /\ pc = "panic" => stats = Panic

Inv ==
  /\ TypeOK /\ Compounds /\ Reading
  /\ Drawn /\ Late /\ PanelMatchesPicture
  /\ CountersExact /\ OnlyTornReadsPanic

LEMMA InitInv == Init => Inv
<1> SUFFICES ASSUME Init PROVE Inv
  OBVIOUS
<1>1. panel.index = None /\ stats = None /\ pc = "read"
  BY DEF Init
<1>2. Drawn /\ Late /\ PanelMatchesPicture /\ CountersExact /\ OnlyTornReadsPanic
  BY <1>1, FrameAssumption DEF Drawn, Late, PanelMatchesPicture, CountersExact, OnlyTornReadsPanic
<1> QED BY <1>2, TypeInit, InitCompounds DEF Inv

LEMMA DrawDrawn ==
  ASSUME TypeOK, Drawable, Draw
  PROVE  pc' = "ready" /\ Drawn'
<1>1. iomem \in Layouts /\ UNCHANGED <<iomem, segments>>
  BY DEF TypeOK, Draw
<1> DEFINE index(p) == pfn_to_index(iomem, p)
<1>2. \A p \in AllFrames(iomem) : index(p) \in Canvas(iomem) /\ index(p) # None /\ index_to_pfn(iomem, index(p)) = p
  BY <1>1, DrawableIs
<1> HIDE DEF index
<1>3. PICK pixel \in [AllFrames(iomem) -> Canvas(iomem)] :
        /\ pc' = "ready"
        /\ \A p \in AllFrames(iomem) : pixel[p] = index(p)
        /\ image' = [x \in {pixel[p] : p \in AllFrames(iomem)} |->
                       FlagsRead(Max({p \in AllFrames(iomem) : pixel[p] = x}))]
  BY <1>2, DrawIs DEF index
<1>4. DOMAIN image' = {index(p) : p \in AllFrames(iomem)}
  BY <1>3
<1>5. ASSUME NEW p \in AllFrames(iomem) PROVE image'[index(p)] = FlagsRead(p)
  <2>1. {q \in AllFrames(iomem) : pixel[q] = index(p)} = {p}
    BY <1>2, <1>3
  <2>2. p \in Nat
    BY <1>1, AllFramesIs
  <2>3. {p} \subseteq 0..p /\ {p} # {}
    BY <2>2
  <2>4. Max({p}) \in {p}
    BY <2>2, <2>3, MaxOf
  <2>5. index(p) \in {pixel[q] : q \in AllFrames(iomem)}
    BY <1>3
  <2>6. image'[index(p)] = FlagsRead(Max({q \in AllFrames(iomem) : pixel[q] = index(p)}))
    BY <1>3, <2>5
  <2> QED BY <2>1, <2>4, <2>6
<1>6. \A p : FlagsRead(p)' = FlagsRead(p)
  BY <1>1 DEF FlagsRead
<1> QED BY <1>1, <1>3, <1>4, <1>5, <1>6 DEF Drawn, index

LEMMA SelectPanel ==
  ASSUME TypeOK, Drawn, NEW index \in Canvas(iomem), Select(index)
  PROVE  PanelMatchesPicture'
<1>1. iomem \in Layouts
  BY DEF TypeOK
<1> DEFINE p == index_to_pfn(iomem, index)
<1>2. /\ panel'.index = index /\ panel'.flags = IF p = None THEN None ELSE Shown(p)
      /\ pc = "ready" /\ UNCHANGED <<iomem, image, segments>>
  BY DEF Select
<1> HIDE DEF p
<1> SUFFICES ASSUME Drawable
             PROVE  IF index \in DOMAIN image THEN panel'.flags = image[index] ELSE panel'.flags \in {None, NotInRam}
  BY <1>2 DEF PanelMatchesPicture, Drawable
<1>3. index \in Nat
  <2>1. PICK order : Canvas(iomem) = 0..(Pixels[order] - 1)
    BY <1>1, CanvasIs
  <2> QED BY <2>1
<1>4. CASE index \in DOMAIN image
  <2>1. PICK q \in AllFrames(iomem) : index = pfn_to_index(iomem, q)
    BY <1>2, <1>4 DEF Drawn
  <2>2. image[index] = FlagsRead(q)
    BY <1>2, <2>1 DEF Drawn
  <2>3. p = q
    BY <1>1, <2>1, DrawableIs DEF p
  <2>4. p # None
    BY <1>1, <2>3, AllFramesIs, FrameAssumption
  <2>5. PICK i \in DOMAIN iomem : q \in Frames(iomem[i])
    BY <1>1, AllFramesIs
  <2>6. Shown(q) = FlagsRead(q)
    BY <1>1, <2>5, ShownIs
  <2> QED BY <1>2, <1>4, <2>2, <2>3, <2>4, <2>6
<1>5. CASE index \notin DOMAIN image
  <2> SUFFICES ASSUME p # None PROVE Shown(p) = NotInRam
    BY <1>2, <1>5
  <2>1. PICK i \in DOMAIN iomem : /\ p \in FirstFrame(iomem[i]) .. LastFrame(iomem[i])
                                  /\ index = Before(iomem)[i] + p - FirstFrame(iomem[i])
    BY <1>1, <1>3, FrameOfIndex DEF p
  <2>2. p \notin AllFrames(iomem)
    <3> SUFFICES ASSUME p \in AllFrames(iomem) PROVE FALSE
      OBVIOUS
    <3>1. PICK j \in DOMAIN iomem : p \in Frames(iomem[j])
      BY <1>1, AllFramesIs
    <3>2. p \in Nat /\ p \in FirstFrame(iomem[j]) .. LastFrame(iomem[j])
      BY <1>1, <3>1, Segment
    <3>3. j = i
      BY <1>1, <2>1, <3>2, OneSegment
    <3>4. p # 0
      BY DEF Drawable
    <3>5. pfn_to_index(iomem, p) = index
      BY <1>1, <2>1, <3>1, <3>3, <3>4, IndexOfFrame
    <3> QED BY <1>2, <1>5, <3>5 DEF Drawn
  <2>3. {i_1 \in DOMAIN iomem : p \in Frames(iomem[i_1])} = {}
    BY <1>1, <2>2, AllFramesIs
  <2> QED BY <2>3 DEF Shown
<1> QED BY <1>4, <1>5

LEMMA StatsInv ==
  ASSUME Inv, Stats
  PROVE  Late' /\ CountersExact' /\ OnlyTornReadsPanic'
<1> DEFINE data == segments[3]
           result == compute_compound_pages(data)
<1>1. /\ stats' = result /\ pc' = (IF result = Panic THEN "panic" ELSE pc) /\ pc = "ready"
      /\ UNCHANGED <<iomem, segments, torn, panel>>
  BY DEF Stats
<1>2. data \in Seq(SUBSET Flags) /\ 3 \in DOMAIN iomem
  BY ThirdSegment DEF Inv
<1>3. OneKind(data) /\ (~torn => Led(data))
  BY <1>2 DEF Inv, Reading
<1> HIDE DEF data, result
<1>4. OnlyTornReadsPanic'
  BY <1>1, <1>2, <1>3, LedIsCounted DEF OnlyTornReadsPanic, result
<1>5. CountersExact'
  <2>1. result # Panic => \A flag \in Flags : result[flag] = Cardinality({k \in DOMAIN data : Counts(data, k, flag)})
    BY <1>2, <1>3, CountIsExact DEF result
  <2> QED BY <1>1, <2>1 DEF CountersExact, Counts, Heads, data
<1>6. Late'
  BY <1>1 DEF Late, Drawable
<1> QED BY <1>4, <1>5, <1>6

LEMMA NextInv == Inv /\ [Next]_vars => Inv'
<1> SUFFICES ASSUME Inv, [Next]_vars PROVE Inv'
  OBVIOUS
<1>1. TypeOK' /\ Compounds' /\ Reading'
  BY TypeStep, ReadingStep DEF Inv
<1> SUFFICES Drawn' /\ Late' /\ PanelMatchesPicture' /\ CountersExact' /\ OnlyTornReadsPanic'
  BY <1>1 DEF Inv
<1>2. CASE Kernel
  <2>1. UNCHANGED <<iomem, segments, pc, image, pfn, panel, stats>> /\ (torn => torn')
    BY <1>2 DEF Kernel, Form, Split, Disturb
  <2>2. Drawn'
    BY <2>1 DEF Inv, Drawn, Drawable, FlagsRead
  <2>3. Late' /\ PanelMatchesPicture'
    BY <2>1 DEF Inv, Late, PanelMatchesPicture, Drawable
  <2>4. CountersExact' /\ OnlyTornReadsPanic'
    BY <2>1 DEF Inv, CountersExact, OnlyTornReadsPanic
  <2> QED BY <2>2, <2>3, <2>4
<1>3. CASE ReadFrame
  <2>1. UNCHANGED <<iomem, torn, image, pfn, panel, stats>> /\ pc = "read" /\ pc' \in {"read", "draw"}
    BY <1>3 DEF ReadFrame
  <2>2. stats = None /\ panel.index = None
    BY <2>1 DEF Inv, Late
  <2>3. Drawn' /\ Late' /\ PanelMatchesPicture' /\ CountersExact' /\ OnlyTornReadsPanic'
    BY <2>1, <2>2, FrameAssumption DEF Drawn, Late, PanelMatchesPicture, CountersExact, OnlyTornReadsPanic
  <2> QED BY <2>3
<1>4. CASE Draw
  <2>1. UNCHANGED <<iomem, torn, segments, pfn, panel, stats>> /\ pc = "draw" /\ pc' \in {"panic", "ready"}
    BY <1>4 DEF Draw
  <2>2. stats = None /\ panel.index = None
    BY <2>1 DEF Inv, Late
  <2>3. Drawable => pc' = "ready" /\ Drawn'
    BY <1>4, DrawDrawn DEF Inv
  <2>4. Drawable' <=> Drawable
    BY <2>1 DEF Drawable
  <2>5. Drawn'
    BY <2>3, <2>4 DEF Drawn
  <2>6. Late'
    BY <2>1, <2>2, <2>3, <2>4 DEF Late
  <2>7. PanelMatchesPicture' /\ CountersExact' /\ OnlyTornReadsPanic'
    BY <2>1, <2>2, FrameAssumption DEF PanelMatchesPicture, CountersExact, OnlyTornReadsPanic
  <2> QED BY <2>5, <2>6, <2>7
<1>5. ASSUME NEW index \in Canvas(iomem), Select(index)
      PROVE  Drawn' /\ Late' /\ PanelMatchesPicture' /\ CountersExact' /\ OnlyTornReadsPanic'
  <2>1. UNCHANGED <<iomem, torn, segments, pc, image, stats>> /\ pc = "ready"
    BY <1>5 DEF Select
  <2>2. PanelMatchesPicture'
    BY <1>5, SelectPanel DEF Inv
  <2>3. Drawn'
    BY <2>1 DEF Inv, Drawn, Drawable, FlagsRead
  <2>4. Late'
    BY <2>1 DEF Inv, Late, Drawable
  <2>5. CountersExact' /\ OnlyTornReadsPanic'
    BY <2>1 DEF Inv, CountersExact, OnlyTornReadsPanic
  <2> QED BY <2>2, <2>3, <2>4, <2>5
<1>6. CASE Stats
  <2>1. UNCHANGED <<iomem, segments, image, pfn, panel>> /\ pc = "ready"
    BY <1>6 DEF Stats
  <2>2. Drawn'
    BY <2>1 DEF Inv, Drawn, Drawable, FlagsRead
  <2>3. PanelMatchesPicture'
    BY <2>1 DEF Inv, PanelMatchesPicture, Drawable
  <2> QED BY <1>6, <2>2, <2>3, StatsInv
<1>7. CASE UNCHANGED vars
  <2>1. Drawn' /\ Late' /\ PanelMatchesPicture'
    BY <1>7 DEF Inv, vars, Drawn, Drawable, FlagsRead, Late, PanelMatchesPicture
  <2>2. CountersExact' /\ OnlyTornReadsPanic'
    BY <1>7 DEF Inv, vars, CountersExact, OnlyTornReadsPanic
  <2> QED BY <2>1, <2>2
<1> QED BY <1>2, <1>3, <1>4, <1>5, <1>6, <1>7 DEF Next

LEMMA InvHolds == Spec => []Inv
BY InitInv, NextInv, PTL DEF Spec

-----------------------------------------------------------------------------
(***************************************************************************)
(* Theorems                                                                *)
(***************************************************************************)
\* Types: no segment is read beyond its end, and nothing is drawn outside the
\* picture (kpageflags-viewer.rs:288-334).
THEOREM TypeCorrect == Spec => []TypeOK
BY InvHolds, PTL DEF Inv

\* gen_image draws all of memory and fails none of its assertions, on every
\* machine that Drawable admits (kpageflags-viewer.rs:304-307).
THEOREM AllFramesAreDrawn == Spec => []EveryFrameDrawn
<1>1. Inv => EveryFrameDrawn
  <2> SUFFICES ASSUME Inv, Drawable PROVE EveryFrameDrawn
    BY DEF EveryFrameDrawn
  <2>1. iomem \in Layouts /\ segments \in [DOMAIN iomem -> Seq(SUBSET Flags)]
    BY DEF Inv, TypeOK
  <2>2. ASSUME pc = "ready", NEW i \in DOMAIN iomem, NEW k \in DOMAIN segments[i]
        PROVE  LET index == pfn_to_index(iomem, FirstFrame(iomem[i]) + k - 1)
               IN  index \in DOMAIN image /\ image[index] = segments[i][k]
    <3> DEFINE p == FirstFrame(iomem[i]) + k - 1
    <3>1. segments[i] \in Seq(SUBSET Flags) /\ Len(segments[i]) <= Count(iomem[i])
      BY <2>1 DEF Inv, TypeOK
    <3>2. k \in Nat /\ k >= 1 /\ k <= Len(segments[i]) /\ Len(segments[i]) \in Nat
      BY <3>1
    <3>3. FirstFrame(iomem[i]) \in Nat /\ EndFrame(iomem[i]) \in Nat
      BY <2>1, Segment
    <3>4. p \in Frames(iomem[i]) /\ p - FirstFrame(iomem[i]) + 1 = k
      BY <3>1, <3>2, <3>3 DEF Frames, Count
    <3> HIDE DEF p
    <3>5. p \in AllFrames(iomem) /\ FlagsRead(p) = segments[i][k]
      BY <2>1, <3>4, AllFramesIs, ShownIs
    <3>6. pfn_to_index(iomem, p) \in DOMAIN image /\ image[pfn_to_index(iomem, p)] = segments[i][k]
      BY <2>2, <3>5 DEF Inv, Drawn
    <3> QED BY <3>6 DEF p
  <2>3. pc = "panic" => stats = Panic
    BY DEF Inv, Late
  <2> QED BY <2>2, <2>3 DEF EveryFrameDrawn
<1> QED BY <1>1, InvHolds, PTL

\* A click shows the flags the pixel was drawn with (kpageflags-viewer.rs:576-596, 642-666).
THEOREM PanelMatches == Spec => []PanelMatchesPicture
BY InvHolds, PTL DEF Inv

\* The Stats tab counts as the reference does, for every sequence of flags the
\* kernel can give (lib.rs:163-211).
THEOREM CountersAreExact == Spec => []CountersExact
BY InvHolds, PTL DEF Inv

\* compute_compound_pages fails on no segment that was read undisturbed (lib.rs:197-198).
THEOREM OnlyTornReadsFail == Spec => []OnlyTornReadsPanic
BY InvHolds, PTL DEF Inv
=============================================================================
