------------------------ MODULE ProcessTree_proofs ------------------------
(* What ProcessTree promises, for every number of processes and whatever the *)
(* kernel does while the tree is built.                                      *)
EXTENDS ProcessTree, TLAPS

\* Ancestors are in every set that climbs from the parent.
LEMMA AncestorsLeast ==
  ASSUME NEW par \in [Pids -> 0..MaxPid], NEW p \in Pids,
         NEW set \in SUBSET (0..MaxPid), par[p] \in set, Upward(par, set)
  PROVE  AncestorsIn(par, p) \subseteq set
BY DEF AncestorsIn

\* With 0, the ancestors of p are such a set.
LEMMA AncestorsClimb ==
  ASSUME NEW par \in [Pids -> 0..MaxPid], NEW p \in Pids
  PROVE  /\ AncestorsIn(par, p) \subseteq Pids
         /\ AncestorsIn(par, p) \cup {0} \in SUBSET (0..MaxPid)
         /\ par[p] \in AncestorsIn(par, p) \cup {0}
         /\ Upward(par, AncestorsIn(par, p) \cup {0})
<1>1. AncestorsIn(par, p) \subseteq Pids
  BY DEF AncestorsIn
<1>2. AncestorsIn(par, p) \cup {0} \in SUBSET (0..MaxPid)
  BY <1>1, TreeAssumption DEF Pids
<1>3. par[p] \in AncestorsIn(par, p) \cup {0}
  BY TreeAssumption DEF AncestorsIn, Pids
<1>4. ASSUME NEW q \in AncestorsIn(par, p), par[q] # 0
      PROVE  par[q] \in AncestorsIn(par, p)
  <2>1. q \in Pids /\ par[q] \in Pids
    BY <1>1, <1>4, TreeAssumption DEF Pids
  <2>2. ASSUME NEW set \in SUBSET (0..MaxPid), par[p] \in set, Upward(par, set)
        PROVE  par[q] \in set
    BY <2>1, <2>2, AncestorsLeast DEF Upward
  <2> QED BY <2>1, <2>2 DEF AncestorsIn
<1>5. Upward(par, AncestorsIn(par, p) \cup {0})
  BY <1>4, TreeAssumption DEF Upward, Pids
<1> QED BY <1>1, <1>2, <1>3, <1>5

\* An ancestor of an ancestor is an ancestor.
LEMMA AncestorsTransitive ==
  ASSUME NEW par \in [Pids -> 0..MaxPid], NEW p \in Pids, NEW q \in AncestorsIn(par, p)
  PROVE  AncestorsIn(par, q) \subseteq AncestorsIn(par, p)
<1> DEFINE S == AncestorsIn(par, p) \cup {0}
<1>1. q \in Pids /\ par[q] \in S /\ Upward(par, S) /\ S \in SUBSET (0..MaxPid)
  BY AncestorsClimb DEF Upward
<1>2. AncestorsIn(par, q) \subseteq S
  <2> HIDE DEF S
  <2> QED BY <1>1, AncestorsLeast
<1>3. AncestorsIn(par, q) \subseteq Pids
  BY <1>1, AncestorsClimb
<1>4. 0 \notin Pids
  BY TreeAssumption DEF Pids
<1> QED BY <1>2, <1>3, <1>4

\* Whoever has no parent has no ancestor; others have those of their parent,
\* and the parent.
LEMMA AncestorsStep ==
  ASSUME NEW par \in [Pids -> 0..MaxPid], NEW p \in Pids
  PROVE  /\ par[p] = 0 => AncestorsIn(par, p) = {}
         /\ par[p] # 0 => /\ par[p] \in Pids
                          /\ AncestorsIn(par, p) \subseteq {par[p]} \cup AncestorsIn(par, par[p])
<1>0. 0 \notin Pids /\ 0 \in 0..MaxPid /\ 0..MaxPid = Pids \cup {0}
  BY TreeAssumption DEF Pids
<1>1. ASSUME par[p] = 0 PROVE AncestorsIn(par, p) = {}
  <2>1. Upward(par, {0})
    BY <1>0 DEF Upward
  <2>2. AncestorsIn(par, p) \subseteq {0}
    BY <1>0, <1>1, <2>1, AncestorsLeast
  <2> QED BY <1>0, <2>2, AncestorsClimb
<1>2. ASSUME par[p] # 0
      PROVE  /\ par[p] \in Pids
             /\ AncestorsIn(par, p) \subseteq {par[p]} \cup AncestorsIn(par, par[p])
  <2>1. par[p] \in Pids
    BY <1>0, <1>2
  <2> DEFINE S == {par[p]} \cup (AncestorsIn(par, par[p]) \cup {0})
  <2>2. S \in SUBSET (0..MaxPid) /\ par[p] \in S
    BY <1>0, <2>1, AncestorsClimb
  <2>3. Upward(par, S)
    <3>1. par[par[p]] \in AncestorsIn(par, par[p]) \cup {0}
      BY <2>1, AncestorsClimb
    <3>2. Upward(par, AncestorsIn(par, par[p]) \cup {0})
      BY <2>1, AncestorsClimb
    <3> QED BY <3>1, <3>2 DEF Upward
  <2>4. AncestorsIn(par, p) \subseteq S
    <3> HIDE DEF S
    <3> QED BY <2>2, <2>3, AncestorsLeast
  <2> QED BY <1>0, <2>1, <2>4, AncestorsClimb
<1> QED BY <1>1, <1>2

-----------------------------------------------------------------------------
(***************************************************************************)
(* The inductive invariant.                                                *)
(***************************************************************************)
\* Living processes have living parents, and the dead have no children.
KernelOK ==
  /\ parent[1] = 0
  /\ \A p \in alive \ {1} : parent[p] \in alive \ zombies
  /\ \A p \in Pids \ alive : parent[p] = 0

\* An open directory is that of the process that has the number now.
Handles ==
  /\ \A p \in Pids : handle[p] = "open" => p \in alive
  /\ pc = "open" => edges = {} /\ lineage = [p \in Pids |-> {}]

\* Kinship at the moment the last directory was open: transitive, and since
\* then ancestors can only have been lost.
Lineage ==
  /\ \A p \in Pids : \A q \in lineage[p] : lineage[q] \subseteq lineage[p]
  /\ pc = "read" => \A p \in Pids : handle[p] = "open" => AncestorsIn(parent, p) \subseteq lineage[p]
  /\ \A e \in edges : e[1] \in lineage[e[2]] \cup {0}

\* Processes that never moved are opened and read when their turn is over.
Steady ==
  /\ pc = "open" => \A p \in steady : p < cursor => handle[p] = "open"
  /\ pc = "read" => \A p \in steady : /\ handle[p] = "open"
                                      /\ p < cursor => <<parent[p], p>> \in edges
  /\ pc \notin {"open", "read", "exit"} => \A p \in steady : <<parent[p], p>> \in edges
  /\ \A e \in edges : e[2] \in steady => e[1] = parent[e[2]]

Climbing ==
  pc = "up" =>
    /\ pid \in Pids
    /\ current \in lineage[pid] \cup {0, pid}
    /\ result \subseteq lineage[pid] \cup {0, pid}
    /\ \A r \in AncestorsIn(SteadyParent, pid) :
         r \in result \/ (current \in Pids /\ r \in AncestorsIn(SteadyParent, current))

Descending ==
  pc = "down" =>
    /\ pid \in Pids
    /\ result \subseteq Pids
    /\ pool \subseteq result \cup {pid}
    /\ \A q \in result : pid \in lineage[q]
    /\ \A e \in edges : e[1] \in (result \cup {pid}) \ pool => e[2] \in result
    /\ \A set \in SUBSET Pids : Closed(set) => result \subseteq set

Inv == TypeOK /\ KernelOK /\ Handles /\ Lineage /\ Steady /\ Climbing /\ Descending

-----------------------------------------------------------------------------
\* The numbers.
LEMMA Numbers == 0 \notin Pids /\ 1 \in Pids /\ 0 \in 0..MaxPid /\ 0..MaxPid = Pids \cup {0}
BY TreeAssumption DEF Pids

LEMMA TypeInit == Init => TypeOK
<1> SUFFICES ASSUME Init PROVE TypeOK
  OBVIOUS
<1> USE TreeAssumption, Numbers
<1>1. alive \in SUBSET Pids /\ 1 \in alive /\ parent \in [Pids -> 0..MaxPid] /\ zombies = {}
  BY DEF Init
<1>2. events \in 0..MaxEvents /\ cursor \in 1..(MaxPid + 1)
  BY DEF Init
<1> QED BY <1>1, <1>2 DEF Init, TypeOK

LEMMA TypeKernel == TypeOK /\ Kernel => TypeOK'
<1> SUFFICES ASSUME TypeOK, Kernel PROVE TypeOK'
  OBVIOUS
<1> USE TreeAssumption, Numbers
<1>0. Happens
  BY DEF Kernel, Fork, Die, Reap
<1>1. events' \in 0..MaxEvents
  BY <1>0 DEF Happens, TypeOK
<1>2. CASE \E p, c \in Pids : Fork(p, c)
  BY <1>1, <1>2 DEF Fork, TypeOK, query
<1>3. CASE \E p \in Pids : Die(p)
  <2>1. PICK p \in Pids : Die(p)
    BY <1>3
  <2>2. PICK reaper \in AncestorsIn(parent, p) :
          parent' = [q \in Pids |-> IF parent[q] = p THEN reaper ELSE parent[q]]
    BY <2>1 DEF Die
  <2>3. parent' \in [Pids -> 0..MaxPid]
    BY <2>2, AncestorsClimb DEF TypeOK
  <2> QED BY <1>1, <2>1, <2>3 DEF Die, TypeOK, query
<1>4. CASE \E p \in Pids : Reap(p)
  <2>1. PICK p \in Pids : Reap(p)
    BY <1>4
  <2>2. handle' \in [Pids -> {"none", "open", "left"}]
    BY <2>1 DEF Reap, TypeOK, query
  <2>3. parent' \in [Pids -> 0..MaxPid]
    BY <2>1 DEF Reap, TypeOK, query
  <2>4. 1 \in alive'
    BY <2>1 DEF Reap, TypeOK, query
  <2>5. edges' \subseteq (0..MaxPid) \X {q \in Pids : handle'[q] # "none"}
    BY <2>1 DEF Reap, TypeOK, query
  <2>6. alive' \subseteq Pids /\ zombies' \subseteq alive' /\ steady' \subseteq alive'
    BY <2>1 DEF Reap, TypeOK, query
  <2> QED BY <1>1, <2>1, <2>2, <2>3, <2>4, <2>5, <2>6 DEF Reap, TypeOK, query
<1> QED BY <1>2, <1>3, <1>4 DEF Kernel

LEMMA TypeMain == TypeOK /\ Main => TypeOK'
<1> SUFFICES ASSUME TypeOK, Main PROVE TypeOK'
  OBVIOUS
<1> USE TreeAssumption, Numbers
<1>0. 1 \in alive \ zombies /\ cursor \in 1..(MaxPid + 1)
  BY DEF TypeOK
<1>1. CASE OpenNext
  <2>1. cursor \in Pids /\ cursor' \in 1..(MaxPid + 1)
    BY <1>0, <1>1 DEF OpenNext, Pids
  <2>2. handle' \in [Pids -> {"none", "open", "left"}]
    BY <1>1 DEF OpenNext, TypeOK
  <2>3. edges' \subseteq (0..MaxPid) \X {q \in Pids : handle'[q] # "none"}
    BY <1>1, <2>1 DEF OpenNext, TypeOK
  <2> QED BY <1>1, <2>1, <2>2, <2>3 DEF OpenNext, TypeOK, kernel, query
<1>2. CASE StartTree
  <2>1. lineage' \in [Pids -> SUBSET Pids]
    BY <1>2, AncestorsClimb DEF StartTree, TypeOK
  <2> QED BY <1>2, <2>1 DEF StartTree, TypeOK, kernel, query
<1>3. CASE ReadStatus
  <2>1. cursor \in Pids /\ cursor' \in 1..(MaxPid + 1)
    BY <1>0, <1>3 DEF ReadStatus, Pids
  <2>2. edges' \subseteq (0..MaxPid) \X {q \in Pids : handle[q] # "none"}
    BY <1>3, <2>1 DEF ReadStatus, TypeOK
  <2> QED BY <1>3, <2>1, <2>2 DEF ReadStatus, TypeOK, kernel, query
<1>4. CASE FinishTree
  BY <1>4 DEF FinishTree, TypeOK, kernel, query
<1>5. CASE \E p \in Pids : Ancestors(p)
  BY <1>5 DEF Ancestors, TypeOK, kernel
<1>6. CASE \E p \in Pids : Descendants(p)
  BY <1>6 DEF Descendants, TypeOK, kernel
<1>7. CASE Up
  <2>1. PICK ppid \in Parents(current) : result' = result \cup {ppid} /\ current' = ppid
    BY <1>7 DEF Up
  <2>2. ppid \in 0..MaxPid
    BY DEF Parents, TypeOK
  <2> QED BY <1>7, <2>1, <2>2 DEF Up, TypeOK, kernel
<1>8. CASE FailToOpen \/ UpReturn \/ DownReturn
  BY <1>8 DEF FailToOpen, UpReturn, DownReturn, TypeOK, kernel, query
<1>9. CASE Down
  <2>1. PICK p \in pool : /\ result' = result \cup (Children(p) \ result)
                          /\ pool' = (pool \ {p}) \cup (Children(p) \ result)
    BY <1>9 DEF Down
  <2>2. Children(p) \subseteq Pids
    BY DEF Children, TypeOK
  <2> QED BY <1>9, <2>1, <2>2 DEF Down, TypeOK, kernel
<1> QED BY <1>1, <1>2, <1>3, <1>4, <1>5, <1>6, <1>7, <1>8, <1>9 DEF Main

\* Every variable keeps its type, whatever the kernel does to the processes.
THEOREM TypeCorrect == Spec => []TypeOK
<1>1. TypeOK /\ UNCHANGED vars => TypeOK'
  BY DEF TypeOK, vars, kernel, query
<1>2. TypeOK /\ [Next]_vars => TypeOK'
  BY <1>1, TypeKernel, TypeMain DEF Next, Ended
<1> QED BY TypeInit, <1>2, PTL DEF Spec

-----------------------------------------------------------------------------
(***************************************************************************)
(* The kernel's steps.                                                     *)
(***************************************************************************)
\* Ancestors are alive.
LEMMA AncestorsAlive ==
  ASSUME TypeOK, KernelOK, NEW p \in Pids
  PROVE  AncestorsIn(parent, p) \subseteq alive \ zombies
<1> DEFINE S == (alive \ zombies) \cup {0}
<1>1. parent \in [Pids -> 0..MaxPid] /\ S \in SUBSET (0..MaxPid)
  BY Numbers DEF TypeOK
<1>2. \A q \in Pids : parent[q] \in S
  BY Numbers DEF TypeOK, KernelOK
<1>3. Upward(parent, S)
  BY <1>2 DEF Upward
<1>4. AncestorsIn(parent, p) \subseteq S
  <2> HIDE DEF S
  <2> QED BY <1>1, <1>2, <1>3, AncestorsLeast
<1>5. AncestorsIn(parent, p) \subseteq Pids
  BY <1>1, AncestorsClimb, Zenon
<1>6. 0 \notin Pids
  BY Numbers
<1> QED BY <1>4, <1>5, <1>6

\* The kernel gives no process an ancestor it did not have.
LEMMA AncestorsShrink ==
  ASSUME TypeOK, TypeOK', KernelOK, Kernel, NEW q \in alive
  PROVE  AncestorsIn(parent', q) \subseteq AncestorsIn(parent, q)
<1> DEFINE S == AncestorsIn(parent, q) \cup {0}
<1>1. /\ q \in Pids /\ parent \in [Pids -> 0..MaxPid] /\ parent' \in [Pids -> 0..MaxPid]
  BY DEF TypeOK
<1>2. /\ S \in SUBSET (0..MaxPid) /\ S \subseteq alive \cup {0}
      /\ \A r \in (S \cap Pids) \cup {q} : parent[r] \in S
  BY <1>1, AncestorsClimb, AncestorsAlive DEF Upward
<1>3. \A r \in (S \cap Pids) \cup {q} : parent'[r] \in S
  <2>1. CASE \E p, c \in Pids : Fork(p, c)
    <3>1. PICK c \in Pids \ alive, p \in Pids : parent' = [parent EXCEPT ![c] = p]
      BY <2>1 DEF Fork
    <3>2. \A r \in Pids \ {c} : parent'[r] = parent[r]
      BY <1>1, <3>1
    <3> QED BY <1>1, <1>2, <3>1, <3>2, Numbers
  <2>2. CASE \E p \in Pids : Die(p)
    <3>1. PICK p \in Pids : Die(p)
      BY <2>2
    <3>2. PICK reaper \in AncestorsIn(parent, p) :
            parent' = [r \in Pids |-> IF parent[r] = p THEN reaper ELSE parent[r]]
      BY <3>1 DEF Die
    <3>3. p \in S => reaper \in S
      BY <1>1, <3>2, AncestorsTransitive, Numbers
    <3> QED BY <1>1, <1>2, <3>2, <3>3
  <2>3. CASE \E p \in Pids : Reap(p)
    <3>1. PICK p \in Pids : parent' = [parent EXCEPT ![p] = 0]
      BY <2>3 DEF Reap
    <3>2. \A r \in Pids : parent'[r] = parent[r] \/ parent'[r] = 0
      BY <1>1, <3>1
    <3> QED BY <1>1, <1>2, <3>2
  <2> QED BY <2>1, <2>2, <2>3 DEF Kernel
<1>4. parent'[q] \in S /\ Upward(parent', S)
  BY <1>3 DEF Upward
<1>5. AncestorsIn(parent', q) \subseteq S
  <2> HIDE DEF S
  <2> QED BY <1>1, <1>2, <1>4, AncestorsLeast
<1> QED BY <1>1, <1>5, Numbers, AncestorsClimb

LEMMA KernelInv == Inv /\ Kernel => Inv'
<1> SUFFICES ASSUME Inv, Kernel PROVE Inv'
  OBVIOUS
<1> USE Numbers
<1>0. TypeOK /\ TypeOK' /\ KernelOK
  BY TypeKernel DEF Inv
<1>1. /\ pc \in {"open", "read"}
      /\ pc' = pc /\ cursor' = cursor /\ edges' = edges /\ lineage' = lineage
  BY DEF Kernel, Fork, Die, Reap, Happens
<1>2. KernelOK'
  <2>1. CASE \E p, c \in Pids : Fork(p, c)
    <3>1. PICK p \in Pids, c \in Pids : Fork(p, c)
      BY <2>1
    <3> QED BY <1>0, <3>1 DEF Fork, KernelOK, TypeOK
  <2>2. CASE \E p \in Pids : Die(p)
    <3>1. PICK p \in Pids : Die(p)
      BY <2>2
    <3>2. PICK reaper \in AncestorsIn(parent, p) \ zombies' :
            parent' = [q \in Pids |-> IF parent[q] = p THEN reaper ELSE parent[q]]
      BY <3>1 DEF Die
    <3>3. reaper \in alive \ zombies'
      BY <1>0, <3>2, AncestorsAlive
    <3> QED BY <1>0, <3>1, <3>2, <3>3 DEF Die, KernelOK, TypeOK
  <2>3. CASE \E p \in Pids : Reap(p)
    <3>1. PICK p \in Pids : Reap(p)
      BY <2>3
    <3> QED BY <1>0, <3>1 DEF Reap, KernelOK, TypeOK
  <2> QED BY <2>1, <2>2, <2>3 DEF Kernel
<1>3. \A p \in Pids : handle'[p] = "open" => handle[p] = "open" /\ p \in alive'
  <2>1. \A p \in Pids : handle[p] = "open" => p \in alive
    BY DEF Inv, Handles
  <2>2. CASE handle' = handle /\ alive \subseteq alive'
    BY <2>1, <2>2
  <2>3. CASE \E p \in Pids : Reap(p)
    <3>1. PICK p \in Pids : Reap(p)
      BY <2>3
    <3> QED BY <1>0, <2>1, <3>1 DEF Reap, TypeOK
  <2> QED BY <2>2, <2>3 DEF Kernel, Fork, Die
<1>4. Handles'
  BY <1>1, <1>3 DEF Inv, Handles
<1>5. Lineage'
  <2>1. \A p \in Pids : handle'[p] = "open" => AncestorsIn(parent', p) \subseteq AncestorsIn(parent, p)
    BY <1>0, <1>3, AncestorsShrink DEF Inv, Handles
  <2> QED BY <1>1, <1>3, <2>1 DEF Inv, Lineage
<1>6. \A p \in steady' : p \in steady /\ parent'[p] = parent[p] /\ handle'[p] = handle[p]
  <2>1. CASE \E p, c \in Pids : Fork(p, c)
    BY <1>0, <2>1 DEF Fork, TypeOK
  <2>2. CASE \E p \in Pids : Die(p)
    <3>1. PICK p \in Pids : Die(p)
      BY <2>2
    <3> QED BY <1>0, <3>1 DEF Die, TypeOK
  <2>3. CASE \E p \in Pids : Reap(p)
    <3>1. PICK p \in Pids : Reap(p)
      BY <2>3
    <3> QED BY <1>0, <3>1 DEF Reap, TypeOK
  <2> QED BY <2>1, <2>2, <2>3 DEF Kernel
<1>7. Steady'
  BY <1>1, <1>6 DEF Inv, Steady
<1>8. Climbing' /\ Descending'
  BY <1>1 DEF Climbing, Descending
<1> QED BY <1>0, <1>2, <1>4, <1>5, <1>7, <1>8 DEF Inv

-----------------------------------------------------------------------------
(***************************************************************************)
(* The steps of memstats.                                                  *)
(***************************************************************************)
LEMMA InitInv == Init => Inv
<1> SUFFICES ASSUME Init PROVE Inv
  OBVIOUS
<1> USE Numbers
<1>0. TypeOK
  BY TypeInit
<1>1. KernelOK
  BY DEF Init, IsTree, KernelOK
<1>2. Handles /\ Steady
  <2>1. \A p \in Pids : ~(p < 1)
    BY TreeAssumption DEF Pids
  <2> QED BY <1>0, <2>1 DEF Init, Handles, Steady, TypeOK
<1>3. Lineage /\ Climbing /\ Descending
  BY DEF Init, Lineage, Climbing, Descending
<1> QED BY <1>0, <1>1, <1>2, <1>3 DEF Inv

LEMMA OpenInv == Inv /\ (OpenNext \/ FailToOpen \/ StartTree) => Inv'
<1> SUFFICES ASSUME Inv, OpenNext \/ FailToOpen \/ StartTree PROVE Inv'
  OBVIOUS
<1> USE Numbers
<1>0. TypeOK /\ TypeOK' /\ KernelOK /\ KernelOK'
  BY TypeMain DEF Inv, Main, OpenNext, FailToOpen, StartTree, KernelOK, kernel
<1>1. CASE OpenNext
  <2>1. cursor \in Pids /\ cursor' = cursor + 1
    BY <1>0, <1>1 DEF OpenNext, TypeOK, Pids
  <2>2. /\ \A p \in Pids \ {cursor} : handle'[p] = handle[p]
        /\ handle'[cursor] = IF cursor \in alive THEN "open" ELSE handle[cursor]
    BY <1>0, <1>1, <2>1 DEF OpenNext, TypeOK
  <2>3. \A p \in Pids : p < cursor' => p < cursor \/ p = cursor
    BY <2>1, TreeAssumption DEF Pids
  <2>4. Handles' /\ Lineage'
    BY <1>1, <2>1, <2>2 DEF OpenNext, Inv, Handles, Lineage, kernel
  <2>5. Steady'
    BY <1>0, <1>1, <2>1, <2>2, <2>3 DEF OpenNext, Inv, Steady, Handles, TypeOK, kernel
  <2> QED BY <1>0, <1>1, <2>4, <2>5 DEF OpenNext, Inv, Climbing, Descending
<1>2. CASE StartTree
  <2>1. \A p \in Pids : p < cursor /\ ~(p < 1)
    BY <1>0, <1>2, TreeAssumption DEF StartTree, TypeOK, Pids
  <2>2. edges = {}
    BY <1>2 DEF StartTree, Inv, Handles
  <2>3. Lineage'
    BY <1>0, <1>2, <2>2, AncestorsTransitive, AncestorsClimb DEF StartTree, Lineage, TypeOK, kernel
  <2>4. Handles' /\ Steady'
    BY <1>0, <1>2, <2>1, <2>2 DEF StartTree, Inv, Handles, Steady, TypeOK, kernel
  <2> QED BY <1>0, <1>2, <2>3, <2>4 DEF StartTree, Inv, Climbing, Descending
<1>3. CASE FailToOpen
  <2>1. Handles' /\ Lineage' /\ Steady'
    BY <1>3 DEF FailToOpen, Inv, Handles, Lineage, Steady, kernel
  <2> QED BY <1>0, <1>3, <2>1 DEF FailToOpen, Inv, Climbing, Descending
<1> QED BY <1>1, <1>2, <1>3

LEMMA ReadInv == Inv /\ (ReadStatus \/ FinishTree) => Inv'
<1> SUFFICES ASSUME Inv, ReadStatus \/ FinishTree PROVE Inv'
  OBVIOUS
<1> USE Numbers
<1>0. TypeOK /\ TypeOK' /\ KernelOK /\ KernelOK'
  BY TypeMain DEF Inv, Main, ReadStatus, FinishTree, KernelOK, kernel
<1>1. CASE ReadStatus
  <2>1. cursor \in Pids /\ cursor' = cursor + 1
    BY <1>0, <1>1 DEF ReadStatus, TypeOK, Pids
  <2>2. \A p \in Pids : p < cursor' => p < cursor \/ p = cursor
    BY <2>1, TreeAssumption DEF Pids
  <2>3. \A e \in edges' \ edges : handle[cursor] = "open" /\ e = <<parent[cursor], cursor>>
    BY <1>1 DEF ReadStatus
  <2>4. handle[cursor] = "open" => parent[cursor] \in lineage[cursor] \cup {0}
    BY <1>0, <1>1, <2>1, AncestorsClimb DEF ReadStatus, Inv, Lineage, TypeOK
  <2>5. Handles' /\ Lineage'
    BY <1>1, <2>3, <2>4 DEF ReadStatus, Inv, Handles, Lineage, kernel
  <2>6. edges \subseteq edges' /\ (handle[cursor] = "open" => <<parent[cursor], cursor>> \in edges')
    BY <1>1 DEF ReadStatus
  <2>7. Steady'
    BY <1>0, <1>1, <2>1, <2>2, <2>3, <2>6 DEF ReadStatus, Inv, Steady, TypeOK, kernel
  <2> QED BY <1>0, <1>1, <2>5, <2>7 DEF ReadStatus, Inv, Climbing, Descending
<1>2. CASE FinishTree
  <2>1. \A p \in Pids : p < cursor
    BY <1>0, <1>2, TreeAssumption DEF FinishTree, TypeOK, Pids
  <2>2. Handles' /\ Lineage' /\ Steady'
    BY <1>0, <1>2, <2>1 DEF FinishTree, Inv, Handles, Lineage, Steady, TypeOK, kernel
  <2> QED BY <1>0, <1>2, <2>2 DEF FinishTree, Inv, Climbing, Descending
<1> QED BY <1>1, <1>2

\* Queries read the tree and the kernel does not move: only the query's own
\* invariant is at stake.
LEMMA QueryFrame ==
  Inv /\ Main /\ UNCHANGED <<kernel, cursor, handle, edges, lineage>>
      /\ pc' \notin {"open", "read", "exit"}
      /\ pc \notin {"open", "read", "exit"}
    => TypeOK' /\ KernelOK' /\ Handles' /\ Lineage' /\ Steady' /\ SteadyParent' = SteadyParent
<1> SUFFICES ASSUME Inv, Main, UNCHANGED <<kernel, cursor, handle, edges, lineage>>,
                    pc' \notin {"open", "read", "exit"}, pc \notin {"open", "read", "exit"}
             PROVE  TypeOK' /\ KernelOK' /\ Handles' /\ Lineage' /\ Steady' /\ SteadyParent' = SteadyParent
  OBVIOUS
<1>1. TypeOK'
  BY TypeMain DEF Inv
<1>2. KernelOK' /\ Handles' /\ Lineage' /\ Steady' /\ SteadyParent' = SteadyParent
  BY DEF Inv, KernelOK, Handles, Lineage, Steady, SteadyParent, kernel
<1> QED BY <1>1, <1>2

LEMMA SteadyType == TypeOK => SteadyParent \in [Pids -> 0..MaxPid]
BY Numbers DEF TypeOK, SteadyParent

LEMMA ChooseInv ==
  ASSUME NEW p \in Pids, Inv, Ancestors(p) \/ Descendants(p)
  PROVE  Inv'
<1> USE Numbers
<1>1. Main
  BY DEF Main
<1>2. /\ TypeOK' /\ KernelOK' /\ Handles' /\ Lineage' /\ Steady'
      /\ SteadyParent' = SteadyParent
  BY <1>1, QueryFrame DEF Ancestors, Descendants
<1>3. CASE Ancestors(p)
  <2>1. Climbing'
    BY <1>2, <1>3 DEF Ancestors, Climbing
  <2> QED BY <1>2, <1>3, <2>1 DEF Ancestors, Inv, Descending
<1>4. CASE Descendants(p)
  <2>1. Descending'
    BY <1>4 DEF Descendants, Descending
  <2> QED BY <1>2, <1>4, <2>1 DEF Descendants, Inv, Climbing
<1> QED BY <1>3, <1>4

\* The steady ancestors of the current process are its recorded parent and
\* the steady ancestors of that parent.
LEMMA SteadyStep ==
  ASSUME TypeOK, Steady, pc \notin {"open", "read", "exit"}, current \in Pids
  PROVE  /\ Parents(current) = {} => AncestorsIn(SteadyParent, current) = {}
         /\ \A ppid \in Parents(current) : \A r \in AncestorsIn(SteadyParent, current) :
              ppid \in Pids /\ (r = ppid \/ r \in AncestorsIn(SteadyParent, ppid))
<1> USE Numbers
<1>1. SteadyParent \in [Pids -> 0..MaxPid]
  BY SteadyType
<1>2. CASE current \notin steady
  <2>1. SteadyParent[current] = 0
    BY <1>2 DEF SteadyParent
  <2> QED BY <1>1, <2>1, AncestorsStep
<1>3. CASE current \in steady
  <2>1. SteadyParent[current] = parent[current]
    BY <1>3 DEF SteadyParent
  <2>2. <<parent[current], current>> \in edges
    BY <1>3 DEF Steady, TypeOK
  <2>3. Parents(current) = {parent[current]}
    BY <1>3, <2>2 DEF Steady, Parents
  <2> QED BY <1>1, <2>1, <2>3, AncestorsStep
<1> QED BY <1>2, <1>3

LEMMA UpInv == Inv /\ (Up \/ UpReturn) => Inv'
<1> SUFFICES ASSUME Inv, Up \/ UpReturn PROVE Inv'
  OBVIOUS
<1> USE Numbers
<1>1. Main
  BY DEF Main
<1>2. /\ TypeOK' /\ KernelOK' /\ Handles' /\ Lineage' /\ Steady'
      /\ SteadyParent' = SteadyParent
  BY <1>1, QueryFrame DEF Up, UpReturn
<1>3. CASE Up
  <2>1. PICK ppid \in Parents(current) : result' = result \cup {ppid} /\ current' = ppid
    BY <1>3 DEF Up
  <2>2. <<ppid, current>> \in edges
    BY <2>1 DEF Parents, Inv, TypeOK
  <2>3. current \in Pids /\ pid \in Pids /\ ppid \in lineage[current] \cup {0}
    BY <1>3, <2>2 DEF Up, Inv, TypeOK, Lineage, Climbing
  <2>4. ppid \in lineage[pid] \cup {0}
    BY <1>3, <2>3 DEF Up, Inv, Lineage, Climbing
  <2>5. \A r \in AncestorsIn(SteadyParent, pid) :
          r \in result' \/ (ppid \in Pids /\ r \in AncestorsIn(SteadyParent, ppid))
    BY <1>3, <2>1, <2>3, SteadyStep DEF Up, Inv, Climbing
  <2>6. Climbing'
    <3>1. pid' = pid /\ lineage' = lineage
      BY <1>3 DEF Up
    <3>2. AncestorsIn(SteadyParent, pid)' = AncestorsIn(SteadyParent, pid)
      BY <1>2, <3>1 DEF AncestorsIn, Upward
    <3>3. AncestorsIn(SteadyParent, current)' = AncestorsIn(SteadyParent, ppid)
      BY <1>2, <2>1 DEF AncestorsIn, Upward
    <3> QED BY <1>3, <2>1, <2>3, <2>4, <2>5, <3>1, <3>2, <3>3 DEF Up, Inv, Climbing
  <2> QED BY <1>2, <1>3, <2>6 DEF Up, Inv, Descending
<1>4. CASE UpReturn
  BY <1>2, <1>4 DEF UpReturn, Inv, Climbing, Descending
<1> QED BY <1>3, <1>4

LEMMA DownInv == Inv /\ (Down \/ DownReturn) => Inv'
<1> SUFFICES ASSUME Inv, Down \/ DownReturn PROVE Inv'
  OBVIOUS
<1> USE Numbers
<1>1. Main
  BY DEF Main
<1>2. /\ TypeOK' /\ KernelOK' /\ Handles' /\ Lineage' /\ Steady'
  BY <1>1, QueryFrame DEF Down, DownReturn
<1>3. CASE Down
  <2>1. PICK p \in pool : /\ result' = result \cup Children(p)
                          /\ pool' = (pool \ {p}) \cup (Children(p) \ result)
    BY <1>3 DEF Down
  <2>2. \A q : q \in Children(p) <=> <<p, q>> \in edges
    BY DEF Children, Inv, TypeOK
  <2>3. \A q \in Children(p) : q \in Pids /\ p \in lineage[q]
    <3> SUFFICES ASSUME NEW q, <<p, q>> \in edges PROVE q \in Pids /\ p \in lineage[q]
      BY <2>2
    <3>1. q \in Pids /\ p \in Pids
      BY <2>1 DEF Inv, TypeOK
    <3>2. <<p, q>>[1] \in lineage[<<p, q>>[2]] \cup {0}
      BY DEF Inv, Lineage
    <3> QED BY <3>1, <3>2
  <2>4. pid \in Pids /\ p \in result \cup {pid}
    BY <1>3, <2>1 DEF Down, Inv, Descending
  <2>5. \A q \in result' : pid \in lineage[q]
    BY <1>3, <2>1, <2>3, <2>4 DEF Down, Inv, Descending, Lineage
  <2>6. \A e \in edges : e[1] \in (result' \cup {pid}) \ pool' => e[2] \in result'
    <3> SUFFICES ASSUME NEW e \in edges, e[1] \in (result' \cup {pid}) \ pool'
                 PROVE  e[2] \in result'
      OBVIOUS
    <3>1. e = <<e[1], e[2]>>
      BY DEF Inv, TypeOK
    <3>2. CASE e[1] = p
      BY <2>1, <2>2, <3>1, <3>2
    <3>3. CASE e[1] # p
      BY <1>3, <2>1, <3>3 DEF Down, Inv, Descending
    <3> QED BY <3>2, <3>3
  <2>7. \A set \in SUBSET Pids : Closed(set) => result' \subseteq set
    <3> SUFFICES ASSUME NEW set \in SUBSET Pids, Closed(set) PROVE result' \subseteq set
      OBVIOUS
    <3>1. result \subseteq set
      BY <1>3 DEF Down, Inv, Descending
    <3>2. Children(p) \subseteq set
      <4> SUFFICES ASSUME NEW q, <<p, q>> \in edges PROVE q \in set
        BY <2>2
      <4>1. <<p, q>>[1] \in set \cup {pid} => <<p, q>>[2] \in set
        BY DEF Closed
      <4> QED BY <2>4, <3>1, <4>1
    <3> QED BY <2>1, <3>1, <3>2
  <2>8. Descending'
    <3>1. pid' = pid /\ lineage' = lineage /\ edges' = edges
      BY <1>3 DEF Down
    <3>2. \A set : Closed(set)' <=> Closed(set)
      BY <3>1 DEF Closed
    <3> QED BY <1>3, <2>1, <2>3, <2>4, <2>5, <2>6, <2>7, <3>1, <3>2 DEF Down, Inv, Descending, Closed
  <2> QED BY <1>2, <1>3, <2>8 DEF Down, Inv, Climbing
<1>4. CASE DownReturn
  BY <1>2, <1>4 DEF DownReturn, Inv, Climbing, Descending
<1> QED BY <1>3, <1>4

LEMMA NextInv == Inv /\ [Next]_vars => Inv'
<1> SUFFICES ASSUME Inv, [Next]_vars PROVE Inv'
  OBVIOUS
<1>1. CASE Kernel
  BY <1>1, KernelInv
<1>2. CASE Main
  BY <1>2, OpenInv, ReadInv, ChooseInv, UpInv, DownInv DEF Main
<1>3. CASE UNCHANGED vars
  <2> USE <1>3 DEF vars, kernel, query
  <2>1. TypeOK' /\ KernelOK' /\ Handles'
    BY DEF Inv, TypeOK, KernelOK, Handles
  <2>2. Lineage' /\ Steady'
    BY DEF Inv, Lineage, Steady, AncestorsIn, Upward
  <2>3. Climbing'
    <3>1. \A p : AncestorsIn(SteadyParent, p)' = AncestorsIn(SteadyParent, p)
      BY DEF AncestorsIn, Upward, SteadyParent
    <3> QED BY <3>1 DEF Inv, Climbing, AncestorsIn, Upward, SteadyParent
  <2>4. Descending'
    BY DEF Inv, Descending, Closed
  <2> QED BY <2>1, <2>2, <2>3, <2>4 DEF Inv
<1> QED BY <1>1, <1>2, <1>3 DEF Next, Ended

LEMMA InvHolds == Spec => []Inv
BY InitInv, NextInv, PTL DEF Spec

-----------------------------------------------------------------------------
\* Every kinship that ancestors and descendants report held in the kernel, at
\* the one moment between the last directory opened and the first parent read.
THEOREM KinshipIsReal == Spec => []AncestryReal
<1>1. Inv => AncestryReal
  BY DEF Inv, AncestryReal, Climbing, Descending
<1> QED BY <1>1, InvHolds, PTL

\* What kept its place in the kernel's tree is found in the tree of memstats.
THEOREM SteadyIsReported == Spec => []SteadyReported
<1>1. ASSUME Inv, pc = "down", pool = {}, NEW q \in Pids, pid \in AncestorsIn(SteadyParent, q)
      PROVE  q \in result
  <2> SUFFICES ASSUME q \notin result PROVE FALSE
    OBVIOUS
  <2> USE Numbers
  <2> DEFINE S == (0..MaxPid) \ (result \cup {pid})
  <2>1. SteadyParent \in [Pids -> 0..MaxPid] /\ pid \in Pids /\ result \subseteq Pids
    BY <1>1, SteadyType DEF Inv, Descending
  <2>2. \A r \in Pids : r \notin result => SteadyParent[r] \in S
    <3> SUFFICES ASSUME NEW r \in Pids, r \notin result, r \in steady PROVE SteadyParent[r] \in S
      BY <2>1 DEF SteadyParent
    <3>1. <<parent[r], r>> \in edges /\ SteadyParent[r] = parent[r]
      BY <1>1 DEF Inv, Steady, SteadyParent
    <3>2. parent[r] \notin result \cup {pid}
      BY <1>1, <3>1 DEF Inv, Descending
    <3> QED BY <2>1, <3>1, <3>2
  <2>3. Upward(SteadyParent, S) /\ SteadyParent[q] \in S /\ S \in SUBSET (0..MaxPid)
    BY <2>2 DEF Upward
  <2>4. AncestorsIn(SteadyParent, q) \subseteq S
    <3> HIDE DEF S
    <3> QED BY <2>1, <2>3, AncestorsLeast
  <2> QED BY <1>1, <2>4
<1>2. ASSUME Inv, pc = "up", current = 1 \/ Parents(current) = {}
      PROVE  AncestorsIn(SteadyParent, pid) \subseteq result
  <2>1. current \in Pids => AncestorsIn(SteadyParent, current) = {}
    <3>1. SteadyParent[1] = 0 /\ 1 \in Pids
      BY <1>2, Numbers DEF Inv, KernelOK, SteadyParent
    <3> QED BY <1>2, <3>1, SteadyStep, SteadyType, AncestorsStep DEF Inv
  <2> QED BY <1>2, <2>1 DEF Inv, Climbing
<1>3. Inv => SteadyReported
  BY <1>1, <1>2 DEF SteadyReported
<1> QED BY <1>3, InvHolds, PTL

\* descendants computes exactly the least set closed under edges.
THEOREM DescendantsAreExact == Spec => []DescendantsExact
<1>1. Inv => DescendantsExact
  BY DEF Inv, DescendantsExact, Descending, Closed
<1> QED BY <1>1, InvHolds, PTL
=============================================================================
