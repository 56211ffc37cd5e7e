-------------------------- MODULE ScanPool_proofs --------------------------
(***************************************************************************)
(* Theorems about the parallel scan, for every number of threads and of    *)
(* processes, every memory limit and every limit on open files.            *)
(***************************************************************************)
EXTENDS ScanPool, FiniteSetTheorems, TLAPS

\* No two workers hold the same process: what makes TypeOK inductive.
Exclusive == \A v, w \in Workers :
               v # w /\ stage[v] # "idle" /\ stage[w] # "idle" => task[v] # task[w]

\* The part of TypeOK that says which worker holds which process
TasksOK == /\ stage \in [Workers -> Stages]
           /\ task \in [Workers -> Pids \cup {NoPid}]
           /\ outcome \in [Pids -> Outcomes]
           /\ \A w \in Workers : stage[w] # "idle" =>
                task[w] \in Pids /\ outcome[task[w]] = "taken"
           /\ Exclusive

\* A worker that goes on keeps its process.
LEMMA GoToTasks ==
  ASSUME NEW w \in Workers, NEW s \in Stages, TasksOK, stage[w] # "idle", GoTo(w, s)
  PROVE  TasksOK'
BY DEF TasksOK, Exclusive, GoTo

\* A worker whose closure returns gives up its process, and nobody else's.
LEMMA ReturnTasks ==
  ASSUME NEW w \in Workers, NEW o \in Outcomes, TasksOK, stage[w] # "idle", Return(w, o)
  PROVE  TasksOK'
BY PoolAssumption DEF TasksOK, Exclusive, Return, Stages

\* A worker takes a process nobody holds.
LEMMA TakeTasks ==
  ASSUME NEW w \in Workers, TasksOK, Take(w)
  PROVE  TasksOK'
<1>1. PICK p \in Queued : /\ task' = [task EXCEPT ![w] = p]
                          /\ outcome' = [outcome EXCEPT ![p] = "taken"]
  BY DEF Take
<1>2. p \in Pids /\ outcome[p] = "queued"
  BY <1>1 DEF Queued
<1>3. stage' = [stage EXCEPT ![w] = "rss"]
  BY DEF Take
<1>4. \A v \in Workers : stage[v] # "idle" => task[v] # p
  BY <1>2 DEF TasksOK
<1> QED
  BY <1>1, <1>2, <1>3, <1>4 DEF TasksOK, Exclusive, Stages, Outcomes

-----------------------------------------------------------------------------

IndType == TypeOK /\ Exclusive

\* The remaining part of TypeOK
ScalarsOK == /\ main \in {"scan", "collected", "done", "unwrap", "vmpte"}
             /\ rss \in Nat
             /\ guard \in Workers \cup {NoWorker}
             /\ hit \in BOOLEAN
             /\ warnings \in Nat
             /\ vanished \in Nat
             /\ life \in [Pids -> {"alive", "zombie", "gone"}]
             /\ nofile \in FdLimits

LEMMA IndTypeSplit == IndType <=> TasksOK /\ ScalarsOK
BY DEF IndType, TypeOK, TasksOK, ScalarsOK

LEMMA TypeInit == Init => IndType
<1> SUFFICES ASSUME Init PROVE TasksOK /\ ScalarsOK
  BY IndTypeSplit
<1>1. TasksOK
  BY DEF Init, TasksOK, Exclusive, Stages, Outcomes
<1>2. hit \in BOOLEAN /\ guard \in Workers \cup {NoWorker}
  BY DEF Init
<1>3. ScalarsOK
  BY <1>2, PoolAssumption DEF Init, ScalarsOK
<1> QED BY <1>1, <1>3

\* Every step preserves which worker holds what.
LEMMA TasksStep == TasksOK /\ ScalarsOK /\ [Next]_vars => TasksOK'
<1> SUFFICES ASSUME TasksOK, ScalarsOK, [Next]_vars PROVE TasksOK'
  OBVIOUS
<1> USE DEF Stages, Outcomes
<1>1. ASSUME NEW w \in Workers, Worker(w) PROVE TasksOK'
  <2>1. CASE Take(w)
    BY <2>1, TakeTasks
  <2>2. CASE ReadRss(w)
    <3>1. stage[w] # "idle"
      BY <2>2 DEF ReadRss, At
    <3>2. \/ GoTo(w, "lock") \/ GoTo(w, "cmdline")
          \/ Return(w, "self") \/ UNCHANGED <<stage, task, outcome>>
      BY <2>2 DEF ReadRss, Panic
    <3> QED BY <3>1, <3>2, GoToTasks, ReturnTasks DEF TasksOK, Exclusive
  <2>3. CASE LockHit(w)
    BY <2>3, GoToTasks DEF LockHit, At
  <2>4. CASE TestHit(w)
    BY <2>4, GoToTasks, ReturnTasks DEF TestHit, At
  <2>5. CASE SetHit(w)
    BY <2>5, ReturnTasks DEF SetHit, At
  <2>6. CASE Scan(w)
    <3>1. stage[w] # "idle"
      BY <2>6 DEF Scan, ReadCmdline, ReadStatus, OpenPagemap, Walk, ReadEnviron, At
    <3>2. \/ \E s \in Stages : GoTo(w, s)
          \/ \E o \in Outcomes : Return(w, o)
          \/ UNCHANGED <<stage, task, outcome>>
      BY <2>6 DEF Scan, ReadCmdline, ReadStatus, OpenPagemap, Walk, ReadEnviron, Panic
    <3> QED BY <3>1, <3>2, GoToTasks, ReturnTasks DEF TasksOK, Exclusive
  <2> QED BY <1>1, <2>1, <2>2, <2>3, <2>4, <2>5, <2>6 DEF Worker
<1>2. ASSUME UNCHANGED <<stage, task, outcome>> PROVE TasksOK'
  BY <1>2 DEF TasksOK, Exclusive
<1> QED BY <1>1, <1>2 DEF Next, Collect, Finalize, Exit, vars

\* Every step preserves the types of the other variables.
LEMMA ScalarsStep == TasksOK /\ ScalarsOK /\ [Next]_vars => ScalarsOK'
<1> SUFFICES ASSUME TasksOK, ScalarsOK, [Next]_vars PROVE ScalarsOK'
  OBVIOUS
<1> USE PoolAssumption DEF ScalarsOK
<1>1. ASSUME NEW w \in Workers, Worker(w) PROVE ScalarsOK'
  <2>1. CASE Take(w) \/ LockHit(w)
    BY <2>1 DEF Take, LockHit
  <2>6. CASE TestHit(w)
    BY <2>6 DEF TestHit
  <2>7. CASE SetHit(w)
    <3>1. hit' \in BOOLEAN
      BY <2>7 DEF SetHit
    <3> QED BY <2>7, <3>1 DEF SetHit
  <2>2. CASE ReadRss(w)
    BY <2>2 DEF ReadRss, Panic
  <2>3. CASE ReadCmdline(w) \/ ReadStatus(w) \/ OpenPagemap(w)
    BY <2>3 DEF ReadCmdline, ReadStatus, OpenPagemap, Panic
  <2>4. CASE Walk(w)
    BY <2>4 DEF Walk
  <2>5. CASE ReadEnviron(w)
    <3>1. rss' \in Nat
      BY <2>5 DEF ReadEnviron
    <3> QED BY <2>5, <3>1 DEF ReadEnviron
  <2> QED BY <1>1, <2>1, <2>2, <2>3, <2>4, <2>5, <2>6, <2>7 DEF Worker, Scan
<1>2. ASSUME Collect PROVE ScalarsOK'
  <2>1. Results \subseteq Pids
    BY DEF Results
  <2>2. vanished' \in Nat
    BY <1>2, <2>1, FS_Subset, FS_CardinalityType DEF Collect
  <2> QED BY <1>2, <2>2 DEF Collect
<1>3. ASSUME NEW p \in Pids, Exit(p) PROVE ScalarsOK'
  BY <1>3 DEF Exit
<1>4. ASSUME Finalize PROVE ScalarsOK'
  BY <1>4 DEF Finalize
<1> QED BY <1>1, <1>2, <1>3, <1>4 DEF Next, vars

\* The types are right in every reachable state, and no process is in the
\* hands of two workers.
THEOREM TypeCorrect == Spec => []IndType
<1>1. Init => IndType
  BY TypeInit
<1>2. IndType /\ [Next]_vars => IndType'
  BY IndTypeSplit, TasksStep, ScalarsStep DEF IndType, TypeOK, TasksOK, ScalarsOK, Exclusive
<1> QED BY <1>1, <1>2, PTL DEF Spec

THEOREM TypeInvariant == Spec => []TypeOK
BY TypeCorrect, PTL DEF IndType

-----------------------------------------------------------------------------

\* What memstats uses, and what the workers that passed the test may still
\* allocate, together stay within the bound.
Budget == rss + MaxCost * Cardinality(Passed) <= Cap + MaxCost * Cardinality(Workers)

LEMMA CapType == Cap \in Nat /\ BaseRss <= Cap /\ MemLimit <= Cap
BY PoolAssumption DEF Cap

LEMMA PassedType ==
  /\ IsFiniteSet(Passed) /\ IsFiniteSet(Workers)
  /\ Cardinality(Passed) \in Nat /\ Cardinality(Workers) \in Nat
  /\ Cardinality(Passed) <= Cardinality(Workers)
<1>1. Passed \in SUBSET Workers
  BY DEF Passed
<1> QED BY <1>1, PoolAssumption, FS_Subset, FS_CardinalityType

\* Multiplying by a number of units preserves the order.
LEMMA Scale ==
  ASSUME NEW k \in Nat, NEW a \in Nat, NEW b \in Nat, a <= b
  PROVE  k * a \in Nat /\ k * b \in Nat /\ k * a <= k * b
<1>1. PICK d \in Nat : b = a + d
  BY b - a \in Nat /\ b = a + (b - a)
<1>2. k * b = k * a + k * d
  BY <1>1
<1>3. k * a \in Nat /\ k * d \in Nat
  OBVIOUS
<1> QED BY <1>2, <1>3

LEMMA BudgetInit == Init => Budget
<1> SUFFICES ASSUME Init PROVE Budget
  OBVIOUS
<1>1. rss = BaseRss
  BY DEF Init
<1>2. rss <= Cap /\ rss \in Nat /\ Cap \in Nat
  BY <1>1, CapType, PoolAssumption
<1>3. /\ MaxCost * Cardinality(Passed) <= MaxCost * Cardinality(Workers)
      /\ MaxCost * Cardinality(Passed) \in Nat
      /\ MaxCost * Cardinality(Workers) \in Nat
  BY PassedType, Scale, PoolAssumption
<1> QED BY <1>2, <1>3 DEF Budget

\* The steps that do not let a worker pass the test: the number of workers
\* that passed does not grow, nor does the memory in use.
LEMMA BudgetShrinks ==
  ASSUME IndType, IndType', Budget, rss' <= rss, Passed' \subseteq Passed
  PROVE  Budget'
<1>1. Cardinality(Passed') \in Nat /\ Cardinality(Passed') <= Cardinality(Passed)
  BY PassedType, FS_Subset, FS_CardinalityType
<1>2. /\ MaxCost * Cardinality(Passed') <= MaxCost * Cardinality(Passed)
      /\ MaxCost * Cardinality(Passed') \in Nat
      /\ MaxCost * Cardinality(Passed) \in Nat
  BY <1>1, PassedType, Scale, PoolAssumption
<1>3. rss \in Nat /\ rss' \in Nat
  BY DEF IndType, TypeOK
<1>4. Cap + MaxCost * Cardinality(Workers) \in Nat
  BY CapType, PassedType, Scale, PoolAssumption
<1> QED BY <1>2, <1>3, <1>4 DEF Budget

\* The test itself: whoever passes it saw rss <= MemLimit.
LEMMA BudgetTest ==
  ASSUME IndType, IndType', rss' = rss, rss <= MemLimit
  PROVE  Budget'
<1>1. Passed' \in SUBSET Workers
  BY DEF Passed
<1>2. Cardinality(Passed') \in Nat /\ Cardinality(Passed') <= Cardinality(Workers)
  BY <1>1, PoolAssumption, FS_Subset, FS_CardinalityType
<1>3. /\ MaxCost * Cardinality(Passed') <= MaxCost * Cardinality(Workers)
      /\ MaxCost * Cardinality(Passed') \in Nat
      /\ MaxCost * Cardinality(Workers) \in Nat
  BY <1>2, PassedType, Scale, PoolAssumption
<1>4. rss \in Nat /\ rss' = rss /\ rss <= Cap /\ Cap \in Nat
  BY CapType, PoolAssumption DEF IndType, TypeOK
<1> QED BY <1>3, <1>4 DEF Budget

\* The walk of the pages: a worker trades its right to allocate for memory.
LEMMA BudgetWalk ==
  ASSUME IndType, IndType', Budget, NEW w \in Passed,
         rss' <= rss + MaxCost, Passed' = Passed \ {w}
  PROVE  Budget'
<1>1. Cardinality(Passed) = Cardinality(Passed') + 1 /\ Cardinality(Passed') \in Nat
  <2>1. IsFiniteSet(Passed \ {w}) /\ Cardinality(Passed \ {w}) = Cardinality(Passed) - 1
    BY PassedType, FS_RemoveElement
  <2>2. Cardinality(Passed \ {w}) \in Nat
    BY <2>1, FS_CardinalityType
  <2>3. Cardinality(Passed') = Cardinality(Passed) - 1 /\ Cardinality(Passed') \in Nat
    BY <2>1, <2>2
  <2> QED BY <2>3, PassedType
<1>2. MaxCost * Cardinality(Passed) = MaxCost * Cardinality(Passed') + MaxCost
  BY <1>1, PoolAssumption
<1>3. /\ MaxCost * Cardinality(Passed') \in Nat
      /\ Cap + MaxCost * Cardinality(Workers) \in Nat
      /\ rss \in Nat /\ rss' \in Nat /\ MaxCost \in Nat
  BY <1>1, CapType, PassedType, Scale, PoolAssumption DEF IndType, TypeOK
<1> QED BY <1>2, <1>3 DEF Budget

LEMMA BudgetStep == IndType /\ IndType' /\ Budget /\ [Next]_vars => Budget'
<1> SUFFICES ASSUME IndType, IndType', Budget, [Next]_vars PROVE Budget'
  OBVIOUS
<1>0. stage \in [Workers -> Stages] /\ rss \in Nat
  BY DEF IndType, TypeOK
<1>1. ASSUME NEW w \in Workers, Worker(w) PROVE Budget'
  <2>1. CASE Take(w) \/ LockHit(w) \/ TestHit(w) \/ SetHit(w)
    <3>1. rss' = rss
      BY <2>1 DEF Take, LockHit, TestHit, SetHit
    <3>2. Passed' \subseteq Passed
      BY <2>1, <1>0 DEF Take, LockHit, TestHit, SetHit, Passed, GoTo, Return, At
    <3> QED BY <3>1, <3>2, <1>0, BudgetShrinks
  <2>2. CASE ReadRss(w)
    <3>1. rss' = rss
      BY <2>2 DEF ReadRss
    <3>2. rss <= MemLimit \/ Passed' \subseteq Passed
      BY <2>2, <1>0 DEF ReadRss, Passed, GoTo, Return, Panic, At
    <3> QED BY <3>1, <3>2, <1>0, BudgetShrinks, BudgetTest
  <2>3. CASE ReadCmdline(w) \/ ReadStatus(w) \/ OpenPagemap(w)
    <3>1. rss' = rss
      BY <2>3 DEF ReadCmdline, ReadStatus, OpenPagemap
    <3>2. Passed' \subseteq Passed
      BY <2>3, <1>0 DEF ReadCmdline, ReadStatus, OpenPagemap, Passed, GoTo, Return, Panic, At
    <3> QED BY <3>1, <3>2, <1>0, BudgetShrinks
  <2>4. CASE Walk(w)
    <3>1. w \in Passed /\ Passed' = Passed \ {w}
      BY <2>4, <1>0 DEF Walk, Passed, GoTo, Return, At
    <3>2. rss' <= rss + MaxCost
      BY <2>4, <1>0, PoolAssumption DEF Walk
    <3> QED BY <3>1, <3>2, BudgetWalk
  <2>5. CASE ReadEnviron(w)
    <3>1. Passed' \subseteq Passed
      BY <2>5, <1>0 DEF ReadEnviron, Passed, Return, At
    <3>2. rss' <= rss
      BY <2>5, <1>0, PoolAssumption DEF ReadEnviron
    <3> QED BY <3>1, <3>2, BudgetShrinks
  <2> QED BY <1>1, <2>1, <2>2, <2>3, <2>4, <2>5 DEF Worker, Scan
<1>2. ASSUME UNCHANGED <<stage, rss>> PROVE Budget'
  BY <1>2 DEF Budget, Passed, Cap
<1> QED BY <1>1, <1>2 DEF Next, Collect, Finalize, Exit, vars

\* memstats exceeds its memory limit by at most one ProcessInfo per thread,
\* however many processes there are to scan.
THEOREM Overshoot == Spec => []OvershootBound
<1>1. Init => Budget
  BY BudgetInit
<1>2. IndType /\ IndType' /\ Budget /\ [Next]_vars => Budget'
  BY BudgetStep
<1>3. IndType /\ Budget => OvershootBound
  <2> SUFFICES ASSUME IndType, Budget PROVE OvershootBound
    OBVIOUS
  <2>1. /\ MaxCost * Cardinality(Passed) \in Nat
        /\ MaxCost * Cardinality(Workers) \in Nat
    BY PassedType, Scale, PoolAssumption
  <2>2. rss \in Nat /\ Cap \in Nat
    BY CapType DEF IndType, TypeOK
  <2> QED BY <2>1, <2>2 DEF Budget, OvershootBound
<1> QED BY <1>1, <1>2, <1>3, TypeCorrect, PTL DEF Spec

-----------------------------------------------------------------------------

\* With enough descriptors, no open can fail.
LEMMA EnoughRoom ==
  ASSUME IndType, EnoughFds, NEW w \in Workers, w \in Reading
  PROVE  ~OpenFails(w)
<1>1. HeldDirs \in SUBSET Pids /\ HeldPagemaps \in SUBSET Workers
  BY DEF HeldDirs, HeldPagemaps
<1>2. Reading \ {w} \in SUBSET (Workers \ {w})
  BY DEF Reading
<1>3. /\ IsFiniteSet(Workers \ {w})
      /\ Cardinality(Workers \ {w}) = Cardinality(Workers) - 1
  BY PoolAssumption, FS_RemoveElement
<1>4. /\ Cardinality(HeldDirs) <= Cardinality(Pids)
      /\ Cardinality(HeldDirs) \in Nat /\ Cardinality(Pids) \in Nat
  BY <1>1, PoolAssumption, FS_Subset, FS_CardinalityType
<1>5. /\ Cardinality(HeldPagemaps) <= Cardinality(Workers)
      /\ Cardinality(HeldPagemaps) \in Nat /\ Cardinality(Workers) \in Nat
  BY <1>1, PoolAssumption, FS_Subset, FS_CardinalityType
<1>6. /\ Cardinality(Reading \ {w}) <= Cardinality(Workers) - 1
      /\ Cardinality(Reading \ {w}) \in Nat
  BY <1>2, <1>3, FS_Subset, FS_CardinalityType
<1>7. BaseFds \in Nat /\ nofile \in Nat
  BY PoolAssumption DEF IndType, TypeOK
<1> QED BY <1>4, <1>5, <1>6, <1>7 DEF OpenFails, Held, EnoughFds

\* Nothing changes the limit on open files.
LEMMA NofileStep == [Next]_vars => nofile' = nofile
<1>1. ASSUME NEW w \in Workers, Worker(w) PROVE nofile' = nofile
  <2>1. CASE Take(w) \/ ReadRss(w) \/ LockHit(w) \/ TestHit(w) \/ SetHit(w)
    BY <2>1 DEF Take, ReadRss, LockHit, TestHit, SetHit
  <2>2. CASE Scan(w)
    BY <2>2 DEF Scan, ReadCmdline, ReadStatus, OpenPagemap, Walk, ReadEnviron
  <2> QED BY <1>1, <2>1, <2>2 DEF Worker
<1> QED BY <1>1 DEF Next, Collect, Finalize, Exit, vars

LEMMA FdsStep == IndType /\ FdsSuffice /\ [Next]_vars => FdsSuffice'
<1> SUFFICES ASSUME IndType, FdsSuffice, [Next]_vars PROVE FdsSuffice'
  OBVIOUS
<1>e. EnoughFds' => EnoughFds
  BY NofileStep DEF EnoughFds
<1> SUFFICES ASSUME EnoughFds PROVE FdsSuffice'
  BY <1>e DEF FdsSuffice
<1> USE DEF FdsSuffice
<1>0. /\ main # "unwrap" /\ \A p \in Pids : outcome[p] # "emfile"
      /\ outcome \in [Pids -> Outcomes]
  BY DEF IndType, TypeOK
<1>1. ASSUME NEW w \in Workers, Worker(w) PROVE FdsSuffice'
  <2>1. CASE Take(w)
    BY <2>1, <1>0 DEF Take
  <2>2. CASE ReadRss(w)
    <3>1. ~OpenFails(w)
      BY <2>2, EnoughRoom DEF ReadRss, At, Reading
    <3> QED BY <2>2, <3>1, <1>0 DEF ReadRss, GoTo, Return
  <2>3. CASE LockHit(w) \/ TestHit(w) \/ SetHit(w)
    BY <2>3, <1>0 DEF LockHit, TestHit, SetHit, GoTo, Return
  <2>4. CASE Scan(w)
    <3>1. ~OpenFails(w)
      BY <2>4, EnoughRoom
      DEF Scan, ReadCmdline, ReadStatus, OpenPagemap, Walk, ReadEnviron, At, Reading
    <3>2. main' # "unwrap"
      BY <2>4, <3>1, <1>0
      DEF Scan, ReadCmdline, ReadStatus, OpenPagemap, Walk, ReadEnviron, Panic
    <3>3. \/ UNCHANGED outcome
          \/ \E o \in Outcomes \ {"emfile"} : Return(w, o)
      BY <2>4, <3>1
      DEF Scan, ReadCmdline, ReadStatus, OpenPagemap, Walk, ReadEnviron, GoTo, Panic, Outcomes
    <3> QED BY <3>2, <3>3, <1>0 DEF Return
  <2> QED BY <1>1, <2>1, <2>2, <2>3, <2>4 DEF Worker
<1>2. ASSUME UNCHANGED <<outcome>>, main' # "unwrap" PROVE FdsSuffice'
  BY <1>2, <1>0
<1> QED BY <1>0, <1>1, <1>2 DEF Next, Collect, Finalize, Exit, vars

\* A limit of one descriptor per process of the list and two per thread, on
\* top of what is open before the scan, is enough for every interleaving.
THEOREM DescriptorsSuffice == Spec => []FdsSuffice
<1>1. Init => FdsSuffice
  BY DEF Init, FdsSuffice
<1>2. IndType /\ FdsSuffice /\ [Next]_vars => FdsSuffice'
  BY FdsStep
<1> QED BY <1>1, <1>2, TypeCorrect, PTL DEF Spec

-----------------------------------------------------------------------------

\* Who is inside the mutex holds it, and the flag it protects tells whether
\* a process was left out.
Skipped == \E p \in Pids : outcome[p] = "limit"

LockInv ==
  /\ \A w \in Workers : stage[w] \in {"test", "set"} => guard = w
  /\ \A w \in Workers : stage[w] = "set" => hit = FALSE
  /\ hit = Skipped
  /\ main = "scan" =>
       warnings = IF hit \/ \E w \in Workers : stage[w] = "set" THEN 1 ELSE 0
  /\ main = "collected" => warnings = IF hit THEN 1 ELSE 0
  /\ main = "done" => warnings = IF hit THEN 2 ELSE 0

LEMMA LockInit == Init => LockInv
<1> SUFFICES ASSUME Init PROVE LockInv
  OBVIOUS
<1>1. hit = FALSE /\ Skipped = FALSE
  BY DEF Init, Skipped
<1>2. \A w \in Workers : stage[w] = "idle"
  BY DEF Init
<1> QED BY <1>1, <1>2 DEF Init, LockInv

\* What a step must do to preserve LockInv when it leaves mutex, flag and
\* warnings alone: let nobody into the mutex and skip nobody.
Outside(w) == /\ stage[w] \notin {"test", "set"}
              /\ UNCHANGED <<guard, hit, warnings>>
              /\ \/ main' = main
                 \/ main' \in {"unwrap", "vmpte"}
              /\ \/ \E s \in Stages \ {"test", "set"} : GoTo(w, s)
                 \/ \E o \in Outcomes \ {"limit"} : stage[w] # "idle" /\ Return(w, o)
                 \/ UNCHANGED <<stage, outcome>>
                 \/ Take(w)

LEMMA LockOutside ==
  ASSUME IndType, LockInv, NEW w \in Workers, Outside(w)
  PROVE  LockInv'
<1>0. /\ stage \in [Workers -> Stages] /\ outcome \in [Pids -> Outcomes]
      /\ stage[w] # "idle" => task[w] \in Pids /\ outcome[task[w]] = "taken"
  BY DEF IndType, TypeOK
<1>1. \A v \in Workers :
        /\ stage'[v] = "test" <=> stage[v] = "test"
        /\ stage'[v] = "set" <=> stage[v] = "set"
  BY <1>0 DEF Outside, GoTo, Return, Take
<1>2. \A p \in Pids : outcome'[p] = "limit" <=> outcome[p] = "limit"
  BY <1>0 DEF Outside, GoTo, Return, Take, Queued
<1>3. Skipped' = Skipped
  BY <1>2 DEF Skipped
<1>4. guard' = guard /\ hit' = hit /\ warnings' = warnings
  BY DEF Outside
<1>5. main' = main \/ main' \in {"unwrap", "vmpte"}
  BY DEF Outside
<1> QED BY <1>1, <1>3, <1>4, <1>5 DEF LockInv

LEMMA LockStep == IndType /\ LockInv /\ [Next]_vars => LockInv'
<1> SUFFICES ASSUME IndType, LockInv, [Next]_vars PROVE LockInv'
  OBVIOUS
<1>0. /\ stage \in [Workers -> Stages] /\ outcome \in [Pids -> Outcomes]
      /\ guard \in Workers \cup {NoWorker} /\ hit \in BOOLEAN /\ warnings \in Nat
      /\ \A w \in Workers : stage[w] # "idle" => task[w] \in Pids /\ outcome[task[w]] = "taken"
  BY DEF IndType, TypeOK
<1>1. ASSUME NEW w \in Workers, Worker(w) PROVE LockInv'
  <2>1. CASE Take(w)
    <3>1. Outside(w)
      BY <2>1 DEF Take, Outside, At
    <3> QED BY <3>1, LockOutside
  <2>2. CASE ReadRss(w)
    <3>1. Outside(w)
      BY <2>2 DEF ReadRss, Outside, At, Panic, Stages, Outcomes
    <3> QED BY <3>1, LockOutside
  <2>3. CASE Scan(w)
    <3>1. Outside(w)
      <4>1. CASE ReadCmdline(w)
        BY <4>1 DEF ReadCmdline, Outside, At, Stages, Outcomes
      <4>2. CASE ReadStatus(w)
        BY <4>2 DEF ReadStatus, Panic, Outside, At, Stages, Outcomes
      <4>3. CASE OpenPagemap(w)
        BY <4>3 DEF OpenPagemap, Outside, At, Stages, Outcomes
      <4>4. CASE Walk(w)
        BY <4>4 DEF Walk, Outside, At, Stages, Outcomes
      <4>5. CASE ReadEnviron(w)
        BY <4>5 DEF ReadEnviron, Outside, At, Stages, Outcomes
      <4> QED BY <2>3, <4>1, <4>2, <4>3, <4>4, <4>5 DEF Scan
    <3> QED BY <3>1, LockOutside
  <2>4. CASE LockHit(w)
    <3>1. /\ guard = NoWorker /\ guard' = w /\ main' = main
          /\ hit' = hit /\ warnings' = warnings /\ outcome' = outcome
          /\ stage' = [stage EXCEPT ![w] = "test"] /\ stage[w] = "lock"
      BY <2>4 DEF LockHit, GoTo, At
    <3>2. \A v \in Workers : stage[v] \notin {"test", "set"}
      BY <3>1, PoolAssumption DEF LockInv
    <3>3. \A v \in Workers : stage'[v] # "set" /\ (stage'[v] = "test" => v = w)
      BY <3>1, <3>2, <1>0
    <3>4. Skipped' = Skipped
      BY <3>1 DEF Skipped
    <3> QED BY <3>1, <3>2, <3>3, <3>4 DEF LockInv
  <2>5. CASE TestHit(w) /\ ~hit
    <3>1. /\ guard = w /\ guard' = w /\ main = "scan" /\ main' = main
          /\ hit = FALSE /\ hit' = FALSE /\ warnings' = warnings + 1 /\ outcome' = outcome
          /\ stage' = [stage EXCEPT ![w] = "set"] /\ stage[w] = "test"
      <4>1. hit = FALSE
        BY <2>5, <1>0
      <4> QED BY <2>5, <4>1 DEF TestHit, GoTo, At, LockInv
    <3>2. \A v \in Workers : stage[v] # "set"
      BY <3>1 DEF LockInv
    <3>3. warnings = 0
      BY <3>1, <3>2 DEF LockInv
    <3>4. \A v \in Workers : stage'[v] \in {"test", "set"} => v = w
      BY <3>1, <1>0 DEF LockInv
    <3>5. \E v \in Workers : stage'[v] = "set"
      BY <3>1, <1>0
    <3>6. Skipped' = FALSE
      <4>1. Skipped = FALSE
        BY <3>1 DEF LockInv
      <4>2. Skipped' = Skipped
        BY <3>1 DEF Skipped
      <4> QED BY <4>1, <4>2
    <3>7. main' = "scan" /\ warnings' = 1 /\ guard' = w /\ hit' = FALSE
      BY <3>1, <3>3
    <3>8. hit' = Skipped'
      BY <3>6, <3>7
    <3> QED BY <3>4, <3>5, <3>7, <3>8 DEF LockInv
  <2>6. CASE (TestHit(w) /\ hit) \/ SetHit(w)
    <3>1. /\ guard = w /\ guard' = NoWorker /\ main = "scan" /\ main' = main
          /\ warnings' = warnings /\ Return(w, "limit") /\ stage[w] \in {"test", "set"}
      BY <2>6 DEF TestHit, SetHit, At, LockInv
    <3>2. hit' = TRUE
      <4>1. hit = TRUE \/ SetHit(w)
        BY <2>6, <1>0
      <4> QED BY <2>6, <4>1 DEF TestHit, SetHit
    <3>3. warnings = 1
      <4>1. hit \/ stage[w] = "set"
        BY <2>6 DEF SetHit, At
      <4> QED BY <3>1, <4>1 DEF LockInv
    <3>4. \A v \in Workers : stage'[v] \notin {"test", "set"}
      BY <3>1, <1>0 DEF LockInv, Return
    <3>5. Skipped' = TRUE
      <4>1. task[w] \in Pids /\ outcome'[task[w]] = "limit"
        BY <3>1, <1>0 DEF Return
      <4> QED BY <4>1 DEF Skipped
    <3> QED BY <3>1, <3>2, <3>3, <3>4, <3>5 DEF LockInv
  <2> QED BY <1>1, <2>1, <2>2, <2>3, <2>4, <2>5, <2>6 DEF Worker
<1>2. ASSUME Collect PROVE LockInv'
  <2>1. /\ main = "scan" /\ main' = "collected"
        /\ UNCHANGED <<stage, outcome, guard, hit, warnings>>
        /\ \A w \in Workers : stage[w] # "set"
    BY <1>2 DEF Collect
  <2>2. Skipped' = Skipped
    BY <2>1 DEF Skipped
  <2> QED BY <2>1, <2>2 DEF LockInv
<1>3. ASSUME Finalize PROVE LockInv'
  <2>1. /\ main = "collected" /\ main' = "done"
        /\ UNCHANGED <<stage, outcome, guard, hit>>
        /\ warnings' = IF hit THEN warnings + 1 ELSE warnings
    BY <1>3 DEF Finalize
  <2>2. Skipped' = Skipped
    BY <2>1 DEF Skipped
  <2> QED BY <2>1, <2>2 DEF LockInv
<1>4. ASSUME UNCHANGED <<main, stage, outcome, guard, hit, warnings>> PROVE LockInv'
  <2>1. Skipped' = Skipped
    BY <1>4 DEF Skipped
  <2> QED BY <1>4, <2>1 DEF LockInv
<1> QED BY <1>1, <1>2, <1>3, <1>4 DEF Next, Exit, vars

\* The scan warns once however many threads meet the limit together, once
\* more at the end, and exactly when a process was left out.
THEOREM LimitIsReported == Spec => []LimitReported
<1>1. Init => LockInv
  BY LockInit
<1>2. IndType /\ LockInv /\ [Next]_vars => LockInv'
  BY LockStep
<1>3. LockInv => LimitReported
  <2> SUFFICES ASSUME LockInv, main \in {"collected", "done"} PROVE LimitReported
    BY DEF LimitReported
  <2>1. hit = Skipped
    BY DEF LockInv
  <2>2. CASE Skipped
    BY <2>1, <2>2 DEF LockInv, LimitReported, Skipped
  <2>3. CASE ~Skipped
    BY <2>1, <2>3 DEF LockInv, LimitReported, Skipped
  <2> QED BY <2>2, <2>3
<1> QED BY <1>1, <1>2, <1>3, TypeCorrect, PTL DEF Spec

-----------------------------------------------------------------------------

\* Steps that settle no process and leave the phase as it is do not show.
LEMMA CensusStutter ==
  ASSUME Verdict' = Verdict, main' = main, vanished' = vanished
  PROVE  UNCHANGED census!vars
BY DEF census!vars, Phase, Missing, Rejected

\* A worker that goes on, or takes a process, settles nothing.
LEMMA TakeSettlesNothing ==
  ASSUME IndType, NEW w \in Workers, Take(w)
  PROVE  Verdict' = Verdict
<1>1. PICK p \in Queued : outcome' = [outcome EXCEPT ![p] = "taken"]
  BY DEF Take
<1>2. outcome \in [Pids -> Outcomes] /\ p \in Pids /\ outcome[p] = "queued"
  BY <1>1 DEF IndType, TypeOK, Queued
<1> QED BY <1>1, <1>2 DEF Verdict

\* A worker whose closure returns settles its process: "ok" admits it, and
\* anything else rejects it.
LEMMA ReturnSettles ==
  ASSUME IndType, NEW w \in Workers, NEW o \in Outcomes \ {"queued", "taken"},
         main = "scan", main' = main, vanished' = vanished, stage[w] # "idle",
         o = "ok" => task[w] # Self, Return(w, o)
  PROVE  census!Next
<1> DEFINE p == task[w]
<1>1. p \in Pids /\ outcome[p] = "taken" /\ outcome \in [Pids -> Outcomes]
  BY DEF IndType, TypeOK
<1>2. outcome' = [outcome EXCEPT ![p] = o]
  BY DEF Return
<1>3. /\ Verdict[p] = "pending" /\ Phase = "open" /\ Phase' = Phase
      /\ Missing = Cardinality(Rejected) /\ Missing' = Cardinality(Rejected')
  BY <1>1 DEF Verdict, Phase, Missing
<1>4. Verdict' = [Verdict EXCEPT ![p] = IF o = "ok" THEN "in" ELSE "out"]
  BY <1>1, <1>2 DEF Verdict
<1>5. CASE o = "ok"
  <2>1. Rejected' = Rejected
    BY <1>1, <1>3, <1>4, <1>5 DEF Rejected, Verdict
  <2>2. Verdict' = [Verdict EXCEPT ![p] = "in"] /\ p # Self
    BY <1>4, <1>5
  <2>3. census!Admit(p)
    BY <1>3, <2>1, <2>2 DEF census!Admit
  <2> QED BY <1>1, <2>3 DEF census!Next
<1>6. CASE o # "ok"
  <2>1. Rejected' = Rejected \cup {p} /\ p \notin Rejected
    BY <1>1, <1>3, <1>4, <1>6 DEF Rejected, Verdict
  <2>2. IsFiniteSet(Rejected)
    BY PoolAssumption, FS_Subset, Rejected \in SUBSET Pids DEF Rejected
  <2>3. Cardinality(Rejected') = Cardinality(Rejected) + 1
    BY <2>1, <2>2, FS_AddElement
  <2>4. Verdict' = [Verdict EXCEPT ![p] = "out"]
    BY <1>4, <1>6
  <2>5. census!Reject(p)
    BY <1>3, <2>3, <2>4 DEF census!Reject
  <2> QED BY <1>1, <2>5 DEF census!Next
<1> QED BY <1>5, <1>6

\* The scanner is never past the test of the pid.
NotSelf == \A w \in Workers :
             stage[w] \in {"cmdline", "status", "pagemap", "walk", "environ"} => task[w] # Self

LEMMA NotSelfStep == IndType /\ NotSelf /\ [Next]_vars => NotSelf'
<1> SUFFICES ASSUME IndType, NotSelf, [Next]_vars PROVE NotSelf'
  OBVIOUS
<1>0. stage \in [Workers -> Stages] /\ task \in [Workers -> Pids \cup {NoPid}]
  BY DEF IndType, TypeOK
<1> USE DEF NotSelf
<1>1. ASSUME NEW w \in Workers, Worker(w) PROVE NotSelf'
  <2>1. CASE Take(w)
    BY <2>1, <1>0 DEF Take
  <2>2. CASE ReadRss(w)
    BY <2>2, <1>0 DEF ReadRss, GoTo, Return, Panic
  <2>3. CASE LockHit(w) \/ TestHit(w) \/ SetHit(w)
    BY <2>3, <1>0 DEF LockHit, TestHit, SetHit, GoTo, Return
  <2>4. CASE ReadCmdline(w) \/ ReadStatus(w) \/ OpenPagemap(w)
    BY <2>4, <1>0 DEF ReadCmdline, ReadStatus, OpenPagemap, GoTo, Return, Panic, At
  <2>5. CASE Walk(w) \/ ReadEnviron(w)
    BY <2>5, <1>0 DEF Walk, ReadEnviron, GoTo, Return, At
  <2> QED BY <1>1, <2>1, <2>2, <2>3, <2>4, <2>5 DEF Worker, Scan
<1> QED BY <1>1 DEF Next, Collect, Finalize, Exit, vars

\* No process is lost between the workers: a "taken" one is in some hands.
TakenHeld == \A p \in Pids : outcome[p] = "taken" =>
               \E w \in Workers : stage[w] # "idle" /\ task[w] = p

LEMMA TakenHeldStep == IndType /\ TakenHeld /\ [Next]_vars => TakenHeld'
<1> SUFFICES ASSUME IndType, TakenHeld, [Next]_vars PROVE TakenHeld'
  OBVIOUS
<1>0. /\ stage \in [Workers -> Stages] /\ task \in [Workers -> Pids \cup {NoPid}]
      /\ outcome \in [Pids -> Outcomes]
      /\ \A w \in Workers : stage[w] # "idle" => task[w] \in Pids
  BY DEF IndType, TypeOK
<1>1. ASSUME NEW w \in Workers, stage[w] # "idle", NEW s \in Stages \ {"idle"}, GoTo(w, s)
      PROVE  TakenHeld'
  BY <1>1, <1>0 DEF TakenHeld, GoTo
<1>2. ASSUME NEW w \in Workers, stage[w] # "idle", NEW o \in Outcomes \ {"queued", "taken"},
             Return(w, o)
      PROVE  TakenHeld'
  <2> SUFFICES ASSUME NEW p \in Pids, outcome'[p] = "taken"
               PROVE  \E v \in Workers : stage'[v] # "idle" /\ task'[v] = p
    BY DEF TakenHeld
  <2>1. p # task[w] /\ outcome[p] = "taken"
    BY <1>0, <1>2 DEF Return
  <2>2. PICK v \in Workers : stage[v] # "idle" /\ task[v] = p
    BY <2>1 DEF TakenHeld
  <2> QED BY <1>0, <1>2, <2>1, <2>2 DEF Return
<1>3. ASSUME NEW w \in Workers, Take(w) PROVE TakenHeld'
  <2>1. PICK q \in Pids : /\ outcome' = [outcome EXCEPT ![q] = "taken"]
                          /\ task' = [task EXCEPT ![w] = q]
    BY <1>3 DEF Take, Queued
  <2>2. stage[w] = "idle" /\ stage' = [stage EXCEPT ![w] = "rss"]
    BY <1>3 DEF Take, At
  <2> SUFFICES ASSUME NEW p \in Pids, outcome'[p] = "taken"
               PROVE  \E v \in Workers : stage'[v] # "idle" /\ task'[v] = p
    BY DEF TakenHeld
  <2>3. CASE p = q
    BY <1>0, <2>1, <2>2, <2>3
  <2>4. CASE p # q
    <3>1. PICK v \in Workers : stage[v] # "idle" /\ task[v] = p
      BY <1>0, <2>1, <2>4 DEF TakenHeld
    <3> QED BY <1>0, <2>1, <2>2, <3>1
  <2> QED BY <2>3, <2>4
<1>4. ASSUME UNCHANGED <<stage, task, outcome>> PROVE TakenHeld'
  BY <1>4 DEF TakenHeld
<1>5. ASSUME NEW w \in Workers, Worker(w) PROVE TakenHeld'
  <2>1. CASE ReadRss(w)
    BY <2>1, <1>1, <1>2, <1>4 DEF ReadRss, Panic, At, Stages, Outcomes
  <2>2. CASE LockHit(w)
    BY <2>2, <1>1 DEF LockHit, At, Stages
  <2>3. CASE TestHit(w)
    BY <2>3, <1>1, <1>2 DEF TestHit, At, Stages, Outcomes
  <2>4. CASE SetHit(w)
    BY <2>4, <1>2 DEF SetHit, At, Outcomes
  <2>5. CASE ReadCmdline(w) \/ OpenPagemap(w) \/ Walk(w)
    BY <2>5, <1>1, <1>2 DEF ReadCmdline, OpenPagemap, Walk, At, Stages, Outcomes
  <2>6. CASE ReadStatus(w)
    BY <2>6, <1>1, <1>2, <1>4 DEF ReadStatus, Panic, At, Stages, Outcomes
  <2>7. CASE ReadEnviron(w)
    BY <2>7, <1>2 DEF ReadEnviron, At, Outcomes
  <2> QED BY <1>3, <1>5, <2>1, <2>2, <2>3, <2>4, <2>5, <2>6, <2>7 DEF Worker, Scan
<1> QED BY <1>4, <1>5 DEF Next, Collect, Finalize, Exit, vars

LEMMA CensusStep ==
  IndType /\ NotSelf /\ TakenHeld /\ [Next]_vars => [census!Next]_(census!vars)
<1> SUFFICES ASSUME IndType, NotSelf, TakenHeld, [Next]_vars PROVE [census!Next]_(census!vars)
  OBVIOUS
<1>0. ASSUME outcome' = outcome PROVE Verdict' = Verdict
  BY <1>0 DEF Verdict
<1>1. ASSUME NEW w \in Workers, Worker(w) PROVE [census!Next]_(census!vars)
  <2>1. CASE Take(w)
    BY <2>1, TakeSettlesNothing, CensusStutter DEF Take
  <2>2. CASE Panic("unwrap") \/ Panic("vmpte")
    <3>1. main = "scan" /\ vanished' = vanished
      BY <1>1, <2>2 DEF Worker, Take, ReadRss, LockHit, TestHit, SetHit, Scan, ReadCmdline,
                        ReadStatus, OpenPagemap, Walk, ReadEnviron, At
    <3>2. Phase = "open" /\ Phase' = "abandoned"
      BY <2>2, <3>1 DEF Phase, Panic
    <3>3. Verdict' = Verdict
      BY <2>2, <1>0 DEF Panic
    <3>4. Missing' = Missing
      BY <2>2, <3>1, <3>3 DEF Panic, Missing, Rejected
    <3> QED BY <3>2, <3>3, <3>4 DEF census!Next, census!Abandon
  <2>3. CASE ~Take(w) /\ ~Panic("unwrap") /\ ~Panic("vmpte")
    <3>1. main = "scan" /\ main' = main /\ vanished' = vanished /\ stage[w] # "idle"
      <4>1. CASE ReadRss(w)
        BY <4>1, <2>3 DEF ReadRss, At
      <4>2. CASE LockHit(w) \/ TestHit(w) \/ SetHit(w)
        BY <4>2 DEF LockHit, TestHit, SetHit, At
      <4>3. CASE Scan(w)
        BY <4>3, <2>3 DEF Scan, ReadCmdline, ReadStatus, OpenPagemap, Walk, ReadEnviron, At
      <4> QED BY <1>1, <2>3, <4>1, <4>2, <4>3 DEF Worker
    <3>2. \/ \E s \in Stages : GoTo(w, s)
          \/ \E o \in Outcomes \ {"queued", "taken"} :
               (o = "ok" => task[w] # Self) /\ Return(w, o)
      <4>1. CASE ReadRss(w)
        BY <4>1, <2>3 DEF ReadRss, Stages, Outcomes
      <4>2. CASE LockHit(w) \/ TestHit(w) \/ SetHit(w)
        BY <4>2 DEF LockHit, TestHit, SetHit, Stages, Outcomes
      <4>3. CASE ReadCmdline(w) \/ ReadStatus(w) \/ OpenPagemap(w) \/ Walk(w)
        BY <4>3, <2>3 DEF ReadCmdline, ReadStatus, OpenPagemap, Walk, Stages, Outcomes
      <4>4. CASE ReadEnviron(w)
        BY <4>4 DEF ReadEnviron, NotSelf, At, Outcomes
      <4> QED BY <1>1, <2>3, <4>1, <4>2, <4>3, <4>4 DEF Worker, Scan
    <3>3. CASE \E s \in Stages : GoTo(w, s)
      BY <3>1, <3>3, <1>0, CensusStutter DEF GoTo
    <3> QED BY <3>1, <3>2, <3>3, ReturnSettles
  <2> QED BY <1>1, <2>1, <2>2, <2>3
<1>2. ASSUME Collect PROVE census!Close
  <2>1. /\ main = "scan" /\ main' = "collected" /\ outcome' = outcome
        /\ vanished' = Cardinality(Pids) - Cardinality(Results)
        /\ Queued = {} /\ \A w \in Workers : stage[w] = "idle"
    BY <1>2 DEF Collect
  <2>2. \A p \in Pids : outcome[p] \notin {"queued", "taken"}
    BY <2>1 DEF Queued, TakenHeld
  <2>3. \A p \in Pids : Verdict[p] # "pending"
    BY <2>2 DEF Verdict
  <2>4. Rejected = Pids \ Results
    <3> SUFFICES ASSUME NEW p \in Pids PROVE Verdict[p] = "out" <=> outcome[p] # "ok"
      BY DEF Rejected, Results
    <3> QED BY <2>2 DEF Verdict
  <2>5. Results \in SUBSET Pids
    BY DEF Results
  <2>6. Cardinality(Pids \ Results) = Cardinality(Pids) - Cardinality(Results)
    BY <2>5, PoolAssumption, FS_Subset, FS_Difference, Pids \cap Results = Results
  <2>7. Phase = "open" /\ Phase' = "closed" /\ Verdict' = Verdict
    BY <2>1, <1>0 DEF Phase
  <2>8. Missing' = Missing
    BY <2>1, <2>4, <2>6 DEF Missing
  <2> QED BY <2>3, <2>7, <2>8 DEF census!Close
<1>3. ASSUME Finalize \/ (\E p \in Pids : Exit(p)) \/ UNCHANGED vars
      PROVE  UNCHANGED census!vars
  <2>1. outcome' = outcome /\ vanished' = vanished /\ Phase' = Phase
    BY <1>3 DEF Finalize, Exit, vars, Phase
  <2>2. Missing' = Missing
    BY <1>3, <1>0, <2>1 DEF Finalize, Exit, vars, Missing, Rejected
  <2> QED BY <2>1, <2>2, <1>0 DEF census!vars
<1> QED BY <1>1, <1>2, <1>3 DEF Next, census!Next

\* The scan implements the census, whatever its threads do: it is what the
\* reports may rely on.
THEOREM ScanImplementsCensus == Spec => ImplementsCensus
<1>1. Init => census!Init /\ NotSelf /\ TakenHeld
  <2> SUFFICES ASSUME Init PROVE census!Init /\ NotSelf /\ TakenHeld
    OBVIOUS
  <2>1. Verdict = [p \in Pids |-> "pending"]
    BY DEF Init, Verdict
  <2>2. Rejected = {} /\ Missing = 0
    BY <2>1, FS_EmptySet DEF Init, Rejected, Missing
  <2> QED BY <2>1, <2>2 DEF Init, census!Init, Phase, NotSelf, TakenHeld
<1>2. IndType /\ NotSelf /\ [Next]_vars => NotSelf'
  BY NotSelfStep
<1>3. IndType /\ TakenHeld /\ [Next]_vars => TakenHeld'
  BY TakenHeldStep
<1>4. IndType /\ NotSelf /\ TakenHeld /\ [Next]_vars => [census!Next]_(census!vars)
  BY CensusStep
<1> QED BY <1>1, <1>2, <1>3, <1>4, TypeCorrect, PTL DEF Spec, ImplementsCensus, census!Spec

=============================================================================
