----------------------------- MODULE FilterEval -----------------------------
(***************************************************************************)
(* The evaluation of a filter on a process (eval, src/filters.rs:9-131).   *)
(*                                                                         *)
(* eval reads /proc once for every leaf it comes to, and the process may   *)
(* exit, or change its name, user or environment, before any of these      *)
(* reads: an evaluation has several outcomes, and each is a pair of what   *)
(* eval returns and what the process is afterwards.                        *)
(***************************************************************************)
EXTENDS Integers, Sequences, FiniteSets

CONSTANTS
  Pids,        \* the processes scanned
  Filters,     \* parsed filters: [op, arg, kids], with all their parts
  Height,      \* of each filter: more than that of its parts
  Attributes,  \* of each process: [pid, comm, uid : word, env : pairs of words]
  Family       \* tree.descendants: for each number, the processes below it

\* "changed": it lives, but after an exec, setuid or prctl; "left": it exited,
\* and is a zombie or gone
Lives == {"alive", "changed", "left"}

Operators == {"and", "or", "not"}
Reading == {"comm", "uid", "env_k", "env_kv"}          \* leaves that read /proc
Knowing == {"pid", "descendants", "true", "false"}     \* those that do not

\* Filters are finite trees: Box<dyn Filter>
ASSUME FilterAssumption ==
  /\ Height \in [Filters -> Nat]
  /\ \A filter \in Filters :
       /\ filter.op \in Operators \cup Reading \cup Knowing
       /\ filter.kids \in Seq(Filters) /\ (filter.op = "not" => Len(filter.kids) = 1)
       /\ \A i \in DOMAIN filter.kids : Height[filter.kids[i]] < Height[filter]

-----------------------------------------------------------------------------

\* What a process may have become since
Later(life) == CASE life = "alive" -> Lives
                 [] life = "changed" -> {"changed", "left"}
                 [] life = "left" -> {"left"}

Says(leaf, p) ==
  CASE leaf.op = "comm" -> leaf.arg = <<Attributes[p].comm>>
    [] leaf.op = "uid" -> leaf.arg = <<Attributes[p].uid>>
    [] leaf.op = "env_k" -> \E e \in Attributes[p].env : leaf.arg = <<e[1]>>
    [] leaf.op = "env_kv" -> \E e \in Attributes[p].env : leaf.arg = <<e[1], ",", e[2]>>

\* A process that changed may answer anything.  One that left may have done so
\* first, and is a zombie, with a name and a user, or gone: an error, hence
\* false, except that the directory may seem to be root's.  Neither has an
\* environment.
Reads(leaf, p, life) ==
  CASE life = "alive" -> {Says(leaf, p)}
    [] life = "changed" \/ (life = "left" /\ leaf.op \in {"comm", "uid"}) -> BOOLEAN
    [] life = "left" /\ leaf.op \in {"env_k", "env_kv"} -> {FALSE}

Knows(leaf, p) ==
  CASE leaf.op = "pid" -> leaf.arg = <<Attributes[p].pid>>
    [] leaf.op = "descendants" -> p \in Family[leaf.arg[1]]
    [] leaf.op = "true" -> TRUE
    [] leaf.op = "false" -> FALSE

\* Mutant: the last child decides.
UntilLast(evals, stop, life) ==
  LET paths(n) == {path \in [0 .. n -> Lives] :
                     /\ path[0] = life
                     /\ \A i \in 1 .. n : \E answer \in BOOLEAN : <<answer, path[i]>> \in evals[i][path[i - 1]]}
      last == Len(evals)
  IN  UNION {evals[last][path[last - 1]] : path \in paths(last - 1)}

\* all and any: children are evaluated in order until one returns stop.  A path
\* has what the process was after each of the first n, which did not.
Until(evals, stop, life) ==
  LET paths(n) == {path \in [0 .. n -> Lives] :
                     /\ path[0] = life
                     /\ \A i \in 1 .. n : <<~stop, path[i]>> \in evals[i][path[i - 1]]}
      decided(n) == UNION {{o \in evals[n][path[n - 1]] : o[1] = stop} : path \in paths(n - 1)}
  IN  (UNION {decided(n) : n \in DOMAIN evals})
        \cup {<<~stop, path[Len(evals)]>> : path \in paths(Len(evals))}

\* What eval of a filter does, given what eval of its children does
EvalGiven(filter, children, p, life) ==
  CASE filter.op = "and" -> Until(children, FALSE, life)
    [] filter.op = "or" -> Until(children, TRUE, life)
    [] filter.op = "not" -> {<<~o[1], o[2]>> : o \in children[1][life]}
    [] filter.op \in Reading -> UNION {Reads(filter, p, l) \X {l} : l \in Later(life)}
    [] filter.op \in Knowing -> {<<Knows(filter, p), life>>}

\* The same for all processes
Evaluate(filter, evals) ==
  [p \in Pids |-> [life \in Lives |-> EvalGiven(filter, [i \in DOMAIN evals |-> evals[i][p]], p, life)]]

Outcomes[filter \in Filters] ==
  Evaluate(filter, [i \in DOMAIN filter.kids |-> Outcomes[filter.kids[i]]])

-----------------------------------------------------------------------------
(* The reference: the processes a filter is meant to accept, as they are   *)

Accept(filter, meant) ==
  CASE filter.op = "and" -> {p \in Pids : \A i \in DOMAIN meant : p \in meant[i]}
    [] filter.op = "or" -> {p \in Pids : \E i \in DOMAIN meant : p \in meant[i]}
    [] filter.op = "not" -> Pids \ meant[1]
    [] filter.op \in Reading -> {p \in Pids : Says(filter, p)}
    [] filter.op \in Knowing -> {p \in Pids : Knows(filter, p)}

Accepts[filter \in Filters] ==
  Accept(filter, [i \in DOMAIN filter.kids |-> Accepts[filter.kids[i]]])

=============================================================================
