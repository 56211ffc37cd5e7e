------------------------------- MODULE Groups -------------------------------
(***************************************************************************)
(* The reports of "memstats groups": the processes that were scanned once  *)
(* are split by user, by environment variable, by a list of pids and by    *)
(* every custom list of filters, one report after the other, each from     *)
(* what the one before it gave back (src/bin/memstats.rs:718-767, with the *)
(* splitters of src/groups.rs).                                            *)
(*                                                                         *)
(* A ProcessInfo is data of the scan, and uid and environment are part of  *)
(* it; filters are parsed when their report comes, and evaluated on the    *)
(* live process, which may have changed or exited since, or do so in the   *)
(* middle.                                                                 *)
(* Evaluation is module FilterEval; what parsing does is module Filters.   *)
(***************************************************************************)
EXTENDS FilterEval, SequencesExt

CONSTANTS
  Infos,         \* what a ProcessInfo may say: [pfns, uid, env]
  UidName,       \* the name shown for a uid
  EnvName,       \* and for a value of the variable
  Texts,         \* arguments of --split-custom, and texts made of --split-pids
  NoText,        \* no --split-pids
  Names,         \* pieces of texts, which name groups
  Invalid,       \* a text that is not accepted
  New,           \* ProcessSplitterCustomFilter::new of each text: its filters,
                 \* each with a name
  Asked,         \* reference: what a text means, as names and filters
  Scans,         \* command lines and what was scanned: [cli, info]
  Other          \* the group of the processes no filter accepts

Named == [name : Names, filter : Filters]
CommandLines == [uid : BOOLEAN, env : BOOLEAN, pids : Texts \cup {NoText}, custom : Seq(Texts)]

ASSUME GroupsAssumption ==
  /\ New \in [Texts -> Seq(Named) \cup {Invalid}] /\ Invalid \notin Seq(Named)
  /\ \A s \in Scans : /\ s.cli \in CommandLines /\ s.info \in [Pids -> Infos]
                      /\ s.cli.pids # NoText => s.cli.pids \in Texts /\ New[s.cli.pids] # Invalid
  /\ Other \notin Names

VARIABLES
  cli,        \* the command line, which does not change
  info,       \* nor does the ProcessInfo of a process once it was scanned
  life,       \* of each process, now
  stage,      \* the report the main thread is at
  phase,      \* "idle": no splitter; "split", "show": of that report
  custom,     \* split_custom, from which reports are popped
  processes,  \* processes_info, or what is left of it in __split
  filters,    \* of the custom splitter, those not applied yet
  todo,       \* processes the first of them has not been evaluated on
  taken,      \* processes it accepted
  groups,     \* of the splitter: from keys to groups
  shown       \* the reports displayed so far

vars == <<cli, info, life, stage, phase, custom, processes, filters, todo, taken, groups, shown>>

-----------------------------------------------------------------------------

\* Mutant: main forgets to reverse split_custom
InitUnreversed ==
  /\ \E s \in Scans : cli = s.cli /\ info = s.info
  /\ life = [p \in Pids |-> "alive"]
  /\ stage = "uid" /\ phase = "idle"
  /\ custom = cli.custom
  /\ processes = Pids
  /\ filters = <<>> /\ todo = {} /\ taken = {}
  /\ groups = <<>>
  /\ shown = <<>>

\* main reverses split_custom, so that pop takes them in the order given.
Init ==
  /\ \E s \in Scans : cli = s.cli /\ info = s.info
  /\ life = [p \in Pids |-> "alive"]
  /\ stage = "uid" /\ phase = "idle"
  /\ custom = Reverse(cli.custom)
  /\ processes = Pids
  /\ filters = <<>> /\ todo = {} /\ taken = {}
  /\ groups = <<>>
  /\ shown = <<>>

\* HashMap::insert: the group that was there under that key is dropped.
Insert(key, group) == [k \in DOMAIN groups \cup {key} |-> IF k = key THEN group ELSE groups[k]]

\* The splitters by uid and by environment variable: one group for each value
SplitByKey(key, name) ==
  /\ groups' = [k \in {key[p] : p \in processes} |->
                  [name |-> name[k], procs |-> {p \in processes : key[p] = k}]]
  /\ processes' = {}
  /\ phase' = "show"
  /\ UNCHANGED <<cli, info, life, stage, custom, filters, todo, taken, shown>>

SplitByUid == stage = "uid" /\ phase = "idle" /\ cli.uid /\ SplitByKey([p \in Pids |-> info[p].uid], UidName)

SplitByEnv == stage = "env" /\ phase = "idle" /\ cli.env /\ SplitByKey([p \in Pids |-> info[p].env], EnvName)

\* Mutant: the last filter is evaluated first
StartFiltersReversed(fs) ==
  /\ phase' = "split"
  /\ filters' = Reverse(fs)
  /\ todo' = processes /\ taken' = {}
  /\ groups' = <<>>
  /\ UNCHANGED <<cli, info, life, stage, processes, shown>>

\* ProcessSplitterCustomFilter::new, then the first filter of __split
StartFilters(fs) ==
  /\ phase' = "split"
  /\ filters' = fs
  /\ todo' = processes /\ taken' = {}
  /\ groups' = <<>>
  /\ UNCHANGED <<cli, info, life, stage, processes, shown>>

SplitByPids == /\ stage = "pids" /\ phase = "idle" /\ cli.pids # NoText
               /\ StartFilters(New[cli.pids])
               /\ UNCHANGED custom

PopCustom == /\ stage = "custom" /\ phase = "idle" /\ custom # <<>>
             /\ New[Last(custom)] # Invalid
             /\ StartFilters(New[Last(custom)])
             /\ custom' = Front(custom)

\* Mutant: a list that does not parse is left out
PopOver == /\ stage = "custom" /\ phase = "idle" /\ custom # <<>>
           /\ New[Last(custom)] = Invalid
           /\ custom' = Front(custom)
           /\ UNCHANGED <<cli, info, life, stage, phase, processes, filters, todo, taken, groups, shown>>

\* The unwrap of new: only now is the text looked at.
PopInvalid == /\ stage = "custom" /\ phase = "idle" /\ custom # <<>>
              /\ New[Last(custom)] = Invalid
              /\ custom' = Front(custom)
              /\ stage' = "panic"
              /\ UNCHANGED <<cli, info, life, phase, processes, filters, todo, taken, groups, shown>>

\* Mutant: the accepted processes are copied, not extracted
EvalCopy(p) ==
  /\ phase = "split" /\ filters # <<>> /\ p \in todo
  /\ todo' = todo \ {p}
  /\ \E o \in Outcomes[Head(filters).filter][p][life[p]] :
       /\ life' = [life EXCEPT ![p] = o[2]]
       /\ taken' = IF o[1] THEN taken \cup {p} ELSE taken
  /\ UNCHANGED <<cli, info, stage, phase, custom, processes, filters, groups, shown>>

\* processes.extract_if(.., |p| filter.eval(..)), one process at a time, which
\* may change or exit between two reads of a filter that reads several files.
Eval(p) ==
  /\ phase = "split" /\ filters # <<>> /\ p \in todo
  /\ todo' = todo \ {p}
  /\ \E o \in Outcomes[Head(filters).filter][p][life[p]] :
       /\ life' = [life EXCEPT ![p] = o[2]]
       /\ IF o[1] THEN taken' = taken \cup {p} /\ processes' = processes \ {p}
                  ELSE UNCHANGED <<taken, processes>>
  /\ UNCHANGED <<cli, info, stage, phase, custom, filters, groups, shown>>

CloseGroup ==
  /\ phase = "split" /\ filters # <<>> /\ todo = {}
  /\ groups' = Insert(Head(filters).name, [name |-> Head(filters).name, procs |-> taken])
  /\ filters' = Tail(filters)
  /\ todo' = processes /\ taken' = {}
  /\ UNCHANGED <<cli, info, life, stage, phase, custom, processes, shown>>

\* Mutant: the remaining processes are in no group
CloseWithoutOther ==
  /\ phase = "split" /\ filters = <<>>
  /\ processes' = {} /\ todo' = {}
  /\ phase' = "show"
  /\ UNCHANGED <<cli, info, life, stage, custom, filters, taken, groups, shown>>

\* The processes no filter accepted
CloseOther ==
  /\ phase = "split" /\ filters = <<>>
  /\ groups' = Insert(Other, [name |-> Other, procs |-> processes])
  /\ processes' = {} /\ todo' = {}
  /\ phase' = "show"
  /\ UNCHANGED <<cli, info, life, stage, custom, filters, taken, shown>>

Following == [uid |-> "env", env |-> "pids", pids |-> "custom", custom |-> "custom"]

\* A report made of filters is known by the names of its groups.
Report == <<stage, IF stage \in {"pids", "custom"} THEN DOMAIN groups ELSE {}>>

\* display, then collect_processes, which gives the members of every group back
ShowAndCollect ==
  /\ phase = "show"
  /\ shown' = Append(shown, Report)
  /\ processes' = UNION {groups[k].procs : k \in DOMAIN groups}
  /\ groups' = <<>>
  /\ phase' = "idle"
  /\ stage' = Following[stage]
  /\ UNCHANGED <<cli, info, life, custom, filters, todo, taken>>

\* A report nobody asked for
Skip ==
  /\ phase = "idle"
  /\ \/ stage = "uid" /\ ~cli.uid
     \/ stage = "env" /\ ~cli.env
     \/ stage = "pids" /\ cli.pids = NoText
  /\ stage' = Following[stage]
  /\ UNCHANGED <<cli, info, life, phase, custom, processes, filters, todo, taken, groups, shown>>

\* No custom report is left.
Finalize ==
  /\ stage = "custom" /\ phase = "idle" /\ custom = <<>>
  /\ stage' = "end"
  /\ UNCHANGED <<cli, info, life, phase, custom, processes, filters, todo, taken, groups, shown>>

\* A process changes its name, user or environment, exits, or is reaped.
Become(p) ==
  /\ \E l \in Later(life[p]) \ {life[p]} : life' = [life EXCEPT ![p] = l]
  /\ UNCHANGED <<cli, info, stage, phase, custom, processes, filters, todo, taken, groups, shown>>

Main == \/ SplitByUid \/ SplitByEnv \/ SplitByPids \/ PopCustom \/ PopInvalid
        \/ (\E p \in Pids : Eval(p)) \/ CloseGroup \/ CloseOther
        \/ ShowAndCollect \/ Skip \/ Finalize

Next == \/ Main
        \/ \E p \in Pids : Become(p)
        \/ stage \in {"end", "panic"} /\ UNCHANGED vars

Spec == Init /\ [][Next]_vars /\ WF_vars(Main)

-----------------------------------------------------------------------------
(* What display computes of a group, from the groups of the splitter *)

Pages(k) == UNION {info[p].pfns : p \in groups[k].procs}

\* Mutant: only the pages that all the other groups have
CommonPages(k) ==
  {f \in UNION {i.pfns : i \in Infos} : \A h \in {h \in DOMAIN groups : groups[h].name # groups[k].name} : f \in Pages(h)}

\* group_1 != group_other compares names.
OtherPages(k) == UNION {Pages(h) : h \in {h \in DOMAIN groups : groups[h].name # groups[k].name}}

UssPages(k) == Pages(k) \ OtherPages(k)

-----------------------------------------------------------------------------

TypeOK ==
  /\ cli \in CommandLines /\ info \in [Pids -> Infos]
  /\ life \in [Pids -> Lives]
  /\ stage \in {"uid", "env", "pids", "custom", "end", "panic"}
  /\ phase \in {"idle", "split", "show"}
  /\ custom \in Seq(Texts) /\ filters \in Seq(Named)
  /\ processes \subseteq Pids
  /\ todo \subseteq processes
  /\ taken \subseteq Pids \ processes
  /\ \A k \in DOMAIN groups : groups[k].procs \subseteq Pids

\* The lists of filters name each filter once.
Distinct(text) == New[text] # Invalid =>
  \A i, j \in DOMAIN New[text] : New[text][i].name = New[text][j].name => i = j

DistinctFilters == /\ cli.pids # NoText => Distinct(cli.pids)
                   /\ \A i \in DOMAIN cli.custom : Distinct(cli.custom[i])

\* Splitting moves every ProcessInfo into a group, and collecting gives all
\* of them back: each report is about the data set the first one was about,
\* whatever changes or exits meanwhile ("on the same dataset", docs/memstats.md).
SameDataset == phase = "idle" => processes = Pids

DatasetKept == DistinctFilters => SameDataset

\* In a report, every process is in one group and in no other.
Partitioned ==
  DistinctFilters /\ phase = "show" =>
    \A p \in Pids : \E k \in DOMAIN groups :
      /\ p \in groups[k].procs
      /\ \A h \in DOMAIN groups \ {k} : p \notin groups[h].procs

\* The text of the report the main thread is at
Text == IF stage = "pids" THEN cli.pids ELSE cli.custom[Len(cli.custom) - Len(custom)]

\* "Comma separated list of filters, evaluated in order" (memstats.rs:148): a
\* process that still lives, and did not change its name, user or environment,
\* is in the group of the first filter of the text that is meant to accept it,
\* and in "Other" if there is none, through the positions of the parser, the
\* files eval opens and what becomes of the others.
FirstMatch ==
  DistinctFilters /\ phase = "show" /\ stage \in {"pids", "custom"} =>
    LET asked == Asked[Text]
        accepting(p) == {i \in DOMAIN asked : p \in Accepts[asked[i].filter]}
    IN  \A p \in Pids : life[p] = "alive" =>
          IF accepting(p) = {} THEN p \in groups[Other].procs
          ELSE \E i \in accepting(p) : /\ \A j \in accepting(p) : i <= j
                                       /\ p \in groups[asked[i].name].procs

\* The lists of the command line that parse accepts (filters.rs:140, groups.rs:181)
\* have the filters that were meant, in their order and under their names.
FaithfulTo(text) == New[text] \in {Asked[text], Invalid}

ListsFaithful == /\ cli.pids # NoText => FaithfulTo(cli.pids)
                 /\ \A n \in DOMAIN cli.custom : FaithfulTo(cli.custom[n])

\* To a process that lives unchanged to the end of its evaluation, eval
\* (filters.rs:10) gives the answer that the filter means, through every all,
\* any and not, and every read of a leaf; and it was so when eval began.
AnswersMeant ==
  [][phase = "split" /\ filters # <<>> =>
       \A p \in todo \ todo' : life'[p] = "alive" =>
         life[p] = "alive" /\ (p \in taken' <=> p \in Accepts[Head(filters).filter])]_vars

\* The USS of a group counts the frames that no process outside the group
\* has, when no other group of the report is shown under the same name
\* (groups.rs:77-120): the comparison of names stands for that of groups.
\* Groups of one name are not each other's others, although docs/memstats.md:119
\* makes no exception of them.
UssExact ==
  DistinctFilters /\ phase = "show" =>
    \A k \in DOMAIN groups :
      (\A h \in DOMAIN groups \ {k} : groups[h].name # groups[k].name) =>
        UssPages(k) = {f \in Pages(k) : \A p \in Pids \ groups[k].procs : f \notin info[p].pfns}

\* The custom lists before the first text that is not a list of filters
Valid == {n \in DOMAIN cli.custom : \A m \in 1 .. n : Asked[cli.custom[m]] # Invalid}

NamesIn(text) == {Asked[text][i].name : i \in DOMAIN Asked[text]} \cup {Other}

Expected ==
  (IF cli.uid THEN <<<<"uid", {}>>>> ELSE <<>>)
    \o (IF cli.env THEN <<<<"env", {}>>>> ELSE <<>>)
    \o (IF cli.pids # NoText THEN <<<<"pids", NamesIn(cli.pids)>>>> ELSE <<>>)
    \o [n \in 1 .. Cardinality(Valid) |-> <<"custom", NamesIn(cli.custom[n])>>]

\* The reports come in a fixed order, the custom ones in that of the command
\* line, which is popped from its end, and each has the groups of its own text
\* (memstats.rs:718-767).  memstats ends after all of them; a text that is no
\* list of filters is refused, and stops it after the scan and after all the
\* reports before that text, none of which is lost.
ReportsInOrder ==
  /\ IsPrefix(shown, Expected)
  /\ stage = "end" => Valid = DOMAIN cli.custom /\ shown = Expected
  /\ stage = "panic" => Valid # DOMAIN cli.custom /\ shown = Expected

\* And they all come.
AllShown == <>(/\ stage = IF Valid = DOMAIN cli.custom THEN "end" ELSE "panic"
               /\ shown = Expected)

=============================================================================
