------------------------------ MODULE MCGroups ------------------------------
(***************************************************************************)
(* Three processes with every combination of a few process infos, which    *)
(* share frames and belong to users of which two have one name, and lists  *)
(* of filters of every kind that overlap, one of them with a negation,     *)
(* which accepts processes that are gone.  Lists are written as texts and  *)
(* parsed back.  Other texts miss one token that is not an argument, or    *)
(* are not ASCII: nobody asked for any filter with them.                   *)
(***************************************************************************)
EXTENDS TextGroups, TLC

CONSTANTS p1, p2, p3

MCPids == {p1, p2, p3}

MCInfos == {[pfns |-> {1, 2}, uid |-> 0, env |-> "A"],
            [pfns |-> {2, 3}, uid |-> 1000, env |-> "A"],
            [pfns |-> {3}, uid |-> 1001, env |-> "none"]}

MCUidName == (0 :> "root") @@ (1000 :> "app") @@ (1001 :> "app")
MCEnvName == [v \in {"A", "none"} |-> v]

MCWide == {"smön"}
MCNumbers == {"0", "1", "2", "3"}
MCTokens == Marks \cup Ops \cup MCWide \cup MCNumbers \cup {"smon", "SID", "A"}
MCAttributes == (p1 :> [pid |-> "1", comm |-> "smon", uid |-> "0", env |-> {<<"SID", "A">>}])
             @@ (p2 :> [pid |-> "2", comm |-> "smon", uid |-> "1", env |-> {<<"SID", "B">>}])
             @@ (p3 :> [pid |-> "3", comm |-> "sh", uid |-> "1", env |-> {}])
MCFamily == [n \in MCNumbers |-> CASE n = "1" -> {p2, p3} [] n = "2" -> {p3} [] OTHER -> {}]

Env(k, v) == Leaf("env_kv", <<k, ",", v>>)

Pid(n) == Leaf("pid", <<n>>)
Uid(n) == Leaf("uid", <<n>>)
Comm(w) == Leaf("comm", <<w>>)

\* Lists of filters, as they are meant
MCMeant ==
  [one |-> <<Pid("1")>>,
   two |-> <<Node("or", <<Pid("1"), Pid("2")>>)>>,
   deep |-> <<Node("and", <<Comm("smon"), Node("not", <<Uid("0")>>)>>), Env("SID", "A"),
              Leaf("true", <<>>)>>,
   gone |-> <<Leaf("env_k", <<"SID">>), Node("not", <<Comm("smon")>>)>>,
   kin |-> <<Node("or", <<Uid("0"), Leaf("descendants", <<"2">>), Leaf("false", <<>>)>>)>>,
   twice |-> <<Comm("smon"), Comm("smon")>>]

\* and as they are written
MCWritten ==
  [one |-> <<"pid", "(", "1", ")">>,
   two |-> <<"or", "(", "pid", "(", "1", ")", ",", "pid", "(", "2", ")", ")">>,
   deep |-> <<"and", "(", "comm", "(", "smon", ")", ",", "not", "(", "uid", "(", "0", ")", ")", ")", ",",
              "env_kv", "(", "SID", ",", "A", ")", ",", "true", "(", ")">>,
   gone |-> <<"env_k", "(", "SID", ")", ",", "not", "(", "comm", "(", "smon", ")", ")">>,
   kin |-> <<"or", "(", "uid", "(", "0", ")", ",", "descendants", "(", "2", ")", ",", "false", "(", ")", ")">>,
   twice |-> <<"comm", "(", "smon", ")", ",", "comm", "(", "smon", ")">>]

\* A function with all its values computed once
Tabulate(op(_), S) == FoldSet(LAMBDA x, f : (x :> op(x)) @@ f, <<>>, S)

WideText == <<"comm", "(", "smön", ")", ",", "pid", "(", "1", ")">>

\* The arguments of a text are what follows "(" and is no operator.
Structural(text, i) == text[i] \in {"(", ")", ","} \/ (i < Len(text) /\ text[i + 1] = "(")

Broken == {RemoveAt(t, i) : <<t, i>> \in
             UNION {{<<MCWritten[l], i>> : i \in {i \in DOMAIN MCWritten[l] : Structural(MCWritten[l], i)}} :
                    l \in {"two", "deep"}}}

AllTexts == {MCWritten[l] : l \in DOMAIN MCMeant} \cup {WideText} \cup Broken

Parsed == Tabulate(LAMBDA t : IF NewFilters(t) = {} THEN Invalid ELSE CHOOSE l \in NewFilters(t) : TRUE,
                   AllTexts)

AllNamed == UNION {Range(Parsed[t]) : t \in {t \in AllTexts : Parsed[t] # Invalid}}
AllNames == {n.name : n \in AllNamed}

RECURSIVE PartsOf(_), HeightOf(_)
PartsOf(filter) == {filter} \cup UNION {PartsOf(filter.kids[i]) : i \in DOMAIN filter.kids}
HeightOf(filter) == IF filter.kids = <<>> THEN 0
                    ELSE 1 + Max({HeightOf(filter.kids[i]) : i \in DOMAIN filter.kids})

AllFilters == UNION {PartsOf(f) : f \in {n.filter : n \in AllNamed} \cup UNION {Range(MCMeant[l]) : l \in DOMAIN MCMeant}}

Meaning == Tabulate(LAMBDA t : IF \E l \in DOMAIN MCMeant : t = MCWritten[l]
                               THEN Meant(MCMeant[CHOOSE l \in DOMAIN MCMeant : t = MCWritten[l]])
                               ELSE Invalid, AllTexts)

MCTexts == AllTexts
MCNew == Parsed
MCFilters == AllFilters
MCNames == AllNames
MCHeight == Tabulate(HeightOf, AllFilters)
MCAsked == Meaning

Shell(uid, env, pids, texts) ==
  [uid |-> uid, env |-> env, pids |-> IF pids = "none" THEN NoText ELSE MCWritten[pids],
   custom |-> texts]

Of(names) == [i \in DOMAIN names |-> MCWritten[names[i]]]

MCInfo == (p1 :> [pfns |-> {1, 2}, uid |-> 0, env |-> "A"])
       @@ (p2 :> [pfns |-> {2, 3}, uid |-> 1000, env |-> "A"])
       @@ (p3 :> [pfns |-> {3}, uid |-> 1001, env |-> "none"])

MCScans ==
  [cli : {Shell(TRUE, TRUE, "one", Of(<<"gone">>))}, info : [MCPids -> MCInfos]]
  \cup
  [cli : {Shell(FALSE, FALSE, "two", Of(<<"deep", "kin">>)), Shell(FALSE, FALSE, "none", Of(<<"deep", "gone">>))}
         \cup {Shell(FALSE, FALSE, "none", <<MCWritten["kin"], t, MCWritten["one"]>>) :
                 t \in {WideText} \cup Broken},
   info : {MCInfo}]

\* The lists are written as above, and all other texts are refused.
MCLists == {MCMeant[l] : l \in DOMAIN MCMeant}

ASSUME WrittenSo == \A l \in DOMAIN MCMeant : TextOf(MCMeant[l]) = MCWritten[l]
ASSUME AllUnderstood == \A text \in Texts : Understood(text)

\* One filter given twice in a list
MCTwice == [cli : {Shell(TRUE, TRUE, "one", Of(<<"twice">>))}, info : [MCPids -> MCInfos]]

=============================================================================
