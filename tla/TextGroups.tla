----------------------------- MODULE TextGroups -----------------------------
(***************************************************************************)
(* "memstats groups" on the texts of its command line: the reports of      *)
(* module Groups, of the filters that module Filters parses.               *)
(***************************************************************************)
EXTENDS Groups, Filters

CONSTANT Lists  \* lists of filters, as users mean them

\* A splitter is made of what its text is parsed to.
ASSUME ParserAssumption ==
  \A text \in Texts :
    New[text] = IF NewFilters(text) = {} THEN Invalid ELSE CHOOSE list \in NewFilters(text) : TRUE

\* Filters are those that can be written.  (parse has others: the value of
\* env_kv(K,(a,b)) ends at the second comma, within the parentheses.)
ASSUME WritableAssumption == \A filter \in Filters : Writable(filter)

IsWritten(text) == \E list \in Lists : text = TextOf(list)

\* A text means the list that is written so, if there is one.
ASSUME MeaningAssumption ==
  /\ Lists \subseteq Seq(Filters) \ {<<>>}
  /\ \A text \in Texts : IF IsWritten(text) THEN \E list \in Lists : text = TextOf(list) /\ Asked[text] = Meant(list)
                         ELSE Asked[text] = Invalid

Understood(text) == IsWritten(text) \/ NewFilters(text) = {}

\* Every list on the command line is written as somebody means it, or refused.
TextsUnderstood == /\ cli.pids # NoText => Understood(cli.pids)
                   /\ \A n \in DOMAIN cli.custom : Understood(cli.custom[n])

=============================================================================
