------------------------------ MODULE Filters ------------------------------
(***************************************************************************)
(* The texts of filters: parse (src/filters.rs:140-276), and the list of   *)
(* filters of a custom splitter (src/groups.rs:170-204).                   *)
(*                                                                         *)
(* A text is a sequence of tokens: parentheses, separators and words, each *)
(* of which stands for its characters.  What the parser computes is        *)
(* positions, and it mixes those of bytes (find, char_indices, slices) with *)
(* those of characters (take, skip, count): here a token is one character, *)
(* and the wide ones are two bytes.  What may fail returns a set: of its    *)
(* result, or empty for an error or a panic, which both end in an unwrap.  *)
(* Recursions are functions: of the text, and of a position in it.         *)
(***************************************************************************)
EXTENDS FilterEval, SequencesExt, FiniteSetsExt

CONSTANTS
  Tokens,   \* what texts are made of
  Wide,     \* words that are not ASCII
  Numbers   \* words that are numbers

Marks == {"(", ")", ","}
Ops == Operators \cup Reading \cup Knowing

ASSUME TokenAssumption == Marks \cup Ops \cup Wide \subseteq Tokens /\ Wide \cap (Marks \cup Ops) = {}
ASSUME ArgumentAssumption == \A filter \in Filters : filter.arg \in Seq(Tokens)

-----------------------------------------------------------------------------
(* Positions *)

Bytes(text) == Len(text) + Cardinality({i \in DOMAIN text : text[i] \in Wide})

Before(text, i) == Bytes(SubSeq(text, 1, i - 1))

\* &text[from..] and &text[..to], which panic inside a character
From(text, from) ==
  {SubSeq(text, i, Len(text)) : i \in {i \in 1 .. Len(text) + 1 : Before(text, i) = from}}

To(text, to) == {SubSeq(text, 1, i - 1) : i \in {i \in 1 .. Len(text) + 1 : Before(text, i) = to}}

Count(token, text) == Cardinality({i \in DOMAIN text : text[i] = token})

Depth(text) == Count("(", text) - Count(")", text)

\* find_match_par: where the parentheses opened from the character idx on are
\* closed for the first time, in bytes
Closing(text, idx) ==
  {Before(text, j) : j \in {j \in idx + 1 .. Len(text) :
                              /\ Depth(SubSeq(text, idx + 1, j)) = 0
                              /\ \A k \in idx + 1 .. j - 1 : Depth(SubSeq(text, idx + 1, k)) > 0}}

\* chars().skip(from).take(n)
Chars(text, from, n) == SubSeq(text, from + 1, IF from + n < Len(text) THEN from + n ELSE Len(text))

\* split(',')
Fields(text) ==
  LET commas == {i \in DOMAIN text : text[i] = ","}
      first == IF commas = {} THEN Len(text) + 1 ELSE Min(commas)
      rest == commas \ {first}
      second == IF rest = {} THEN Len(text) + 1 ELSE Min(rest)
  IN  [one |-> commas = {}, key |-> SubSeq(text, 1, first - 1),
       value |-> SubSeq(text, first + 1, second - 1)]

-----------------------------------------------------------------------------
(* parse *)

Leaf(op, arg) == [op |-> op, arg |-> arg, kids |-> <<>>]
Node(op, kids) == [op |-> op, arg |-> <<>>, kids |-> kids]

IsNumber(text) == Len(text) = 1 /\ text[1] \in Numbers

\* A list of what begins at a position, each with the bytes it takes: whatever
\* character follows is skipped.
Items(text, first) ==
  LET items[from \in 0 .. Len(text)] ==
        UNION {LET next == from + this.ate + 1
               IN  IF next > Len(text) THEN {<<this.item>>}
                   ELSE {<<this.item>> \o others : others \in items[next]} :
                 this \in first[from]}
  IN  items[0]

\* The children of and, or
Children(inner, parse) ==
  Items(inner, [from \in 0 .. Len(inner) |-> UNION {parse[rest] : rest \in From(inner, from)}])

\* What is between parentheses, by the name before it
Operator(name, inner, parse) ==
  LET pair == Fields(inner)
      is(ops) == name \in {<<op>> : op \in ops}
  IN  CASE is({"and", "or"}) -> {Node(name[1], kids) : kids \in Children(inner, parse)}
        [] is({"not"}) -> {Node("not", <<child.item>>) : child \in parse[inner]}
        [] is({"descendants", "pid", "uid"}) /\ IsNumber(inner) -> {Leaf(name[1], inner)}
        [] is({"env_kv"}) /\ ~pair.one -> {Leaf("env_kv", pair.key \o <<",">> \o pair.value)}
        [] is({"comm", "env_k", "true", "false"}) -> {Leaf(name[1], inner)}
        [] OTHER -> {}

\* The filter a text begins with, and how many bytes of the text it takes;
\* what follows is not looked at, inside not(..) either.
ParseGiven(text, parse) ==
  LET opens == {i \in DOMAIN text : text[i] = "("}
      opening == Before(text, Min(opens))
  IN  IF opens = {} THEN {}
      ELSE UNION {{[item |-> filter, ate |-> closing + 1] :
                     filter \in Operator(Chars(text, 0, opening),
                                         Chars(text, opening + 1, closing - opening - 1), parse)} :
                    closing \in Closing(text, opening)}

Parse[text \in Seq(Tokens)] == ParseGiven(text, Parse)

-----------------------------------------------------------------------------
(* ProcessSplitterCustomFilter::new *)

Ascii(text) == \A i \in DOMAIN text : text[i] \notin Wide

\* Mutant: the piece ends before the parenthesis that closes it.
PieceOpen(text) ==
  UNION {{[item |-> [name |-> name, filter |-> first.item], ate |-> first.ate] :
            name \in To(text, first.ate - 1)} : first \in Parse[text]}

\* The filter a text begins with, under the piece it was parsed from
Piece(text) ==
  UNION {{[item |-> [name |-> name, filter |-> first.item], ate |-> first.ate] :
            name \in To(text, first.ate)} : first \in Parse[text]}

\* The loop
Loop(text) == Items(text, [from \in 0 .. Len(text) |-> UNION {Piece(rest) : rest \in From(text, from)}])

\* The filters of a text
NewFilters(text) == IF Ascii(text) THEN Loop(text) ELSE {}

-----------------------------------------------------------------------------
(* The reference: what a filter is written as *)

\* Texts with commas between them
Joined(texts) ==
  LET joined[n \in 1 .. Len(texts)] ==
        IF n = Len(texts) THEN texts[n] ELSE texts[n] \o <<",">> \o joined[n + 1]
  IN  joined[1]

\* What a filter is written as, given what its parts are
WriteGiven(filter, texts) ==
  <<filter.op, "(">> \o (IF filter.kids = <<>> THEN filter.arg ELSE Joined(texts)) \o <<")">>

Written[filter \in Filters] == WriteGiven(filter, [i \in DOMAIN filter.kids |-> Written[filter.kids[i]]])

TextOf(list) == Joined([i \in DOMAIN list |-> Written[list[i]]])

Meant(list) == [i \in DOMAIN list |-> [name |-> Written[list[i]], filter |-> list[i]]]

\* Texts whose parentheses match
Closed(text) == Depth(text) = 0 /\ \A n \in 0 .. Len(text) : Depth(SubSeq(text, 1, n)) >= 0

\* Filters that can be written: operators have parts, and arguments are ASCII, have
\* no parenthesis alone, and are of the form that the operator asks for.
Writable(filter) ==
  \/ /\ filter.op \in Operators /\ filter.kids # <<>>
     /\ filter = Node(filter.op, filter.kids)
  \/ /\ filter.op \in Reading \cup Knowing
     /\ filter = Leaf(filter.op, filter.arg)
     /\ Ascii(filter.arg) /\ Closed(filter.arg)
     /\ filter.op \in {"descendants", "pid", "uid"} => IsNumber(filter.arg)
     /\ filter.op = "env_kv" => Count(",", filter.arg) = 1

=============================================================================
