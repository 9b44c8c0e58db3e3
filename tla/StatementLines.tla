--------------------------- MODULE StatementLines ---------------------------
(***************************************************************************)
(* How euclid_mcp/language.py groups the lines of a text into facts, rules *)
(* and a query, and what check_kb then refuses as a parse error.  A line   *)
(* is the sequence of its words that matter: a goal is one word, and so is *)
(* a comment that gives a rule its id; a blank line and any other comment  *)
(* are empty.  YAML texts, the version line and the forms of goals are not *)
(* modelled.  A goal is a comparison, an atom or name(...), with a name of *)
(* letters, digits and underscores that begins with a letter, no blank     *)
(* before the parenthesis, in the normal form C that parse gives a text:   *)
(* of the terms _p(x), a-b(x), 3 and p (x), which the parser takes too,    *)
(* check_kb and the editor make different things.                          *)
(***************************************************************************)
EXTENDS Naturals, Sequences, FiniteSets, SequencesExt

CONSTANTS
  Goal,         \* goals the term parser accepts
  EndsInAnd,    \* those whose last letters are "and": demand, $c == sand
  BodyOnly,     \* goals that are no terms: NOT p, $x > 1
  Literal,      \* true and false
  Dangerous,    \* words the sanitizer rejects: halt(0)
  Junk,         \* words no goal can be: human(socrates
  Id            \* comments that end a line: # rule: r1

ASSUME LinesAssumption ==
  /\ EndsInAnd \subseteq Goal /\ BodyOnly \subseteq Goal
  /\ Literal \subseteq Goal \ BodyOnly /\ Dangerous \subseteq Goal \cup Junk
  /\ (Goal \cup Junk \cup Id) \cap {"if", "and", "?"} = {}
  /\ Id \cap (Goal \cup Junk) = {} /\ Junk \cap Goal = {}

Word == Goal \cup Junk \cup Id \cup {"if", "and", "?"}

\* A comment takes the rest of its line.
Line == {l \in Seq(Word) : \A i \in 1..(Len(l) - 1) : l[i] \notin Id}

Starts(l, w) == l # <<>> /\ Head(l) = w

\* _strip_statement_line: the words of a line, and the id it gives.
EndsInId(l) == l # <<>> /\ Last(l) \in Id
Words(l) == IF EndsInId(l) THEN Front(l) ELSE l
IdOn(l)  == IF EndsInId(l) THEN <<Last(l)>> ELSE <<>>

\* " if " inside the line or " if" at its end: where the first one is.
Ifs(l) == {i \in 2..Len(l) : l[i] = "if"}
IsRule(l) == Ifs(l) # {}
FirstIf(l) == CHOOSE i \in Ifs(l) : \A j \in Ifs(l) : i <= j

----------------------------------------------------------------------------
(* _parse_text: one pass over the lines.  open holds the rule being read,  *)
(* if any, its body so far; bad is set once a line raises.                 *)

Nothing == [facts |-> <<>>, rules |-> <<>>, query |-> <<>>, open |-> <<>>, bad |-> FALSE]

\* Defect: the line after a bare "if" starts a statement.
WantsOnlyAfterAnd(r) == r.body # <<>> /\ Last(r.body) \in {"and"} \cup EndsInAnd

\* Whatever comes next belongs to this rule: its body is empty or ends with
\* the letters "and".
Wants(r) == r.body = <<>> \/ Last(r.body) \in {"and"} \cup EndsInAnd

Continues(p, l) == p.open # <<>> /\ (Wants(p.open[1]) \/ Starts(l, "and"))

\* The rule being read is complete.
Close(p) ==
  IF p.open = <<>> THEN p
  ELSE [p EXCEPT !.rules = Append(@, p.open[1]), !.open = <<>>]

\* A line that starts a statement; only a rule may have an id.
Begin(p, l, id) ==
  CASE Starts(l, "?") -> [p EXCEPT !.query = Tail(l), !.bad = @ \/ id # <<>>]
    [] ~Starts(l, "?") /\ IsRule(l) ->
         [p EXCEPT !.open = <<[head |-> SubSeq(l, 1, FirstIf(l) - 1),
                               body |-> SubSeq(l, FirstIf(l) + 1, Len(l)),
                               id   |-> id]>>]
    [] Starts(l, "and") /\ ~IsRule(l) -> [p EXCEPT !.bad = TRUE]
    [] OTHER -> [p EXCEPT !.facts = Append(@, l), !.bad = @ \/ id # <<>>]

\* The last id of a rule is its id; one on a line without words is not seen.
ReadLine(p, line) ==
  LET l == Words(line) IN
  IF l = <<>> THEN p
  ELSE IF Continues(p, l)
    THEN [p EXCEPT !.open[1].body = @ \o l,
                   !.open[1].id = IF IdOn(line) = <<>> THEN @ ELSE IdOn(line)]
  ELSE Begin(Close(p), l, IdOn(line))

Read(lines) == FoldLeft(ReadLine, Nothing, lines)

Parse(lines) == Close(Read(lines))

----------------------------------------------------------------------------
(* run_check_kb: the parse errors.                                         *)

\* parse: the sanitizer, the reader of lines and _normalize_kb raise.
ParseRaises(lines) ==
  LET p == Parse(lines)
  IN  \/ \E i \in DOMAIN lines : ToSet(lines[i]) \cap Dangerous # {}
      \/ p.bad
      \/ \E s \in ToSet(p.facts) \cup {p.rules[i].head : i \in DOMAIN p.rules} :
           Len(s) = 1 /\ s[1] \in Literal

\* Where a conjunction is split: at each "and" with a word on both sides
\* that does not follow another split.
Splits(words) ==
  LET split[i \in DOMAIN words] ==
        words[i] = "and" /\ i > 1 /\ i < Len(words) /\ ~split[i - 1]
  IN  {i \in DOMAIN words : split[i]}

\* Words a term may consist of: "if" and "and" alone are taken for atoms.
Atoms == Goal \cup {"if", "and"}

IsTerm(words) == Len(words) = 1 /\ words[1] \in Atoms \ BodyOnly

\* One atom between the splits.
IsConjunction(words) ==
  /\ words # <<>> /\ \A i \in DOMAIN words : words[i] \in Atoms
  /\ \A i \in 1..(Len(words) - 1) : i \in Splits(words) \/ i + 1 \in Splits(words)

\* The parser has split a body once before the goals are parsed, so an "and"
\* that follows a split may be dropped: "x and and y" passes.
IsBody(words) ==
  /\ words # <<>> /\ \A i \in DOMAIN words : words[i] \in Atoms
  /\ \A i \in 1..(Len(words) - 1) :
       \/ i \in Splits(words) \/ i + 1 \in Splits(words)
       \/ words[i] = "and" /\ i - 1 \in Splits(words)

\* The backends' parser takes all statements.  A rule may lack a body.
Parseable(p) ==
  /\ \A i \in DOMAIN p.facts : IsTerm(p.facts[i])
  /\ \A i \in DOMAIN p.rules :
       /\ IsTerm(p.rules[i].head)
       /\ p.rules[i].body = <<>> \/ IsBody(p.rules[i].body)
  /\ p.query = <<>> \/ IsConjunction(p.query)

\* No parse error.
Valid(lines) == ~ParseRaises(lines) /\ Parseable(Parse(lines))

----------------------------------------------------------------------------
(* The documented grammar.                                                 *)

\* docs/EUCLID_IR.md:341-352: a statement continues on the next line if it ends
\* with IF or AND so far, or if that line starts with AND; only a rule does.
\* The IF is the one after the head: an "if" in a body is an atom.
ContinuesAbove(s, l) ==
  /\ IsRule(s) /\ ~Starts(s, "?")
  /\ FirstIf(s) = Len(s) \/ Last(s) = "and" \/ Starts(l, "and")

JoinLine(statements, l) ==
  CASE l = <<>> -> statements
    [] l # <<>> /\ statements # <<>> /\ ContinuesAbove(Last(statements), l) ->
         Append(Front(statements), Last(statements) \o l)
    [] OTHER -> Append(statements, l)

\* The statements of a text, each as all of its words, in order.
DocumentedStatements(text) ==
  LET upto[i \in 0..Len(text)] ==
        IF i = 0 THEN <<>> ELSE JoinLine(upto[i - 1], Words(text[i]))
  IN  upto[Len(text)]

\* Where the facts and the rules are among them.
FactPlaces(statements) ==
  {i \in DOMAIN statements : ~IsRule(statements[i]) /\ ~Starts(statements[i], "?")}
RulePlaces(statements) ==
  {i \in DOMAIN statements : IsRule(statements[i]) /\ ~Starts(statements[i], "?")}

\* found is the statements chosen, in the order of the text.
Lists(found, statements, chosen) ==
  /\ Len(found) = Cardinality(chosen)
  /\ \A i \in chosen : found[Cardinality({j \in chosen : j <= i})] = statements[i]

WordsOf(rules) ==
  [i \in 1..Len(rules) |-> rules[i].head \o <<"if">> \o rules[i].body]

\* No line ends with a goal that the parser mistakes for one to be continued.
EndsPlainly(text) ==
  \A i \in DOMAIN text : Words(text[i]) # <<>> => Last(Words(text[i])) \notin EndsInAnd

\* The parser finds the statements the documentation describes.
GroupsAsDocumented(text) ==
  LET p == Parse(text)
      statements == DocumentedStatements(text)
  IN  ~p.bad =>
        /\ Lists(p.facts, statements, FactPlaces(statements))
        /\ Lists(WordsOf(p.rules), statements, RulePlaces(statements))
=============================================================================
