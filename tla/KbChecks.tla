------------------------------ MODULE KbChecks ------------------------------
(***************************************************************************)
(* euclid_mcp/validation.py and linter.py: what run_check_kb reports of a  *)
(* text.  A goal keeps its predicate, arity and variables; how its         *)
(* arguments read is left out.                                             *)
(***************************************************************************)
EXTENDS StatementLines, Integers

CONSTANTS
  Negated,      \* goals that begin with NOT
  Predicate,    \* of a goal that is a term, or of the goal it negates
  Arity,        \* of that term
  Vars,         \* the variables in a goal
  Closed,       \* words that end with a parenthesis
  Unfinished,   \* the predicate whose "p(" a word of Junk opens with
  Excess,       \* of a word of Junk: the parentheses it opens and does not close
  NoPredicate   \* of a report that names no predicate

ASSUME ChecksAssumption ==
  /\ Negated \subseteq BodyOnly
  /\ DOMAIN Predicate = (Goal \ BodyOnly) \cup Negated
  /\ Arity \in [DOMAIN Predicate -> Nat]
  /\ DOMAIN Vars = Goal
  /\ Closed \subseteq Goal \cup Junk
  /\ DOMAIN Unfinished = Junk /\ Excess \in [Junk -> Int]
  /\ NoPredicate \notin Id \cup {"if", "and"} \cup {Predicate[g] : g \in DOMAIN Predicate}
                         \cup {Unfinished[w] : w \in Junk}

----------------------------------------------------------------------------
(* _extract_predicate.                                                     *)

\* Of name(...) or of an atom, NOT looked through: the name.  All that the
\* pattern sees of a longer text is how it begins and that it ends with a
\* parenthesis.
NameOf(words) ==
  LET w == Head(words)
      ends == Last(words) \in Closed
      atom == Len(words) = 1 /\ w \notin Closed
  IN  CASE words # <<>> /\ w \in DOMAIN Predicate ->
             IF atom \/ (w \in Closed /\ ends) THEN Predicate[w] ELSE NoPredicate
        [] words # <<>> /\ w \in Junk -> IF ends THEN Unfinished[w] ELSE NoPredicate
        [] words # <<>> /\ w \in {"if", "and"} -> IF atom THEN w ELSE NoPredicate
        [] OTHER -> NoPredicate

\* Of a fact, a head or a query, where NOT is no name's beginning.
NameOfTerm(words) ==
  IF words # <<>> /\ words[1] \in BodyOnly THEN NoPredicate ELSE NameOf(words)

\* Of a text that opens with name( and goes on in whatever way.
Opening(words) ==
  LET w == Head(words) IN
  CASE words # <<>> /\ w \in Junk -> Unfinished[w]
    [] words # <<>> /\ w \in (DOMAIN Predicate \cap Closed) \ Negated -> Predicate[w]
    [] OTHER -> NoPredicate

\* _split_conjunction: the texts between the commas of a body that are in no
\* parenthesis.
GoalsOf(body) ==
  LET depth[i \in 0..Len(body)] ==
        IF i = 0 THEN 0 ELSE depth[i - 1] + IF body[i] \in Junk THEN Excess[body[i]] ELSE 0
      cuts == {i \in Splits(body) : depth[i - 1] = 0} \cup {0, Len(body) + 1}
      between == {c \in cuts \X cuts : c[1] < c[2] /\ ((c[1] + 1)..(c[2] - 1)) \cap cuts = {}}
  IN  {SubSeq(body, c[1] + 1, c[2] - 1) : c \in between}

\* _body_predicates.
BodyPredicates(rule) == {NameOf(g) : g \in GoalsOf(rule.body)} \ {NoPredicate}

RulesOf(p, name) == {r \in ToSet(p.rules) : NameOfTerm(r.head) = name}
FactsOf(p, name) == {f \in ToSet(p.facts) : NameOfTerm(f) = name}

Defined(p) ==
  ({NameOfTerm(f) : f \in ToSet(p.facts)} \cup {NameOfTerm(r.head) : r \in ToSet(p.rules)})
    \ {NoPredicate}

\* The arities, facts and rules of a predicate: an entry of the inventory.  The
\* arity of a statement of several words, which is no term, is left out.
Inventory(p, name) ==
  [arities |-> {Arity[w] : w \in {v \in DOMAIN Predicate \ Negated :
                    Predicate[v] = name /\ \/ <<v>> \in FactsOf(p, name)
                                           \/ \E r \in RulesOf(p, name) : r.head = <<v>>}},
   facts   |-> Cardinality({i \in DOMAIN p.facts : NameOfTerm(p.facts[i]) = name}),
   rules   |-> Cardinality({i \in DOMAIN p.rules : NameOfTerm(p.rules[i].head) = name})]

----------------------------------------------------------------------------
(* run_check_kb.                                                           *)

Report(type, name) == [type |-> type, name |-> name]

LiteralNames == {Predicate[l] : l \in Literal}

\* Check 3: NOT is looked through; a literal needs no definition.
UndefinedInBodies(p) ==
  UNION {BodyPredicates(r) : r \in ToSet(p.rules)}
    \ (Defined(p) \cup LiteralNames)

\* Defect: facts are no base cases.
BaseIsRule(p, name) == \E r \in RulesOf(p, name) : name \notin BodyPredicates(r)

\* Check 4: something defines the predicate without calling it.
HasBase(p, name) ==
  FactsOf(p, name) # {} \/ \E r \in RulesOf(p, name) : name \notin BodyPredicates(r)

Circular(p) ==
  {name \in Defined(p) : RulesOf(p, name) # {} /\ ~HasBase(p, name)}

\* Check 5.
UndefinedInQuery(p) ==
  IF p.query = <<>> THEN {} ELSE {NameOfTerm(p.query)} \ (Defined(p) \cup {NoPredicate})

Errors(lines) ==
  LET p == Parse(lines)
  IN  IF ParseRaises(lines) THEN {Report("parse_error", NoPredicate)}
      ELSE (IF Parseable(p) THEN {} ELSE {Report("parse_error", NoPredicate)})
           \cup {Report("undefined_predicate", n) :
                   n \in UndefinedInBodies(p) \cup UndefinedInQuery(p)}
           \cup {Report("circular_rule", n) : n \in Circular(p)}

\* Check 6, lint_rule: the parser has joined the goals of a body with commas,
\* so to the linter a body is one goal.
Unsafe(rule) ==
  /\ rule.body # <<>> /\ rule.body[1] \in Negated
  /\ \E i \in DOMAIN rule.body : rule.body[i] \in Goal /\ Vars[rule.body[i]] # {}

\* Checks 2, 6, 7 and 8.  A duplicate is named by what precedes its parenthesis;
\* that it may be no name, and be looked for all the same, is left out.
Warnings(lines) ==
  LET p == Parse(lines)
      twice(s) == {s[i] : i \in {j \in DOMAIN s : \E k \in 1..(j - 1) : s[k] = s[j]}}
      opening(f) == IF Opening(f) # NoPredicate THEN Opening(f) ELSE NameOfTerm(f)
      ids == [i \in DOMAIN p.rules |-> p.rules[i].id]
  IN  IF ParseRaises(lines) THEN {}
      ELSE {Report("duplicate_fact", opening(f)) : f \in twice(p.facts)}
           \cup {Report("unsafe_negation", NoPredicate) : r \in {s \in ToSet(p.rules) : Unsafe(s)}}
           \cup {Report("duplicate_rule_id", id[1]) : id \in twice(ids) \ {<<>>}}
           \cup {Report("inconsistent_arity", n) :
                   n \in {m \in Defined(p) : Cardinality(Inventory(p, m).arities) > 1}}

CheckPasses(lines) == Errors(lines) = {}

----------------------------------------------------------------------------
(* Properties of the checks.                                               *)

Negates(goal) == goal # <<>> /\ goal[1] \in Negated

\* The predicates that have a derivation if every negation and comparison
\* holds: the literals and what the statements derive from them.
MayHold(p) ==
  LET names == Defined(p) \cup LiteralNames
      callsOf(r) == {NameOf(g) : g \in {h \in GoalsOf(r.body) : ~Negates(h)}} \ {NoPredicate}
      derived(H) == {m \in Defined(p) : \/ FactsOf(p, m) # {}
                                        \/ \E r \in RulesOf(p, m) : callsOf(r) \subseteq H}
  IN  {m \in names : \A H \in SUBSET names :
                        LiteralNames \cup derived(H) \subseteq H => m \in H}

NegatesItself(p, name) ==
  \E r \in RulesOf(p, name) :
    \E g \in GoalsOf(r.body) : Negates(g) /\ NameOf(g) = name

\* A predicate reported as circular has no derivation, whatever the other
\* statements are; unless it recurs through its own negation, or has the name of
\* a literal, as true($x) would.
CircularNeverHolds(lines) ==
  LET p == Parse(lines)
  IN  \A e \in Errors(lines) :
        e.type = "circular_rule" /\ e.name \notin LiteralNames /\ ~NegatesItself(p, e.name)
          => e.name \notin MayHold(p)
=============================================================================
