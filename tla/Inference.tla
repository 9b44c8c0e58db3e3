------------------------------ MODULE Inference ------------------------------
(***************************************************************************)
(* The two provers a query can run on: the native solver of                *)
(* euclid_mcp/ir_engine.py and the meta-interpreter euclid_mcp/            *)
(* translator.py sends to the Prolog engine.  Both search depth first,     *)
(* under a bound on nested rules, and return the first few proofs.         *)
(*                                                                         *)
(* A goal is a ground atom, true, false or an operation: unification is    *)
(* equality, and an operation has an outcome on each backend.  A generator *)
(* is the stream of proofs it would yield if it were resumed for ever,     *)
(* which may end in an error; taking the first proof only never reaches    *)
(* that error.                                                             *)
(***************************************************************************)
EXTENDS Naturals, Sequences, FiniteSets, SequencesExt

CONSTANTS
  Atom,        \* ground atoms
  Operation,   \* goals with an infix operator: "1 < $x", "$x is 2 + 1", "a = $y"
  Arithmetic,  \* those that reach Prolog as what is_arith_goal lists
  Value,       \* what each backend's evaluation of an operation comes to
  RuleId,      \* rule ids; not "null", which the Prolog backend takes for none
  NoId,        \* a rule without one; the empty field of a proof node
  Jobs         \* queries: knowledge base, goals, depth, cap and backend

Backend == {"native", "prolog"}
Literal == [neg : BOOLEAN, goal : Atom \cup Operation \cup {"true", "false"}]

\* A statement.  text is its rank among the statements of its predicate, in
\* the text each backend sorts by: Euclid-IR or translated.  Only rules have ids.
Clause ==
  {c \in [head : Atom, body : Seq(Literal), id : RuleId \cup {NoId}, text : [Backend -> Nat]] :
     c.body = <<>> => c.id = NoId}

IsJob(j) ==
  /\ DOMAIN j = {"kb", "goals", "depth", "cap", "backend"}
  /\ j.kb \in Seq(Clause) /\ j.goals \in Seq(Literal) \ {<<>>}
  /\ j.depth \in Nat /\ j.cap \in Nat \ {0} /\ j.backend \in Backend

ASSUME InferenceAssumption ==
  /\ IsFiniteSet(Atom) /\ Atom \cap {"true", "false", "error"} = {} /\ NoId \notin RuleId
  /\ Operation \cap (Atom \cup {"true", "false"}) = {} /\ Arithmetic \subseteq Operation
  /\ Value \in [Operation -> [Backend -> {"true", "false", "error"}]]
  /\ \A j \in Jobs : IsJob(j)

VARIABLES
  job,
  pending,     \* the suspended generator: what it has still to yield
  found,       \* the solutions so far
  status       \* "searching", "ok" or "error"

vars == <<job, pending, found, status>>

----------------------------------------------------------------------------
(* Proof trees and streams.                                                *)

Node(type, goal, body, id, parts) ==
  [type |-> type, goal |-> goal, body |-> body, id |-> id, parts |-> parts]

TrueNode        == Node("true", NoId, <<>>, NoId, <<>>)
AndNode(l, r)   == Node("and", NoId, <<>>, NoId, <<l, r>>)
NegNode(g)      == Node("neg", g, <<>>, NoId, <<>>)
FactNode(g)     == Node("fact", g, <<>>, NoId, <<>>)
RuleNodeWithoutId(c, p) == Node("rule", c.head, c.body, NoId, <<p>>)
RuleNode(c, p)  == Node("rule", c.head, c.body, c.id, <<p>>)

Yield(proofs) == [proofs |-> proofs, raised |-> FALSE]
Fail          == Yield(<<>>)
Raise         == [proofs |-> <<>>, raised |-> TRUE]

\* One generator after another, unless the first raises.
Then(s, t) ==
  IF s.raised THEN s ELSE [proofs |-> s.proofs \o t.proofs, raised |-> t.raised]

\* For each proof of the first goal, those of the other goals.  An error
\* among the latter ends everything, as soon as the first goal has a proof.
Both(s, t) ==
  LET n == Len(t.proofs)
  IN  CASE s.proofs = <<>> -> s
        [] s.proofs # <<>> /\ t.raised ->
             [t EXCEPT !.proofs = [k \in 1..n |-> AndNode(s.proofs[1], @[k])]]
        [] OTHER ->
             [s EXCEPT !.proofs = [k \in 1..(Len(@) * n) |->
                                     AndNode(@[((k - 1) \div n) + 1], t.proofs[((k - 1) % n) + 1])]]

----------------------------------------------------------------------------
(* The provers.                                                            *)

\* `=` is not an arithmetic goal, and an operation without variables may reach
\* Prolog as a quoted atom.  The built-in guard fails the one, and no clause
\* proves the other.
Outcome(g, b) ==
  IF b = "prolog" /\ g \notin Arithmetic THEN "false" ELSE Value[g][b]

\* What is left of a goal to prove.
Reduced(g, b) == IF g \in Operation THEN Outcome(g, b) ELSE g

TrueBody == <<[neg |-> FALSE, goal |-> "true"]>>

ProvesAnyTrueAsFact(c) == c.body \in {<<>>, TrueBody}

\* The native _proves_as_fact.
ProvesAsFact(c) == c.body = <<>> \/ (c.body = TrueBody /\ c.id = NoId)

\* The clauses clause(Goal, true) finds: _translate_rule puts the marker
\* euclid_rule_id in front of the body of a rule with an id.
TranslatedBody(c) ==
  IF c.id = NoId THEN c.body ELSE <<[neg |-> FALSE, goal |-> "marker"]>> \o c.body

FactClause(c, b) ==
  IF b = "native" THEN ProvesAsFact(c) ELSE TranslatedBody(c) \in {<<>>, TrueBody}

\* The order clauses are tried in.  prove/3 looks for facts in a clause of its
\* own, before the clause that looks for rules.
Precedes(c, d, b) ==
  IF b = "prolog" /\ FactClause(c, b) # FactClause(d, b) THEN FactClause(c, b)
  ELSE c.text[b] <= d.text[b]

\* One more clause among those sorted so far.
Placed(s, c, b) ==
  InsertAt(s, Cardinality({i \in DOMAIN s : Precedes(s[i], c, b)}) + 1, c)

\* The clauses of an atom.
Candidates(kb, b, a) ==
  LET sorted[i \in 0..Len(kb)] ==
        IF i = 0 THEN <<>>
        ELSE IF kb[i].head = a THEN Placed(sorted[i - 1], kb[i], b) ELSE sorted[i - 1]
  IN  sorted[Len(kb)]

NegatedFailingOnError(g, s) ==
  IF s.proofs # <<>> \/ s.raised THEN Fail ELSE Yield(<<NegNode(g)>>)

\* Negation as failure: the first proof, or an error before it, decides.
Negated(g, s) ==
  IF s.proofs # <<>> THEN Fail
  ELSE IF s.raised THEN Raise ELSE Yield(<<NegNode(g)>>)

\* A literal, given the streams of the atoms.
ProveLiteral(l, b, streams) ==
  LET g == Reduced(l.goal, b)
      s == CASE g = "true"  -> Yield(<<TrueNode>>)
             [] g = "false" -> Fail
             [] g = "error" -> Raise
             [] OTHER       -> streams[g]
  IN  IF l.neg THEN Negated(l.goal, s) ELSE s

\* _prove_goals, prove((A, B), ...): a conjunction nests to the right.
ProveGoals(goals, b, streams) ==
  LET last[n \in 0..Len(goals)] ==
        LET first == ProveLiteral(goals[Len(goals) + 1 - n], b, streams)
        IN  CASE n = 0 -> Yield(<<TrueNode>>)
              [] n = 1 -> first
              [] OTHER -> Both(first, last[n - 1])
  IN  last[Len(goals)]

DepthLeftForTwo(d) == d > 1

\* A rule can be used with this much depth left.
DepthLeft(d) == d > 0

\* One clause: as a fact at any depth, as a rule with one level less for its
\* body.  below are the streams at that level.
ProveClause(c, b, d, below) ==
  IF FactClause(c, b) THEN Yield(<<FactNode(c.head)>>)
  ELSE IF ~DepthLeft(d) THEN Fail
  ELSE LET s == ProveGoals(c.body, b, below)
       IN  [s EXCEPT !.proofs = [i \in DOMAIN @ |-> RuleNode(c, @[i])]]

\* _prove_predicate: one clause after the other.
ProveAtom(kb, b, d, below, a) ==
  LET cs == Candidates(kb, b, a)
      upto[i \in 0..Len(cs)] ==
        IF i = 0 THEN Fail ELSE Then(upto[i - 1], ProveClause(cs[i], b, d, below))
  IN  upto[Len(cs)]

\* The streams of all atoms at a depth.
Streams(kb, b, depth) ==
  LET level[n \in 0..(depth + 1)] ==
        [a \in Atom |-> IF n = 0 THEN Fail ELSE ProveAtom(kb, b, n - 1, level[n - 1], a)]
  IN  level[depth + 1]

Negates(goals) == \E i \in DOMAIN goals : goals[i].neg

\* One operation is all of the query.
Operates(goals) == Len(goals) = 1 /\ goals[1].goal \in Operation

\* _translate_query leaves NOT as it is.  Prolog reads "NOT a" as an atom of
\* that name, which no clause proves; "not a" is a syntax error.  So it is with
\* "Query = X > 1", and "Query = '2 > 1'" is an atom.
ReadAlike(j) == ~Negates(j.goals) /\ ~Operates(j.goals)
Misread(j)   == j.backend = "prolog" /\ ~ReadAlike(j)

QueryGoals(j) ==
  [i \in DOMAIN j.goals |->
     IF Misread(j) /\ (j.goals[i].neg \/ Operates(j.goals))
     THEN [neg |-> FALSE, goal |-> "false"] ELSE j.goals[i]]

Search(j) == ProveGoals(QueryGoals(j), j.backend, Streams(j.kb, j.backend, j.depth))

Searches(j) == {Search(j)} \cup IF Misread(j) THEN {Raise} ELSE {}

----------------------------------------------------------------------------
(* Consuming the generator.                                                *)

\* _Solver.solve breaks out of its loop; the query snippet of the Prolog
\* backend fails its generator, which is then searched to the end.
StopsLate(n)    == job.backend = "native" /\ n > job.cap
Stops(n)        == job.backend = "native" /\ n >= job.cap
Ignores(n)      == job.backend = "prolog" /\ n >= job.cap

Init ==
  /\ job \in Jobs
  /\ pending \in Searches(job)
  /\ found = <<>>
  /\ status = "searching"

\* The next proof is kept, and may be the last one wanted.
Keep ==
  /\ status = "searching" /\ pending.proofs # <<>>
  /\ ~Ignores(Len(found))
  /\ found' = Append(found, Head(pending.proofs))
  /\ pending' = [pending EXCEPT !.proofs = Tail(@)]
  /\ status' = IF Stops(Len(found')) THEN "ok" ELSE "searching"
  /\ UNCHANGED job

\* The next proof comes after the cap.
Ignore ==
  /\ status = "searching" /\ pending.proofs # <<>>
  /\ Ignores(Len(found))
  /\ pending' = [pending EXCEPT !.proofs = Tail(@)]
  /\ UNCHANGED <<job, found, status>>

\* The search is exhausted: with what it found, or in an error.
Exhaust ==
  /\ status = "searching" /\ pending.proofs = <<>>
  /\ status' = IF pending.raised THEN "error" ELSE "ok"
  /\ found' = IF pending.raised THEN <<>> ELSE found
  /\ UNCHANGED <<job, pending>>

\* _check_deadline, the engine's timeout, or Python's recursion limit.
GiveUp ==
  /\ status = "searching"
  /\ status' = "error" /\ found' = <<>>
  /\ UNCHANGED <<job, pending>>

Next == Keep \/ Ignore \/ Exhaust \/ GiveUp

Spec == Init /\ [][Next]_vars

----------------------------------------------------------------------------
(* What the answers should be.                                             *)

\* An operation holds where the backend's evaluation says so.
GoalsHold(goals, b, Holds(_)) ==
  \A i \in DOMAIN goals :
    LET g == Reduced(goals[i].goal, b)
    IN  (g = "true" \/ (g \in Atom /\ Holds(g))) # goals[i].neg

Clauses(j) == {j.kb[i] : i \in DOMAIN j.kb}

Definite(j) == \A goals \in {c.body : c \in Clauses(j)} \cup {j.goals} : ~Negates(goals)

\* What the clauses give in one step from the atoms below them, which facts do
\* not need.  "p IF true" without an id is a fact.
Given(j, n, below) ==
  {c.head : c \in {c \in Clauses(j) :
     \/ c.body = <<>>
     \/ c.id = NoId /\ c.body = <<[neg |-> FALSE, goal |-> "true"]>>
     \/ n > 0 /\ GoalsHold(c.body, j.backend, LAMBDA a : a \in below)}}

\* The atoms that follow by at most max_depth nested rules, bottom up.
Consequences(j) ==
  LET within[n \in 0..(j.depth + 1)] ==
        IF n = 0 THEN {} ELSE Given(j, n - 1, within[n - 1])
  IN  within[j.depth + 1]

\* No atom depends on itself, and the depth admits the longest dependency.
NonRecursive(j) ==
  /\ j.depth >= Cardinality(Atom)
  /\ \E rank \in [Atom -> 1..Cardinality(Atom)] :
       \A c \in Clauses(j) : \A i \in DOMAIN c.body :
         c.body[i].goal \in Atom => rank[c.body[i].goal] < rank[c.head]

\* The model of the completion: each atom holds iff the body of one of its
\* clauses does.  Unique for a non-recursive knowledge base.
Model(j) ==
  CHOOSE M \in SUBSET Atom :
    \A a \in Atom :
      a \in M <=> \E c \in Clauses(j) :
                    c.head = a /\ GoalsHold(c.body, j.backend, LAMBDA g : g \in M)

\* The proofs of a goal, given those of the atoms; one of its negation says
\* only that it has none.
GoalProofs(g, of) ==
  CASE g = "true" -> {TrueNode}
    [] g \in Atom -> of[g]
    [] OTHER      -> {}

LiteralProofs(l, b, of) ==
  LET P == GoalProofs(Reduced(l.goal, b), of)
  IN  IF ~l.neg THEN P ELSE IF P = {} THEN {NegNode(l.goal)} ELSE {}

Pairs(P, Q) == {AndNode(l, r) : l \in P, r \in Q}

\* One proof of each of the goals, nested to the right.
BodyProofs(goals, b, of) ==
  LET last[n \in 0..Len(goals)] ==
        LET first == LiteralProofs(goals[Len(goals) + 1 - n], b, of)
        IN  CASE n = 0 -> {TrueNode}
              [] n = 1 -> first
              [] OTHER -> Pairs(first, last[n - 1])
  IN  last[Len(goals)]

\* A fact proves itself; a rule, with depth left, by a proof of its body.  The
\* proof cites the rule under the id the rule has.
ClauseProofs(c, b, n, of) ==
  IF c.body = <<>> \/ (c.id = NoId /\ c.body = TrueBody) THEN {FactNode(c.head)}
  ELSE {Node("rule", c.head, c.body, c.id, <<p>>) :
          p \in IF n > 0 THEN BodyProofs(c.body, b, of) ELSE {}}

AtomProofs(j, n, of, a) ==
  UNION {ClauseProofs(c, j.backend, n, of) : c \in {c \in Clauses(j) : c.head = a}}

NoneYet == [a \in Atom |-> {}]
LevelProofs(j, n, of) == [a \in Atom |-> AtomProofs(j, n, of, a)]

\* All proofs of a query that nest at most max_depth rules.
Proofs(j) ==
  LET within[n \in 0..(j.depth + 1)] ==
        IF n = 0 THEN NoneYet ELSE LevelProofs(j, n - 1, within[n - 1])
  IN  BodyProofs(j.goals, j.backend, within[j.depth + 1])

Copies(s, p) == Cardinality({i \in DOMAIN s : s[i] = p})
Permuted(s, t) == Len(s) = Len(t) /\ \A i \in DOMAIN s : Copies(s, s[i]) = Copies(t, s[i])

Complete == status = "ok" /\ Len(found) < job.cap

OnOtherBackend ==
  Search([job EXCEPT !.backend = CHOOSE b \in Backend : b # job.backend])

\* Every operation the job may come to has one outcome on both backends.
SameOutcomes(j) ==
  \A goals \in {c.body : c \in Clauses(j)} \cup {j.goals} : \A i \in DOMAIN goals :
    Reduced(goals[i].goal, "native") = Reduced(goals[i].goal, "prolog")

----------------------------------------------------------------------------
(* Properties.                                                             *)

\* The solver's state has the types of the code's; a solve that is over has
\* at most max_solutions solutions, none after an error.
TypeOK ==
  /\ job \in Jobs
  /\ DOMAIN pending = {"proofs", "raised"} /\ pending.raised \in BOOLEAN
  /\ Len(found) <= job.cap
  /\ status \in {"searching", "ok", "error"}
  /\ status = "error" => found = <<>>

\* The native engine has the semantics of the meta-interpreter
\* (ir_engine.py:3): a query both read alike, answered to the end on one
\* backend, has the same proofs, each as often, on the other, unless the other
\* meets an error first, in its own clause order.  Queries that Prolog
\* misreads are left out, and knowledge bases or queries with an operation
\* whose outcome the backends do not share, as with `=` or `==` of symbols.
BackendsAgree ==
  Complete /\ ReadAlike(job) /\ SameOutcomes(job) /\ ~OnOtherBackend.raised
    => Permuted(found, OnOtherBackend.proofs)

\* Without negation a query is answered iff it follows within max_depth
\* nested rules: a rule too deep is never used and none within is missed.
AnsweredIffItFollows ==
  status = "ok" /\ Definite(job) /\ ~Misread(job) =>
    (found # <<>> <=> GoalsHold(job.goals, job.backend, LAMBDA a : a \in Consequences(job)))

AnsweredIffItHolds ==
  status = "ok" /\ NonRecursive(job) =>
    (found # <<>> <=> GoalsHold(job.goals, job.backend, LAMBDA a : a \in Model(job)))

\* With negation in rules, over knowledge bases without recursion and a depth
\* that does not bind, a query is answered iff it holds in the completion:
\* `not` succeeds on nothing that is provable, and a failure of `not` is
\* never an error in disguise.
NegationMeansFalse ==
  ~Misread(job) => AnsweredIffItHolds

\* The cap only truncates: on both backends, the one that breaks off and the
\* one that searches on, a solve that ends well has the first max_solutions
\* proofs of the whole search, or all of them.
CapOnlyTruncates ==
  status = "ok" =>
    found = SubSeq(Search(job).proofs, 1,
                   IF Len(Search(job).proofs) < job.cap
                   THEN Len(Search(job).proofs) ELSE job.cap)

\* Every solution carries a proof of the query: each rule node cites a rule of
\* the knowledge base under the id that rule has, each fact node a fact, a
\* negation node a goal that has no proof, and no branch nests more than
\* max_depth rules.  A solve that is over below its cap has found every proof
\* there is, whatever the order of the clauses.
ProofsAreProofs ==
  LET proofs == Proofs(job)
  IN  /\ ToSet(found) \subseteq proofs
      /\ Complete /\ ~Misread(job) => proofs \subseteq ToSet(found)

\* docs/EUCLID_IR.md:222 "`NOT predicate` succeeds when `predicate` cannot be
\* proven", of queries on the Prolog backend.
NegatedQueriesAnswered ==
  job.backend = "prolog" /\ Negates(job.goals) => AnsweredIffItHolds
=============================================================================
