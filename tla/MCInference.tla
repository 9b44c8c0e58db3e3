----------------------------- MODULE MCInference -----------------------------
(* Knowledge bases of up to four statements over three atoms.             *)
EXTENDS Inference

CONSTANTS
  MaxDepth,        \* bound: depths are 0..MaxDepth
  MaxStatements    \* bound: statements of a knowledge base

MCAtom == {"p", "q", "r"}
MCRuleId == {"r1"}

\* Operations, "$x" for a variable that is bound to 1 by then.  Of those without
\* a variable the translation quotes the ones that begin with a number.
MCOperation == {"$x < 2", "2 < $x", "1 < 2", "a < 1", "a = a", "a == a"}
MCArithmetic == MCOperation \ {"1 < 2", "a = a"}

MCValue ==
  [g \in MCOperation |->
     CASE g = "2 < $x" -> [native |-> "false", prolog |-> "false"]
       [] g = "a < 1"  -> [native |-> "error", prolog |-> "error"]
       [] g = "a == a" -> [native |-> "true", prolog |-> "error"]
       [] OTHER        -> [native |-> "true", prolog |-> "true"]]
MCNoId == "none"

Lit(g) == [neg |-> FALSE, goal |-> g]
Not(g) == [neg |-> TRUE, goal |-> g]

\* A statement of the pool.  Heads stand for atoms with arguments: a rule's
\* variable sorts before a fact's constants, except that a number sorts
\* between "$x" and its translation "X".
St(head, body, id, raw, translated) ==
  [head |-> head, body |-> body, id |-> id,
   text |-> [native |-> raw, prolog |-> translated]]

Pool == <<
  St("p", <<Lit("q")>>, MCNoId, 1, 2),
  St("p", <<Not("q"), Lit("r")>>, MCNoId, 2, 3),
  St("p", <<Lit("q"), Not("r")>>, "r1", 3, 4),
  St("p", <<Lit("true")>>, "r1", 4, 5),
  St("p", <<Lit("true")>>, MCNoId, 5, 6),
  St("p", <<>>, MCNoId, 6, 1),
  St("q", <<Lit("r")>>, MCNoId, 1, 2),
  St("q", <<Lit("p")>>, MCNoId, 2, 3),
  St("q", <<Not("r")>>, "r1", 3, 1),
  St("q", <<>>, MCNoId, 4, 4),
  St("q", <<Lit("a == a")>>, MCNoId, 5, 5),
  St("r", <<Lit("a < 1")>>, MCNoId, 1, 2),
  St("r", <<Lit("false")>>, MCNoId, 2, 1),
  St("r", <<Lit("true")>>, "r1", 3, 3),
  St("r", <<>>, MCNoId, 4, 4),
  St("r", <<Lit("a = a"), Not("2 < $x")>>, MCNoId, 5, 5),
  St("r", <<Lit("$x < 2")>>, MCNoId, 6, 6) >>

Index == DOMAIN Pool

Increasing(n) == {t \in [1..n -> Index] : \A i \in 1..(n - 1) : t[i] < t[i + 1]}

\* Up to MaxStatements statements of the pool, or one of them twice.
MCKbs ==
  UNION {{[i \in 1..n |-> Pool[t[i]]] : t \in Increasing(n)} : n \in 0..MaxStatements}
  \cup {<<Pool[i], Pool[i]>> : i \in Index}

MCJobs ==
  [kb : MCKbs, goals : {<<Lit("p")>>, <<Not("p"), Lit("q")>>, <<Lit("q"), Lit("p")>>},
   depth : 0..MaxDepth, cap : {1, 10}, backend : Backend]
  \cup [kb : {<<>>}, goals : {<<Lit("1 < 2")>>, <<Lit("1 < 2"), Lit("a = a")>>},
        depth : {0}, cap : {1}, backend : Backend]

=============================================================================
