-------------------------- MODULE MCLanguageServer --------------------------
(* One document over facts, rules and queries of four predicates; the name e'  *)
(* stands for one whose first letter is not among a to z.                      *)
EXTENDS LanguageServer

MCGoal == {"p", "p(x)", "p(x, y)", "q($x)", "r($x)", "NOT q($x)", "e'(x)", "$x > 1", "false"}
MCEndsInAnd == {}
MCBodyOnly == {"NOT q($x)", "$x > 1"}
MCLiteral == {"false"}
MCDangerous == {"halt(0)"}
MCJunk == {"p(x", "halt(0)"}
MCId == {"# rule: a"}

MCNegated == {"NOT q($x)"}
MCPredicate ==
  [w \in MCGoal \ {"$x > 1"} |->
     CASE w \in {"p", "p(x)", "p(x, y)"} -> "p"
       [] w \in {"q($x)", "NOT q($x)"} -> "q"
       [] w = "r($x)" -> "r"
       [] w = "e'(x)" -> "e'"
       [] OTHER -> "false"]
MCArity ==
  [w \in DOMAIN MCPredicate |-> CASE w \in {"p", "false"} -> 0 [] w = "p(x, y)" -> 2 [] OTHER -> 1]
MCVars == [w \in MCGoal |-> IF w \in {"p", "p(x)", "p(x, y)", "e'(x)", "false"} THEN {} ELSE {"$x"}]
MCClosed == {"p(x)", "p(x, y)", "q($x)", "r($x)", "NOT q($x)", "e'(x)", "halt(0)"}
MCUnfinished == [w \in MCJunk |-> IF w = "p(x" THEN "p" ELSE "halt"]
MCExcess == [w \in MCJunk |-> IF w = "p(x" THEN 1 ELSE 0]
MCNoPredicate == "none"

MCLines ==
  {<<>>, <<"p(x)">>, <<"q($x)", "if", "r($x)", "and">>, <<"q($x)", "# rule: a">>,
   <<"r($x)", "if", "# rule: a">>, <<"q($x)", "if", "NOT q($x)">>, <<"p(x)", "if", "p(x)">>, <<"and", "p(x, y)">>,
   <<"?", "r($x)">>, <<"p(x">>}
MCFiles == {<<>>, << <<"q($x)", "if", "r($x)", "and">>, <<"p(x)">> >>,
            << <<"p(x)">>, <<"r($x)", "if", "# rule: a">>, <<"false">> >>,
            << <<"p(x, y)">>, <<"halt(0)">> >>, << <<"p(x)", "if", "p(x)", "r($x)">> >>,
            << <<"p(x)">>, <<"p">>, <<"e'(x)">> >>}
MCMentions ==
  [n \in {"p", "q", "r", "e'", "false", "# rule: a", "and", "if", "none"} |->
     CASE n = "p" -> {"p", "p(x)", "p(x, y)", "p(x"}
       [] n = "q" -> {"q($x)", "NOT q($x)"}
       [] n = "r" -> {"r($x)"}
       [] n = "e'" -> {"e'(x)"}
       [] n = "and" -> {"and"}
       [] OTHER -> {n}]
MCCompletable == {"p", "q", "r", "false", "halt", "if", "and", "not"}
MCBegun == {MCCompletable \cup {"e'"}, {"p"}}
=============================================================================
