--------------------------- MODULE KbTranslation ---------------------------
(***************************************************************************)
(* What euclid_mcp/translator.py hands to the Prolog engine for a          *)
(* knowledge base: the predicate signatures to declare dynamic and the     *)
(* clauses to assert.  A statement (a fact or a rule) is an opaque value;  *)
(* the model keeps of it the predicate it defines, whether the translator  *)
(* can read that predicate off the text, and whether Prolog accepts the    *)
(* translated clause.                                                      *)
(***************************************************************************)
EXTENDS Naturals, Sequences, FiniteSets

CONSTANTS
  KB,          \* knowledge-base sources; two are equal iff their texts are
  Statement,   \* the facts and rules those sources contain
  Pred,        \* user predicates (name/arity)
  Statements,  \* [KB -> Seq(Statement)], in the order of the sorted clauses
  HeadPred,    \* [Statement -> Pred], the predicate a statement defines
  Unsigned,    \* statements whose signature _extract_pred_sig cannot read
  Rejected     \* statements read/1 or assertz/1 raises on

\* The clauses added to every KB: the meta-interpreter with the proof-tree
\* serializer, and euclid_json_value/2, which PROOF_TO_JSON also defines.
EngineClause == {"meta", "json"}

\* _ENGINE_PREDICATES, of which prove/3 stands for all five.
EnginePredicates == {"prove/3"}

Clause == Statement \cup EngineClause

Predicate == Pred \cup {"prove/3", "euclid_json_value/2"}

ASSUME TranslationAssumption ==
  /\ Statements \in [KB -> Seq(Statement)]
  /\ HeadPred \in [Statement -> Pred]
  /\ Unsigned \subseteq Statement
  /\ Rejected \subseteq Statement
  /\ Statement \cap EngineClause = {}
  /\ Pred \cap {"prove/3", "euclid_json_value/2"} = {}

\* The predicate a clause belongs to.
PredOf(c) ==
  CASE c = "meta" -> "prove/3"
    [] c = "json" -> "euclid_json_value/2"
    [] OTHER      -> HeadPred[c]

StatementsOf(k) == {Statements[k][i] : i \in DOMAIN Statements[k]}

\* kb_to_decls_clauses: the declarations and the clauses of a KB.  The
\* engine's own clauses come after the user's.
Decls(k)   == {HeadPred[s] : s \in StatementsOf(k) \ Unsigned} \cup EnginePredicates
Program(k) == Statements[k] \o <<"meta", "json">>

\* A KB whose clauses all reach the engine and are all registered there.
Clean(k) == StatementsOf(k) \cap (Unsigned \cup Rejected) = {}
============================================================================
