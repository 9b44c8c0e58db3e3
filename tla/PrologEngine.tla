---------------------------- MODULE PrologEngine ----------------------------
(***************************************************************************)
(* The workspace of one swipl process running prolog_engine.pl and the     *)
(* command handlers that change it.  A handler runs to completion between  *)
(* two reads of standard input, so each is one atomic operator on the      *)
(* workspace; who calls them, and when the process starts and dies, is     *)
(* said by the modules that extend this one.                               *)
(***************************************************************************)
EXTENDS KbTranslation, Integers

CONSTANT NoHash    \* current_kb_hash/1 holds for nothing

VARIABLES
  db,          \* [Clause -> Nat]: how many copies of a clause are asserted
  registry,    \* workspace_predicate/1
  kbHash,      \* current_kb_hash/1; the fingerprint of a KB is the KB itself
  kbStats,     \* current_kb_stats/2
  proveKnown   \* prove/3 exists as a procedure (it may have no clauses)

engineVars == <<db, registry, kbHash, kbStats, proveKnown>>

ASSUME EngineAssumption == NoHash \notin KB

----------------------------------------------------------------------------
\* What a process knows when it has just been launched.
EmptyDb == [c \in Clause |-> 0]

\* The facts and rules counts are a function of the registered statements
\* and of how often each is asserted, which is what the model keeps of them.
StatsOf(d, r) == [s \in Statement |-> IF HeadPred[s] \in r THEN d[s] ELSE 0]

NoStats == [s \in Statement |-> 0]

FreshEngine ==
  /\ db = EmptyDb
  /\ registry = {}
  /\ kbHash = NoHash
  /\ kbStats = NoStats
  /\ proveKnown = FALSE

\* The memory of a process that dies or is replaced.
ResetEngine ==
  /\ db' = EmptyDb
  /\ registry' = {}
  /\ kbHash' = NoHash
  /\ kbStats' = NoStats
  /\ proveKnown' = FALSE

EngineTypeOK ==
  /\ db \in [Clause -> Nat]
  /\ registry \subseteq Predicate
  /\ kbHash \in KB \cup {NoHash}
  /\ kbStats \in [Statement -> Nat]
  /\ proveKnown \in BOOLEAN

----------------------------------------------------------------------------
\* clear_workspace/0: only what is registered is retracted.
Cleared == [c \in Clause |-> IF PredOf(c) \in registry THEN 0 ELSE db[c]]

\* load_stream/1 asserts clause by clause and stops at the first it cannot.
Asserted(p) == {i \in DOMAIN p : \A j \in 1..i : p[j] \notin Rejected}

Copies(p, c) == Cardinality({i \in Asserted(p) : p[i] = c})

LoadRaises(k) == Asserted(Program(k)) # DOMAIN Program(k)

\* Defect: skip whenever some fingerprint is recorded.
SkipsLoadOnAnyHash(k, hashed) == hashed /\ kbHash # NoHash

\* The load handler: the fingerprint of the loaded workspace, when the
\* caller sends one and it matches, makes the load a no-op.
SkipsLoad(k, hashed) == hashed /\ kbHash = k

LoadStatus(k, hashed) ==
  IF LoadRaises(k) /\ ~SkipsLoad(k, hashed) THEN "error" ELSE "ok"

\* An error escapes before record_workspace: the fingerprint and the stats
\* stay those of the workspace that clear_workspace has just emptied.
Rebuild(k, hashed) ==
  /\ db' = [c \in Clause |-> Cleared[c] + Copies(Program(k), c)]
  /\ registry' = Decls(k)
  /\ proveKnown' = TRUE
  /\ IF LoadRaises(k)
       THEN UNCHANGED <<kbHash, kbStats>>
       ELSE IF hashed
         THEN kbHash' = k /\ kbStats' = StatsOf(db', registry')
         ELSE kbHash' = NoHash /\ kbStats' = NoStats

HandleLoad(k, hashed) ==
  \/ SkipsLoad(k, hashed) /\ UNCHANGED engineVars
  \/ ~SkipsLoad(k, hashed) /\ Rebuild(k, hashed)

\* A clause Prolog refuses changes nothing but, when it is the assertz/1
\* of a readable clause that raises, the registry.
ClauseStatus(s) == IF s \in Rejected THEN "error" ELSE "ok"

RefuseAssert(s) ==
  /\ s \in Rejected
  /\ registry' \in {registry, registry \cup {HeadPred[s]}}
  /\ UNCHANGED <<db, kbHash, kbStats, proveKnown>>

\* Defects: assert leaves the fingerprint in place, or does not register.
AssertKeepsHash(s) ==
  \/ RefuseAssert(s)
  \/ /\ s \notin Rejected
     /\ registry' = registry \cup {HeadPred[s]}
     /\ db' = [db EXCEPT ![s] = @ + 1]
     /\ UNCHANGED <<kbHash, kbStats, proveKnown>>

AssertUnregistered(s) ==
  \/ RefuseAssert(s)
  \/ /\ s \notin Rejected
     /\ db' = [db EXCEPT ![s] = @ + 1]
     /\ kbHash' = NoHash
     /\ UNCHANGED <<registry, kbStats, proveKnown>>

\* assert_clause/1: register the predicate, assert, drop the fingerprint.
HandleAssert(s) ==
  \/ RefuseAssert(s)
  \/ /\ s \notin Rejected
     /\ registry' = registry \cup {HeadPred[s]}
     /\ db' = [db EXCEPT ![s] = @ + 1]
     /\ kbHash' = NoHash
     /\ UNCHANGED <<kbStats, proveKnown>>

\* count_retract/2 removes every copy of a clause; none is not an error.
HandleRetract(s) ==
  \/ s \in Rejected /\ UNCHANGED engineVars
  \/ /\ s \notin Rejected
     /\ db' = [db EXCEPT ![s] = 0]
     /\ kbHash' = NoHash
     /\ UNCHANGED <<registry, kbStats, proveKnown>>

----------------------------------------------------------------------------
\* What a query can see: the user statements, through the clauses of
\* prove/3.  With prove/3 declared but empty the enumeration ends at once
\* and the reply is an empty list of solutions, not an error.
NothingVisible == [s \in Statement |-> 0]

Visible == IF db["meta"] = 0 THEN NothingVisible ELSE [s \in Statement |-> db[s]]

\* The contents a caller means when it loads k.
ContentsOf(k) == [s \in Statement |-> Copies(Statements[k], s)]

\* What a query may answer: on a bare engine prove/3 raises an existence
\* error; otherwise the snippet succeeds, raises, or hits its time limit.
QueryStatus == IF proveKnown THEN {"ok", "error", "timeout"} ELSE {"error"}
----------------------------------------------------------------------------
(* What the handlers preserve when every KB is clean.                      *)

\* Every statement of every KB is accepted by Prolog and has a signature
\* the translator can read.
CleanWorld == \A k \in KB : Clean(k)

\* What clear_workspace relies on: whatever is asserted, the helper
\* euclid_json_value/2 apart, is registered.
Registered ==
  /\ \A s \in Statement : db[s] # 0 => HeadPred[s] \in registry
  /\ db["meta"] # 0 => "prove/3" \in registry

\* A recorded fingerprint tells what a query sees.
Fingerprinted ==
  kbHash # NoHash =>
    /\ proveKnown
    /\ db["meta"] # 0
    /\ \A s \in Statement : db[s] = Copies(Statements[kbHash], s)

EngineInv == EngineTypeOK /\ Registered /\ Fingerprinted
============================================================================
