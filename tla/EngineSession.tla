--------------------------- MODULE EngineSession ---------------------------
(***************************************************************************)
(* One swipl process from launch to the end of its input: the loop of      *)
(* prolog_engine.pl, handling one command after another in any order.      *)
(* "last" is the last command handled with its reply, which is what a      *)
(* client on the other side of the pipe can know.                          *)
(***************************************************************************)
EXTENDS PrologEngine

CONSTANT MaxCommands    \* bound on the commands of a session

ASSUME BoundAssumption == MaxCommands \in Nat

VARIABLES
  last,      \* [cmd, kb, status, skipped]
  handled,   \* number of commands handled, for the bound
  halfBuilt  \* history: the latest load that was not skipped has raised

sessionVars == <<engineVars, last, handled, halfBuilt>>

Replied(cmd, k, status, skipped) ==
  /\ handled < MaxCommands
  /\ handled' = handled + 1
  /\ last' = [cmd |-> cmd, kb |-> k, status |-> status, skipped |-> skipped]

SessionInit ==
  /\ FreshEngine
  /\ last = [cmd |-> "none", kb |-> NoHash, status |-> "ok", skipped |-> FALSE]
  /\ handled = 0 /\ halfBuilt = FALSE

LoadKb(k, hashed) ==
  /\ HandleLoad(k, hashed)
  /\ Replied("load", k, LoadStatus(k, hashed), SkipsLoad(k, hashed))
  /\ halfBuilt' = IF SkipsLoad(k, hashed) THEN halfBuilt ELSE LoadRaises(k)

AssertClause(s) ==
  /\ HandleAssert(s) /\ Replied("assert", NoHash, ClauseStatus(s), FALSE)
  /\ UNCHANGED halfBuilt

RetractClause(s) ==
  /\ HandleRetract(s) /\ Replied("retract", NoHash, ClauseStatus(s), FALSE)
  /\ UNCHANGED halfBuilt

\* query, ping and stats leave the workspace alone.
Query ==
  /\ \E status \in QueryStatus : Replied("query", NoHash, status, FALSE)
  /\ UNCHANGED <<engineVars, halfBuilt>>

SessionNext ==
  \/ \E k \in KB, hashed \in BOOLEAN : LoadKb(k, hashed)
  \/ \E s \in Statement : AssertClause(s) \/ RetractClause(s)
  \/ Query

Session == SessionInit /\ [][SessionNext]_sessionVars

----------------------------------------------------------------------------
SessionTypeOK ==
  /\ EngineTypeOK
  /\ last \in [cmd : {"none", "load", "assert", "retract", "query"},
               kb : KB \cup {NoHash}, status : {"ok", "error", "timeout"},
               skipped : BOOLEAN]
  /\ handled \in Nat /\ halfBuilt \in BOOLEAN

UserContents == [s \in Statement |-> db[s]]

\* The contents are those of k, statement by statement and copy by copy.  The
\* exception is a statement whose signature the translator cannot read: it is
\* registered nowhere, so copies that earlier loads asserted may remain.
HoldsKb(contents, k) ==
  \A s \in Statement :
    /\ contents[s] >= ContentsOf(k)[s]
    /\ s \notin Unsigned => contents[s] = ContentsOf(k)[s]

\* As long as the engine holds the fingerprint of a KB it holds that KB's
\* statements, each as often as the KB lists it, and the interpreter to run
\* them: a load that this fingerprint lets it skip would have changed
\* nothing a query can see.  Only a load that has raised leaves the fingerprint
\* of a workspace that is gone.
FingerprintTellsContents ==
  kbHash # NoHash /\ ~halfBuilt => HoldsKb(Visible, kbHash)

\* A load that replies ok is followed by queries over exactly the statements the
\* caller named, whether it rebuilt the workspace or was skipped, unless it was
\* skipped after one that raised.
LoadOkMeansVisible ==
  last.cmd = "load" /\ last.status = "ok" /\ ~(last.skipped /\ halfBuilt)
    => HoldsKb(Visible, last.kb)

\* A load that is not skipped leaves exactly the statements the caller sent, up
\* to the one the engine refuses if it raises: nothing of an earlier workspace,
\* half-built or not, and nothing twice.
RebuildIsExact ==
  last.cmd = "load" /\ ~last.skipped => HoldsKb(UserContents, last.kb)
============================================================================
