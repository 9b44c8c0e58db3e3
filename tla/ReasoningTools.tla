--------------------------- MODULE ReasoningTools ---------------------------
(***************************************************************************)
(* euclid_mcp/server.py and kb_store.py: the MCP tools, called by several  *)
(* threads at once, over one registry of named KBs, one cache of parsed    *)
(* KBs and one set of counters.  The engine is the ReasoningService the    *)
(* PrologServer module implements: asked about a text it answers over that *)
(* text, fails with a RuntimeError, or raises something else.              *)
(***************************************************************************)
EXTENDS Naturals, FiniteSets, Functions

CONSTANTS
  Client,            \* threads
  Line,              \* facts and rules of a KB text
  Malformed,         \* the lines that make parse and check_kb fail
  Query, NoQuery,    \* query texts; no query given
  Unsafe,            \* the queries sanitize refuses
  KbId,              \* well-formed kb_ids
  BadId, NoId,       \* a kb_id is_valid_kb_id refuses; no kb_id given
  Preloaded,         \* _PRELOADED_KB: a text or NoText
  NoText,            \* no text given, no text known
  Calls,             \* the calls clients make
  MaxLines,          \* MAX_KNOWLEDGE_LENGTH, in lines
  MaxKbs,            \* max_kbs
  MaxParsed,         \* maxsize of _parse_cached
  MaxCalls           \* bound: calls made

VARIABLES
  kbs,               \* KbStore._kbs: kb_id -> source, for the registered ids
  parsed,            \* _parse_cached: text -> query of the shared KB object
  callsTotal,        \* euclid_tool_calls_total, by tool
  errorsTotal,       \* euclid_tool_errors_total, by tool
  pc, call, text,    \* of each thread: where it is, its call, the resolved KB
  before,            \* what_if: the outcome of its first reason
  result,            \* what the last call returned or raised
  made               \* history: calls made

vars == <<kbs, parsed, callsTotal, errorsTotal, pc, call, text, before, result,
          made>>

----------------------------------------------------------------------------
(* Texts.  Two texts are equal iff their fingerprints are.                 *)

Text == [lines : SUBSET Line, query : Query \cup {NoQuery}]

Blank == [lines |-> {}, query |-> NoQuery]

Valid(t)   == t.lines \cap Malformed = {} /\ t.query \notin Unsafe
TooLong(t) == Cardinality(t.lines) > MaxLines

\* A registered KB with a delta appended: the last query line counts.
Merge(t, d) == [lines |-> t.lines \cup d.lines,
                query |-> IF d.query = NoQuery THEN t.query ELSE d.query]

\* what_if: drop the lines that match a removal, append the additions.
Modified(t, mods) == [t EXCEPT !.lines = (@ \ mods.remove) \cup mods.add]

NoMods == [add |-> {}, remove |-> {}]

ReasonTools == {"reason", "explain", "diagnose", "what_if"}
Tools == ReasonTools \cup {"check_kb", "register_kb", "unregister_kb", "list_kbs"}

\* "limits" is whether max_solutions, max_depth and the query's length are in
\* range, "form" whether the mode of a diagnose, or the modification lines of
\* a what_if, are well-formed.
CallType ==
  [tool : Tools, knowledge : Text \cup {NoText}, id : KbId \cup {BadId, NoId},
   delta : Text \cup {NoText}, query : Query \cup {NoQuery}, limits : BOOLEAN,
   form : BOOLEAN, mods : [add : SUBSET Line, remove : SUBSET Line]]

ASSUME ToolsAssumption ==
  /\ Malformed \subseteq Line /\ Unsafe \subseteq Query
  /\ NoQuery \notin Query
  /\ BadId \notin KbId /\ NoId \notin KbId \cup {BadId}
  /\ NoText \notin Text
  /\ Preloaded \in {t \in Text : Valid(t) /\ ~TooLong(t)} \cup {NoText}
  /\ Calls \subseteq CallType
  /\ MaxLines \in Nat /\ MaxKbs \in Nat /\ MaxParsed \in Nat \ {0} /\ MaxCalls \in Nat

----------------------------------------------------------------------------
(* _resolve: an explicit text that is not blank, else the registered KB    *)
(* with its delta, else the preloaded KB.                                  *)

Found(t)     == [text |-> t, error |-> "none"]
NotFound(e)  == [text |-> NoText, error |-> e]

Resolve(knowledge, id, delta) ==
  IF knowledge \notin {NoText, Blank} THEN Found(knowledge)
  ELSE IF id # NoId THEN
    IF id \notin DOMAIN kbs THEN NotFound("kb_id")
    ELSE IF delta \in {NoText, Blank} THEN Found(kbs[id])
    ELSE IF TooLong(delta) \/ TooLong(Merge(kbs[id], delta)) THEN NotFound("delta size")
    ELSE Found(Merge(kbs[id], delta))
  ELSE IF delta \notin {NoText, Blank} THEN NotFound("delta")
  ELSE IF Preloaded = NoText THEN NotFound("no knowledge")
  ELSE Found(Preloaded)

\* What a tool returns: its error, the text its content_hash pins, the text
\* and the query its solutions are over, and for what_if the text the
\* solutions after the modification are over.
Result(error, identity, over, query, after) ==
  [error |-> error, identity |-> identity, over |-> over, query |-> query,
   after |-> after]

NoResult == Result("none", NoText, NoText, NoQuery, NoText)

----------------------------------------------------------------------------
(* reason, as a tool and as called by the other tools.                     *)

\* Defect: a caller's query is written into the shared KB object.
QueryWrittenIn(t, q) == IF q = NoQuery THEN t.query ELSE q

\* The query the cached KB of t holds after a caller has asked q over it:
\* the caller's query goes into a copy.
QueryKept(t, q) == t.query

\* The query answered: the caller's, or that of the cached KB.
Asked(t, q) ==
  IF q # NoQuery THEN q ELSE IF t \in DOMAIN parsed THEN parsed[t] ELSE t.query

\* The least recently used entries make room: which ones is abstracted to any.
Evict(entries, kept) ==
  /\ kept \subseteq entries
  /\ Cardinality(kept) = IF Cardinality(entries) <= MaxParsed
                           THEN Cardinality(entries) ELSE MaxParsed

\* The cache after the texts ts were parsed, with q given by the caller.
\* Failures are not cached.
ParseCached(ts, q) ==
  LET fresh == {t \in ts : Valid(t)}
      entries == DOMAIN parsed \cup fresh
  IN \E kept \in SUBSET entries :
       /\ Evict(entries, kept)
       /\ parsed' = [u \in kept |-> IF u \in fresh THEN QueryKept(u, q) ELSE parsed[u]]

\* The first check that fails, or what the engine makes of the question.
ReasonErrors(t, o) ==
  IF ~o.limits THEN {"limits"}
  ELSE IF TooLong(t) THEN {"size"}
  ELSE IF ~Valid(t) THEN {"parse"}
  ELSE IF o.query \in Unsafe THEN {"unsafe"}
  ELSE IF Asked(t, o.query) = NoQuery THEN {"no query"}
  ELSE {"none", "engine", "raised"}

\* Outcomes of reason(t, query): the text is resolved again, so a blank one
\* is taken for no text at all.
ReasonOutcomes(t, o) ==
  LET r == Resolve(t, NoId, NoText)
  IN IF r.error # "none" THEN {Result(r.error, NoText, NoText, NoQuery, NoText)}
     ELSE {IF e = "none"
             THEN Result("none", r.text, r.text, Asked(r.text, o.query), NoText)
             ELSE Result(e, r.text, NoText, NoQuery, NoText)
           : e \in ReasonErrors(r.text, o)}

\* The texts reason parses: the one it resolved to.
ReasonParses(t) ==
  LET r == Resolve(t, NoId, NoText) IN IF r.error = "none" THEN {r.text} ELSE {}

----------------------------------------------------------------------------
(* A call: it resolves its KB, runs reason once or twice over it, returns. *)

Init ==
  /\ kbs = [i \in {} |-> NoText]
  /\ parsed = [t \in {} |-> NoQuery]
  /\ callsTotal = [t \in Tools |-> 0] /\ errorsTotal = [t \in Tools |-> 0]
  /\ pc = [c \in Client |-> "idle"]
  /\ call = [c \in Client |-> [tool |-> "list_kbs", knowledge |-> NoText, id |-> NoId,
                               delta |-> NoText, query |-> NoQuery,
                               limits |-> TRUE, form |-> TRUE, mods |-> NoMods]]
  /\ text = [c \in Client |-> NoText]
  /\ before = [c \in Client |-> NoResult]
  /\ result = [c \in Client |-> NoResult]
  /\ made = 0

FirstStep(tool) ==
  CASE tool = "register_kb"   -> "register"
    [] tool = "unregister_kb" -> "unregister"
    [] tool = "list_kbs"      -> "list"
    [] OTHER                  -> "resolve"

Invoke(c, o) ==
  /\ pc[c] = "idle" /\ made < MaxCalls
  /\ call' = [call EXCEPT ![c] = o]
  /\ pc' = [pc EXCEPT ![c] = FirstStep(o.tool)]
  /\ result' = [result EXCEPT ![c] = NoResult]
  /\ made' = made + 1
  /\ UNCHANGED <<kbs, parsed, callsTotal, errorsTotal, text, before>>

\* _log_call around the tools that returned: a call each, and an error for
\* those whose result has an attribute "error" that is set.
Log(returned, erring) ==
  /\ callsTotal'  = [t \in Tools |-> callsTotal[t] + (IF t \in returned THEN 1 ELSE 0)]
  /\ errorsTotal' = [t \in Tools |-> errorsTotal[t] + (IF t \in erring THEN 1 ELSE 0)]

ReturnsError(r) == r.error \notin {"none", "raised"}

\* The call ends.  An exception passes through every decorator uncounted.
Return(c, r) ==
  /\ result' = [result EXCEPT ![c] = r]
  /\ pc' = [pc EXCEPT ![c] = "idle"]
  /\ text' = [text EXCEPT ![c] = NoText]
  /\ before' = [before EXCEPT ![c] = NoResult]
  /\ UNCHANGED <<call, made>>

\* The tools returning a dict have no attribute "error".
LogTool(c, r) ==
  Log({call[c].tool},
      IF ReturnsError(r) /\ call[c].tool \in ReasonTools \cup {"check_kb"}
        THEN {call[c].tool} ELSE {})

\* What an error found before the engine is asked returns.
Refusal(e, t) == Result(e, t, NoText, NoQuery, NoText)

ResolveKb(c) ==
  LET o == call[c]
      r == Resolve(o.knowledge, o.id, o.delta)
      refused ==
        IF r.error # "none" THEN {Refusal(r.error, NoText)}
        ELSE IF o.tool \in {"diagnose", "what_if"} /\ ~o.form THEN {Refusal("form", r.text)}
        ELSE IF o.tool = "check_kb" THEN {Refusal("none", r.text)}
        ELSE {}
  IN /\ pc[c] = "resolve"
     /\ \/ \E q \in refused :
             /\ Return(c, q) /\ LogTool(c, q)
             /\ ParseCached(IF q.error = "form" THEN {r.text} ELSE {}, NoQuery)
        \/ /\ refused = {}
           /\ text' = [text EXCEPT ![c] = r.text]
           /\ pc' = [pc EXCEPT ![c] = "reason"]
           /\ UNCHANGED <<parsed, callsTotal, errorsTotal, call, before, result,
                          made>>
     /\ UNCHANGED kbs

\* Defect: the KB is resolved again wherever it is used.
ResolvedAgain(c) ==
  LET r == Resolve(call[c].knowledge, call[c].id, call[c].delta)
  IN  IF r.error = "none" THEN r.text ELSE text[c]

\* The local kb_source.
KbSource(c) == text[c]

\* The first reason over the KB, or the only one: its result is that of the
\* tool, with the identity of the KB the tool resolved.
Reason(c) ==
  /\ pc[c] = "reason"
  /\ ParseCached(ReasonParses(KbSource(c)), call[c].query)
  /\ \E r \in ReasonOutcomes(KbSource(c), call[c]) :
       LET erring == IF ReturnsError(r) THEN {"reason", call[c].tool} ELSE {}
       IN \/ /\ r.error = "raised"
             /\ Return(c, r)
             /\ UNCHANGED <<callsTotal, errorsTotal>>
          \/ /\ r.error # "raised" /\ call[c].tool # "what_if"
             /\ Return(c, [r EXCEPT !.identity = KbSource(c)])
             /\ Log({"reason", call[c].tool}, erring)
          \/ /\ r.error # "raised" /\ call[c].tool = "what_if"
             /\ before' = [before EXCEPT ![c] = r]
             /\ pc' = [pc EXCEPT ![c] = "reason again"]
             /\ Log({"reason"}, erring \ {"what_if"})
             /\ UNCHANGED <<text, call, result, made>>
  /\ UNCHANGED kbs

\* what_if asks again over the modified text, whatever the first answer was.
ReasonAgain(c) ==
  LET modified == Modified(KbSource(c), call[c].mods)
      b == before[c]
  IN /\ pc[c] = "reason again"
     /\ ParseCached(ReasonParses(modified) \cup {KbSource(c)}, call[c].query)
     /\ \E r \in ReasonOutcomes(modified, call[c]) :
          \/ /\ r.error = "raised"
             /\ Return(c, r)
             /\ UNCHANGED <<callsTotal, errorsTotal>>
          \/ /\ r.error # "raised"
             /\ LET e == IF b.error # "none" THEN b.error ELSE r.error
                    w == Result(e, KbSource(c), b.over, b.query, r.over)
                IN /\ Return(c, w)
                   /\ Log({"reason", "what_if"},
                          (IF ReturnsError(r) THEN {"reason"} ELSE {})
                            \cup (IF ReturnsError(w) THEN {"what_if"} ELSE {}))
     /\ UNCHANGED kbs

----------------------------------------------------------------------------
(* The registry.                                                           *)

\* Defect: the size of a KB is not checked.
RegistrableAnySize(t) == t \notin {NoText, Blank} /\ Valid(t)

Registrable(t) == t \notin {NoText, Blank} /\ ~TooLong(t) /\ Valid(t)

\* Overwriting needs no room.
HasRoom(i) == i \in DOMAIN kbs \/ Cardinality(DOMAIN kbs) < MaxKbs

RegisterKb(c) ==
  LET i == call[c].id
      t == call[c].knowledge
      e == IF i \notin KbId THEN "kb_id"
           ELSE IF ~Registrable(t) THEN "knowledge"
           ELSE IF ~HasRoom(i) THEN "full" ELSE "none"
      r == Refusal(e, IF e = "none" THEN t ELSE NoText)
  IN /\ pc[c] = "register"
     /\ kbs' = IF e = "none"
                 THEN [j \in DOMAIN kbs \cup {i} |-> IF j = i THEN t ELSE kbs[j]]
                 ELSE kbs
     /\ Return(c, r) /\ LogTool(c, r)
     /\ UNCHANGED parsed

UnregisterKb(c) ==
  LET i == call[c].id
      r == Refusal(IF i \in KbId THEN "none" ELSE "kb_id", NoText)
  IN /\ pc[c] = "unregister"
     /\ kbs' = Restrict(kbs, DOMAIN kbs \ {i})
     /\ Return(c, r) /\ LogTool(c, r)
     /\ UNCHANGED parsed

ListKbs(c) ==
  /\ pc[c] = "list"
  /\ Return(c, NoResult) /\ LogTool(c, NoResult)
  /\ UNCHANGED <<kbs, parsed>>

Next ==
  \E c \in Client :
    \/ \E o \in Calls : Invoke(c, o)
    \/ ResolveKb(c) \/ Reason(c) \/ ReasonAgain(c)
    \/ RegisterKb(c) \/ UnregisterKb(c) \/ ListKbs(c)

Spec == Init /\ [][Next]_vars

----------------------------------------------------------------------------
Errors == {"none", "raised", "kb_id", "delta", "delta size", "no knowledge", "limits",
           "size", "parse", "unsafe", "no query", "engine", "form",
           "knowledge", "full"}

Results == [error : Errors, identity : Text \cup {NoText}, over : Text \cup {NoText},
            query : Query \cup {NoQuery}, after : Text \cup {NoText}]

\* The values the registry, the cache, the counters and the threads take.
TypeOK ==
  /\ DOMAIN kbs \subseteq KbId /\ \A i \in DOMAIN kbs : kbs[i] \in Text
  /\ DOMAIN parsed \subseteq Text /\ Cardinality(DOMAIN parsed) <= MaxParsed
  /\ \A t \in DOMAIN parsed : parsed[t] \in Query \cup {NoQuery}
  /\ callsTotal \in [Tools -> Nat] /\ errorsTotal \in [Tools -> Nat]
  /\ pc \in [Client -> {"idle", "resolve", "reason", "reason again", "register",
                        "unregister", "list"}]
  /\ call \in [Client -> CallType]
  /\ text \in [Client -> Text \cup {NoText}]
  /\ before \in [Client -> Results] /\ result \in [Client -> Results]
  /\ made \in Nat

Answers(c) == result[c].over # NoText /\ result[c].error = "none"

\* The content_hash of a result is that of the text its solutions were
\* computed over, whatever is registered under its kb_id meanwhile.
IdentityPinsAnswer == \A c \in Client : Answers(c) => result[c].identity = result[c].over

\* Solutions answer the caller's query, or the text's own if the caller gave
\* none: never the query another caller asked over the same cached KB.
AnswersOwnQuery ==
  \A c \in Client : Answers(c) =>
    result[c].query = IF call[c].query # NoQuery THEN call[c].query
                      ELSE result[c].over.query

\* The second half of a what_if is over the modification of the very text
\* its first half was over, if anything is left of it.
WhatIfComparesOneBase ==
  \A c \in Client : Answers(c) /\ call[c].tool = "what_if" =>
    LET m == Modified(result[c].over, call[c].mods)
    IN m # Blank => result[c].after = m

\* A KB that was registered is one the reasoning tools accept: a call that
\* names it, with no delta, is refused neither for its size nor its syntax.
RegisteredKbsAreAccepted ==
  \A c \in Client :
    LET o == call[c]
    IN (o.tool \in ReasonTools /\ o.id # NoId /\ {o.knowledge, o.delta} = {NoText}
          /\ o.mods = NoMods)
         => result[c].error \notin {"size", "parse", "no knowledge"}
============================================================================
