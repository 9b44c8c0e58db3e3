# A TLA+ model of Euclid-MCP

Euclid-MCP answers logical queries over knowledge bases (KBs).  Its clients call
MCP tools; a tool resolves the KB it is about, parses it, and has it answered by
a backend: a long-lived SWI-Prolog process behind a line protocol, or a small
solver in Python.  An HTTP API, a command line with an interactive shell, and a
language server for editors stand in front of the same tools and the same
language.  This directory holds TLA+ modules of the parts where state,
concurrency and failure meet, TLC configurations that check them on small
instances, and TLAPS proofs that hold for every instance.  Paths below are
relative to the repository (`src/` here).

## The system

| part | source | state | operations | status |
|---|---|---|---|---|
| Prolog engine | `euclid_mcp/prolog_engine.pl` | clause database, registry of workspace predicates, fingerprint and counts of the loaded KB | load, query, assert, retract, stats, ping, halt | modelled |
| Engine manager | `euclid_mcp/prolog_server.py` | the `swipl` process and its pipes, a reentrant lock, request count, pending restart reason, metrics | load_and_query, load, query, assert_clause, retract, stats, ping, halt, close | modelled |
| Bridge | `euclid_mcp/prolog_bridge.py` | the process-wide `PrologServer` | execute, health_info, close | modelled |
| MCP tools, KB registry | `euclid_mcp/server.py`, `kb_store.py` | named KBs, parse cache, tool counters | reason, explain, diagnose, what_if, check_kb, register_kb, unregister_kb, list_kbs | modelled |
| Translation | `euclid_mcp/translator.py` | none | KB to declarations and clauses, query to snippet | partly |
| Backend selection | `euclid_mcp/engine.py` | translation cache | fingerprint, choice of backend | partly |
| Provers | `euclid_mcp/ir_engine.py`, the meta-interpreter in `translator.py` | a suspended search | solve_kb, prove/3 | partly |
| Language and parser | `language.py`, `ir_parser.py` | none | parse | partly |
| Validation, linter, sanitizer | `validation.py`, `linter.py`, `sanitizer.py` | none | run_check_kb | modelled |
| Metrics | `metrics.py` | counters, gauges, histograms | inc, observe, render | partly |
| REPL, command line | `cli.py` | session buffer, pending statement | every subcommand; the shell's lines and commands | modelled |
| HTTP API | `integrations/euclid_api.py` | one connection at a time, the metrics, the engine behind it | connect to answer, the tools, health, metrics, shutdown | modelled |
| Language server | `euclid-lsp/` | documents, cache of parsed documents, published diagnostics | open, change, save, close, hover, completion | modelled |
| Rendering, records | `explain.py`, `models.py`, `kb_summary.py` | none | text | not modelled |

How they interact:

- a tool calls `reason`, which calls `engine.execute`, which calls
  `prolog_bridge.execute`, which calls `PrologServer.load_and_query`: a load and
  a query, two exchanges over the same pipes, with the lock held over both;
- threads share the registry (under its lock), the parse cache, the metrics and
  the `PrologServer` (under its lock);
- the engine process is a second actor: it reads requests, writes replies, may
  be slow, may die at any step, and loses its memory when it does;
- a load whose fingerprint is that of the loaded workspace is skipped, so what
  an earlier call of any thread did to the workspace matters to a later one;
- the HTTP API runs a tool, a health probe or a page of metrics in its one thread, and
  closes the bridge when its request loop has ended; its clients and a signal act at
  any time;
- the shell and the subcommands of `cli.py` call the tools' functions directly; the
  language server has a parser of its own, which keeps line numbers, and calls
  `run_check_kb` with the text for its diagnostics.

What makes this hard: replies have no request number, so a late reply must die
with its process; a crash can fall between any two steps of a call, and the
relaunched engine is empty; the fingerprint is a cache key that every change of
the workspace must invalidate; a periodic restart must not fall between a load
and its query; a timeout, a crash and `OSError` from `Popen` leave by different
paths that must all release the lock and leave something a later call can repair;
a KB behind a `kb_id` may be replaced while a call that named it is under way; an HTTP
client may stall or leave at any byte, and an answer that fails half-way is answered
again; an editor numbers the versions of a text from 1 each time it opens it; two
parsers and a shell must agree on where a statement ends.

What makes each part right:

- **engine**: a load that says ok leaves exactly its KB visible, skipped or not;
  fingerprint and stored counts describe what is loaded; a rebuild leaves
  nothing of the last workspace, be that one half-built;
- **manager**: replies are read for their own requests; answers are over the
  caller's KB; restarts fall only where the workspace is about to be replaced;
  every call returns; a call that finds the engine broken repairs it;
- **bridge**: one engine; nobody ends it under another's exchange; close leaves
  none behind;
- **tools**: a result's `content_hash` pins the text its solutions are over; it
  answers the caller's query; the two halves of a what_if are over one base;
  the registry is bounded and what it holds is usable;
- **provers**: the two find the same proofs, where they evaluate operators alike; a query is answered iff it follows
  within the depth; a failing `NOT` is never an error in disguise; the cap truncates
  and does nothing else;
- **language and shell**: every line belongs to the statement the documentation says;
  the shell, which sees one line at a time, cuts a text where the parser would; the
  session KB always checks, and nothing typed later changes what is in it;
- **checks**: a predicate called circular has no derivation, since a KB with such a report
  is refused;
- **command line**: the exit code tells a bad call, a failed tool and an invalid KB apart,
  and a shell's queries run over the KB it was started with;
- **HTTP API**: a client that stays is answered unless its own request makes the handler
  raise, each answered request is counted once, a tool is
  counted once for each answer 200, a failed engine is reported once, the page of metrics
  adds up, and a signal ends the server with nothing left behind;
- **language server**: what an editor shows is about the text it shows; its parser reads the
  statements that a tool would run, on the lines they are on.

## Modules

    KbTranslation      a KB as the clauses and declarations sent to the engine
    PrologEngine       the engine's memory and what each command does to it
    EngineSession      one caller, no failures: the commands as actions
    PrologServer       threads, lock, pipes, process, crashes, timeouts, restarts
    ReasoningService   abstract: ask about a KB, get its answer or a failure
    PrologBridge       the process-wide server: first use, health probe, close
    ReasoningTools     the tools, the registry, the parse cache, the counters
    Inference          the native solver and the meta-interpreter, over ground atoms
    StatementLines     how lines become statements, and which texts parse
    KbChecks           what check_kb reports of a text, over StatementLines
    ReplSession        the interactive shell over StatementLines
    CommandLine        the subcommands, and the shell with the tools it calls
    LanguageServer     documents, cache, diagnostics, hover, completion, over KbChecks
    Metrics            counters and histograms, as operators
    HttpApi            the API's thread, its clients and its metrics, over Metrics

    PrologEngineProofs (and EngineSession), PrologServerProofs (and the refinement
    of ReasoningService), PrologBridgeProofs, ReasoningToolsProofs, InferenceProofs,
    CommandLineProofs (and StatementLines, ReplSession), HttpApiProofs (and Metrics),
    LanguageServerProofs (and KbChecks)

    MCEngineSession, MCPrologServer, MCPrologBridge, MCReasoningTools, MCInference,
    MCCommandLine, MCHttpApi, MCLanguageServer

`PrologEngine` defines operators and state changes used by both `EngineSession`
(alone) and `PrologServer` (behind the pipes), so both talk of the same engine.
`PrologServer` instantiates `ReasoningService` with a refinement mapping and
checks it as a property.  `ReasoningTools` builds on what that service promises:
its engine answers over the text it was asked about, fails with `RuntimeError`,
or raises something else.  `HttpApi` and `CommandLine` in turn build on what the tools
promise: that they return, what they return, and how they leave the engine.

### KbTranslation, PrologEngine

A statement is a model value.  It has a head predicate, unless its signature
cannot be read (`Unsigned`: `_extract_pred_sig` returns nothing), and the engine
may refuse it (`Rejected`).  `Program` is the list of clauses `kb_to_decls_clauses`
sends, user statements first, then the meta-interpreter and the serializer, each
of those one model clause per predicate.  `db` counts the copies of each clause,
because `assertz` does not look for duplicates.  `registry` is what
`clear_workspace` retracts.  A load clears, then asserts clause by clause and
raises at the first refused one, leaving the clauses before it: `LoadRaises`,
`Rebuild`.  `HandleAssert` and `HandleRetract` drop fingerprint and counts, as
lines 110-130 of the engine do.  What a query computes is reduced to the
statements it can see (`Visible`) and whether it succeeds or raises.  The terms,
their operators and quoting, and the search itself are not modelled here.

### PrologServer

Each method is a sequence of steps: take the lock (`Enter`), relaunch if due or
dead (`Relaunch`), write (`Write`, `WriteFails` with the single retry of lines
193-198), read (`ReadReply`, `ReadEOF`, `ReadTimeout`), and return or raise
through the `with` block (`Return`, `Raise`).  `load_and_query` goes through
two exchanges without letting go of the lock (`Proceed`).  The process takes
steps of its own (`ServeLoad`, `ServeQuery`, ...), and dies between any of them
(`Crash`).  `ReadTimeout` may fire whatever the engine does, which covers the
time limit inside the engine, the backstop of `select`, and a process that
hangs.  A write is one step: the model gives the pipe room for a request, as it has while the
engine reads, and for short requests always.  A request longer than the pipe's buffer, sent to
a process that hung while it was idle, would wait in `_write` (`prolog_server.py:220`), which
no timeout covers; that wait is outside the model.  `halt` keeps its own path, with its
bounded wait.  A request carries a number that the reply copies; the protocol has none, the model needs it
to say which request a reply belongs to, and no action looks at it.

`disturbed`, `served`, `launches`, `calls`, `crashes` and `launchFailures` are
history or bounds.

### PrologBridge

A server is a lock and a process.  `_get_server`, the read in `health_info` and
the swap in `close` are one step each, under `_server_lock`; what they return is
the thread's own reference (`held`) from then on.  `health_info` takes the lock
twice, for its ping and for its stats.  `__del__` does not appear as an action:
a running process keeps its `PrologServer` alive through the thread that drains
its stderr (`prolog_server.py:132-145`), so `__del__` only ever runs when there is
no process left to end.

### ReasoningTools

A text is a set of lines and a query; equal texts have equal fingerprints.  The
empty text is a value of its own (`Blank`), since `_resolve` takes it for no text.
A call is resolved (`ResolveKb`), then runs `reason` once, or twice for a what_if
(`Reason`, `ReasonAgain`), through the same resolution, checks and parse cache
as a direct call, and returns.  `ReasonErrors` gives the checks of `reason` in
the order of the code.  Registering validates and stores in one step: validation
looks at nothing shared, and the store is under its lock.  The parse cache holds at
most `MaxParsed` texts, and any entries may be the ones evicted (the code evicts
the least recently used; no property depends on which).

### Inference

What a query computes, which the modules above leave open.  A goal is a ground atom,
so unification is equality, or an operation: a goal with an infix operator, its operands
ground.  An operation has an outcome on each backend, `true`, `false` or `error`
(`Outcome`): `Value` is what the evaluation of the operator comes to, and on Prolog an
operation that `is_arith_goal` does not list fails, be it `=`, which the guard of
`translator.py:34-38` fails as a built-in, or a comparison without variables that begins with
a number, which `_quote_term` makes an atom.  A Python generator and a Prolog goal are both
the stream of proofs they would yield if resumed for ever, which may end in an error; taking
the first proof only, as negation does, never meets that error.  `Streams` computes the streams of all
atoms at depth 0, then 1, and so on, because a body is proved with one level less;
`ProveClause` is one clause at one depth, and `Candidates` inserts the clauses of an atom
one by one at their place in the backend's order.  Only rules have ids, as in
`parse_text`, which raises on the id of a fact.  The backends differ where the code does:
the order of clauses (each sorts a text of its own, and `prove/3` tries facts before
rules), what counts as a fact (the marker `euclid_rule_id` is part of the translated
body), the outcome of operations, queries with a negated goal or of a single operation
(`Misread`: Prolog takes them for atoms or does not parse them), and the cap (`Keep` and
`Ignore`: the native loop breaks, the Prolog snippet fails its generator and searches on).  The state is the consumption
of the generator: `Keep`, `Ignore`, `Exhaust`, and `GiveUp` for deadline, timeout and
recursion limit.

Against it stand `Consequences`, the atoms that follow bottom up by at most `n` nested
rules, `Model`, the completion of a non-recursive KB, and `Proofs`, the set of all proof
trees of at most `n` nested rules, in which a rule node cites a rule and its id, a fact node
a fact, and a negation node a goal that has no proof within the depth left.
`ProofsAreProofs` compares the solutions with it in both directions.  All three take an
operation's outcome on the backend of the job.  `BackendsAgree` is about queries that both
backends read alike (`ReadAlike`) over KBs whose operations come to the same on both
(`SameOutcomes`); where they do not, the code's backends differ, as the list at the end says.
The pool of the run has such operations, and so has a query.

### StatementLines, KbChecks

A line is the sequence of its words that matter: goals, `if`, `and`, `?`, and the comment
that gives a rule its id; other comments and blank lines are empty.  `ReadLine` is one
turn of `_parse_text`: it continues the rule being read or begins a statement.
`ParseRaises` is what `parse` raises on (the sanitizer's words, an id on a fact, a line
that opens with `and` and continues nothing, a literal as a fact); `Parseable` is what the
backends' parser then takes, quirks included: `and` by itself is an atom, a doubled `and`
in a rule body passes because the body is split twice, a rule without a body is accepted.
`DocumentedStatements` is the grammar of `docs/EUCLID_IR.md:341-352`: whether a line goes on
with the statement above it is seen from that statement's words alone, and what a statement is,
from all of its words at the end, with no rule being read, no head and no body.
`GroupsAsDocumented` says that the parser's facts and rules are those statements, each kind
in order (`Lists`).  An `if` inside a body is an atom in both.

`KbChecks` adds the eight checks of `run_check_kb` (`Errors`, `Warnings`) and the
inventory.  A goal keeps its predicate, arity and variables.  Names are taken from texts as
`_extract_predicate` takes them, by how a text begins and ends (`NameOf`, `Closed`), also
from junk and from goals that do not parse; goals are what lies between commas outside
parentheses (`GoalsOf`, with `Excess` the parentheses a word leaves open).  The checks are modelled with
what they miss: the query check sees one goal, the undefined check ignores arity, the
linter is given a body whose goals are joined by commas and so sees one goal.

### ReplSession, CommandLine

`ReplSession` has one action per way `_process_line` can go.  `pending` holds lines
back, `_flush` (`Flush`) adds them if the session KB with them still checks.  `typed`,
`rejected`, `cut` and `spoilt` are history: what was entered, what was dropped, whether
something came between the lines of a statement, and whether an invalid file was
loaded.  The commands that only call a tool and print are one action (`FlushOnly`).

`CommandLine` is the process around it: `Refuse` (argparse, a file that does not exist),
`RunTool` (the five subcommands, `ExitOf`), `StartShell` and the shell's steps, of which
`Ask` calls `reason`.  A tool is the set of outcomes a text and a query allow (`Calls`):
certain to fail when they make it so, otherwise either.  A subcommand's options hide those
before it, as argparse resets them (`Options`).

### LanguageServer

Each handler is one action, since pygls runs a handler to its end before the next.
`text`, `version` and `opened` are what the editor last said, `cache` is `_doc_cache`,
`shown` is the last `publish_diagnostics` of each document.  `ParsePositioned` is
`positioned_parser.py`, `Entry` is `_get_pkb`, `Locates` is `_locate_predicate`.  A
document that is not open may be looked at too; it then has no version and is read from
its file, which another program may write.  Completion takes names by the pattern
`[a-z_]\w*` (`autocomplete.py:38,42`), so it knows the names in `Completable` only.

### Metrics, HttpApi

`Metrics` defines a family as a function from label values to a number or to the
observations of a histogram.  The actions of `HttpApi` are the steps of the one thread of
`HTTPServer`: accept, read the head, route, read the body, run the tool or probe the
engine, count and begin the answer (`Respond`: `_send` counts before it writes), write
(`Write`), and the end of `serve_forever` and of `main`.  Around it clients connect, send
their request in two pieces or not at all, take their answer, and leave (`Connect`, `Send`,
`Read`, `Leave`); the engine hangs or dies (`EngineFails`); a signal comes (`Terminate`).  An
answer may fit what the socket takes at once, or not: then the thread waits in `sendall` until
the client has read or left (`Write`, `WriteRest`), for the socket has no time limit.  A
handler that raises outside its try ends the connection without an answer (`Raise`): on a key
with a character that is not ASCII, which `compare_digest` refuses (`euclid_api.py:159`), on
a body that is JSON but no request (`:434`), and on a probe when `EUCLID_BACKEND` names no
backend (`:474`, `engine.py:45`).  `engine` is the
bridge reduced to four values; a probe relaunches a process that is missing, and the periodic
restart, which waits for a load (`prolog_server.py:175-178`), is part of what a tool does.  What a tool finds is a choice; what it does to the
engine is `EngineAfter`.  The standard library's part, which is not in the repository, is
modelled by what the API relies on: an empty request and an unknown method never reach a
handler, an exception in a handler ends the connection and nothing else.

## Runs

| run | module | checks | instance |
|---|---|---|---|
| `engine_session` | MCEngineSession | `LoadOkMeansVisible`, `RebuildIsExact` | three KBs: two share a predicate, of which one has a statement twice and one whose signature cannot be read; of the third the engine refuses the second statement; five statements for assert and retract; five commands |
| `server_execute` | MCPrologServer | `ReplyAnswersRequest`, `BareQueryNeedsCrash`, `ProcessServesBounded`, `RestartsExplainLaunches` | two threads, four load_and_query or loads, two crashes, a restart every two requests |
| `server_mixed` | MCPrologServer | `AnswersOverOwnKB`, `ServesCallers` | two threads, load_and_query, load, assert, retract and close, a crash, a failing launch |
| `server_lifecycle` | MCPrologServer | `SelfHealing`, `CallsReturn` | two threads, the calls whose outcome does not depend on the workspace, a crash, a failing launch, fairness |
| `bridge` | MCPrologBridge | `NoStrayEngine`, `EngineOutlivesExchange` | three threads, two servers, four calls, one crash |
| `tools_registry` | MCReasoningTools | `IdentityPinsAnswer`, `AnswersOwnQuery`, `WhatIfComparesOneBase`, `RegisteredKbsAreAccepted` | two threads, two kb_ids, room for one, texts of at most one line accepted, three calls |
| `solver` | MCInference | `BackendsAgree`, `AnsweredIffItFollows`, `NegationMeansFalse`, `CapOnlyTruncates`, `ProofsAreProofs` | every KB of at most four statements of a pool of seventeen over three atoms and six operations (negation, errors, recursion, rule ids, operations that the backends evaluate alike and not), three queries over them and two of operations alone, depths 0 to 3, caps 1 and 10, both backends |
| `repl` | MCCommandLine | `SessionChecks`, `PasteSafe`, `LinesGroupAsDocumented`, `ExitTellsOutcome`, `QueriesKeepNamedKb`, `InputOnlyAdds` | every subcommand over five files, a missing one, texts and a preloaded KB; four inputs of a shell among ten lines, a query, three files, blank lines and resets; at most three lines accepted by `reason` |
| `http` | MCHttpApi | `CountedOnce`, `OkMeansRan`, `StayersAreAnswered`, `FailureReportedOnce`, `ClosedClean`, `PageAddsUp`, `ConnectionsEnd`, `SignalEndsServer` | two clients, three connections (work, a bad or a garbled key, a request no handler takes; then a probe, a scrape or a body that raises; then a probe), answers that fit and that wait for their client, one client that leaves, one solution, two buckets, a good and an invalid KB file, a good and an invalid backend name, fairness |
| `lsp` | MCLanguageServer | `PublishedIsCurrent`, `LinesAreLocated`, `EditorReadsWhatRuns`, `AnswersFitText`, `NoFalseCircle` | one document, four versions, at most four lines, six files, one predicate that completion does not know |
| `server_failing_kb` | MCPrologServer | `AnswersOverOwnKB`, violated | a KB with a statement the engine refuses |
| `solver_query` | MCInference | `NegatedQueriesAnswered`, violated | a negated goal in a query |

All passing runs but `lsp` switch deadlock checking off because the number of calls,
commands or connections is bounded: when all are made and returned, the model has
nothing left to do.  A language server can always do something, and `lsp` checks that.

The type invariants are in the modules (`TypeOK`); where a component has proofs they are
part of its inductive invariant, and no run spends time on them.

**Why the bounds are enough.**  Two threads give every interference between a
call and another's; the bridge has three so that one can close while a second
uses the old server and a third makes a new one.  Two KBs tell "mine" from "the
other's".  Four calls reach the shapes the properties are about: a load of one KB,
of the other, of the first again, with a fault in between.  `RestartEvery = 2` puts
the periodic restart inside every run.  A second crash strikes the retry that
follows the first; after a relaunch the engine is as new, so more say nothing else.  One room in the
registry makes the second register the one at capacity; three calls are a
register, a tool in progress, and an overwrite under it.  Three atoms and four
statements give two rules for one atom, a chain, a cycle and a fact beside a rule at
once; depth 3 is one more than the longest chain without a cycle needs, depth 0 and 1
the boundary.  Five commands of a session hold two loads, one of which fails half-way, with
an assert, a retract or another load before, between and after them.  Four inputs hold a statement, begin a rule, continue it and flush it; a
file of five lines brings longer texts into the session.  Of three HTTP connections the
first works, the second arrives, leaves or waits meanwhile, and the probe that follows
finds what they left; one path takes longer than any bucket and another exactly the last,
which is the boundary of a histogram.  Four versions of a document are an opening
and three edits, or a closing and an opening with edits on both sides; four lines
hold a rule over two lines between two statements.  The proofs cover what the bounds
leave open for the components that have them.

**Fairness.**  `server_lifecycle` assumes weak fairness of each thread's own step
(`Thread(c)`).  A thread is run by the operating system; `select` returns after
`timeout + 5` s at the latest, so a read step is always possible; and a write goes into the
pipe's buffer.  That last is where the model stops short of the code: while the engine reads, a
write of any length ends, and one that fits the buffer always does, but a longer one to a process
that hung while idle does not, and holds the lock with it.
Nothing else is assumed of the engine: it may never answer.  The lock is handed to whoever
asks; with boundedly many calls weak fairness is enough.

`http` assumes weak fairness of the API's thread (`Server`) and nothing of clients, the
engine or signals.  The steps of a tool are one, because each call of a tool returns
(`CallsReturn`).  Reading and writing are different: the socket has no time limit
(`euclid_api.py:610`), so a client that does not send the rest of its request, or does not
take the rest of a long answer (`:525`, `:503`), and does not leave, holds the thread, and
every other client and a shutdown with it.  The model lets clients do so: `Send`, `Read` and
`Leave` have no fairness.  `ConnectionsEnd` and `SignalEndsServer` say what is left
by their premise, that no client does it for ever (`HeldUp` names the three waits).  The other runs check safety and assume
no fairness.

## Proofs

For every value of the constants: any threads, KBs, statements, documents, requests, and
every restart policy and bound.

| theorem | says |
|---|---|
| `PrologEngineProofs!SessionLoads` | for any KBs, a load that says ok leaves exactly its KB visible, but for leftover copies of unreadable statements and a skip after a load that raised |
| `PrologEngineProofs!SessionRebuilds` | for any KBs, a load that is not skipped, raising or not, leaves nothing of the workspace before it, but for copies of unreadable statements |
| `PrologEngineProofs!SessionFingerprints` | for any KBs, the fingerprint tells the contents until a load raises |
| `PrologServerProofs!ServerProtocol` | lock, calls, pipes and process agree, whatever the KBs |
| `PrologServerProofs!ServerInvariant` | with clean KBs the workspace, replies and results do too |
| `PrologServerProofs!AnswersAreOverOwnKB` | a load_and_query that succeeds answers over the caller's KB |
| `PrologServerProofs!RepliesMatchRequests` | no reply is read for another request |
| `PrologServerProofs!QueriesFollowTheirLoad` | no restart falls between a load and its query; only a crash can |
| `PrologServerProofs!ProcessesAreReplaced` | no process serves more than the policy allows |
| `PrologServerProofs!LaunchesAreExplained` | every launch is the first, a counted restart, or follows a crash or a failed launch |
| `PrologServerProofs!ServerImplementsService` | the refinement: `Spec => Service!Spec` under the mapping of `PrologServer` |
| `PrologServerProofs!ServerHeals` | a call fails only for a fault that struck while it held the lock |
| `PrologBridgeProofs!BridgeLeavesNoStray` | no engine is left behind by two first uses, or by a close that overlapped no call |
| `PrologBridgeProofs!BridgeKeepsExchanges` | no engine ends under the thread that waits for it |
| `ReasoningToolsProofs!ToolsPinTheirText` | the `content_hash` of a result is that of the text its solutions are over |
| `ReasoningToolsProofs!ToolsAnswerTheirQuery` | whatever the parse cache shares, a result answers its caller's query |
| `ReasoningToolsProofs!WhatIfIsOneExperiment` | both halves of a what_if start from one text |
| `ReasoningToolsProofs!RegisteredKbsReason` | `reason` refuses no registered KB for its syntax or size |
| `InferenceProofs!SolverTypes` | the types; at most `max_solutions` solutions, none after an error |
| `InferenceProofs!CapTruncates` | a solve that ends well has the first proofs of its search, or all |
| `InferenceProofs!AnswersFollow` | without negation, a query its backend does not misread is answered iff it follows within `max_depth` nested rules, operations having their outcome on that backend |
| `InferenceProofs!BackendsFindTheSame` | a query that both backends read alike, over a KB whose operations come to the same on both, answered to the end on one has the same proofs, each as often, on the other, unless that one meets an error |
| `InferenceProofs!NegationIsFalsity` | with negation and without recursion, iff it holds in the completion |
| `InferenceProofs!SolutionsAreProofs` | every solution is a proof of the query within `max_depth`, and a solve that is over below its cap has found them all, with recursion, negation and errors |
| `CommandLineProofs!ShellKeepsCheckedKb` | the session KB always checks, until an invalid file is loaded |
| `CommandLineProofs!PastingLosesNothing` | a text that checks as a whole is not refused in parts |
| `CommandLineProofs!ShellGroupsLines` | the parser finds the documented facts and rules, when no line ends with a goal that ends with the letters `and` |
| `CommandLineProofs!LaterInputOnlyAdds` | what is typed later changes no statement of the session |
| `CommandLineProofs!ShellKeepsNamedKb` | the KB a shell is started over stays under every query until a reset |
| `CommandLineProofs!ExitCodesTell` | the exit code tells how the tool call went |
| `HttpApiProofs!ApiTyped` | the types, and that a connection is served exactly from its acceptance to its end |
| `HttpApiProofs!ApiCountsOnce` | the requests counted are those that reached a handler, less those whose handling raised, plus those counted again when their answer failed at the headers, at most one for each client that left |
| `HttpApiProofs!ApiCountersAgree` | a tool is counted once for each answer 200 |
| `HttpApiProofs!ApiPagesAddUp` | the buckets on a page are cumulative and end in the count |
| `HttpApiProofs!ApiReportsOnce` | no more answers 503 than launches tried |
| `HttpApiProofs!ApiClosesClean` | the server that ended has no engine and ended by a signal |
| `HttpApiProofs!ApiAnswers` | a client that stays is answered, unless its own request is one of the three that raise (`Stumbles`) |
| `LanguageServerProofs!EditorCacheIsCurrent` | the cached items of an open document are those of its text |
| `LanguageServerProofs!EditorShowsItsText` | the diagnostics shown are those of the text shown, none for a closed document |
| `LanguageServerProofs!EditorLocatesLines` | the items of a text are on its lines, in order and apart |
| `LanguageServerProofs!CircularIsCircular` | a predicate called circular has no derivation |
| `LanguageServerProofs!EditorReadsAsTools` | the editor's parser finds the facts and rules, with their ids, that the tools' parser finds |
| `LanguageServerProofs!EditorAnswersFit` | hover counts as `check_kb` would of the text now, and completion offers the predicates it finds defined that begin with a letter from a to z or an underscore |

Each rests on an inductive invariant; none of the properties is inductive by itself.

*Engine.*  A session may load any KB.  A statement in a registered predicate is taken by the
next `clear_workspace`; so the sessions rest on `SignedRegistered`, that every visible
statement whose signature can be read is of a registered predicate, also after a load that
raised half-way (`RebuildHolds`, `AllVisible`), and on `FingerprintHolds`, that a fingerprint
which is set while no load has raised since is that of the contents.  What is left out is
what the code does not do: copies of statements with an unreadable signature stay, which
`HoldsKb` allows for them alone.  `EngineInv` is the stronger invariant of a clean
world, where the contents are exactly a KB's; each command preserves it, and the proofs about
the server build on that.

*Server.*  `AnswersOverOwnKB` speaks of results, and a result is only as good as the reply
in the pipe, the request that caused it, and the workspace at the moment it was served.
`ServerInv` adds those: the holder of the lock is the only thread in an exchange; at most
one of a request in `stdin` or its reply in `stdout` is in flight, and it is the holder's; a
thread waiting for its query's reply is either before the load took effect, or the
workspace is its KB's, or the process is a new and empty one, on which the query fails;
what a reply carries fits the request it answers.  Each action of `Next` has one lemma.
The lemmas are about `Core(w)`: `Core(FALSE)` leaves the workspace out and needs no clean
KBs, `Core(TRUE)` has it all.  The refinement follows step by step: a step of the
protocol maps to asking, to answering or failing one question, or to a stutter.
`ServerHeals` adds that a call about to retry, to read end of file or to read an error reply
has met a fault since it took the lock, unless the workspace decides its outcome
(`HealInv`).

*Restart policy.*  `PolicyInv` stands on top of `Core(FALSE)`.  `Room`: at the query of a
load_and_query the count of requests still has room, because the policy is looked at with
the load (`RestartDue`) and with nothing else.  `ServedInv` relates the requests a process
has served to that count, with one to spare after a crash (`Slack`), since the relaunch of
a broken-pipe retry forgets the request it retries.  `LaunchInv` is an account: `Unpaid` is
the one launch that may come without a restart being counted.

*Bridge.*  A server that is not the default any more is in nobody's hand but the closing
thread's, unless that close saw it in another's (`TakenInv`); whoever is inside a method
holds its lock (`HandsInv`); so two engines need two servers in use, and an engine is
ended only by the holder of its lock.

*Tools.*  A parse-cache entry is the parse of its own text, with the query that text has,
never a caller's (`CacheInv`); what is registered is acceptable (`RegistryInv`); a call that
reasons has settled on its text, and keeps it (`CallInv`, `BeforeInv`).

*Solver.*  A stream *decides* a statement (`Decides`) if it has a proof only when the
statement holds, and has one or raises when it holds.  `Then`, `Both` and `Negated` carry
that from streams to streams, so a literal, a body, a clause and an atom do, by induction over
the goals, the clauses and the levels of depth; the streams at a level decide the atoms
that follow within it (`StreamsDecided`).  Without recursion one more level changes no
atom whose rank is within the depth, so the consequences are a fixpoint, and a fixpoint is
the only model (`ConsequencesComplete`, `CompletionUnique`).  `Progress` says how many proofs
the consumer has taken: a solve that ends well either exhausted its stream, or stopped at
the cap after a proof, so in both cases an error it did not report hid no answer.  That the
backends agree goes along the same levels (`StreamsMatch`): two streams that do not raise
have as many copies of each proof (`Same`), which a conjunction multiplies
(`CountOfProduct`), a rule relabels (`RelabelledSame`) and an atom adds up over its clauses
(`AtomCounted`); a sum does not depend on the order they are tried in (`OrdersTotal`).  `not`
needs `Decides` too: a stream that raises after its first proof fails it, and the other
backend's cannot be empty.  `SolutionsAreProofs` goes along the levels once more: a stream is
*exact* (`Exact`) for a set of proofs if it yields no other and, unless it raises, all of them.
Both halves are needed together, because `not` yields its proof only where there is none
below.  A query that Prolog reads with its negated goals as atoms has no solution at all
(`SearchExact`), so it finds no wrong one either.

*Shell.*  What is entered, short of a reset, adds lines to the session KB (`InputGrows`), and
reading a text with one more line is reading one more line (`ReadAppend`): so a statement
changes only when the added line continues it, which `InputOnlyAdds` names.  For `PasteSafe`,
as long as no statement is cut in two the session KB and the lines held are together all that
was typed and the session KB ends in a finished statement (`Together`), until a flush is
refused; from then on nothing that begins with what was typed checks (`Doomed`), because a
finished text that fails a check fails it with any lines after it (`PrefixChecks`).
For `LinesGroupAsDocumented`, after every line the facts and the rules read, with the one
being read, are the documented statements so far, and the rule being read is the last of them
word for word (`Grouped`).  So its body is empty exactly when the statement ends with its
first `if`, and ends with `and` exactly when the statement does (`WantsAsDocumented`): both
readers take the next line for the same thing.  A line that raises ends the comparison for
good (`BadStays`).
`CliInv` carries the types, the session KB and the KB the shell was given through the
process around it.

*HTTP API.*  The step of the thread determines what kind of request it is on
(`StepsMatchPaths`), so that one answer is counted under one path; and for each
connection, an owed answer is pending, under way or given.  The counts are sums over
families; `Due` and `Departing` are what the request under way still adds to them, and a
request counted twice is paid for by a client that left.

*Language server.*  A closed document has version 0 and no entry under a later version
(`ClosedAtZero`), an open one has its entry (`OpenIsCached`): so versions may start over.
The items of a text are located by induction over its lines.  For the circular report, the
names without the one reported are closed under the rules, so what may hold
(`MayHold`, the least closed set) lacks it; the exceptions are a name that a rule of its own
negates, and one that is also the name of a literal.  That the two parsers agree is an
induction over the lines (`ReadSteps`): the items so far are the statements read so far, and
an item grows exactly when the other parser waits for more of its rule.  That an answer is
given from the current items is an invariant of its own (`AnswersAreGiven`), since every
change of the text withdraws it.  The proof found the condition `HasNoAtom`: hover looks for
a name and a parenthesis, so it does not count an atom `p` beside `p(x)`, and `check_kb` does.

Assumptions, beside those of the modules on their constants: the theorems about the
server's workspace assume `CleanWorld` -
every statement has a readable signature, the engine refuses none of a KB's, and `prove/3`
is not a user predicate's.  Without it `AnswersAreOverOwnKB` is false, and the run
`server_failing_kb` shows the counterexample.  The three about
sessions, `ServerProtocol`, `RepliesMatchRequests` and
the policy theorems hold without it; the latter assume `OnlyLoads`, that all calls are load
and load_and_query: `retract`, `assert_clause`, `ping` and `stats` may be due for a restart in
between.  `Inference` assumes that there are finitely many atoms, as a KB has, that no atom
is named `true`, `false` or `error`, that an operation is no atom and has an outcome on each
backend, and that a missing id is not an id.  `LanguageServer` and
the modules under it assume that a word of a text stands for one thing: a piece of junk is
not a goal, and a name of a predicate is none of the words of the grammar.

Induction.  The library's induction theorems take an operator as a parameter, which the
installed provers cannot instantiate; what a fold or a recursive function computes is
proved by the least counterexample instead (`NatMin`, `NatInd`), from the equations of the
function, whose existence is a lemma of its own (`Recursion`).  The same does not work for
`SelectSeq` and for `RECURSIVE` operators; the models the proofs are about have neither where
a proof looks into them.

Model-checked only:

- liveness under fairness (`CallsReturn`, `ConnectionsEnd`, `SignalEndsServer`), which the
  prover does not reach.

## What the runs found

- `server_failing_kb` (`prolog_engine.pl:86`): a load that raises half-way leaves
  the fingerprint of the workspace it cleared.  A later load with that fingerprint
  is skipped over the remains, and its query quietly has no answers.
- `solver_query` (`translator.py:383`): `_translate_query` does not translate `NOT`.
  On Prolog a query with a negated goal finds nothing or is a syntax error; the native
  engine answers it.

Met while modelling, not checked by a run:

- a crash between load and query makes the query the first request of a new engine
  (`prolog_server.py:187`), against the comment at line 90.  It fails; it never answers
  wrongly (`AnswersOverOwnKB`), and needs a crash (`BareQueryNeedsCrash`);
- a thread that took the server before `close()` launches its engine again after it
  (`prolog_bridge.py:157`), and nobody ends that engine, `__del__` included.  The HTTP
  API, the one caller of close, closes after its request loop has ended;
- errors of the tools that return dicts are not counted (`server.py:74`);
- in the shell a blank line flushes a rule that still lacks its body, and the next
  fact becomes that body: `a IF`, blank line, `b` makes `a IF b` (`cli.py:435`), against
  `docs/CLI.md:117`, "A blank line finishes the pending statement".  `InputOnlyAdds`
  exempts it by name (`EndsOpen`);
- after the `:load` of an invalid file every later statement is dropped, with the
  file's message, until `:reset` (`cli.py:567`);
- whether a rule goes on is read off the last letters of its body (`language.py:283`), against
  `docs/EUCLID_IR.md:342`.  `a IF demand`, followed by the fact `b`, is one rule with the body
  `demand b`, and the fact is gone; so is the next statement, whatever it is, after any body
  that ends with `demand` or `$c == sand`.  `EndsInAnd` has these goals and the run `repl` one
  of them: `GroupsAsDocumented(lines)` fails there, and `LinesGroupAsDocumented` is about the
  lines that do not end so (`EndsPlainly`);
- a line of a rule that ends with a second `if` is not continued (`language.py:283`), against
  the letter of `docs/EUCLID_IR.md:341`: `a IF b IF`, then `c`, is a rule and a fact.  No
  grammar has such a rule, and the reference reads that `if` as the parser does;
- `=` is unification only natively (`ir_engine.py:351-355`), against
  `docs/NATIVE_ENGINE.md:61`, "`=` is unification (matches Prolog)".  On Prolog `=` is not in
  `is_arith_goal` (`translator.py:14-16`) and the guard for built-ins fails it without an error
  (`:34-38`): `p IF q AND a = a`, `q` and `? p` is answered natively and not on Prolog.  A
  comparison without variables that begins with a number reaches Prolog as a quoted atom,
  `p IF 1 < 2` as `'1 < 2'`, and fails; `==` and `!=` of symbols compare natively and are an error on Prolog,
  as the comment at `ir_engine.py:405` says.  `SameOutcomes` excepts such KBs from `BackendsAgree`;
- a query of one operation, `? $x > 1`, is not put in parentheses (`translator.py:381`), and
  with `Query = ` before it is a syntax error or an atom on Prolog (`Operates`);
- a rule whose id is `null` has no id on Prolog (`translator.py:48`, `:55`); `RuleId` leaves it
  out;
- solutions come in text order natively and facts first on Prolog, so under a cap the
  backends may keep different ones;
- the Prolog cap does not end the search (`translator.py:471`): a capped query may
  still run into an error or the timeout;
- in a recursive KB the depth limit makes a goal fail, and its negation succeed, where
  neither holds; `NegationMeansFalse` is about non-recursive KBs for that reason;
- every rebuild adds a copy of `euclid_json_value/2`, which `_ENGINE_PREDICATES` omits
  (`translator.py:365`);
- a pending timeout reason is overwritten by the periodic one (`prolog_server.py:185`),
  so a timeout need not show in the metric of its name; the relaunch after a
  crash noticed by the liveness check is not counted (`prolog_server.py:187`), hence the
  crashes in `RestartsExplainLaunches`; the relaunch of a broken-pipe retry resets
  `requests_since_restart` after the retried request was counted
  (`prolog_server.py:197`), hence `Slack`;
- a clause whose signature cannot be read is asserted but never registered
  (`translator.py:411`), so `clear_workspace` leaves it to the next KB, against
  `prolog_server.py:8`.  `PrologEngine` models it (`Unsigned`), `engine_session` has such a
  statement, and `RebuildIsExact` says that nothing else is left;
- a what_if that removes the only statement of a KB leaves a blank text, which `_resolve`
  takes for none given: its second half answers over the preloaded KB
  (`server.py:729`, `server.py:648`);
- string literals with `and`, `if` or a comma in them are cut (`ir_parser.py:379-385`,
  `translator.py:322`), against `docs/EUCLID_IR.md:171-172`;
- the linter does not see an unsafe negation that is not the whole body: the parser has
  joined the goals with commas (`language.py:302`) and the linter splits at AND
  (`linter.py:26`).  `Unsafe` models it;
- the check of undefined predicates ignores arity and sees one goal of a query, so that a
  passing check does not guarantee what `validation.py:159-163` says; `check_kb` has no
  limit of size while `reason` has, and a shell session can outgrow it (`cli.py:415`);
- `-f` or `--knowledge` before a subcommand is forgotten (`cli.py:185-208`, against
  `docs/CLI.md:29-33`), and a file or a text of blanks falls back to the preloaded KB;
- the editor's parser does not continue a rule with a line that opens with `and`, and takes
  the id of a comment line inside a rule, which the other parser does not see
  (`OneReading` names both);
- a diagnostic of the editor that is not located is put on the first line, and one about
  a predicate may be put on a query that has its name inside another word
  (`diagnostics.py:82-99`); hover in a rule over several lines looks a column of the line
  up in the joined text (`hover.py:25`), and hover on `p(...)` leaves statements of an atom `p`
  uncounted (`hover.py:35-42`), unlike `check_kb`;
- completion never offers a predicate that begins with a letter beyond a to z, such as `è_vero`
  (`autocomplete.py:38,42`), although `check_kb` finds it defined (`validation.py:35`);
  `AnswersFitText` is about the others (`Completable`);
- of `_p(x)`, `a-b(x)`, `p (x)` and names not in the normal form C, `check_kb` and the editor
  make different things: the first knows no name that begins with an underscore and takes a
  blank before the parenthesis, the editor's patterns do the reverse.  Such terms are outside
  `StatementLines`;
- looking at a closed document caches it without version, and it is not read again from its
  file while it stays closed (`euclid_lsp/server.py:41`); `AnswersFitText` is about open
  ones;
- a tool's answer to a client that left is counted with 200 and again with 500, when the
  headers fail to be written (`euclid_api.py:523`); `CountedOnce` counts these (`recounted`);
- three requests of a client that stays get no answer and are counted nowhere: a POST with a
  bearer token that is not ASCII, for which `compare_digest` raises `TypeError`
  (`euclid_api.py:159`), against the docstring's "Unauthenticated POSTs get 401" (line 29); a
  body that is JSON and no request (`:434`); and `/health` when `EUCLID_BACKEND` names no
  backend, for which `resolve_backend` raises `ValueError` (`:474`, `engine.py:45`).
  `Stumbles` names them, and `StayersAreAnswered` is about all others;
- a client that stays and does not read a long answer holds the one thread in `sendall`, as one
  that does not send holds it in a read, and a signal does not end the server meanwhile
  (`euclid_api.py:525`, `:503`; `HeldUp`);
- errors of tools are answered with 200; a probe after a crash launches an engine, and one that
  cannot be launched is 503, where the docstring at `euclid_api.py:470` speaks of an engine that
  does not answer; `_record_http` keeps a series for every path a client invents.

## Not modelled, and what is left

- terms: unification, substitutions, arithmetic, operators and their quoting, string
  literals and YAML texts.  The atoms of `Inference` and the words of `StatementLines`
  stand for them; the properties here do not look inside a term, and enumerating terms
  is beyond TLC.  Hence translation, provers and language are `partly`;
- the choice of a backend and the translation cache of `engine.py`;
- gauges, the registry of families and the text format of metrics.  Torn reads between
  `observe` and `render` need two threads, which the API does not have;
- rendering (`explain.py`, `kb_summary.py`, the findings of `diagnose`), records, and the
  wrapper `integrations/euclid_cli.py`: text without state;
- `list_kbs` as two readings of the registry.
