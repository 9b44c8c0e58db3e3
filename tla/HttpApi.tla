------------------------------ MODULE HttpApi ------------------------------
(***************************************************************************)
(* integrations/euclid_api.py: one thread that accepts a connection, reads *)
(* one request, runs a tool, counts and answers, and accepts the next.     *)
(* Clients send piecemeal, take their answer when they like and leave when *)
(* they like, the engine may stop answering, a signal may ask for the end. *)
(* What a tool finds is a choice over what ReasoningTools' tools return.   *)
(***************************************************************************)
EXTENDS Metrics, FiniteSets, Folds

CONSTANTS
  Client, NoClient,
  Offers,         \* bound: the requests the nth connection may carry
  Files,          \* bound: what EUCLID_KB_PATH may name
  Backends,       \* bound: what EUCLID_BACKEND may resolve to
  Took,           \* bound: the time a request of each path takes
  MaxFound,       \* bound: solutions a tool finds
  MaxLeft         \* bound: clients that leave

VARIABLES
  kbFile,         \* what EUCLID_KB_PATH names
  backend,        \* of resolve_backend(), "invalid" when it raises
  pc, serving,    \* of the server's thread; the connection it is on
  status,         \* of the response being written
  backlog,        \* connections not yet accepted
  req, sent,      \* of each client: its request, how much of it was sent
  gone,           \* clients that closed their end
  stopping,       \* shutdown() was called
  engine,         \* _default_server: cold before there is one, then without
                  \* a process, with one that is up, or with one that is wedged
  http, latency, solutions, authFailures, toolCalls,   \* metrics
  \* History: the status each client received; connections made; requests
  \* dispatched to do_GET or do_POST; of those, the ones whose handling raised
  \* before anything was counted, and the ones counted a second time; clients
  \* that left; attempts to launch an engine.
  got, made, dispatched, raised, recounted, left, launches

serverVars == <<kbFile, backend, pc, serving, status, stopping>>
clientVars == <<backlog, req, sent, gone, got, made, left>>
metricVars == <<http, latency, solutions, authFailures, toolCalls>>
tallyVars  == <<dispatched, raised, recounted>>
engineVars == <<engine, launches>>

vars == <<serverVars, clientVars, metricVars, tallyVars, engineVars>>

----------------------------------------------------------------------------
(* Requests.  A key is "right" when it is valid or none is asked for, and  *)
(* "garbled" when it cannot be compared: a character of it is not ASCII.   *)
(* A path with a query string is counted under its first part.             *)

Reasoning == {"reason", "explain", "diagnose", "what_if"}
Tools     == Reasoning \cup {"check_kb", "register_kb", "unregister_kb", "list_kbs"}
Paths     == Tools \cup {"health", "metrics", "elsewhere"}
Statuses  == {200, 400, 401, 404, 500, 503}

\* A body that is not JSON; that dict() or strip() stumbles on; that names no
\* KB; with a blank query or modification; with an argument the tool's code
\* raises on; that has all it needs.
Bodies == {"not JSON", "stumbles", "no KB", "blank", "ill-typed", "fine"}

RequestType == [method : {"GET", "POST", "PUT"}, path : Paths, plain : BOOLEAN,
                key : {"right", "wrong", "garbled"}, body : Bodies]

NoRequest == [method |-> "PUT", path |-> "elsewhere", plain |-> TRUE, key |-> "wrong",
              body |-> "fine"]

KbFiles == {"unset", "good", "missing", "unreadable", "too long", "invalid"}

ASSUME ApiAssumption ==
  /\ NoClient \notin Client
  /\ Offers \in Seq(SUBSET RequestType)
  /\ Files \subseteq KbFiles
  /\ Backends \subseteq {"prolog", "native", "invalid"}
  /\ Took \in [Paths -> Nat \ {0}]
  /\ MaxFound \in Nat /\ MaxLeft \in Nat

Keys == Paths \X Statuses

\* The path of the request matches a route, of its method.
Routed(r) ==
  /\ r.plain
  /\ \/ r.method = "GET" /\ r.path \in {"health", "metrics"}
     \/ r.method = "POST" /\ r.path \in Tools

----------------------------------------------------------------------------
(* Start-up: a KB file that cannot be used ends the process before it      *)
(* listens.                                                                *)

Preloaded == kbFile = "good"

Init ==
  /\ kbFile \in Files /\ backend \in Backends
  /\ pc = IF kbFile \in {"unset", "good"} THEN "listen" ELSE "exited"
  /\ serving = NoClient /\ status = 200
  /\ backlog = <<>>
  /\ req = [c \in Client |-> NoRequest]
  /\ sent = [c \in Client |-> "nothing"]
  /\ gone = {} /\ stopping = FALSE
  /\ engine = "cold"
  /\ http = NoSeries /\ latency = NoSeries /\ solutions = NoSeries
  /\ authFailures = 0 /\ toolCalls = NoSeries
  /\ got = [c \in Client |-> 0] /\ made = 0 /\ dispatched = 0 /\ raised = 0
  /\ recounted = 0 /\ left = 0 /\ launches = 0

----------------------------------------------------------------------------
(* Clients, the engine, signals.                                           *)

Unconnected(c) == c # serving /\ c \notin ToSet(backlog)

\* A client connects, with none of its request sent yet.
Connect(c, r) ==
  /\ pc \notin {"closing", "closed", "exited"}
  /\ Unconnected(c) /\ made < Len(Offers) /\ r \in Offers[made + 1]
  /\ backlog' = Append(backlog, c)
  /\ req' = [req EXCEPT ![c] = r]
  /\ sent' = [sent EXCEPT ![c] = "nothing"]
  /\ gone' = gone \ {c}
  /\ got' = [got EXCEPT ![c] = 0]
  /\ made' = made + 1
  /\ UNCHANGED <<serverVars, metricVars, tallyVars, engineVars, left>>

\* The request line and headers, then the body.
Send(c) ==
  /\ ~Unconnected(c) /\ c \notin gone /\ sent[c] # "all"
  /\ sent' = [sent EXCEPT ![c] = IF @ = "nothing" THEN "head" ELSE "all"]
  /\ UNCHANGED <<serverVars, metricVars, tallyVars, engineVars,
                 backlog, req, gone, got, made, left>>

Leave(c) ==
  /\ ~Unconnected(c) /\ c \notin gone /\ left < MaxLeft
  /\ gone' = gone \cup {c} /\ left' = left + 1
  /\ UNCHANGED <<serverVars, metricVars, tallyVars, engineVars,
                 backlog, req, sent, got, made>>

\* The client takes what the thread waits to write.
Read(c) ==
  /\ pc = "blocked" /\ c = serving /\ c \notin gone
  /\ pc' = "unblocked"
  /\ UNCHANGED <<kbFile, backend, serving, status, stopping, clientVars, metricVars,
                 tallyVars, engineVars>>

\* The process stops answering, or dies.
EngineFails ==
  /\ \/ engine = "up" /\ engine' = "wedged"
     \/ engine \in {"up", "wedged"} /\ engine' = "none"
  /\ UNCHANGED <<serverVars, clientVars, metricVars, tallyVars, launches>>

\* Defects: shutdown() waits, in the thread that serves, for that thread to
\* end; the engine is closed by the signal and not after the last request.
Waiting(step) == "waits for itself"
ClosesAtSignal(step) == step = "signal"

\* Where the serving thread goes on after the handler: shutdown() is left to a
\* thread of its own.
Resumes(step) == step

\* prolog_bridge.close() is called by the last steps of main().
ClosesEngine(step) == step = "finally"

Terminate ==
  /\ pc \notin {"closing", "closed", "exited"} /\ ~stopping
  /\ stopping' = TRUE
  /\ pc' = Resumes(pc)
  /\ engine' = IF ClosesEngine("signal") THEN "cold" ELSE engine
  /\ UNCHANGED <<kbFile, backend, serving, status, clientVars, metricVars, tallyVars,
                 launches>>

----------------------------------------------------------------------------
(* The serving thread.                                                     *)

Goes(step) == pc' = step /\ UNCHANGED <<kbFile, backend, stopping>>

\* Defect: an exception ends the thread.
EndThread == Goes("exited") /\ serving' = NoClient /\ UNCHANGED status

\* The connection is closed, answered or not.
Disconnect == Goes("listen") /\ serving' = NoClient /\ UNCHANGED status

\* Defect: refusals are left out of the histogram.
RecordUnlessRefused(p, s) ==
  /\ http' = Inc(http, <<p, s>>, 1)
  /\ latency' = IF s = 401 THEN latency ELSE Observe(latency, p, Took[p])

\* _record_http.
Record(p, s) ==
  /\ http' = Inc(http, <<p, s>>, 1)
  /\ latency' = Observe(latency, p, Took[p])

\* _send, up to the first byte: it is counted before anything is written.
Respond(s, step) ==
  /\ Goes(step) /\ status' = s /\ UNCHANGED serving
  /\ Record(req[serving].path, s)

Accept ==
  /\ pc = "listen" /\ ~stopping /\ backlog # <<>>
  /\ Goes("read") /\ serving' = Head(backlog) /\ UNCHANGED status
  /\ backlog' = Tail(backlog)
  /\ UNCHANGED <<req, sent, gone, got, made, left, metricVars, tallyVars, engineVars>>

\* handle_one_request: nothing limits how long the request line and the headers
\* may take.  The library drops an empty request and answers a method that has
\* no handler itself, and neither is counted.
ReadHead ==
  LET c == serving IN
  /\ pc = "read" /\ (sent[c] # "nothing" \/ c \in gone)
  /\ IF sent[c] = "nothing" \/ req[c].method = "PUT"
       THEN Disconnect /\ UNCHANGED dispatched
       ELSE Goes("route") /\ dispatched' = dispatched + 1 /\ UNCHANGED <<serving, status>>
  /\ UNCHANGED <<clientVars, metricVars, engineVars, raised, recounted>>

\* The handling of the request raises before anything is counted.
Raise == Disconnect /\ raised' = raised + 1 /\ UNCHANGED <<http, latency>>

\* _authenticated, of a POST.
Admitted(r) == r.method # "POST" \/ r.key = "right"

\* do_GET and do_POST; a key that compare_digest cannot compare raises.
Route ==
  LET r == req[serving] IN
  /\ pc = "route"
  /\ \/ /\ ~Admitted(r) /\ r.key = "garbled"
        /\ Raise /\ UNCHANGED authFailures
     \/ /\ ~Admitted(r) /\ r.key # "garbled"
        /\ authFailures' = authFailures + 1
        /\ Respond(401, "write") /\ UNCHANGED raised
     \/ /\ Admitted(r) /\ ~Routed(r)
        /\ Respond(404, "write") /\ UNCHANGED <<authFailures, raised>>
     \/ /\ Admitted(r) /\ Routed(r)
        /\ Goes(CASE r.path = "health"  -> "ping"
                  [] r.path = "metrics" -> "scrape"
                  [] OTHER              -> "body")
        /\ UNCHANGED <<serving, status, http, latency, authFailures, raised>>
  /\ UNCHANGED <<clientVars, solutions, toolCalls, dispatched, recounted, engineVars>>

\* Defect: a field that is missing or blank is taken as it comes.
UncheckedBody(r, cut) ==
  IF cut \/ r.body = "not JSON" THEN 400 ELSE IF r.body = "fine" THEN 200 ELSE 0

\* What _read_body and the checks of a handler answer a body with, of which a
\* client that left may have sent a part only: 0 when they raise, 200 when they
\* pass it on.
BodyStatus(r, cut) ==
  CASE cut \/ r.body = "not JSON"                             -> 400
    [] r.body = "stumbles"                                    -> 0
    [] \/ r.body = "no KB" /\ ~Preloaded /\ r.path \in Reasoning \cup {"check_kb"}
       \/ r.body = "blank" /\ r.path \in {"diagnose", "what_if"} -> 400
    [] OTHER                                                  -> 200

ReadBody ==
  LET c == serving
      s == BodyStatus(req[c], sent[c] # "all")
  IN /\ pc = "body" /\ (sent[c] = "all" \/ c \in gone)
     /\ \/ s = 0 /\ Raise
        \/ s = 400 /\ Respond(400, "write") /\ UNCHANGED raised
        \/ s = 200 /\ Goes("tool") /\ UNCHANGED <<serving, status, http, latency, raised>>
     /\ UNCHANGED <<clientVars, solutions, authFailures, toolCalls, dispatched, recounted,
                    engineVars>>

\* The engine a tool leaves behind, and whether it tried to launch one: it is
\* left alone by what does not reason or is refused before, launched when there
\* is no process, and dropped when the tool's time is up.
EngineAfter(tool) ==
  {<<engine, 0>>} \cup
  IF backend # "prolog" \/ tool \notin Reasoning THEN {}
  ELSE {<<"up", 1>>, <<"none", 1>>} \cup
       (IF engine \in {"up", "wedged"} THEN {<<"none", 0>>} ELSE {})

\* Defect: a tool without the decorator that counts it.
CallsInside(tool, inner) == Inc(toolCalls, "reason", inner)

\* Each tool that returns is counted, and each reason it ran.
CallsAfter(tool, inner) ==
  Inc(Inc(toolCalls, "reason", inner), tool, 1)

\* A tool raises, or returns solutions or an error, which is answered alike; with
\* an invalid backend there are no solutions.  Inside, what_if reasons twice, explain and diagnose once, unless refused.
InnerReasons(tool) ==
  CASE tool = "what_if" -> 0..2 [] tool \in {"explain", "diagnose"} -> 0..1 [] OTHER -> {0}

CallTool ==
  LET r == req[serving] IN
  /\ pc = "tool"
  /\ \E after \in EngineAfter(r.path), inner \in InnerReasons(r.path) :
       /\ engine' = after[1] /\ launches' = launches + after[2]
       /\ \/ /\ Respond(500, "write")
             /\ toolCalls' = Inc(toolCalls, "reason", inner)
             /\ UNCHANGED solutions
          \/ /\ r.body # "ill-typed"
             /\ Respond(200, "write in try")
             /\ toolCalls' = CallsAfter(r.path, inner)
             /\ \E n \in 0..(IF r.path \in Reasoning /\ backend # "invalid"
                             THEN MaxFound ELSE 0) :
                  solutions' = Inc(solutions, r.path, n)
  /\ UNCHANGED <<clientVars, authFailures, tallyVars>>

\* Defect: an engine that does not answer is left as it is.
KeepWedged == "wedged"

\* PrologServer drops an engine that did not answer; a dead one is gone.
Dropped == "none"

\* A request launches the process that is missing; the periodic restart waits for
\* a load.
Relaunch(result) ==
  engine = "none" /\ engine' = result /\ launches' = launches + 1

\* _handle_health: resolve_backend may raise.  Else, by health_info, no engine yet
\* is as good as one that answers; one that hangs or dies under the probe does not.
Ping ==
  /\ pc = "ping"
  /\ \/ backend = "invalid" /\ Raise /\ UNCHANGED engineVars
     \/ /\ \/ (backend = "native" \/ engine \in {"cold", "up"}) /\ UNCHANGED engineVars
           \/ backend = "prolog" /\ Relaunch("up")
        /\ backend # "invalid"
        /\ Goes("stats") /\ UNCHANGED <<serving, status, http, latency, raised>>
     \/ /\ backend = "prolog"
        /\ \/ engine \in {"up", "wedged"} /\ engine' = Dropped /\ UNCHANGED launches
           \/ Relaunch("none")
        /\ Respond(503, "write") /\ UNCHANGED raised
  /\ UNCHANGED <<clientVars, solutions, authFailures, toolCalls, dispatched, recounted>>

\* Stats that do not come are left out of the answer.
Stats ==
  /\ pc = "stats"
  /\ \/ engine \in {"cold", "up"} /\ UNCHANGED engineVars
     \/ engine = "wedged" /\ engine' = Dropped /\ UNCHANGED launches
     \/ Relaunch("up") \/ Relaunch("none")
  /\ Respond(200, "write")
  /\ UNCHANGED <<clientVars, solutions, authFailures, toolCalls, tallyVars>>

\* _handle_metrics: the request is counted before the page is rendered.
Scrape ==
  /\ pc = "scrape"
  /\ Respond(200, "write")
  /\ UNCHANGED <<clientVars, solutions, authFailures, toolCalls, tallyVars, engineVars>>

\* Defect: the error that answers a failed answer is sent from the same try.
InTry == "write in try"

\* The error is sent from the except clause.
OutOfTry == "write"

\* The connection is closed behind an answer its client gets, if it is there.
Finish ==
  /\ got' = IF serving \in gone THEN got ELSE [got EXCEPT ![serving] = status]
  /\ Disconnect /\ UNCHANGED <<http, latency, recounted>>

\* The headers and the body.  A body larger than the socket takes at once waits
\* for the client, with no limit.  Writing to a client that left may go unnoticed,
\* or fail: at the headers the exception leaves _send, and a tool's handler takes
\* it for the tool's and sends again, with 500.
Write ==
  /\ pc \in {"write", "write in try"}
  /\ \/ Finish
     \/ /\ serving \notin gone
        /\ Goes("blocked") /\ UNCHANGED <<serving, status, http, latency, got, recounted>>
     \/ /\ serving \in gone
        /\ IF pc = "write in try"
             THEN Respond(500, OutOfTry) /\ recounted' = recounted + 1
             ELSE Disconnect /\ UNCHANGED <<http, latency, recounted>>
        /\ UNCHANGED got
  /\ UNCHANGED <<backlog, req, sent, gone, made, left, solutions, authFailures,
                 toolCalls, dispatched, raised, engineVars>>

\* The rest of the body, once the client has read, or left: _send minds neither.
WriteRest ==
  /\ \/ pc = "unblocked"
     \/ pc = "blocked" /\ serving \in gone
  /\ Finish
  /\ UNCHANGED <<backlog, req, sent, gone, made, left, solutions, authFailures,
                 toolCalls, dispatched, raised, engineVars>>

\* serve_forever looks for a shutdown before it looks for a connection; the
\* socket is closed with whoever waits at it, then the engine.
StopServing ==
  /\ pc = "listen" /\ stopping
  /\ Goes("closing") /\ backlog' = <<>>
  /\ sent' = [c \in Client |-> IF c \in ToSet(backlog) THEN "nothing" ELSE sent[c]]
  /\ UNCHANGED <<serving, status, req, gone, got, made, left, metricVars, tallyVars,
                 engineVars>>

CloseDown ==
  /\ pc = "closing"
  /\ Goes("closed")
  /\ engine' = IF ClosesEngine("finally") THEN "cold" ELSE engine
  /\ UNCHANGED <<serving, status, clientVars, metricVars, tallyVars, launches>>

Server == \/ Accept \/ ReadHead \/ Route \/ ReadBody \/ CallTool \/ Ping \/ Stats
          \/ Scrape \/ Write \/ WriteRest \/ StopServing \/ CloseDown

Next ==
  \/ \E c \in Client : \/ Send(c) \/ Read(c) \/ Leave(c)
                       \/ \E r \in UNION Range(Offers) : Connect(c, r)
  \/ EngineFails \/ Terminate
  \/ Server

Spec == Init /\ [][Next]_vars

\* The thread runs on; clients need not, and the system may never be stopped.
FairSpec == Spec /\ WF_vars(Server)

----------------------------------------------------------------------------
(* Properties.                                                             *)

Steps == {"listen", "read", "route", "body", "tool", "ping", "stats", "scrape",
          "write", "write in try", "blocked", "unblocked", "closing", "closed", "exited"}

\* The values the server, its clients and its metrics take; a connection is
\* being served exactly between its acceptance and its end.
TypeOK ==
  /\ kbFile \in KbFiles /\ backend \in {"prolog", "native", "invalid"} /\ pc \in Steps /\ status \in Statuses
  /\ serving \in Client \cup {NoClient}
  /\ serving = NoClient <=> pc \in {"listen", "closing", "closed", "exited"}
  /\ backlog \in Seq(Client)
  /\ req \in [Client -> RequestType] /\ sent \in [Client -> {"nothing", "head", "all"}]
  /\ gone \subseteq Client /\ stopping \in BOOLEAN
  /\ engine \in {"cold", "none", "up", "wedged"}
  /\ IsCounter(http, Keys) /\ IsCounter(solutions, Tools) /\ IsCounter(toolCalls, Tools)
  /\ authFailures \in Nat
  /\ got \in [Client -> Statuses \cup {0}]
  /\ made \in Nat /\ dispatched \in Nat /\ raised \in Nat /\ recounted \in Nat
  /\ left \in Nat /\ launches \in Nat

\* Requests counted, whatever their path and status.
Total(requests) == FoldFunction(+, 0, requests)

\* Between two connections, each request that reached a handler has been counted
\* once, unless its handling raised; and once more when the answer of its tool
\* failed at the headers and was sent again as an error, which each client that
\* left can have caused once.
CountedOnce ==
  /\ pc = "listen" => Total(http) = dispatched - raised + recounted
  /\ recounted <= left

\* The two views of the same calls agree: a tool other than reason has been
\* counted once for each answer 200 on its path, whoever left meanwhile, and the
\* solutions counted on a path are no more than such answers can carry.
OkMeansRan ==
  \A t \in Tools :
    /\ Value(toolCalls, t) >= Value(http, <<t, 200>>)
    /\ t # "reason" => Value(toolCalls, t) = Value(http, <<t, 200>>)
    /\ Value(solutions, t) <= MaxFound * Value(http, <<t, 200>>)

\* The three requests that get no answer: a garbled key, a body that is JSON and
\* no request, a probe when the backend's name is invalid.
Stumbles(r) ==
  \/ r.method = "POST" /\ r.key = "garbled"
  \/ /\ Admitted(r) /\ Routed(r)
     /\ \/ r.path \in Tools /\ r.body = "stumbles"
        \/ r.path = "health" /\ backend = "invalid"

\* A client that was accepted and stays to the end of its connection has been
\* answered, a stop and an ailing engine notwithstanding; unless its request is
\* one of those three.
StayersAreAnswered ==
  \A c \in Client :
    Unconnected(c) /\ c \notin gone /\ sent[c] # "nothing" /\ req[c].method # "PUT"
      /\ ~Stumbles(req[c])
        => got[c] # 0

\* No engine is reported as failed twice: the answers 503 are no more than the
\* launches tried, each of which yielded an engine or a failure.
FailureReportedOnce == Value(http, <<"health", 503>>) <= launches

\* Once the API has shut down there is no engine and nothing in flight.
ClosedClean == pc = "closed" => engine = "cold" /\ serving = NoClient /\ stopping

\* A page of metrics, whenever it is rendered, adds up: the buckets of a path
\* rise to the count of its requests, whatever their status.
PageAddsUp ==
  \A p \in Paths :
    LET page == Rendered(Observations(latency, p))
    IN  /\ \A b \in 1..Buckets : page[b] <= page[b + 1]
        /\ page[Buckets + 1] = Total([s \in Statuses |-> Value(http, <<p, s>>)])

\* The thread waits for a client that neither sends the rest nor takes the rest
\* nor leaves.
HeldUp ==
  \/ pc = "read" /\ sent[serving] = "nothing" /\ serving \notin gone
  \/ pc = "body" /\ sent[serving] # "all" /\ serving \notin gone
  \/ pc = "blocked" /\ serving \notin gone

\* As long as no client holds the thread up for good, every connection ends,
\* answered, dropped or reset.
ConnectionsEnd ==
  []<>~HeldUp => \A c \in Client : (c \in ToSet(backlog) \/ c = serving) ~> Unconnected(c)

\* As long as no client holds the thread up for good, a signal is followed by
\* the end of the server.
SignalEndsServer == []<>~HeldUp => (stopping ~> pc = "closed")
============================================================================
