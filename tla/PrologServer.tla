---------------------------- MODULE PrologServer ----------------------------
(***************************************************************************)
(* euclid_mcp/prolog_server.py: threads that share one PrologServer, the   *)
(* lock that serialises their exchanges, the swipl process with its pipes, *)
(* and the process's deaths, timeouts and restarts.                        *)
(*                                                                         *)
(* A thread calls one method at a time.  load_and_query ("execute") holds  *)
(* the reentrant lock over its two exchanges; every other method holds it  *)
(* over one.  Between two steps of the thread that holds the lock the      *)
(* process may answer, be slow, or die.                                    *)
(***************************************************************************)
EXTENDS PrologEngine

CONSTANTS
  Client,          \* threads
  NoClient,        \* nobody holds the lock
  NoAnswer,        \* a result without the contents of a query
  Calls,           \* the calls clients make, a subset of CallType
  RestartEvery,    \* restart_every, 0 for no periodic restart
  MaxCalls,        \* bounds: calls made, processes that crash, Popen failures
  MaxCrashes,
  MaxLaunchFailures

VARIABLES
  proc,            \* _proc: "none", "running", or "dead" and not yet noticed
  stdin,           \* requests written to the process and not yet read by it
  stdout,          \* replies written by the process and not yet read
  lock,            \* the holder of _lock
  pc,              \* where each thread is
  call,            \* the call each thread is in
  cmd,             \* the command of the exchange it is in
  result,          \* what its last call returned or raised
  requests,        \* _requests_since_restart
  pending,         \* _pending_restart_reason
  restarts,        \* euclid_engine_restarts_total, by reason
  timeouts,        \* euclid_engine_timeouts_total
  \* History: requests written to the current process, launches, and the
  \* counts the bounds are on.
  served, launches, calls, crashes, launchFailures,
  disturbed        \* a fault has struck since the lock was last taken

processVars == <<engineVars, proc, stdin, stdout>>
policyVars  == <<requests, pending, restarts, timeouts>>
clientVars  == <<lock, pc, call, cmd, result>>
historyVars == <<served, launches, calls, crashes, launchFailures, disturbed>>
vars == <<processVars, policyVars, clientVars, historyVars>>

----------------------------------------------------------------------------
NoKB   == "no kb"
NoStmt == "no statement"

Reasons == {"periodic", "timeout", "broken_pipe"}

Commands == {"ping", "load", "query", "stats", "assert", "retract", "halt"}

CallType == [op : {"execute", "close"} \cup Commands, kb : KB \cup {NoKB},
             hashed : BOOLEAN, stmt : Statement \cup {NoStmt}]

Simple(op)   == [op |-> op, kb |-> NoKB, hashed |-> FALSE, stmt |-> NoStmt]
CallExecute(k)   == [op |-> "execute", kb |-> k, hashed |-> TRUE, stmt |-> NoStmt]
CallLoad(k, h)   == [op |-> "load", kb |-> k, hashed |-> h, stmt |-> NoStmt]
CallAssert(s)    == [op |-> "assert", kb |-> NoKB, hashed |-> FALSE, stmt |-> s]
CallRetract(s)   == [op |-> "retract", kb |-> NoKB, hashed |-> FALSE, stmt |-> s]

WellFormedCall(o) ==
  /\ o.op \in {"execute", "load"} => o.kb \in KB
  /\ o.op = "execute" => o.hashed
  /\ o.op \in {"assert", "retract"} => o.stmt \in Statement

ASSUME ServerAssumption ==
  /\ NoClient \notin Client
  /\ NoKB \notin KB /\ NoStmt \notin Statement
  /\ Calls \subseteq {o \in CallType : WellFormedCall(o)}
  /\ RestartEvery \in Nat /\ MaxCalls \in Nat
  /\ MaxCrashes \in Nat /\ MaxLaunchFailures \in Nat
  /\ NoAnswer \notin [Statement -> Nat]

\* A request line carries the number of the exchange it belongs to, and the
\* reply copies it: the protocol has no such number, the model needs it to
\* say which request a reply answers.
Request(c) == [id |-> served + 1, cmd |-> cmd[c], kb |-> call[c].kb,
               hashed |-> call[c].hashed, stmt |-> call[c].stmt]

Idle == [status |-> "none", answer |-> NoAnswer]

Init ==
  /\ FreshEngine
  /\ proc = "none" /\ stdin = <<>> /\ stdout = <<>>
  /\ lock = NoClient
  /\ pc = [c \in Client |-> "idle"]
  /\ call = [c \in Client |-> Simple("ping")]
  /\ cmd = [c \in Client |-> "ping"]
  /\ result = [c \in Client |-> Idle]
  /\ requests = 0 /\ pending = "none" /\ timeouts = 0
  /\ restarts = [r \in Reasons |-> 0]
  /\ served = 0 /\ launches = 0 /\ calls = 0 /\ crashes = 0
  /\ launchFailures = 0 /\ disturbed = FALSE

----------------------------------------------------------------------------
(* The process: _launch, _terminate and what they do to its memory and to  *)
(* its pipes, which die with it.                                           *)

Discard ==
  /\ ResetEngine
  /\ stdin' = <<>> /\ stdout' = <<>>

Terminate == Discard /\ proc' = "none"

\* Defect: only the periodic restarts are counted.
CountPeriodic(reason) ==
  restarts' = IF reason = "periodic" THEN [restarts EXCEPT ![reason] = @ + 1]
              ELSE restarts

Count(reason) ==
  restarts' = IF reason = "none" THEN restarts
              ELSE [restarts EXCEPT ![reason] = @ + 1]

\* _launch with the pending reason "reason" ("none" is the source's None,
\* counted by nobody).  Popen may raise: reason and counters are gone by then.
Launch(reason) ==
  /\ Discard /\ Count(reason)
  /\ proc' = "running" /\ pending' = "none"
  /\ served' = 0 /\ launches' = launches + 1
  /\ UNCHANGED <<launchFailures, disturbed>>

LaunchRaises(reason, left) ==
  /\ launchFailures < MaxLaunchFailures
  /\ Count(reason)
  /\ proc' = left /\ pending' = "none" /\ requests' = 0
  /\ Discard
  /\ launchFailures' = launchFailures + 1 /\ disturbed' = TRUE
  /\ UNCHANGED <<served, launches>>

----------------------------------------------------------------------------
(* Calls: a thread takes the lock, runs its exchanges, and returns.        *)

\* The command of a call's first exchange.
FirstCommand(o) ==
  CASE o.op = "execute" -> "load"
    [] o.op = "close"   -> "halt"
    [] OTHER            -> o.op

GoTo(c, label) == pc' = [pc EXCEPT ![c] = label]

Invoke(c, o) ==
  /\ pc[c] = "idle" /\ calls < MaxCalls
  /\ call' = [call EXCEPT ![c] = o]
  /\ cmd' = [cmd EXCEPT ![c] = FirstCommand(o)]
  /\ result' = [result EXCEPT ![c] = Idle]
  /\ calls' = calls + 1
  /\ GoTo(c, "lock")
  /\ UNCHANGED <<processVars, policyVars, lock, served, launches, crashes,
                 launchFailures, disturbed>>

Enter(c) ==
  /\ pc[c] = "lock" /\ lock = NoClient
  /\ lock' = c
  /\ GoTo(c, IF call[c].op \in {"close", "halt"} THEN call[c].op ELSE "prepare")
  /\ disturbed' = FALSE
  /\ UNCHANGED <<processVars, policyVars, call, cmd, result, served, launches,
                 calls, crashes, launchFailures>>

\* The call ends and the lock is released.
Return(c, status, answer) ==
  /\ result' = [result EXCEPT ![c] = [status |-> status, answer |-> answer]]
  /\ lock' = NoClient
  /\ GoTo(c, "idle")
  /\ UNCHANGED <<call, cmd>>

\* Defect: an exception leaves the lock taken.
RaiseHoldingLock(c) ==
  /\ result' = [result EXCEPT ![c] = [status |-> "RuntimeError", answer |-> NoAnswer]]
  /\ GoTo(c, "idle")
  /\ UNCHANGED <<lock, call, cmd>>

Raise(c) == Return(c, "RuntimeError", NoAnswer)

\* Defect: the two exchanges of load_and_query are locked separately.
ProceedUnlocked(c, answer) ==
  IF call[c].op = "execute" /\ cmd[c] = "load"
    THEN /\ cmd' = [cmd EXCEPT ![c] = "query"]
         /\ GoTo(c, "lock")
         /\ lock' = NoClient
         /\ UNCHANGED <<call, result>>
    ELSE Return(c, "ok", answer)

\* An exchange succeeded: load_and_query goes on to its query, under the
\* lock it has; any other call is over.
Proceed(c, answer) ==
  IF call[c].op = "execute" /\ cmd[c] = "load"
    THEN /\ cmd' = [cmd EXCEPT ![c] = "query"]
         /\ GoTo(c, "prepare")
         /\ UNCHANGED <<lock, call, result>>
    ELSE Return(c, "ok", answer)

----------------------------------------------------------------------------
(* _request, up to the write.                                              *)

\* Defects: the restart fires at any command, or one load too late.
RestartDueAnytime(c) == RestartEvery > 0 /\ requests >= RestartEvery

RestartDueLate(c) ==
  RestartEvery > 0 /\ requests > RestartEvery /\ cmd[c] = "load"

RestartDue(c) ==
  RestartEvery > 0 /\ requests >= RestartEvery /\ cmd[c] = "load"

\* The liveness check and, when it fails or a restart is due, _launch.
Prepare(c) ==
  /\ pc[c] = "prepare" /\ (proc = "running" /\ ~RestartDue(c))
  /\ requests' = requests + 1
  /\ GoTo(c, "write")
  /\ UNCHANGED <<processVars, pending, restarts, timeouts, lock, call, cmd,
                 result, historyVars>>

Relaunch(c) ==
  LET reason == IF RestartDue(c) THEN "periodic" ELSE pending
      left   == IF RestartDue(c) THEN "none" ELSE proc
  IN /\ pc[c] = "prepare" /\ (proc # "running" \/ RestartDue(c))
     /\ \/ /\ Launch(reason)
           /\ requests' = 1
           /\ GoTo(c, "write")
           /\ UNCHANGED <<lock, call, cmd, result>>
        \/ /\ LaunchRaises(reason, left)
           /\ Return(c, "OSError", NoAnswer)
     /\ UNCHANGED <<timeouts, calls, crashes>>

Send(c) ==
  /\ stdin' = Append(stdin, Request(c))
  /\ served' = served + 1
  /\ UNCHANGED <<engineVars, proc, stdout, policyVars, lock, call, cmd, result,
                 launches, calls, crashes, launchFailures, disturbed>>

Write(c) ==
  /\ pc[c] = "write" /\ proc = "running"
  /\ Send(c)
  /\ GoTo(c, "read")

\* The process died after the liveness check: relaunch once and retry.
WriteFails(c) ==
  /\ pc[c] = "write" /\ proc # "running"
  /\ \/ /\ Launch("broken_pipe")
        /\ requests' = 0
        /\ GoTo(c, "rewrite")
        /\ UNCHANGED <<lock, call, cmd, result>>
     \/ /\ LaunchRaises("broken_pipe", "none")
        /\ Return(c, "OSError", NoAnswer)
  /\ UNCHANGED <<timeouts, calls, crashes>>

Rewrite(c) ==
  /\ pc[c] = "rewrite" /\ proc = "running"
  /\ Send(c)
  /\ GoTo(c, "read")

\* The retry is outside the try: its error is not turned into a relaunch.
RewriteFails(c) ==
  /\ pc[c] = "rewrite" /\ proc # "running"
  /\ Return(c, "OSError", NoAnswer)
  /\ UNCHANGED <<processVars, policyVars, historyVars>>

----------------------------------------------------------------------------
(* _read_response and the rest of _request.                                *)

\* Defect: the late engine is kept for the next request.
KeepLateEngine ==
  /\ timeouts' = timeouts + 1 /\ pending' = "timeout"
  /\ disturbed' = TRUE
  /\ UNCHANGED <<processVars, requests, restarts>>

\* After a timeout the next request starts from a new process.
DropLateEngine ==
  /\ Terminate
  /\ timeouts' = timeouts + 1 /\ pending' = "timeout"
  /\ disturbed' = TRUE
  /\ UNCHANGED <<requests, restarts>>

\* A reply has arrived.  Status "timeout" drops the engine.
ReadReply(c) ==
  /\ pc[c] = "read" /\ stdout # <<>>
  /\ LET m == Head(stdout)
     IN \/ /\ m.status = "ok"
           /\ stdout' = Tail(stdout)
           /\ Proceed(c, m.answer)
           /\ UNCHANGED <<engineVars, proc, stdin, policyVars, disturbed>>
        \/ /\ m.status = "error"
           /\ stdout' = Tail(stdout)
           /\ Raise(c)
           /\ UNCHANGED <<engineVars, proc, stdin, policyVars, disturbed>>
        \/ /\ m.status = "timeout"
           /\ DropLateEngine
           /\ Raise(c)
  /\ UNCHANGED <<served, launches, calls, crashes, launchFailures>>

\* End of file: the process died with the request.  _proc is left as it is.
ReadEOF(c) ==
  /\ pc[c] = "read" /\ stdout = <<>> /\ proc # "running"
  /\ Raise(c)
  /\ UNCHANGED <<processVars, policyVars, historyVars>>

\* Nothing within the timeout and its backstop: drop the engine.
ReadTimeout(c) ==
  /\ pc[c] = "read" /\ stdout = <<>> /\ proc = "running"
  /\ DropLateEngine
  /\ Raise(c)
  /\ UNCHANGED <<served, launches, calls, crashes, launchFailures>>

----------------------------------------------------------------------------
(* close and halt, which bypass _request.                                  *)

Close(c) ==
  /\ pc[c] = "close"
  /\ Terminate
  /\ Return(c, "ok", NoAnswer)
  /\ UNCHANGED <<policyVars, historyVars>>

HaltNotRunning(c) ==
  /\ pc[c] = "halt" /\ proc # "running"
  /\ Return(c, "ok", NoAnswer)
  /\ UNCHANGED <<processVars, policyVars, historyVars>>

HaltAlive(c) ==
  /\ pc[c] = "halt" /\ proc = "running"
  /\ GoTo(c, "halt_write")
  /\ UNCHANGED <<processVars, policyVars, lock, call, cmd, result, historyVars>>

HaltWrite(c) ==
  /\ pc[c] = "halt_write" /\ proc = "running"
  /\ Send(c)
  /\ GoTo(c, "halt_read")

\* A failed write, a reply of any kind or end of file: halt swallows every
\* error and terminates what is left.
HaltEnds(c) ==
  /\ \/ pc[c] = "halt_write" /\ proc # "running"
     \/ pc[c] = "halt_read" /\ (stdout # <<>> \/ proc # "running")
  /\ Terminate
  /\ Return(c, "ok", NoAnswer)
  /\ UNCHANGED <<policyVars, historyVars>>

HaltTimeout(c) ==
  /\ pc[c] = "halt_read" /\ stdout = <<>> /\ proc = "running"
  /\ DropLateEngine
  /\ Return(c, "ok", NoAnswer)
  /\ UNCHANGED <<served, launches, calls, crashes, launchFailures>>

----------------------------------------------------------------------------
(* The process: it handles the next request line, or it dies.              *)

Serves(command) ==
  /\ proc = "running" /\ stdin # <<>>
  /\ Head(stdin).cmd = command
  /\ stdin' = Tail(stdin)

Reply(status, answer) ==
  stdout' = Append(stdout, [id |-> Head(stdin).id, status |-> status,
                            answer |-> answer])

Undisturbed == UNCHANGED <<policyVars, clientVars, historyVars>>

ServeLoad ==
  /\ Serves("load") /\ Undisturbed /\ UNCHANGED proc
  /\ HandleLoad(Head(stdin).kb, Head(stdin).hashed)
  /\ Reply(LoadStatus(Head(stdin).kb, Head(stdin).hashed), NoAnswer)

ServeQuery ==
  /\ Serves("query") /\ Undisturbed /\ UNCHANGED <<proc, engineVars>>
  /\ \E status \in QueryStatus :
       Reply(status, IF status = "ok" THEN Visible ELSE NoAnswer)

ServeAssert ==
  /\ Serves("assert") /\ Undisturbed /\ UNCHANGED proc
  /\ HandleAssert(Head(stdin).stmt)
  /\ Reply(ClauseStatus(Head(stdin).stmt), NoAnswer)

ServeRetract ==
  /\ Serves("retract") /\ Undisturbed /\ UNCHANGED proc
  /\ HandleRetract(Head(stdin).stmt)
  /\ Reply(ClauseStatus(Head(stdin).stmt), NoAnswer)

ServeOther ==
  /\ Serves("ping") \/ Serves("stats")
  /\ Undisturbed /\ UNCHANGED <<proc, engineVars>>
  /\ Reply("ok", NoAnswer)

\* The process dies; a reply it has already written can still be read.
Die == proc' = "dead" /\ stdin' = <<>> /\ ResetEngine

ServeHalt ==
  /\ proc = "running" /\ stdin # <<>> /\ Head(stdin).cmd = "halt"
  /\ Reply("ok", NoAnswer)
  /\ Die /\ Undisturbed

Crash ==
  /\ proc = "running" /\ crashes < MaxCrashes
  /\ Die
  /\ crashes' = crashes + 1 /\ disturbed' = TRUE
  /\ UNCHANGED <<stdout, policyVars, clientVars, served, launches, calls,
                 launchFailures>>

----------------------------------------------------------------------------
Exchange(c) ==
  \/ Prepare(c) \/ Relaunch(c)
  \/ Write(c) \/ WriteFails(c) \/ Rewrite(c) \/ RewriteFails(c)
  \/ ReadReply(c) \/ ReadEOF(c) \/ ReadTimeout(c)

Stop(c) ==
  \/ Close(c) \/ HaltNotRunning(c) \/ HaltAlive(c)
  \/ HaltWrite(c) \/ HaltEnds(c) \/ HaltTimeout(c)

Thread(c) == Enter(c) \/ Exchange(c) \/ Stop(c)

Engine ==
  \/ ServeLoad \/ ServeQuery \/ ServeAssert \/ ServeRetract
  \/ ServeOther \/ ServeHalt

Next ==
  \/ \E c \in Client : (\E o \in Calls : Invoke(c, o)) \/ Thread(c)
  \/ Engine \/ Crash

Spec == Init /\ [][Next]_vars

\* A thread inside a method runs, and so do its timeouts: select returns
\* after at most timeout + 5 seconds.  Nothing is assumed of the engine,
\* which may hang or die, and nothing of callers.
FairSpec == Spec /\ \A c \in Client : WF_vars(Thread(c))
----------------------------------------------------------------------------
Wire == [id : Nat, cmd : Commands, kb : KB \cup {NoKB}, hashed : BOOLEAN,
         stmt : Statement \cup {NoStmt}]

Contents == [Statement -> Nat]

Response == [id : Nat, status : {"ok", "error", "timeout"},
             answer : Contents \cup {NoAnswer}]

ControlTypeOK ==
  /\ proc \in {"none", "running", "dead"}
  /\ stdin \in Seq(Wire) /\ stdout \in Seq(Response)
  /\ lock \in Client \cup {NoClient}
  /\ pc \in [Client -> {"idle", "lock", "prepare", "write", "rewrite", "read",
                        "close", "halt", "halt_write", "halt_read"}]
  /\ call \in [Client -> CallType]
  /\ cmd \in [Client -> Commands]
  /\ result \in [Client -> [status : {"none", "ok", "RuntimeError", "OSError"},
                            answer : Contents \cup {NoAnswer}]]

CountTypeOK ==
  /\ requests \in Nat /\ timeouts \in Nat
  /\ pending \in Reasons \cup {"none"}
  /\ restarts \in [Reasons -> Nat]
  /\ served \in Nat /\ launches \in Nat /\ calls \in Nat /\ crashes \in Nat
  /\ launchFailures \in Nat /\ disturbed \in BOOLEAN

\* The values every variable of the server and of its process ranges over.
TypeOK == EngineTypeOK /\ ControlTypeOK /\ CountTypeOK

\* Every reply a thread takes off the pipe answers the request that thread
\* wrote last: an answer that comes after its timeout, or that belongs to
\* the exchange of another thread, is never read as the answer to this one.
ReplyAnswersRequest ==
  \A c \in Client :
    pc[c] \in {"read", "halt_read"} /\ stdout # <<>>
      => /\ lock = c
         /\ Len(stdout) = 1 /\ Head(stdout).id = served

\* A load_and_query that returns solutions computed them over exactly the
\* statements of the KB it was given, whatever the other threads load,
\* assert or retract, and however often the process dies or is replaced.
AnswersOverOwnKB ==
  \A c \in Client :
    call[c].op = "execute" /\ result[c].status = "ok"
      => result[c].answer = ContentsOf(call[c].kb)

\* The query of a load_and_query reaches a process whose workspace was
\* never loaded only if a process has crashed: the periodic restart does
\* not come between a load and its query.
BareQueryNeedsCrash ==
  \A c \in Client :
    (/\ call[c].op = "execute" /\ cmd[c] = "query"
     /\ pc[c] \in {"write", "rewrite", "read"}
     /\ proc = "running" /\ ~proveKnown)
      => crashes > 0

\* When all the work is load and load_and_query, no process serves more than
\* restart_every requests and the query under way; one more if a crash made
\* a write be retried, because the relaunch resets the count after the
\* retried request was counted.
ProcessServesBounded ==
  RestartEvery > 0 => served <= RestartEvery + (IF crashes = 0 THEN 1 ELSE 2)

\* Launches are the first one, those euclid_engine_restarts_total counts, and
\* those that repair a crash noticed before a request, or a failed launch.
RestartsExplainLaunches ==
  launches <= 1 + restarts["periodic"] + restarts["timeout"] + restarts["broken_pipe"]
                + crashes + launchFailures

\* A call that does not depend on what the engine computes fails only when
\* a fault strikes while it runs: what an earlier crash, timeout or failed
\* launch left behind is repaired before the next request is sent.
SelfHealing ==
  [][\A c \in Client :
       (/\ call[c].op \in {"ping", "stats", "load", "close", "halt"}
        /\ result[c].status = "none"
        /\ result'[c].status \in {"RuntimeError", "OSError"})
          => disturbed']_vars

\* Every call returns, even from an engine that hangs or dies.
CallsReturn == \A c \in Client : pc[c] # "idle" ~> pc[c] = "idle"

----------------------------------------------------------------------------
(* The inductive invariant behind AnswersOverOwnKB and ReplyAnswersRequest *)
(* when every KB is clean.                                                 *)

Awaiting(c) == pc[c] \in {"read", "halt_read"}
Stopping(c) == pc[c] \in {"close", "halt", "halt_write", "halt_read"}

\* A thread is past "lock" exactly while it holds the lock.
LockInv == \A c \in Client : pc[c] \notin {"idle", "lock"} <=> lock = c

\* The exchange a thread is in is one its call consists of.
CallInv ==
  \A c \in Client :
    /\ WellFormedCall(call[c])
    /\ cmd[c] = FirstCommand(call[c]) \/ (call[c].op = "execute" /\ cmd[c] = "query")
    /\ pc[c] = "lock" => cmd[c] = FirstCommand(call[c])
    /\ Stopping(c) => call[c].op # "execute"

\* The request a thread has written, while the process has it.
Written(c) == [id |-> served, cmd |-> cmd[c], kb |-> call[c].kb,
               hashed |-> call[c].hashed, stmt |-> call[c].stmt]

\* Between exchanges the pipes are empty.  During one they hold its request
\* or its reply, or nothing once the process has died with the request.
PipeInv ==
  /\ (\A c \in Client : ~Awaiting(c)) => stdin = <<>> /\ stdout = <<>>
  /\ \A c \in Client : Awaiting(c) =>
       \/ stdin = <<Written(c)>> /\ stdout = <<>> /\ proc = "running"
       \/ stdin = <<>> /\ stdout = <<>> /\ proc = "dead"
       \/ stdin = <<>> /\ Len(stdout) = 1 /\ Head(stdout).id = served

\* A process that does not run remembers nothing.
ProcInv == proc # "running" => ~proveKnown

\* Once the load of a load_and_query has succeeded, the process either
\* holds its KB or, having been replaced, holds nothing at all; and the
\* reply to its query is over its KB.
LoadedOrBare(c) == proveKnown => kbHash = call[c].kb

QueryInv ==
  \A c \in Client : lock = c /\ call[c].op = "execute" =>
    /\ cmd[c] = "query" => LoadedOrBare(c)
    /\ stdout # <<>> /\ Head(stdout).status = "ok" =>
         /\ LoadedOrBare(c)
         /\ cmd[c] = "query" => Head(stdout).answer = ContentsOf(call[c].kb)

ServerInv ==
  /\ TypeOK /\ Registered /\ Fingerprinted
  /\ LockInv /\ CallInv /\ PipeInv /\ ProcInv /\ QueryInv
  /\ AnswersOverOwnKB

----------------------------------------------------------------------------
(* Seen by the callers of execute, the server is a ReasoningService.       *)

Asking(c) == pc[c] # "idle" /\ call[c].op = "execute"

OutcomeOf(c) ==
  IF pc[c] # "idle" \/ call[c].op # "execute" THEN Idle
  ELSE IF result[c].status = "ok" THEN result[c]
  ELSE [status |-> "failed", answer |-> NoAnswer]

Service == INSTANCE ReasoningService WITH
  Meaning <- [k \in KB |-> ContentsOf(k)],
  Nothing <- Idle,
  asked   <- [c \in Client |-> IF Asking(c) THEN call[c].kb ELSE NoKB],
  outcome <- [c \in Client |-> OutcomeOf(c)]

\* Each execute gets one outcome, the answer over its own KB or a failure,
\* and no other step of the server changes what a caller can see.
ServesCallers == Service!Spec
============================================================================
