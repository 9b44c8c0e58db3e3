---------------------------- MODULE PrologBridge ----------------------------
(***************************************************************************)
(* euclid_mcp/prolog_bridge.py: the process-wide engine.  Threads take the *)
(* default PrologServer, creating it on first use, and use it after they   *)
(* let go of _server_lock, while another thread may close it.  A server is *)
(* reduced to its lock and its swipl process: PrologServer models the rest.*)
(***************************************************************************)
EXTENDS Naturals, FiniteSets

CONSTANTS
  Client,         \* threads
  NoClient,       \* nobody holds a server's lock
  MaxServers,     \* bounds: PrologServer objects made, calls, crashes
  MaxCalls,
  MaxCrashes

VARIABLES
  default,        \* _default_server: a server, or NoServer
  proc,           \* _proc of each server: "none", "running" or "dead"
  lock,           \* the holder of each server's _lock
  pc,             \* where each thread is
  op,             \* the function it is in
  held,           \* its local variable server
  \* History: servers made, calls and crashes, and the servers that another
  \* thread held when close took them.
  servers, calls, crashes, overlapped

serverVars == <<default, servers>>
vars == <<default, proc, lock, pc, op, held, servers, calls, crashes, overlapped>>

NoServer == 0
Server == 1 .. MaxServers

ASSUME BridgeAssumption ==
  /\ NoClient \notin Client
  /\ MaxServers \in Nat /\ MaxCalls \in Nat /\ MaxCrashes \in Nat

Ops == {"none", "execute", "health", "stats", "close"}

Init ==
  /\ default = NoServer /\ servers = 0
  /\ proc = [s \in Server |-> "none"]
  /\ lock = [s \in Server |-> NoClient]
  /\ pc = [c \in Client |-> "idle"] /\ op = [c \in Client |-> "none"]
  /\ held = [c \in Client |-> NoServer]
  /\ calls = 0 /\ crashes = 0 /\ overlapped = {}

----------------------------------------------------------------------------
(* Under _server_lock, in one step each.                                   *)

Begin(c, o, s) ==
  /\ pc[c] = "idle" /\ calls < MaxCalls
  /\ calls' = calls + 1
  /\ op' = [op EXCEPT ![c] = IF s = NoServer THEN "none" ELSE o]
  /\ held' = [held EXCEPT ![c] = s]
  /\ pc' = [pc EXCEPT ![c] = IF s = NoServer THEN "idle" ELSE "waiting"]
  /\ UNCHANGED <<proc, lock, crashes>>

MakeServer ==
  /\ servers < MaxServers
  /\ servers' = servers + 1 /\ default' = servers + 1

\* Defect: the default server is looked at before the lock is taken, and two
\* threads that find none make one each.
GetServerUnlocked(c) ==
  \/ /\ default # NoServer
     /\ Begin(c, "execute", default)
     /\ UNCHANGED <<serverVars, overlapped>>
  \/ /\ pc[c] = "idle" /\ default = NoServer /\ calls < MaxCalls
     /\ pc' = [pc EXCEPT ![c] = "making"] /\ calls' = calls + 1
     /\ UNCHANGED <<serverVars, proc, lock, op, held, crashes, overlapped>>
  \/ /\ pc[c] = "making" /\ MakeServer
     /\ op' = [op EXCEPT ![c] = "execute"]
     /\ held' = [held EXCEPT ![c] = default']
     /\ pc' = [pc EXCEPT ![c] = "waiting"]
     /\ UNCHANGED <<proc, lock, calls, crashes, overlapped>>

\* execute: _get_server.
GetServer(c) ==
  /\ \/ default = NoServer /\ MakeServer
     \/ default # NoServer /\ UNCHANGED serverVars
  /\ Begin(c, "execute", default')
  /\ UNCHANGED overlapped

\* health_info: a cold process has nothing to probe, and answers at once.
ProbeDefault(c) ==
  /\ Begin(c, "health", default)
  /\ UNCHANGED <<serverVars, overlapped>>

\* close takes the default server away from the later calls, not from those
\* that hold it.
TakeDefault(c) ==
  /\ Begin(c, "close", default)
  /\ default' = NoServer
  /\ overlapped' = IF default # NoServer /\ \E d \in Client \ {c} : held[d] = default
                     THEN overlapped \cup {default} ELSE overlapped
  /\ UNCHANGED servers

----------------------------------------------------------------------------
(* The server's methods, under its lock.                                   *)

\* The thread's reference to s is gone.  __del__ would close a server nobody
\* refers to, but the thread that drains the stderr of a running process
\* refers to it too, until that process ends.
Finish(c, s) ==
  /\ lock' = [lock EXCEPT ![s] = NoClient]
  /\ pc' = [pc EXCEPT ![c] = "idle"]
  /\ held' = [held EXCEPT ![c] = NoServer]
  /\ op' = [op EXCEPT ![c] = "none"]

\* Defect: close does not wait for the exchange under way.
AcquireOrBargeIn(c) ==
  /\ pc[c] = "waiting"
  /\ \/ /\ lock[held[c]] = NoClient
        /\ lock' = [lock EXCEPT ![held[c]] = c]
        /\ pc' = [pc EXCEPT ![c] = "inside"]
        /\ UNCHANGED <<proc, op, held>>
     \/ /\ op[c] = "close"
        /\ proc' = [proc EXCEPT ![held[c]] = "none"]
        /\ pc' = [pc EXCEPT ![c] = "idle"] /\ op' = [op EXCEPT ![c] = "none"]
        /\ held' = [held EXCEPT ![c] = NoServer]
        /\ UNCHANGED lock
  /\ UNCHANGED <<serverVars, calls, crashes, overlapped>>

Acquire(c) ==
  LET s == held[c]
  IN /\ pc[c] = "waiting" /\ lock[s] = NoClient
     /\ lock' = [lock EXCEPT ![s] = c]
     /\ pc' = [pc EXCEPT ![c] = "inside"]
     /\ UNCHANGED <<default, proc, op, held, servers, calls, crashes, overlapped>>

\* A request of execute or health_info finds its engine alive or launches
\* it, and so does the second request of execute; a periodic restart or a
\* broken pipe may end a live one first, and Popen may raise.
EnsureEngine(c) ==
  LET s == held[c]
  IN /\ \/ pc[c] = "inside" /\ op[c] \in {"execute", "health", "stats"}
        \/ pc[c] = "exchange" /\ op[c] = "execute"
     /\ \/ /\ proc' = [proc EXCEPT ![s] = "running"]
           /\ pc' = [pc EXCEPT ![c] = "exchange"]
           /\ UNCHANGED <<lock, op, held>>
        \/ /\ proc' = [proc EXCEPT ![s] = "none"]
           /\ Finish(c, s)
     /\ UNCHANGED <<default, servers, calls, crashes, overlapped>>

\* The reply, or none in time and the engine is dropped, or the engine's end.
\* health_info goes on from a ping that was answered to the stats, taking
\* the lock again.
EndExchange(c) ==
  LET s == held[c]
  IN /\ pc[c] = "exchange"
     /\ \/ proc[s] = "running" /\ proc' = [proc EXCEPT ![s] = "none"] /\ Finish(c, s)
        \/ UNCHANGED proc /\ Finish(c, s)
        \/ /\ proc[s] = "running" /\ op[c] = "health"
           /\ lock' = [lock EXCEPT ![s] = NoClient]
           /\ pc' = [pc EXCEPT ![c] = "waiting"]
           /\ op' = [op EXCEPT ![c] = "stats"]
           /\ UNCHANGED <<proc, held>>
     /\ UNCHANGED <<default, servers, calls, crashes, overlapped>>

CloseServer(c) ==
  LET s == held[c]
  IN /\ pc[c] = "inside" /\ op[c] = "close"
     /\ proc' = [proc EXCEPT ![s] = "none"]
     /\ Finish(c, s)
     /\ UNCHANGED <<default, servers, calls, crashes, overlapped>>

Crash(s) ==
  /\ proc[s] = "running" /\ crashes < MaxCrashes
  /\ proc' = [proc EXCEPT ![s] = "dead"]
  /\ crashes' = crashes + 1
  /\ UNCHANGED <<default, lock, pc, op, held, servers, calls, overlapped>>

InCall(c) == Acquire(c) \/ EnsureEngine(c) \/ EndExchange(c) \/ CloseServer(c)

Next ==
  \/ \E c \in Client : GetServer(c) \/ ProbeDefault(c) \/ TakeDefault(c) \/ InCall(c)
  \/ \E s \in Server : Crash(s)

Spec == Init /\ [][Next]_vars
----------------------------------------------------------------------------
\* The values the default server, the servers and the threads take; the
\* holder of a server's lock has that server in hand.
TypeOK ==
  /\ default \in Server \cup {NoServer} /\ servers \in 0 .. MaxServers
  /\ proc \in [Server -> {"none", "running", "dead"}]
  /\ lock \in [Server -> Client \cup {NoClient}]
  /\ pc \in [Client -> {"idle", "waiting", "inside", "exchange"}]
  /\ op \in [Client -> Ops] /\ held \in [Client -> Server \cup {NoServer}]
  /\ \A s \in Server : lock[s] # NoClient => held[lock[s]] = s
  /\ calls \in Nat /\ crashes \in Nat /\ overlapped \subseteq Server

\* An engine runs only for the default server, for a server some thread has
\* in hand, or for one that close took while another thread had it in hand:
\* no first use makes a second engine, and no other close leaves one behind.
NoStrayEngine ==
  \A s \in Server : proc[s] = "running" =>
    s = default \/ s \in overlapped \/ \E c \in Client : held[c] = s

\* Nobody terminates the engine another thread is waiting for: between
\* the request and its reply a process can only die of itself.
EngineOutlivesExchange ==
  \A c \in Client : pc[c] = "exchange" => proc[held[c]] # "none"

============================================================================
