------------------------- MODULE PrologBridgeProofs -------------------------
(***************************************************************************)
(* For any threads, servers and crashes: no engine is left behind by two   *)
(* first uses, and none is ended under the thread that waits for it.       *)
(*                                                                         *)
(* The newest server is the default or there is none, so a server close    *)
(* has taken is never the default again.  Whoever still has it in hand is  *)
(* the closing thread alone, unless close found it in another hand.        *)
(***************************************************************************)
EXTENDS PrologBridge, TLAPS

\* A thread has a server in hand exactly during a call, and its lock exactly
\* inside a method.
HandsInv ==
  \A c \in Client :
    /\ held[c] = NoServer <=> pc[c] = "idle"
    /\ held[c] <= servers
    /\ pc[c] \in {"inside", "exchange"} => lock[held[c]] = c

\* Nobody launches a server that was never made, or closes one in an exchange.
EnginesInv ==
  /\ default \in {NoServer, servers}
  /\ \A s \in Server : proc[s] # "none" => s <= servers
  /\ \A c \in Client : pc[c] = "exchange" => proc[held[c]] # "none" /\ op[c] # "close"

\* A server that is not the default any more is in the hand of the thread that
\* closes it, and in no other that close did not see.
TakenInv ==
  \A c \in Client :
    /\ op[c] = "close" /\ held[c] # NoServer => held[c] # default
    /\ held[c] \notin overlapped \cup {NoServer, default} =>
         op[c] = "close" /\ \A d \in Client \ {c} : held[d] # held[c]

BridgeInv == TypeOK /\ HandsInv /\ EnginesInv /\ TakenInv /\ NoStrayEngine

LEMMA InitFine == Init => BridgeInv
BY BridgeAssumption
   DEF Init, BridgeInv, TypeOK, HandsInv, EnginesInv, TakenInv, NoStrayEngine,
       NoServer, Server, Ops

\* A call on a server that is the default, made just before or not.
LEMMA GetServerFine ==
  ASSUME BridgeInv, NEW c \in Client, GetServer(c)
  PROVE  BridgeInv'
<1> USE BridgeAssumption DEF BridgeInv, NoServer, Server, Ops
<1>1. /\ default' \in Server /\ default' = servers' /\ servers' >= servers
      /\ servers' \in 0..MaxServers
      /\ default # NoServer => default' = default /\ servers' = servers
  BY DEF GetServer, MakeServer, serverVars, TypeOK, EnginesInv
<1>2. /\ pc[c] = "idle" /\ pc' = [pc EXCEPT ![c] = "waiting"]
      /\ op' = [op EXCEPT ![c] = "execute"] /\ held' = [held EXCEPT ![c] = default']
      /\ calls' = calls + 1
      /\ UNCHANGED <<proc, lock, crashes, overlapped>>
  <2>1. default' # 0 /\ Begin(c, "execute", default') /\ UNCHANGED overlapped
    BY <1>1 DEF GetServer
  <2>2. /\ pc[c] = "idle" /\ calls' = calls + 1
        /\ op' = [op EXCEPT ![c] = IF default' = 0 THEN "none" ELSE "execute"]
        /\ held' = [held EXCEPT ![c] = default']
        /\ pc' = [pc EXCEPT ![c] = IF default' = 0 THEN "idle" ELSE "waiting"]
        /\ UNCHANGED <<proc, lock, crashes>>
    BY <2>1 DEF Begin
  <2>3. QED
    BY <2>1, <2>2
<1>3. TypeOK'
  BY <1>1, <1>2 DEF TypeOK, HandsInv
<1>4. HandsInv'
  BY <1>1, <1>2 DEF TypeOK, HandsInv
<1>5. EnginesInv'
  BY <1>1, <1>2 DEF TypeOK, HandsInv, EnginesInv
<1>6. default = NoServer => \A d \in Client : held[d] # default'
  BY <1>1 DEF HandsInv, TypeOK, GetServer, MakeServer
<1>7. TakenInv'
  BY <1>1, <1>2, <1>6 DEF TypeOK, TakenInv
<1>8. NoStrayEngine'
  BY <1>1, <1>2 DEF TypeOK, HandsInv, NoStrayEngine
<1>9. QED
  BY <1>3, <1>4, <1>5, <1>7, <1>8

LEMMA ProbeDefaultFine ==
  ASSUME BridgeInv, NEW c \in Client, ProbeDefault(c)
  PROVE  BridgeInv'
<1> USE BridgeAssumption DEF BridgeInv, NoServer, Server, Ops
<1>1. /\ pc[c] = "idle" /\ held' = [held EXCEPT ![c] = default]
      /\ calls' = calls + 1
      /\ op' = [op EXCEPT ![c] = IF default = 0 THEN "none" ELSE "health"]
      /\ pc' = [pc EXCEPT ![c] = IF default = 0 THEN "idle" ELSE "waiting"]
      /\ UNCHANGED <<default, servers, proc, lock, crashes, overlapped>>
  BY DEF ProbeDefault, Begin, serverVars
<1>2. TypeOK'
  BY <1>1 DEF TypeOK, HandsInv
<1>3. HandsInv'
  BY <1>1 DEF TypeOK, HandsInv, EnginesInv
<1>4. EnginesInv'
  BY <1>1 DEF TypeOK, HandsInv, EnginesInv
<1>5. TakenInv'
  BY <1>1 DEF TypeOK, HandsInv, TakenInv
<1>6. NoStrayEngine'
  BY <1>1 DEF TypeOK, HandsInv, NoStrayEngine
<1>7. QED
  BY <1>2, <1>3, <1>4, <1>5, <1>6

\* close takes the default away, and notes the other hands it is in.
LEMMA TakeDefaultFine ==
  ASSUME BridgeInv, NEW c \in Client, TakeDefault(c)
  PROVE  BridgeInv'
<1> USE BridgeAssumption DEF BridgeInv, NoServer, Server, Ops
<1>1. /\ pc[c] = "idle" /\ held' = [held EXCEPT ![c] = default]
      /\ calls' = calls + 1
      /\ op' = [op EXCEPT ![c] = IF default = 0 THEN "none" ELSE "close"]
      /\ pc' = [pc EXCEPT ![c] = IF default = 0 THEN "idle" ELSE "waiting"]
      /\ default' = 0
      /\ UNCHANGED <<servers, proc, lock, crashes>>
  BY DEF TakeDefault, Begin
<1>2. /\ overlapped \subseteq overlapped' /\ overlapped' \subseteq overlapped \cup {default}
      /\ overlapped' \subseteq Server
      /\ default # 0 /\ default \notin overlapped' =>
           \A d \in Client \ {c} : held[d] # default
  BY DEF TakeDefault, TypeOK
<1>3. TypeOK'
  BY <1>1, <1>2 DEF TypeOK, HandsInv
<1>4. HandsInv'
  BY <1>1 DEF TypeOK, HandsInv, EnginesInv
<1>5. EnginesInv'
  BY <1>1 DEF TypeOK, HandsInv, EnginesInv
<1>6. TakenInv'
  BY <1>1, <1>2 DEF TypeOK, HandsInv, TakenInv
<1>7. NoStrayEngine'
  BY <1>1, <1>2 DEF TypeOK, HandsInv, NoStrayEngine
<1>8. QED
  BY <1>3, <1>4, <1>5, <1>6, <1>7

LEMMA AcquireFine ==
  ASSUME BridgeInv, NEW c \in Client, Acquire(c)
  PROVE  BridgeInv'
<1> USE BridgeAssumption DEF BridgeInv, NoServer, Server, Ops
<1>1. held[c] \in Server
  BY DEF Acquire, TypeOK, HandsInv
<1>2. TypeOK' /\ HandsInv'
  BY <1>1 DEF Acquire, TypeOK, HandsInv
<1>3. EnginesInv' /\ TakenInv' /\ NoStrayEngine'
  BY <1>1 DEF Acquire, TypeOK, EnginesInv, TakenInv, NoStrayEngine
<1>4. QED
  BY <1>2, <1>3

\* A method ends: with the engine gone, with a server that is still the
\* default, or with one that close found in this hand.
LEMMA FinishFine ==
  ASSUME BridgeInv, NEW c \in Client, pc[c] \in {"inside", "exchange"}, Finish(c, held[c]),
         UNCHANGED <<default, servers, calls, crashes, overlapped>>,
         \/ proc' = [proc EXCEPT ![held[c]] = "none"]
         \/ UNCHANGED proc /\ op[c] # "close"
  PROVE  BridgeInv'
<1> USE BridgeAssumption DEF BridgeInv, NoServer, Server, Ops
<1>1. held[c] \in Server /\ lock[held[c]] = c
  BY DEF TypeOK, HandsInv
<1>2. \A d \in Client \ {c} : pc[d] \in {"inside", "exchange"} => held[d] # held[c]
  BY <1>1 DEF HandsInv
<1>3. TypeOK' /\ HandsInv'
  BY <1>1, <1>2 DEF Finish, TypeOK, HandsInv
<1>4. EnginesInv'
  BY <1>1, <1>2 DEF Finish, TypeOK, EnginesInv, HandsInv
<1>5. TakenInv'
  BY <1>1 DEF Finish, TypeOK, TakenInv
<1>6. NoStrayEngine'
  <2> SUFFICES ASSUME NEW s \in Server, proc'[s] = "running"
               PROVE  s = default \/ s \in overlapped \/ \E d \in Client : held'[d] = s
    BY DEF NoStrayEngine
  <2>1. CASE s = held[c]
    <3>1. op[c] # "close"
      BY <1>1, <2>1 DEF TypeOK
    <3>2. QED
      BY <1>1, <2>1, <3>1 DEF TakenInv
  <2>2. CASE s # held[c]
    <3>1. proc[s] = "running"
      BY <1>1, <2>2 DEF TypeOK
    <3>2. QED
      BY <2>2, <3>1 DEF NoStrayEngine, Finish, TypeOK
  <2>3. QED
    BY <2>1, <2>2
<1>7. QED
  BY <1>3, <1>4, <1>5, <1>6

LEMMA EnsureEngineFine ==
  ASSUME BridgeInv, NEW c \in Client, EnsureEngine(c)
  PROVE  BridgeInv'
<1> USE BridgeAssumption DEF BridgeInv, NoServer, Server, Ops
<1>1. pc[c] \in {"inside", "exchange"} /\ op[c] # "close" /\ held[c] \in Server
  BY DEF EnsureEngine, TypeOK, HandsInv
<1>2. CASE /\ proc' = [proc EXCEPT ![held[c]] = "running"]
           /\ pc' = [pc EXCEPT ![c] = "exchange"]
           /\ UNCHANGED <<lock, op, held, default, servers, calls, crashes, overlapped>>
  <2>1. TypeOK' /\ HandsInv'
    BY <1>1, <1>2 DEF TypeOK, HandsInv
  <2>2. EnginesInv'
    BY <1>1, <1>2 DEF TypeOK, HandsInv, EnginesInv
  <2>3. TakenInv' /\ NoStrayEngine'
    BY <1>1, <1>2 DEF TypeOK, TakenInv, NoStrayEngine
  <2>4. QED
    BY <2>1, <2>2, <2>3
<1>3. CASE /\ proc' = [proc EXCEPT ![held[c]] = "none"]
           /\ Finish(c, held[c])
           /\ UNCHANGED <<default, servers, calls, crashes, overlapped>>
  BY <1>1, <1>3, FinishFine
<1>4. QED
  BY <1>2, <1>3 DEF EnsureEngine

LEMMA EndExchangeFine ==
  ASSUME BridgeInv, NEW c \in Client, EndExchange(c)
  PROVE  BridgeInv'
<1> USE BridgeAssumption DEF BridgeInv, NoServer, Server, Ops
<1>1. pc[c] = "exchange" /\ op[c] # "close" /\ held[c] \in Server
  BY DEF EndExchange, TypeOK, HandsInv, EnginesInv
<1>2. CASE /\ proc' = [proc EXCEPT ![held[c]] = "none"] \/ UNCHANGED proc
           /\ Finish(c, held[c])
           /\ UNCHANGED <<default, servers, calls, crashes, overlapped>>
  BY <1>1, <1>2, FinishFine
<1>3. CASE /\ lock' = [lock EXCEPT ![held[c]] = NoClient]
           /\ pc' = [pc EXCEPT ![c] = "waiting"] /\ op' = [op EXCEPT ![c] = "stats"]
           /\ op[c] = "health"
           /\ UNCHANGED <<proc, held, default, servers, calls, crashes, overlapped>>
  <2>1. lock[held[c]] = c
    BY <1>1 DEF HandsInv
  <2>2. TypeOK' /\ HandsInv'
    BY <1>1, <1>3, <2>1 DEF TypeOK, HandsInv
  <2>3. EnginesInv' /\ NoStrayEngine'
    BY <1>1, <1>3 DEF TypeOK, EnginesInv, NoStrayEngine
  <2>4. TakenInv'
    BY <1>1, <1>3 DEF TypeOK, TakenInv
  <2>5. QED
    BY <2>2, <2>3, <2>4
<1>4. QED
  BY <1>2, <1>3 DEF EndExchange

LEMMA CloseServerFine ==
  ASSUME BridgeInv, NEW c \in Client, CloseServer(c)
  PROVE  BridgeInv'
BY FinishFine DEF CloseServer

LEMMA CrashFine ==
  ASSUME BridgeInv, NEW s \in Server, Crash(s)
  PROVE  BridgeInv'
BY DEF BridgeInv, Crash, TypeOK, HandsInv, EnginesInv, TakenInv, NoStrayEngine, Server

LEMMA BridgeInvariant == Spec => []BridgeInv
<1>1. BridgeInv /\ [Next]_vars => BridgeInv'
  <2> SUFFICES ASSUME BridgeInv, [Next]_vars PROVE BridgeInv'
    OBVIOUS
  <2>1. ASSUME NEW c \in Client, GetServer(c) \/ ProbeDefault(c) \/ TakeDefault(c)
        PROVE  BridgeInv'
    BY <2>1, GetServerFine, ProbeDefaultFine, TakeDefaultFine
  <2>2. ASSUME NEW c \in Client, InCall(c)
        PROVE  BridgeInv'
    BY <2>2, AcquireFine, EnsureEngineFine, EndExchangeFine, CloseServerFine DEF InCall
  <2>3. ASSUME NEW s \in Server, Crash(s)
        PROVE  BridgeInv'
    BY <2>3, CrashFine
  <2>4. CASE UNCHANGED vars
    BY <2>4 DEF vars, BridgeInv, TypeOK, HandsInv, EnginesInv, TakenInv, NoStrayEngine
  <2>5. QED
    BY <2>1, <2>2, <2>3, <2>4 DEF Next
<1>2. QED
  BY <1>1, InitFine, PTL DEF Spec

\* However first uses of _get_server and closes of the bridge interleave, no
\* engine is left running that close did not find in another thread's hand.
THEOREM BridgeLeavesNoStray == Spec => []NoStrayEngine
<1>1. BridgeInv => NoStrayEngine
  BY DEF BridgeInv
<1>2. QED
  BY <1>1, BridgeInvariant, PTL

\* The lock of a server keeps close, a restart and a timeout of other threads
\* from ending the engine a thread waits for.
THEOREM BridgeKeepsExchanges == Spec => []EngineOutlivesExchange
<1>1. BridgeInv => EngineOutlivesExchange
  BY DEF BridgeInv, EnginesInv, EngineOutlivesExchange
<1>2. QED
  BY <1>1, BridgeInvariant, PTL
=============================================================================
