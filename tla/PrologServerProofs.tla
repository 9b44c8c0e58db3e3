------------------------- MODULE PrologServerProofs -------------------------
(***************************************************************************)
(* For any number of threads, any KBs and any bounds:                      *)
(*   - the protocol: one holder of the lock, its exchange, and what the    *)
(*     pipes hold, so that no reply is read as the answer to another       *)
(*     request;                                                            *)
(*   - the restart policy, while all the work is load and load_and_query;  *)
(*   - with clean KBs, the refinement of ReasoningService: a               *)
(*     load_and_query that succeeds answers over its own KB;               *)
(*   - with clean KBs, healing: what fails is blamed on a fault during the *)
(*     call.                                                               *)
(*                                                                         *)
(* Core is inductive.  A step of the lock's holder either stays in its     *)
(* call with empty pipes, writes a request, or returns; a step of the      *)
(* process answers the holder's request or dies with it.  One lemma per    *)
(* such shape says what it preserves; the lemmas on Next sort the actions. *)
(* w says whether the KBs are clean: the part of Core about the contents   *)
(* of the workspace holds then only.                                       *)
(***************************************************************************)
EXTENDS PrologServer, PrologEngineProofs, SequenceTheorems

Quiet == stdin = <<>> /\ stdout = <<>>

LEMMA SingletonSeq ==
  ASSUME NEW S, NEW q \in Seq(S), Len(q) = 1
  PROVE  Head(q) \in S /\ Tail(q) = <<>>
<1>1. q # <<>>
  OBVIOUS
<1>2. Head(q) \in S /\ Tail(q) \in Seq(S) /\ Len(Tail(q)) = 0
  BY <1>1, HeadTailProperties
<1>3. QED
  BY <1>2, EmptySeq

----------------------------------------------------------------------------
(* The holder of the lock.                                                 *)

LEMMA HolderIsAlone ==
  ASSUME ControlTypeOK, LockInv, NEW c \in Client, pc[c] \notin {"idle", "lock"}
  PROVE  /\ lock = c
         /\ \A d \in Client \ {c} : lock # d /\ pc[d] \in {"idle", "lock"}
BY DEF LockInv

\* Unless the holder awaits a reply the pipes are empty.
LEMMA QuietBetweenExchanges ==
  ASSUME ControlTypeOK, LockInv, PipeInv, NEW c \in Client,
         pc[c] \notin {"idle", "lock"}, ~Awaiting(c)
  PROVE  Quiet
BY HolderIsAlone DEF PipeInv, Awaiting, Quiet

LEMMA QuietWhenFree ==
  ASSUME ControlTypeOK, LockInv, PipeInv, lock = NoClient
  PROVE  Quiet
BY ServerAssumption DEF LockInv, PipeInv, Awaiting, Quiet

\* A request in the pipe is the one its holder has written.
LEMMA HeadIsWritten ==
  ASSUME ControlTypeOK, LockInv, PipeInv, stdin # <<>>
  PROVE  \E c \in Client : /\ Awaiting(c) /\ lock = c /\ stdout = <<>>
                           /\ stdin = <<Written(c)>>
                           /\ Head(stdin) = Written(c) /\ Tail(stdin) = <<>>
<1>1. PICK c \in Client : Awaiting(c)
  BY DEF PipeInv
<1>2. lock = c
  BY <1>1 DEF LockInv, Awaiting
<1>3. stdin = <<Written(c)>> /\ stdout = <<>>
  BY <1>1 DEF PipeInv
<1>4. QED
  BY <1>1, <1>2, <1>3

\* A reply in the pipe is the answer to what its holder has written.
LEMMA ReplyIsAlone ==
  ASSUME ControlTypeOK, LockInv, PipeInv, NEW c \in Client, Awaiting(c),
         stdout # <<>>
  PROVE  /\ lock = c /\ stdin = <<>> /\ Tail(stdout) = <<>>
         /\ Len(stdout) = 1 /\ Head(stdout).id = served
         /\ Head(stdout) \in Response
<1>1. stdin = <<>> /\ Len(stdout) = 1 /\ Head(stdout).id = served
  BY DEF PipeInv
<1>2. Tail(stdout) = <<>> /\ Head(stdout) \in Response
  BY <1>1, SingletonSeq DEF ControlTypeOK
<1>3. QED
  BY <1>1, <1>2 DEF LockInv, Awaiting

\* Quiet pipes satisfy what the invariant says of pipes.
LEMMA QuietPipes ==
  ASSUME Quiet', \A d \in Client : ~Awaiting(d)'
  PROVE  PipeInv'
BY DEF Quiet, PipeInv

----------------------------------------------------------------------------
(* The shapes of the steps.                                                *)

\* The engine's types and, if all KBs are clean, what its fingerprint tells.
EngineFine(clean) == EngineTypeOK /\ (clean => Registered /\ Fingerprinted)

\* ServerInv without the counters: what holds of the protocol whatever the KBs,
\* and of the contents if they are clean.
Core(clean) ==
  /\ EngineFine(clean) /\ ControlTypeOK
  /\ LockInv /\ CallInv /\ PipeInv /\ ProcInv
  /\ clean => QueryInv /\ AnswersOverOwnKB

\* The holder goes on to a step before its next write: the pipes are empty
\* and, if a query comes next, its workspace is loaded or the engine bare.
LEMMA HolderStays ==
  ASSUME NEW w \in BOOLEAN, Core(w), EngineFine(w)', ProcInv', Quiet',
         NEW c \in Client, pc[c] \notin {"idle", "lock"},
         NEW label \in {"prepare", "write", "rewrite", "halt_write"},
         GoTo(c, label), label = "halt_write" => call[c].op # "execute",
         cmd' \in [Client -> Commands],
         \A d \in Client \ {c} : cmd'[d] = cmd[d],
         cmd'[c] = cmd[c] \/ (call[c].op = "execute" /\ cmd'[c] = "query"),
         w /\ call[c].op = "execute" /\ cmd'[c] = "query" => LoadedOrBare(c)',
         UNCHANGED <<lock, call, result>>,
         proc' \in {"none", "running", "dead"}
  PROVE  Core(w)'
<1>0. ControlTypeOK /\ LockInv /\ lock = c
  BY HolderIsAlone DEF Core
<1>1. pc' = [pc EXCEPT ![c] = label] /\ stdin' = <<>> /\ stdout' = <<>>
  BY DEF GoTo, Quiet
<1>2. ControlTypeOK'
  BY <1>0, <1>1 DEF ControlTypeOK
<1>3. LockInv'
  BY <1>0, <1>1 DEF LockInv, ControlTypeOK
<1>4. CallInv'
  BY <1>0, <1>1 DEF Core, CallInv, ControlTypeOK, Stopping
<1>5. \A d \in Client : ~Awaiting(d)'
  BY <1>0, <1>1, HolderIsAlone DEF Awaiting, ControlTypeOK
<1>6. PipeInv'
  BY <1>5, QuietPipes
<1>7. w => QueryInv'
  BY <1>0, <1>1 DEF QueryInv, ControlTypeOK
<1>8. w => AnswersOverOwnKB'
  BY DEF Core, AnswersOverOwnKB, ContentsOf
<1>9. QED
  BY <1>2, <1>3, <1>4, <1>6, <1>7, <1>8 DEF Core

\* The holder's call ends; an answer it returns is over its own KB.
LEMMA HolderReturns ==
  ASSUME NEW w \in BOOLEAN, Core(w), EngineFine(w)', ProcInv', Quiet',
         NEW c \in Client, pc[c] \notin {"idle", "lock"},
         NEW status \in {"ok", "RuntimeError", "OSError"},
         NEW answer \in Contents \cup {NoAnswer},
         Return(c, status, answer),
         w /\ call[c].op = "execute" /\ status = "ok" => answer = ContentsOf(call[c].kb),
         proc' \in {"none", "running", "dead"}
  PROVE  Core(w)'
<1>0. ControlTypeOK /\ LockInv /\ lock = c
  BY HolderIsAlone DEF Core
<1>1. /\ pc' = [pc EXCEPT ![c] = "idle"] /\ stdin' = <<>> /\ stdout' = <<>>
      /\ lock' = NoClient /\ call' = call /\ cmd' = cmd
      /\ result' = [result EXCEPT ![c] = [status |-> status, answer |-> answer]]
  BY DEF GoTo, Quiet, Return
<1>2. ControlTypeOK'
  BY <1>0, <1>1 DEF ControlTypeOK
<1>3. \A d \in Client : pc'[d] \in {"idle", "lock"}
  BY <1>0, <1>1, HolderIsAlone DEF ControlTypeOK
<1>4. LockInv'
  BY <1>1, <1>3, ServerAssumption DEF LockInv
<1>5. CallInv'
  BY <1>0, <1>1, <1>3 DEF Core, CallInv, ControlTypeOK, Stopping
<1>6. PipeInv'
  BY <1>3, QuietPipes DEF Awaiting
<1>7. w => QueryInv'
  BY <1>1, ServerAssumption DEF QueryInv
<1>8. w => AnswersOverOwnKB'
  <2>1. SUFFICES ASSUME w, NEW d \in Client,
                        call[d].op = "execute" /\ result'[d].status = "ok"
                 PROVE  result'[d].answer = ContentsOf(call[d].kb)
    BY <1>1 DEF AnswersOverOwnKB, ContentsOf
  <2>2. /\ DOMAIN result = Client
        /\ result'[d] = [result EXCEPT ![c] = [status |-> status, answer |-> answer]][d]
    BY <1>0, <1>1 DEF ControlTypeOK
  <2>3. CASE d = c
    BY <1>1, <2>1, <2>2, <2>3
  <2>4. CASE d # c
    <3>1. result'[d] = result[d]
      BY <1>1, <2>2, <2>4
    <3>2. QED
      BY <2>1, <3>1 DEF Core, AnswersOverOwnKB
  <2>5. QED
    BY <2>3, <2>4
<1>9. QED
  BY <1>2, <1>4, <1>5, <1>6, <1>7, <1>8 DEF Core

\* The holder writes its request into an empty pipe.
LEMMA HolderSends ==
  ASSUME NEW w \in BOOLEAN, Core(w), CountTypeOK,
         NEW c \in Client, pc[c] \notin {"idle", "lock"}, ~Awaiting(c),
         NEW label \in {"read", "halt_read"},
         label = "halt_read" => call[c].op # "execute",
         proc = "running", Send(c), GoTo(c, label)
  PROVE  Core(w)'
<1>0. /\ ControlTypeOK /\ LockInv /\ lock = c /\ Quiet
      /\ \A d \in Client \ {c} : lock # d /\ pc[d] \in {"idle", "lock"}
  BY HolderIsAlone, QuietBetweenExchanges DEF Core
<1>1. /\ pc' = [pc EXCEPT ![c] = label]
      /\ served' = served + 1 /\ stdin' = Append(stdin, Request(c)) /\ stdout' = stdout
      /\ UNCHANGED <<engineVars, proc, lock, call, cmd, result>>
  BY DEF GoTo, Send
<1>2. Request(c) = Written(c)' /\ Request(c) \in Wire
  BY <1>0, <1>1 DEF Request, Written, Wire, CountTypeOK, ControlTypeOK, CallType
<1>3. stdin' = <<Request(c)>> /\ stdout' = <<>>
  BY <1>0, <1>1 DEF Quiet
<1>4. ControlTypeOK'
  BY <1>0, <1>1, <1>2, <1>3 DEF ControlTypeOK
<1>5. LockInv'
  BY <1>0, <1>1 DEF LockInv, ControlTypeOK
<1>6. CallInv'
  BY <1>0, <1>1 DEF Core, CallInv, ControlTypeOK, Stopping
<1>7. PipeInv'
  <2>1. Awaiting(c)' /\ \A d \in Client : Awaiting(d)' => d = c
    BY <1>0, <1>1 DEF Awaiting, ControlTypeOK
  <2>2. QED
    BY <2>1, <1>1, <1>2, <1>3 DEF PipeInv
<1>8. w => QueryInv'
  BY <1>1, <1>3 DEF Core, QueryInv, LoadedOrBare, engineVars
<1>9. w => AnswersOverOwnKB'
  BY <1>1 DEF Core, AnswersOverOwnKB, ContentsOf
<1>10. EngineFine(w)' /\ ProcInv'
  BY <1>1 DEF Core, engineVars, EngineFine, EngineTypeOK, Registered,
              Fingerprinted, ProcInv
<1>11. QED
  BY <1>4, <1>5, <1>6, <1>7, <1>8, <1>9, <1>10 DEF Core

\* The process takes the holder's request and answers it.
LEMMA ProcessAnswers ==
  ASSUME NEW w \in BOOLEAN, Core(w), EngineFine(w)', ProcInv', UNCHANGED <<clientVars, served>>,
         NEW c \in Client, Awaiting(c), stdin' = <<>>,
         NEW r \in Response, r.id = served, stdout' = <<r>>,
         w /\ call[c].op = "execute" /\ (cmd[c] = "query" \/ r.status = "ok")
           => LoadedOrBare(c)',
         w /\ call[c].op = "execute" /\ cmd[c] = "query" /\ r.status = "ok"
           => r.answer = ContentsOf(call[c].kb),
         proc' \in {"none", "running", "dead"}
  PROVE  Core(w)'
<1>0. ControlTypeOK /\ LockInv /\ lock = c
  BY DEF Core, LockInv, Awaiting
<1>1. /\ pc' = pc /\ lock' = lock /\ call' = call /\ cmd' = cmd
      /\ result' = result /\ served' = served
  BY DEF clientVars
<1>2. Len(<<r>>) = 1 /\ Head(<<r>>) = r /\ <<r>> \in Seq(Response)
  OBVIOUS
<1>3. ControlTypeOK'
  BY <1>0, <1>1, <1>2 DEF ControlTypeOK
<1>4. LockInv' /\ CallInv'
  BY <1>1 DEF Core, LockInv, CallInv, Stopping
<1>5. PipeInv'
  <2>1. Awaiting(c)'
    BY <1>1 DEF Awaiting
  <2>2. QED
    BY <2>1, <1>1, <1>2 DEF PipeInv
<1>6. w => QueryInv'
  BY <1>0, <1>1, <1>2 DEF QueryInv, ContentsOf
<1>7. w => AnswersOverOwnKB'
  BY <1>1 DEF Core, AnswersOverOwnKB, ContentsOf
<1>8. QED
  BY <1>3, <1>4, <1>5, <1>6, <1>7 DEF Core

----------------------------------------------------------------------------
(* The steps of a thread.                                                  *)

LEMMA EngineKept ==
  ASSUME NEW w \in BOOLEAN, EngineFine(w), UNCHANGED engineVars
  PROVE  EngineFine(w)'
BY DEF engineVars, EngineFine, EngineTypeOK, Registered, Fingerprinted

\* Launching, terminating and dying leave an engine that knows nothing.
LEMMA DiscardForgets ==
  ASSUME NEW w \in BOOLEAN, Discard
  PROVE  EngineFine(w)' /\ ProcInv' /\ Quiet' /\ ~proveKnown'
BY ResetPreserves DEF Discard, ResetEngine, EngineInv, EngineFine, ProcInv, Quiet

LEMMA InvokePreserves ==
  ASSUME NEW w \in BOOLEAN, Core(w), NEW c \in Client, NEW o \in Calls, Invoke(c, o)
  PROVE  Core(w)'
<1>0. /\ ControlTypeOK /\ LockInv /\ pc[c] = "idle" /\ lock # c
      /\ o \in CallType /\ WellFormedCall(o) /\ FirstCommand(o) \in Commands
  BY ServerAssumption DEF Core, LockInv, Invoke, FirstCommand, CallType, Commands
<1>1. /\ pc' = [pc EXCEPT ![c] = "lock"]
      /\ call' = [call EXCEPT ![c] = o]
      /\ cmd' = [cmd EXCEPT ![c] = FirstCommand(o)]
      /\ result' = [result EXCEPT ![c] = Idle]
      /\ UNCHANGED <<engineVars, proc, stdin, stdout, lock, served>>
  BY DEF Invoke, GoTo, processVars
<1>2. ControlTypeOK'
  BY <1>0, <1>1 DEF ControlTypeOK, Idle
<1>3. LockInv'
  BY <1>0, <1>1 DEF LockInv, ControlTypeOK
<1>4. CallInv'
  BY <1>0, <1>1 DEF Core, CallInv, ControlTypeOK, Stopping
<1>5. \A d \in Client : Awaiting(d)' <=> Awaiting(d)
  BY <1>0, <1>1 DEF Awaiting, ControlTypeOK
<1>6. PipeInv'
  <2>1. \A d \in Client : Awaiting(d) => d # c
    BY <1>0 DEF Awaiting
  <2>2. \A d \in Client : d # c => Written(d)' = Written(d)
    BY <1>0, <1>1 DEF Written, ControlTypeOK
  <2>3. QED
    BY <1>1, <1>5, <2>1, <2>2 DEF Core, PipeInv
<1>7. w => QueryInv'
  BY <1>0, <1>1 DEF Core, QueryInv, LoadedOrBare, ControlTypeOK, engineVars, ContentsOf
<1>8. w => AnswersOverOwnKB'
  BY <1>0, <1>1 DEF Core, AnswersOverOwnKB, ContentsOf, ControlTypeOK, Idle
<1>9. EngineFine(w)' /\ ProcInv'
  BY <1>1, EngineKept DEF Core, ProcInv, engineVars
<1>10. QED
  BY <1>2, <1>3, <1>4, <1>6, <1>7, <1>8, <1>9 DEF Core

LEMMA EnterPreserves ==
  ASSUME NEW w \in BOOLEAN, Core(w), NEW c \in Client, Enter(c)
  PROVE  Core(w)'
<1>0. /\ ControlTypeOK /\ LockInv /\ pc[c] = "lock" /\ lock = NoClient /\ Quiet
      /\ \A d \in Client : pc[d] \in {"idle", "lock"}
  BY QuietWhenFree, ServerAssumption DEF Core, LockInv, Enter
<1>1. PICK label \in {"close", "halt", "prepare"} :
        /\ pc' = [pc EXCEPT ![c] = label]
        /\ label # "prepare" => call[c].op # "execute"
  BY DEF Enter, GoTo
<1>2. lock' = c /\ UNCHANGED <<engineVars, proc, stdin, stdout, call, cmd, result, served>>
  BY DEF Enter, processVars
<1>3. ControlTypeOK'
  BY <1>0, <1>1, <1>2 DEF ControlTypeOK
<1>4. LockInv'
  BY <1>0, <1>1, <1>2 DEF LockInv, ControlTypeOK
<1>5. CallInv'
  BY <1>0, <1>1, <1>2 DEF Core, CallInv, ControlTypeOK, Stopping
<1>6. PipeInv'
  <2>1. Quiet' /\ \A d \in Client : ~Awaiting(d)'
    BY <1>0, <1>1, <1>2 DEF Quiet, Awaiting, ControlTypeOK
  <2>2. QED
    BY <2>1, QuietPipes
<1>7. w => QueryInv'
  <2>1. call[c].op = "execute" => cmd[c] # "query"
    BY <1>0 DEF Core, CallInv, FirstCommand
  <2>2. QED
    BY <1>0, <1>2, <2>1 DEF QueryInv, Quiet
<1>8. w => AnswersOverOwnKB'
  BY <1>2 DEF Core, AnswersOverOwnKB, ContentsOf
<1>9. EngineFine(w)' /\ ProcInv'
  BY <1>2, EngineKept DEF Core, ProcInv, engineVars
<1>10. QED
  BY <1>3, <1>4, <1>5, <1>6, <1>7, <1>8, <1>9 DEF Core

LEMMA PreparePreserves ==
  ASSUME NEW w \in BOOLEAN, Core(w), NEW c \in Client, Prepare(c)
  PROVE  Core(w)'
<1>1. ControlTypeOK /\ LockInv /\ PipeInv /\ pc[c] = "prepare" /\ lock = c /\ Quiet
  BY QuietBetweenExchanges, HolderIsAlone DEF Core, Prepare, Awaiting
<1>2. EngineFine(w)' /\ ProcInv' /\ Quiet'
  BY <1>1, EngineKept DEF Core, Prepare, processVars, ProcInv, engineVars, Quiet
<1>3. w /\ call[c].op = "execute" /\ cmd[c] = "query" => LoadedOrBare(c)'
  BY <1>1 DEF Core, QueryInv, LoadedOrBare, Prepare, processVars, engineVars
<1>4. cmd' \in [Client -> Commands] /\ cmd' = cmd
  BY <1>1 DEF ControlTypeOK, Prepare
<1>5. /\ proc' \in {"none", "running", "dead"} /\ UNCHANGED <<lock, call, result>>
      /\ GoTo(c, "write") /\ pc[c] \notin {"idle", "lock"}
  BY <1>1 DEF Prepare, processVars, ControlTypeOK
<1>6. QED
  BY <1>2, <1>3, <1>4, <1>5, HolderStays

\* Shared by the two places a process is replaced: Popen succeeds and the
\* thread goes on to a write over a bare engine, or it raises.
LEMMA LaunchPreserves ==
  ASSUME NEW w \in BOOLEAN, Core(w), NEW c \in Client, pc[c] \notin {"idle", "lock"},
         NEW label \in {"write", "rewrite"}, Discard,
         \/ /\ proc' = "running" /\ GoTo(c, label)
            /\ UNCHANGED <<lock, call, cmd, result>>
         \/ /\ proc' \in {"none", "running", "dead"} /\ Return(c, "OSError", NoAnswer)
  PROVE  Core(w)'
<1>1. EngineFine(w)' /\ ProcInv' /\ Quiet' /\ ~proveKnown'
  BY DiscardForgets
<1>2. CASE proc' = "running" /\ GoTo(c, label) /\ UNCHANGED <<lock, call, cmd, result>>
  <2>1. cmd' \in [Client -> Commands] /\ cmd' = cmd /\ LoadedOrBare(c)'
    BY <1>1, <1>2 DEF Core, ControlTypeOK, LoadedOrBare
  <2>2. UNCHANGED <<lock, call, result>> /\ GoTo(c, label) /\ label # "halt_write"
    BY <1>2
  <2>3. proc' \in {"none", "running", "dead"}
    BY <1>2
  <2>4. label \in {"prepare", "write", "rewrite", "halt_write"}
    OBVIOUS
  <2>5. QED
    BY <1>1, <2>1, <2>2, <2>3, <2>4, HolderStays
<1>3. CASE proc' \in {"none", "running", "dead"} /\ Return(c, "OSError", NoAnswer)
  BY <1>1, <1>3, HolderReturns
<1>4. QED
  BY <1>2, <1>3

LEMMA RelaunchPreserves ==
  ASSUME NEW w \in BOOLEAN, Core(w), NEW c \in Client, Relaunch(c) \/ WriteFails(c)
  PROVE  Core(w)'
<1>0. proc \in {"none", "running", "dead"}
  BY DEF Core, ControlTypeOK
<1>1. CASE Relaunch(c)
  <2>1. Discard /\ pc[c] = "prepare"
    BY <1>1 DEF Relaunch, Launch, LaunchRaises
  <2>2. \/ /\ proc' = "running" /\ GoTo(c, "write")
           /\ UNCHANGED <<lock, call, cmd, result>>
        \/ /\ proc' \in {"none", "running", "dead"} /\ Return(c, "OSError", NoAnswer)
    BY <1>0, <1>1 DEF Relaunch, Launch, LaunchRaises
  <2>3. QED
    BY <2>1, <2>2, LaunchPreserves
<1>2. CASE WriteFails(c)
  <2>1. Discard /\ pc[c] = "write"
    BY <1>2 DEF WriteFails, Launch, LaunchRaises
  <2>2. \/ /\ proc' = "running" /\ GoTo(c, "rewrite")
           /\ UNCHANGED <<lock, call, cmd, result>>
        \/ /\ proc' \in {"none", "running", "dead"} /\ Return(c, "OSError", NoAnswer)
    BY <1>2 DEF WriteFails, Launch, LaunchRaises
  <2>3. QED
    BY <2>1, <2>2, LaunchPreserves
<1>3. QED
  BY <1>1, <1>2

LEMMA WritePreserves ==
  ASSUME NEW w \in BOOLEAN, Core(w), CountTypeOK, NEW c \in Client,
         Write(c) \/ Rewrite(c) \/ HaltWrite(c)
  PROVE  Core(w)'
<1>1. CASE Write(c) \/ Rewrite(c)
  BY <1>1, HolderSends DEF Write, Rewrite, Awaiting
<1>2. CASE HaltWrite(c)
  <2>1. call[c].op # "execute"
    BY <1>2 DEF HaltWrite, Core, CallInv, Stopping
  <2>2. QED
    BY <1>2, <2>1, HolderSends DEF HaltWrite, Awaiting
<1>3. QED
  BY <1>1, <1>2

\* Reading an "ok": the load of a load_and_query is followed by its query,
\* over a workspace that is still loaded or gone with its process.
LEMMA ReadOkPreserves ==
  ASSUME NEW w \in BOOLEAN, Core(w), NEW c \in Client, pc[c] = "read", stdout # <<>>,
         Head(stdout).status = "ok", stdout' = Tail(stdout),
         Proceed(c, Head(stdout).answer), UNCHANGED <<engineVars, proc, stdin>>
  PROVE  Core(w)'
<1>1. /\ ControlTypeOK /\ CallInv /\ lock = c /\ stdin = <<>> /\ Tail(stdout) = <<>>
      /\ Head(stdout).answer \in Contents \cup {NoAnswer}
  BY ReplyIsAlone DEF Core, Awaiting, Response
<1>2. EngineFine(w)' /\ ProcInv' /\ Quiet'
  BY <1>1, EngineKept DEF Core, ProcInv, engineVars, Quiet
<1>3. proc' \in {"none", "running", "dead"}
  BY <1>1 DEF ControlTypeOK
<1>4. w /\ call[c].op = "execute" =>
        /\ LoadedOrBare(c)
        /\ cmd[c] = "query" => Head(stdout).answer = ContentsOf(call[c].kb)
  BY <1>1 DEF Core, QueryInv
<1>5. CASE call[c].op = "execute" /\ cmd[c] = "load"
  <2>1. cmd' = [cmd EXCEPT ![c] = "query"] /\ UNCHANGED <<lock, call, result>>
        /\ GoTo(c, "prepare")
    BY <1>5 DEF Proceed
  <2>2. /\ cmd' \in [Client -> Commands] /\ cmd'[c] = "query"
        /\ \A d \in Client \ {c} : cmd'[d] = cmd[d]
    BY <1>1, <2>1 DEF ControlTypeOK, Commands
  <2>3. w => LoadedOrBare(c)'
    BY <1>4, <1>5, <2>1 DEF LoadedOrBare, engineVars
  <2>4. QED
    BY <1>2, <1>3, <1>5, <2>1, <2>2, <2>3, HolderStays
<1>6. CASE ~(call[c].op = "execute" /\ cmd[c] = "load")
  <2>1. Return(c, "ok", Head(stdout).answer)
    BY <1>6 DEF Proceed
  <2>2. w /\ call[c].op = "execute" => Head(stdout).answer = ContentsOf(call[c].kb)
    BY <1>1, <1>4, <1>6 DEF CallInv, FirstCommand
  <2>3. QED
    BY <1>1, <1>2, <1>3, <2>1, <2>2, HolderReturns
<1>7. QED
  BY <1>5, <1>6

LEMMA ReadPreserves ==
  ASSUME NEW w \in BOOLEAN, Core(w), NEW c \in Client, ReadReply(c) \/ ReadEOF(c) \/ ReadTimeout(c)
  PROVE  Core(w)'
<1>0. pc[c] = "read" /\ proc \in {"none", "running", "dead"}
  BY DEF Core, ControlTypeOK, ReadReply, ReadEOF, ReadTimeout
<1>1. CASE Raise(c) /\ Quiet' /\ UNCHANGED <<engineVars, proc>>
  <2>1. EngineFine(w)' /\ ProcInv'
    BY <1>1, EngineKept DEF Core, ProcInv, engineVars
  <2>2. QED
    BY <1>0, <1>1, <2>1, HolderReturns DEF Raise
<1>2. CASE Raise(c) /\ DropLateEngine
  BY <1>0, <1>2, DiscardForgets, HolderReturns DEF Raise, DropLateEngine, Terminate
<1>3. CASE ReadReply(c)
  <2>1. stdin = <<>> /\ Tail(stdout) = <<>>
    BY <1>0, <1>3, ReplyIsAlone DEF Core, Awaiting, ReadReply
  <2>2. CASE Raise(c) /\ stdout' = Tail(stdout) /\ UNCHANGED <<engineVars, proc, stdin>>
    BY <1>1, <2>1, <2>2 DEF Quiet
  <2>3. QED
    BY <1>0, <1>2, <1>3, <2>2, ReadOkPreserves DEF ReadReply
<1>4. CASE ReadEOF(c)
  <2>1. stdin = <<>>
    BY <1>4 DEF ReadEOF, Core, PipeInv, Awaiting
  <2>2. QED
    BY <1>1, <1>4, <2>1 DEF ReadEOF, processVars, Quiet
<1>5. CASE ReadTimeout(c)
  BY <1>2, <1>5 DEF ReadTimeout
<1>6. QED
  BY <1>3, <1>4, <1>5

\* close and halt end with a result that carries no contents.
LEMMA StopPreserves ==
  ASSUME NEW w \in BOOLEAN, Core(w), NEW c \in Client,
         Close(c) \/ HaltNotRunning(c) \/ HaltAlive(c) \/ HaltEnds(c) \/ HaltTimeout(c)
  PROVE  Core(w)'
<1>0. /\ proc \in {"none", "running", "dead"} /\ cmd \in [Client -> Commands]
      /\ call[c].op # "execute" /\ pc[c] \notin {"idle", "lock"}
  BY DEF Core, ControlTypeOK, CallInv, Stopping,
         Close, HaltNotRunning, HaltAlive, HaltEnds, HaltTimeout
<1>1. CASE Close(c) \/ HaltEnds(c) \/ HaltTimeout(c)
  <2>1. Discard /\ proc' = "none" /\ Return(c, "ok", NoAnswer)
    BY <1>1 DEF Close, HaltEnds, HaltTimeout, DropLateEngine, Terminate
  <2>2. QED
    BY <1>0, <2>1, DiscardForgets, HolderReturns
<1>2. CASE HaltNotRunning(c) \/ HaltAlive(c)
  <2>1. Quiet /\ UNCHANGED <<engineVars, proc, stdin, stdout>>
    BY <1>2, QuietBetweenExchanges
       DEF Core, HaltNotRunning, HaltAlive, Awaiting, processVars
  <2>2. EngineFine(w)' /\ ProcInv' /\ Quiet' /\ proc' \in {"none", "running", "dead"}
    BY <1>0, <2>1, EngineKept DEF Core, ProcInv, engineVars, Quiet
  <2>3. CASE HaltNotRunning(c)
    BY <1>0, <2>2, <2>3, HolderReturns DEF HaltNotRunning
  <2>4. CASE HaltAlive(c)
    <3>1. GoTo(c, "halt_write") /\ cmd' = cmd /\ UNCHANGED <<lock, call, result>>
      BY <2>4 DEF HaltAlive
    <3>2. QED
      BY <1>0, <2>2, <3>1, HolderStays
  <2>5. QED
    BY <1>2, <2>3, <2>4
<1>3. QED
  BY <1>1, <1>2

----------------------------------------------------------------------------
(* The steps of the process.                                               *)

LEMMA ServeLoadPreserves ==
  ASSUME NEW w \in BOOLEAN, w => CleanWorld, Core(w), CountTypeOK, ServeLoad
  PROVE  Core(w)'
<1>0. stdin # <<>> /\ Head(stdin).cmd = "load" /\ stdin' = Tail(stdin)
  BY DEF ServeLoad, Serves
<1>1. PICK c \in Client : /\ Awaiting(c) /\ lock = c /\ stdout = <<>>
                          /\ Head(stdin) = Written(c) /\ Tail(stdin) = <<>>
  BY <1>0, HeadIsWritten DEF Core
<1>2. cmd[c] = "load" /\ call[c] \in CallType /\ WellFormedCall(call[c])
  BY <1>0, <1>1 DEF Written, Core, ControlTypeOK, CallInv
<1>3. call[c].op \in {"execute", "load"}
  BY <1>2 DEF Core, CallInv, FirstCommand, CallType
<1>4. call[c].kb \in KB /\ call[c].hashed \in BOOLEAN
      /\ (call[c].op = "execute" => call[c].hashed)
  BY <1>2, <1>3 DEF WellFormedCall, CallType
<1>5. HandleLoad(call[c].kb, call[c].hashed)
  BY <1>1 DEF ServeLoad, Written
<1>6. /\ EngineFine(w)'
      /\ w /\ call[c].hashed => kbHash' = call[c].kb
  <2>1. EngineTypeOK'
    BY <1>4, <1>5, LoadTyped DEF Core, EngineFine
  <2>2. ASSUME w PROVE EngineInv' /\ (call[c].hashed => kbHash' = call[c].kb)
    BY <1>4, <1>5, <2>2, LoadPreserves DEF CleanWorld, Core, EngineFine, EngineInv
  <2>3. QED
    BY <2>1, <2>2 DEF EngineInv, EngineFine
<1> DEFINE r == [id |-> served, status |-> LoadStatus(call[c].kb, call[c].hashed),
                 answer |-> NoAnswer]
<1>7. stdout' = <<r>>
  BY <1>1 DEF ServeLoad, Reply, Written
<1>8. r \in Response /\ r.id = served
  BY DEF Response, CountTypeOK, LoadStatus
<1>9. w /\ call[c].op = "execute" => LoadedOrBare(c)'
  BY <1>4, <1>6 DEF LoadedOrBare, ServeLoad, Undisturbed, clientVars
<1>10. /\ UNCHANGED <<clientVars, served>> /\ ProcInv' /\ stdin' = <<>>
       /\ proc' \in {"none", "running", "dead"}
  BY <1>0, <1>1 DEF ServeLoad, Serves, Undisturbed, historyVars, ProcInv
<1>11. cmd[c] # "query"
  BY <1>2
<1>12. QED
  <2> HIDE DEF r
  <2> QED BY <1>1, <1>6, <1>7, <1>8, <1>9, <1>10, <1>11, ProcessAnswers

LEMMA ServeClausePreserves ==
  ASSUME NEW w \in BOOLEAN, Core(w), CountTypeOK, ServeAssert \/ ServeRetract
  PROVE  Core(w)'
<1>0. stdin # <<>> /\ Head(stdin).cmd \in {"assert", "retract"} /\ stdin' = Tail(stdin)
  BY DEF ServeAssert, ServeRetract, Serves
<1>1. PICK c \in Client : /\ Awaiting(c) /\ lock = c /\ stdout = <<>>
                          /\ Head(stdin) = Written(c) /\ Tail(stdin) = <<>>
  BY <1>0, HeadIsWritten DEF Core
<1>2. /\ cmd[c] \in {"assert", "retract"} /\ call[c] \in CallType
      /\ WellFormedCall(call[c])
  BY <1>0, <1>1 DEF Written, Core, ControlTypeOK, CallInv
<1>3. call[c].op \in {"assert", "retract"}
  BY <1>2 DEF Core, CallInv, FirstCommand, CallType
<1>4. call[c].stmt \in Statement
  BY <1>2, <1>3 DEF WellFormedCall
<1>5. HandleAssert(call[c].stmt) \/ HandleRetract(call[c].stmt)
  BY <1>1 DEF ServeAssert, ServeRetract, Written
<1>6. EngineFine(w)'
  <2>1. EngineTypeOK'
    BY <1>4, <1>5, ClauseTyped DEF Core, EngineFine
  <2>2. ASSUME w PROVE EngineInv'
    BY <1>4, <1>5, <2>2, AssertPreserves, RetractPreserves DEF Core, EngineFine, EngineInv
  <2>3. QED
    BY <2>1, <2>2 DEF EngineInv, EngineFine
<1> DEFINE r == [id |-> served, status |-> ClauseStatus(call[c].stmt), answer |-> NoAnswer]
<1>7. stdout' = <<r>>
  BY <1>1 DEF ServeAssert, ServeRetract, Reply, Written
<1>8. r \in Response /\ r.id = served
  BY DEF Response, CountTypeOK, ClauseStatus
<1>9. /\ UNCHANGED <<clientVars, served>> /\ ProcInv' /\ stdin' = <<>>
      /\ proc' \in {"none", "running", "dead"}
  BY <1>0, <1>1 DEF ServeAssert, ServeRetract, Serves, Undisturbed, historyVars, ProcInv
<1>10. call[c].op # "execute"
  BY <1>3
<1>11. QED
  <2> HIDE DEF r
  <2> QED BY <1>1, <1>6, <1>7, <1>8, <1>9, <1>10, ProcessAnswers

\* A query on a loaded engine sees the KB the engine's fingerprint names,
\* which is that of the load_and_query the query belongs to.
LEMMA ServeQueryPreserves ==
  ASSUME NEW w \in BOOLEAN, Core(w), CountTypeOK, ServeQuery
  PROVE  Core(w)'
<1>0. /\ stdin # <<>> /\ Head(stdin).cmd = "query" /\ stdin' = Tail(stdin)
      /\ UNCHANGED engineVars
  BY DEF ServeQuery, Serves
<1>1. PICK c \in Client : /\ Awaiting(c) /\ lock = c /\ stdout = <<>>
                          /\ Head(stdin) = Written(c) /\ Tail(stdin) = <<>>
  BY <1>0, HeadIsWritten DEF Core
<1>2. cmd[c] = "query"
  BY <1>0, <1>1 DEF Written
<1>3. PICK status \in QueryStatus :
        Reply(status, IF status = "ok" THEN Visible ELSE NoAnswer)
  BY DEF ServeQuery
<1> DEFINE r == [id |-> served, status |-> status,
                 answer |-> IF status = "ok" THEN Visible ELSE NoAnswer]
<1>4. stdout' = <<r>>
  BY <1>1, <1>3 DEF Reply, Written
<1>5. Visible \in Contents
  BY DEF Core, EngineFine, EngineTypeOK, Visible, NothingVisible, Contents, Clause
<1>6. r \in Response /\ r.id = served
  BY <1>5 DEF Response, CountTypeOK, QueryStatus
<1>7. w /\ call[c].op = "execute" => LoadedOrBare(c)
  BY <1>1, <1>2 DEF Core, QueryInv
<1>8. w /\ call[c].op = "execute" => LoadedOrBare(c)'
  BY <1>0, <1>7 DEF LoadedOrBare, engineVars, ServeQuery, Undisturbed, clientVars
<1>9. ASSUME w, call[c].op = "execute", status = "ok"
      PROVE  r.answer = ContentsOf(call[c].kb)
  <2>1. proveKnown /\ kbHash = call[c].kb
    BY <1>7, <1>9 DEF QueryStatus, LoadedOrBare
  <2>2. kbHash # NoHash
    BY <1>1, <1>2, <1>9, <2>1, EngineAssumption DEF Core, CallInv, WellFormedCall
  <2>3. QED
    BY <1>9, <2>1, <2>2, FingerprintMeansVisible DEF Core, EngineFine, EngineInv
<1>10. /\ UNCHANGED <<clientVars, served>> /\ ProcInv' /\ stdin' = <<>>
       /\ proc' \in {"none", "running", "dead"} /\ EngineFine(w)'
  BY <1>0, <1>1, EngineKept
     DEF ServeQuery, Serves, Undisturbed, historyVars, ProcInv, Core
<1>11. r.status = status
  OBVIOUS
<1>12. QED
  <2> HIDE DEF r
  <2> QED BY <1>1, <1>4, <1>6, <1>8, <1>9, <1>10, <1>11, ProcessAnswers

LEMMA ServeOtherPreserves ==
  ASSUME NEW w \in BOOLEAN, Core(w), CountTypeOK, ServeOther
  PROVE  Core(w)'
<1>0. /\ stdin # <<>> /\ Head(stdin).cmd \in {"ping", "stats"} /\ stdin' = Tail(stdin)
      /\ UNCHANGED engineVars
  BY DEF ServeOther, Serves
<1>1. PICK c \in Client : /\ Awaiting(c) /\ lock = c /\ stdout = <<>>
                          /\ Head(stdin) = Written(c) /\ Tail(stdin) = <<>>
  BY <1>0, HeadIsWritten DEF Core
<1>2. cmd[c] \in {"ping", "stats"} /\ call[c] \in CallType
  BY <1>0, <1>1 DEF Written, Core, ControlTypeOK
<1>3. call[c].op # "execute"
  BY <1>2 DEF Core, CallInv, FirstCommand
<1> DEFINE r == [id |-> served, status |-> "ok", answer |-> NoAnswer]
<1>4. stdout' = <<r>>
  BY <1>1 DEF ServeOther, Reply, Written
<1>5. r \in Response /\ r.id = served
  BY DEF Response, CountTypeOK
<1>6. /\ UNCHANGED <<clientVars, served>> /\ ProcInv' /\ stdin' = <<>>
      /\ proc' \in {"none", "running", "dead"} /\ EngineFine(w)'
  BY <1>0, <1>1, EngineKept
     DEF ServeOther, Undisturbed, historyVars, ProcInv, Core, ControlTypeOK, engineVars
<1>7. QED
  <2> HIDE DEF r
  <2> QED BY <1>1, <1>3, <1>4, <1>5, <1>6, ProcessAnswers

LEMMA ServeHaltPreserves ==
  ASSUME NEW w \in BOOLEAN, Core(w), CountTypeOK, ServeHalt
  PROVE  Core(w)'
<1>0. /\ stdin # <<>> /\ Head(stdin).cmd = "halt" /\ stdin' = <<>>
      /\ ResetEngine /\ proc' = "dead"
  BY DEF ServeHalt, Die
<1>1. PICK c \in Client : /\ Awaiting(c) /\ lock = c /\ stdout = <<>>
                          /\ Head(stdin) = Written(c) /\ Tail(stdin) = <<>>
  BY <1>0, HeadIsWritten DEF Core
<1>2. cmd[c] = "halt"
  BY <1>0, <1>1 DEF Written
<1> DEFINE r == [id |-> served, status |-> "ok", answer |-> NoAnswer]
<1>3. stdout' = <<r>>
  BY <1>1 DEF ServeHalt, Reply, Written
<1>4. r \in Response /\ r.id = served
  BY DEF Response, CountTypeOK
<1>5. EngineFine(w)' /\ ~proveKnown'
  BY <1>0, ResetPreserves DEF ResetEngine, EngineInv, EngineFine
<1>6. UNCHANGED <<clientVars, served>> /\ ProcInv' /\ LoadedOrBare(c)'
  BY <1>5 DEF ServeHalt, Undisturbed, historyVars, ProcInv, LoadedOrBare
<1>7. QED
  <2> HIDE DEF r
  <2> QED BY <1>0, <1>1, <1>2, <1>3, <1>4, <1>5, <1>6, ProcessAnswers

\* A process that dies takes the request it has not answered with it; an
\* answer already in the pipe is still there to be read.
LEMMA CrashPreserves ==
  ASSUME NEW w \in BOOLEAN, Core(w), Crash
  PROVE  Core(w)'
<1>1. /\ proc' = "dead" /\ stdin' = <<>> /\ ResetEngine
      /\ UNCHANGED <<stdout, lock, pc, call, cmd, result, served>>
  BY DEF Crash, Die, clientVars
<1>2. EngineFine(w)' /\ ProcInv' /\ ~proveKnown'
  BY <1>1, ResetPreserves DEF ResetEngine, EngineInv, EngineFine, ProcInv
<1>3. ControlTypeOK'
  BY <1>1 DEF Core, ControlTypeOK
<1>4. LockInv' /\ CallInv' /\ (w => AnswersOverOwnKB')
  BY <1>1 DEF Core, LockInv, CallInv, Stopping, AnswersOverOwnKB, ContentsOf
<1>5. PipeInv'
  BY <1>1 DEF Core, PipeInv, Awaiting
<1>6. w => QueryInv'
  BY <1>1, <1>2 DEF Core, QueryInv, LoadedOrBare, ContentsOf
<1>7. QED
  BY <1>2, <1>3, <1>4, <1>5, <1>6 DEF Core

----------------------------------------------------------------------------
(* The theorem.                                                            *)

LEMMA CountsPreserved ==
  ASSUME CountTypeOK, [Next]_vars
  PROVE  CountTypeOK'
<1> USE DEF CountTypeOK, Reasons
<1>1. ASSUME NEW c \in Client, NEW o \in Calls, Invoke(c, o)
      PROVE  CountTypeOK'
  BY <1>1 DEF Invoke, policyVars
<1>2. ASSUME NEW c \in Client, Enter(c)
      PROVE  CountTypeOK'
  BY <1>2 DEF Enter, policyVars
<1>3. ASSUME NEW reason \in Reasons \cup {"none"}, Count(reason)
      PROVE  restarts' \in [Reasons -> Nat]
  BY <1>3 DEF Count
<1>4. ASSUME NEW c \in Client, Relaunch(c)
      PROVE  CountTypeOK'
  <2> DEFINE reason == IF RestartDue(c) THEN "periodic" ELSE pending
  <2>1. reason \in Reasons \cup {"none"} /\ Count(reason)
    BY <1>4 DEF Relaunch, Launch, LaunchRaises
  <2>2. restarts' \in [Reasons -> Nat]
    <3> HIDE DEF reason
    <3> QED BY <2>1, <1>3
  <2>3. CASE Launch(reason) /\ requests' = 1 /\ UNCHANGED <<timeouts, calls, crashes>>
    <3> HIDE DEF reason
    <3> QED BY <2>2, <2>3 DEF Launch
  <2>4. ASSUME NEW left, LaunchRaises(reason, left), UNCHANGED <<timeouts, calls, crashes>>
        PROVE  CountTypeOK'
    <3> HIDE DEF reason
    <3> QED BY <2>2, <2>4 DEF LaunchRaises
  <2>5. QED
    BY <1>4, <2>3, <2>4 DEF Relaunch
<1>5. ASSUME NEW c \in Client, WriteFails(c)
      PROVE  CountTypeOK'
  <2>1. restarts' \in [Reasons -> Nat]
    BY <1>3, <1>5 DEF WriteFails, Launch, LaunchRaises
  <2>2. CASE Launch("broken_pipe") /\ requests' = 0 /\ UNCHANGED <<timeouts, calls, crashes>>
    BY <2>1, <2>2 DEF Launch
  <2>3. CASE LaunchRaises("broken_pipe", "none") /\ UNCHANGED <<timeouts, calls, crashes>>
    BY <2>1, <2>3 DEF LaunchRaises
  <2>4. QED
    BY <1>5, <2>2, <2>3 DEF WriteFails
<1>6. ASSUME NEW c \in Client,
             Prepare(c) \/ Write(c) \/ Rewrite(c) \/ RewriteFails(c)
      PROVE  CountTypeOK'
  <2>1. CASE Prepare(c)
    BY <2>1 DEF Prepare, historyVars
  <2>2. CASE Write(c) \/ Rewrite(c)
    BY <2>2 DEF Write, Rewrite, Send, policyVars
  <2>3. CASE RewriteFails(c)
    BY <2>3 DEF RewriteFails, policyVars, historyVars
  <2>4. QED
    BY <1>6, <2>1, <2>2, <2>3
<1> DEFINE Later == UNCHANGED <<served, launches, calls, crashes, launchFailures>>
<1>7. ASSUME DropLateEngine, Later
       PROVE  CountTypeOK'
  BY <1>7 DEF DropLateEngine
<1>8. ASSUME UNCHANGED <<policyVars, disturbed>>, Later
       PROVE  CountTypeOK'
  BY <1>8 DEF policyVars
<1>9. ASSUME NEW c \in Client, ReadReply(c) \/ ReadEOF(c) \/ ReadTimeout(c)
      PROVE  CountTypeOK'
  <2>1. Later /\ (DropLateEngine \/ UNCHANGED <<policyVars, disturbed>>)
    BY <1>9 DEF ReadReply, ReadEOF, ReadTimeout, historyVars
  <2>2. QED
    BY <2>1, <1>7, <1>8
<1>10. ASSUME NEW c \in Client, Stop(c)
      PROVE  CountTypeOK'
  <2>1. CASE HaltWrite(c)
    BY <2>1 DEF HaltWrite, Send, policyVars
  <2>2. CASE Close(c) \/ HaltNotRunning(c) \/ HaltAlive(c) \/ HaltEnds(c) \/ HaltTimeout(c)
    <3>1. Later /\ (DropLateEngine \/ UNCHANGED <<policyVars, disturbed>>)
      BY <2>2 DEF Close, HaltNotRunning, HaltAlive, HaltEnds, HaltTimeout, historyVars
    <3>2. QED
      BY <3>1, <1>7, <1>8
  <2>3. QED
    BY <1>10, <2>1, <2>2 DEF Stop
<1>11. CASE Engine
  BY <1>11 DEF Engine, ServeLoad, ServeQuery, ServeAssert, ServeRetract, ServeOther,
              ServeHalt, Undisturbed, policyVars, historyVars
<1>12. CASE Crash
  BY <1>12 DEF Crash, policyVars
<1>13. CASE UNCHANGED vars
  BY <1>13 DEF vars, policyVars, historyVars
<1>14. QED
  BY <1>1, <1>2, <1>4, <1>5, <1>6, <1>9, <1>10, <1>11, <1>12, <1>13
     DEF Next, Thread, Exchange

LEMMA CorePreserved ==
  ASSUME NEW w \in BOOLEAN, w => CleanWorld, Core(w), CountTypeOK, [Next]_vars
  PROVE  Core(w)'
<1>1. ASSUME NEW c \in Client, NEW o \in Calls, Invoke(c, o)
      PROVE  Core(w)'
  BY <1>1, InvokePreserves
<1>2. ASSUME NEW c \in Client, Enter(c)
      PROVE  Core(w)'
  BY <1>2, EnterPreserves
<1>3. ASSUME NEW c \in Client, Exchange(c)
      PROVE  Core(w)'
  <2>1. CASE RewriteFails(c)
    <3>1. pc[c] = "rewrite" /\ Return(c, "OSError", NoAnswer) /\ UNCHANGED processVars
      BY <2>1 DEF RewriteFails
    <3>2. Quiet /\ proc \in {"none", "running", "dead"}
      BY <3>1, QuietBetweenExchanges DEF Core, ControlTypeOK, Awaiting
    <3>3. EngineFine(w)' /\ ProcInv' /\ Quiet' /\ proc' \in {"none", "running", "dead"}
      BY <3>1, <3>2, EngineKept DEF Core, processVars, ProcInv, engineVars, Quiet
    <3>4. QED
      BY <3>1, <3>3, HolderReturns
  <2>2. QED
    BY <1>3, <2>1, PreparePreserves, RelaunchPreserves, WritePreserves,
       ReadPreserves DEF Exchange
<1>4. ASSUME NEW c \in Client, Stop(c)
      PROVE  Core(w)'
  BY <1>4, WritePreserves, StopPreserves DEF Stop
<1>5. CASE Engine
  BY <1>5, ServeLoadPreserves, ServeQueryPreserves, ServeClausePreserves,
     ServeOtherPreserves, ServeHaltPreserves DEF Engine
<1>6. CASE Crash
  BY <1>6, CrashPreserves
<1>7. CASE UNCHANGED vars
  <2>1. UNCHANGED <<engineVars, proc, stdin, stdout, lock, pc, call, cmd, result, served>>
    BY <1>7 DEF vars, processVars, clientVars, historyVars
  <2>2. EngineFine(w)' /\ ControlTypeOK' /\ LockInv' /\ CallInv' /\ ProcInv'
    BY <2>1, EngineKept DEF Core, ControlTypeOK, LockInv, CallInv, Stopping, ProcInv, engineVars
  <2>3. PipeInv' /\ (w => QueryInv' /\ AnswersOverOwnKB')
    BY <2>1 DEF Core, PipeInv, Awaiting, Written, QueryInv, LoadedOrBare,
                AnswersOverOwnKB, ContentsOf, engineVars
  <2>4. QED
    BY <2>2, <2>3 DEF Core
<1>8. QED
  BY <1>1, <1>2, <1>3, <1>4, <1>5, <1>6, <1>7 DEF Next, Thread

LEMMA InitEstablishes ==
  ASSUME NEW w \in BOOLEAN, Init
  PROVE  Core(w) /\ CountTypeOK
<1>1. EngineFine(w) /\ ProcInv
  BY FreshIsFine DEF Init, FreshEngine, EngineInv, EngineFine, ProcInv
<1>2. ControlTypeOK
  BY DEF Init, ControlTypeOK, Simple, CallType, Commands, Idle
<1>3. LockInv
  BY ServerAssumption DEF Init, LockInv
<1>4. CallInv
  BY DEF Init, CallInv, Simple, WellFormedCall, FirstCommand, Stopping
<1>5. PipeInv /\ QueryInv /\ AnswersOverOwnKB
  BY DEF Init, PipeInv, QueryInv, AnswersOverOwnKB, Awaiting, Simple
<1>6. CountTypeOK
  BY DEF Init, CountTypeOK
<1>7. QED
  BY <1>1, <1>2, <1>3, <1>4, <1>5, <1>6 DEF Core

\* The types and the protocol, for any threads, KBs, restart policy and
\* bounds: who holds the lock, which exchange a call is in, and what the pipes
\* of the process hold.
THEOREM ServerProtocol ==
  Spec => [](TypeOK /\ LockInv /\ CallInv /\ PipeInv /\ ProcInv)
<1>1. Core(FALSE) /\ CountTypeOK => TypeOK /\ LockInv /\ CallInv /\ PipeInv /\ ProcInv
  BY DEF Core, EngineFine, TypeOK
<1>2. Init => Core(FALSE) /\ CountTypeOK
  BY InitEstablishes
<1>3. Core(FALSE) /\ CountTypeOK /\ [Next]_vars => Core(FALSE)' /\ CountTypeOK'
  BY CorePreserved, CountsPreserved
<1>4. QED
  BY <1>1, <1>2, <1>3, PTL DEF Spec

\* The server's invariant, when every statement is accepted by Prolog and has a
\* readable signature.
THEOREM ServerInvariant ==
  ASSUME CleanWorld
  PROVE  Spec => []ServerInv
<1>1. Core(TRUE) /\ CountTypeOK => ServerInv
  BY DEF Core, ServerInv, EngineFine, TypeOK
<1>2. Init => Core(TRUE) /\ CountTypeOK
  BY InitEstablishes
<1>3. Core(TRUE) /\ CountTypeOK /\ [Next]_vars => Core(TRUE)' /\ CountTypeOK'
  BY CorePreserved, CountsPreserved
<1>4. QED
  BY <1>1, <1>2, <1>3, PTL DEF Spec

\* A load_and_query that returns solutions computed them over exactly the
\* statements it was given, whatever other threads, crashes and restarts do.
THEOREM AnswersAreOverOwnKB ==
  ASSUME CleanWorld
  PROVE  Spec => []AnswersOverOwnKB
<1>1. ServerInv => AnswersOverOwnKB
  BY DEF ServerInv
<1>2. QED
  BY <1>1, ServerInvariant, PTL

\* No thread reads a reply to a request it did not write last: neither a
\* late reply nor another thread's.
THEOREM RepliesMatchRequests == Spec => []ReplyAnswersRequest
<1>1. TypeOK /\ LockInv /\ PipeInv => ReplyAnswersRequest
  BY ReplyIsAlone DEF TypeOK, ReplyAnswersRequest, Awaiting
<1>2. QED
  BY <1>1, ServerProtocol, PTL

----------------------------------------------------------------------------
(* The restart policy: when all the work is load and load_and_query,       *)
(* restarts come where the policy puts them, and the restart metrics       *)
(* explain the launches.  Core says who is in an exchange; the invariant   *)
(* of the policy adds what the counters are at each step of it.            *)

OnlyLoads == \A o \in Calls : o.op \in {"execute", "load"}

\* A crash lets the relaunch of a retried write forget one request.
Slack == IF crashes = 0 THEN 0 ELSE 1

\* Where a thread can be, short of halt and close; a request under way has
\* a process to go to.
Path(c) ==
  /\ pc[c] \in {"idle", "lock", "prepare", "write", "rewrite", "read"}
  /\ pc[c] # "idle" => call[c].op \in {"execute", "load"}
  /\ pc[c] \in {"write", "rewrite", "read"} => proc # "none"

\* A query keeps the room its load has left it.
Room(c) ==
  /\ pc[c] = "prepare" /\ cmd[c] = "query" => requests <= RestartEvery
  /\ pc[c] \in {"write", "rewrite", "read"} /\ cmd[c] = "load" => requests <= RestartEvery
  /\ pc[c] \in {"write", "rewrite"} /\ proc = "running" => served + 1 <= requests + Slack

\* Without a crash a query follows its load on the same process.
Loaded(c) ==
  crashes = 0 /\ pc[c] \in {"prepare", "write", "rewrite", "read"} =>
    /\ cmd[c] = "query" => proc = "running" /\ proveKnown
    /\ pc[c] = "read" /\ stdout # <<>> /\ Head(stdout).status = "ok" =>
         proc = "running" /\ proveKnown

OnPolicy(c) == Path(c) /\ (RestartEvery > 0 => Room(c)) /\ Loaded(c)

ServedInv ==
  RestartEvery > 0 =>
    /\ requests <= RestartEvery + 1 /\ served <= RestartEvery + 1 + Slack
    /\ proc = "running" => served <= requests + Slack

Restarted == restarts["periodic"] + restarts["timeout"] + restarts["broken_pipe"]

\* A launch nobody counts as a restart is paid for: the first, or one after a
\* crash or a failed launch.
Unpaid == IF proc = "dead" \/ (proc = "none" /\ pending = "none") THEN 1 ELSE 0

LaunchInv ==
  /\ launches + Unpaid <= 1 + Restarted + crashes + launchFailures
  /\ proc = "dead" => crashes > 0

PolicyInv == ServedInv /\ LaunchInv /\ \A c \in Client : OnPolicy(c)

LEMMA CountRestart ==
  ASSUME CountTypeOK, NEW reason \in Reasons \cup {"none"}, Count(reason)
  PROVE  /\ Restarted \in Nat /\ Restarted' \in Nat
         /\ Restarted' = Restarted + (IF reason = "none" THEN 0 ELSE 1)
BY DEF CountTypeOK, Count, Reasons, Restarted

\* The threads that do not hold the lock are where the policy asks nothing.
LEMMA OthersFine ==
  ASSUME NEW w \in BOOLEAN, Core(w), PolicyInv, NEW c \in Client, pc[c] \notin {"idle", "lock"},
         \A d \in Client \ {c} : pc'[d] = pc[d] /\ call'[d] = call[d],
         OnPolicy(c)'
  PROVE  \A d \in Client : OnPolicy(d)'
<1>1. \A d \in Client \ {c} : pc[d] \in {"idle", "lock"}
  BY HolderIsAlone DEF Core
<1>2. QED
  BY <1>1 DEF PolicyInv, OnPolicy, Path, Room, Loaded

\* A call that ends is past all of it.
LEMMA ReturnedFine ==
  ASSUME NEW w \in BOOLEAN, Core(w), PolicyInv, NEW c \in Client, pc[c] \notin {"idle", "lock"},
         NEW status, NEW answer, Return(c, status, answer)
  PROVE  \A d \in Client : OnPolicy(d)'
<1>1. /\ pc' = [pc EXCEPT ![c] = "idle"] /\ UNCHANGED call
      /\ pc \in [Client -> {"idle", "lock", "prepare", "write", "rewrite", "read",
                            "close", "halt", "halt_write", "halt_read"}]
  BY DEF Return, GoTo, Core, ControlTypeOK
<1>2. OnPolicy(c)'
  BY <1>1 DEF OnPolicy, Path, Room, Loaded
<1>3. QED
  BY <1>1, <1>2, OthersFine

\* The command of a thread under way.
LEMMA CommandOf ==
  ASSUME NEW w \in BOOLEAN, Core(w), PolicyInv, NEW c \in Client, pc[c] # "idle"
  PROVE  /\ cmd[c] = "load" \/ (cmd[c] = "query" /\ call[c].op = "execute")
         /\ cmd[c] = "query" => call[c].op = "execute"
BY DEF Core, CallInv, PolicyInv, OnPolicy, Path, FirstCommand

----------------------------------------------------------------------------
(* The steps.                                                              *)

LEMMA CallsKeepPolicy ==
  ASSUME OnlyLoads, NEW w \in BOOLEAN, Core(w), CountTypeOK, PolicyInv, NEW c \in Client,
         (\E o \in Calls : Invoke(c, o)) \/ Enter(c)
  PROVE  PolicyInv'
<1>1. /\ UNCHANGED <<processVars, policyVars, served, launches, crashes, launchFailures>>
  BY DEF Invoke, Enter
<1>2. ServedInv' /\ LaunchInv'
  BY <1>1 DEF PolicyInv, ServedInv, LaunchInv, Slack, Restarted, Unpaid, processVars, policyVars
<1>3. CASE \E o \in Calls : Invoke(c, o)
  <2>1. PICK o \in Calls : Invoke(c, o)
    BY <1>3
  <2>2. /\ pc' = [pc EXCEPT ![c] = "lock"] /\ call' = [call EXCEPT ![c] = o]
        /\ o.op \in {"execute", "load"} /\ pc[c] = "idle"
        /\ \A d \in Client \ {c} : cmd'[d] = cmd[d]
    BY <2>1 DEF Invoke, GoTo, OnlyLoads, Core, ControlTypeOK
  <2>3. OnPolicy(c)'
    BY <2>2 DEF Core, ControlTypeOK, OnPolicy, Path, Room, Loaded
  <2>4. ASSUME NEW d \in Client \ {c} PROVE OnPolicy(d)'
    <3>1. pc'[d] = pc[d] /\ call'[d] = call[d] /\ cmd'[d] = cmd[d] /\ OnPolicy(d)
      BY <2>2 DEF Core, ControlTypeOK, PolicyInv
    <3>2. QED
      BY <1>1, <3>1 DEF OnPolicy, Path, Room, Loaded, Slack, processVars, engineVars, policyVars
  <2>5. QED
    BY <1>2, <2>3, <2>4 DEF PolicyInv
<1>4. CASE Enter(c)
  <2>1. /\ pc[c] = "lock" /\ lock = NoClient /\ UNCHANGED <<call, cmd>>
        /\ call[c].op \in {"execute", "load"} /\ pc' = [pc EXCEPT ![c] = "prepare"]
    BY <1>4 DEF Enter, GoTo, PolicyInv, OnPolicy, Path
  <2>2. cmd[c] = "load"
    BY <2>1 DEF Core, CallInv, FirstCommand
  <2>3. OnPolicy(c)'
    BY <2>1, <2>2 DEF Core, ControlTypeOK, OnPolicy, Path, Room, Loaded
  <2>4. ASSUME NEW d \in Client \ {c} PROVE OnPolicy(d)'
    <3>1. pc'[d] = pc[d] /\ OnPolicy(d)
      BY <2>1 DEF Core, ControlTypeOK, PolicyInv
    <3>2. QED
      BY <1>1, <2>1, <3>1
         DEF OnPolicy, Path, Room, Loaded, Slack, processVars, engineVars, policyVars
  <2>5. QED
    BY <1>2, <2>3, <2>4 DEF PolicyInv
<1>5. QED
  BY <1>3, <1>4

LEMMA PrepareKeepsPolicy ==
  ASSUME NEW w \in BOOLEAN, Core(w), CountTypeOK, PolicyInv, NEW c \in Client, Prepare(c)
  PROVE  PolicyInv'
<1>1. /\ pc[c] = "prepare" /\ proc = "running" /\ ~RestartDue(c)
      /\ requests' = requests + 1 /\ pc' = [pc EXCEPT ![c] = "write"]
      /\ UNCHANGED <<processVars, pending, restarts, timeouts, lock, call, cmd,
                     result, historyVars>>
  BY DEF Prepare, GoTo
<1>2. requests \in Nat /\ served \in Nat /\ RestartEvery \in Nat
  BY ServerAssumption DEF CountTypeOK
<1>3. RestartEvery > 0 => /\ cmd[c] = "load" => requests < RestartEvery
                          /\ cmd[c] = "query" => requests <= RestartEvery
  BY <1>1, <1>2 DEF RestartDue, PolicyInv, OnPolicy, Room
<1>4. cmd[c] \in {"load", "query"}
  BY <1>1, CommandOf
<1>5. ServedInv'
  BY <1>1, <1>2, <1>3, <1>4
     DEF PolicyInv, ServedInv, Slack, processVars, historyVars
<1>6. LaunchInv'
  BY <1>1 DEF PolicyInv, LaunchInv, Restarted, Unpaid, processVars, historyVars
<1>7. OnPolicy(c)'
  <2>1. pc'[c] = "write"
    BY <1>1 DEF Core, ControlTypeOK
  <2>2. Path(c)'
    BY <1>1, <2>1 DEF PolicyInv, OnPolicy, Path, processVars
  <2>3. RestartEvery > 0 => Room(c)'
    BY <1>1, <1>2, <1>3, <1>4, <2>1
       DEF Room, PolicyInv, ServedInv, Slack, processVars, historyVars
  <2>4. Loaded(c)'
    BY <1>1, <2>1 DEF Loaded, PolicyInv, OnPolicy, processVars, engineVars, historyVars
  <2>5. QED
    BY <2>2, <2>3, <2>4 DEF OnPolicy
<1>8. \A d \in Client \ {c} : pc'[d] = pc[d] /\ call'[d] = call[d]
  BY <1>1 DEF Core, ControlTypeOK
<1>9. QED
  BY <1>1, <1>5, <1>6, <1>7, <1>8, OthersFine DEF PolicyInv

\* A launch: counted as a restart, or paid for.  The query of a call that
\* launches follows a crash.
LEMMA LaunchKeepsPolicy ==
  ASSUME NEW w \in BOOLEAN, Core(w), CountTypeOK, PolicyInv, NEW c \in Client,
         pc[c] \in {"prepare", "write"}, proc # "running" \/ cmd[c] = "load",
         NEW reason \in Reasons \cup {"none"}, reason = "none" => Unpaid = 1,
         Launch(reason), requests' \in {0, 1},
         pc[c] = "write" => proc = "dead",
         \/ pc' = [pc EXCEPT ![c] = "write"] /\ requests' = 1
         \/ pc' = [pc EXCEPT ![c] = "rewrite"] /\ crashes > 0,
         UNCHANGED <<lock, call, cmd, result, calls, crashes>>
  PROVE  PolicyInv'
<1>1. /\ requests \in Nat /\ served \in Nat /\ RestartEvery \in Nat /\ crashes \in Nat
      /\ launches \in Nat /\ launchFailures \in Nat
  BY ServerAssumption DEF CountTypeOK
<1>2. /\ Discard /\ Count(reason) /\ proc' = "running" /\ pending' = "none"
      /\ served' = 0 /\ launches' = launches + 1 /\ UNCHANGED launchFailures
  BY DEF Launch
<1>3. ServedInv'
  <2>1. Slack' \in Nat /\ served' = 0
    BY <1>2 DEF Slack
  <2>2. requests' \in Nat /\ requests' <= 1
    OBVIOUS
  <2>3. requests' <= RestartEvery + 1
    BY <1>1, <2>2
  <2>4. ASSUME NEW a \in Nat, NEW b \in Nat PROVE 0 <= a + b /\ 0 <= a + 1 + b
    BY <2>4
  <2>5. served' <= RestartEvery + 1 + Slack' /\ served' <= requests' + Slack'
    <3>1. RestartEvery \in Nat /\ requests' \in Nat /\ Slack' \in Nat
      BY <1>1, <2>1, <2>2
    <3>2. 0 <= RestartEvery + 1 + Slack' /\ 0 <= requests' + Slack'
      BY <2>4, <3>1
    <3>3. QED
      BY <2>1, <3>2
  <2>6. QED
    BY <2>3, <2>5 DEF ServedInv
<1>4. LaunchInv'
  <2>1. Unpaid' = 0
    BY <1>2 DEF Unpaid
  <2>2. Unpaid \in {0, 1}
    BY DEF Unpaid
  <2>3. /\ Restarted \in Nat /\ Restarted' \in Nat
        /\ Restarted' = Restarted + (IF reason = "none" THEN 0 ELSE 1)
    BY <1>2, CountRestart
  <2>4. launches + Unpaid <= 1 + Restarted + crashes + launchFailures
    BY DEF PolicyInv, LaunchInv
  <2>5. launches' + Unpaid' <= 1 + Restarted' + crashes' + launchFailures'
    BY <1>1, <1>2, <2>1, <2>2, <2>3, <2>4
  <2>6. QED
    BY <1>2, <2>5 DEF LaunchInv
<1>5. OnPolicy(c)'
  <2>1. pc'[c] \in {"write", "rewrite"} /\ (pc'[c] = "rewrite" => crashes > 0)
        /\ (pc'[c] = "write" => requests' = 1)
    BY DEF Core, ControlTypeOK
  <2>2. Path(c)'
    BY <1>2, <2>1 DEF PolicyInv, OnPolicy, Path
  <2>3. RestartEvery > 0 => Room(c)'
    BY <1>1, <1>2, <2>1 DEF Room, Slack
  <2>4. cmd[c] = "query" => crashes > 0
    BY <1>1 DEF PolicyInv, OnPolicy, Loaded, LaunchInv
  <2>5. Loaded(c)'
    BY <1>1, <2>1, <2>4 DEF Loaded
  <2>6. QED
    BY <2>2, <2>3, <2>5 DEF OnPolicy
<1>6. \A d \in Client \ {c} : pc'[d] = pc[d] /\ call'[d] = call[d]
  BY DEF Core, ControlTypeOK
<1>7. QED
  BY <1>3, <1>4, <1>5, <1>6, OthersFine DEF PolicyInv

\* A launch that fails pays for the next one.
LEMMA FailedLaunchKeepsPolicy ==
  ASSUME NEW w \in BOOLEAN, Core(w), CountTypeOK, PolicyInv, NEW c \in Client,
         pc[c] \in {"prepare", "write"},
         NEW reason \in Reasons \cup {"none"}, NEW left \in {"none", proc},
         left # "running",
         LaunchRaises(reason, left), Return(c, "OSError", NoAnswer),
         UNCHANGED <<calls, crashes>>
  PROVE  PolicyInv'
<1>1. /\ requests \in Nat /\ served \in Nat /\ RestartEvery \in Nat /\ crashes \in Nat
      /\ launches \in Nat /\ launchFailures \in Nat
  BY ServerAssumption DEF CountTypeOK
<1>2. /\ Count(reason) /\ proc' = left /\ pending' = "none" /\ requests' = 0
      /\ launchFailures' = launchFailures + 1 /\ UNCHANGED <<served, launches>>
  BY DEF LaunchRaises
<1>3. ServedInv'
  BY <1>1, <1>2 DEF PolicyInv, ServedInv, Slack
<1>4. LaunchInv'
  <2>1. Unpaid' = 1 \/ Unpaid' = 0
    BY DEF Unpaid
  <2>2. Unpaid \in {0, 1}
    BY DEF Unpaid
  <2>3. /\ Restarted \in Nat /\ Restarted' \in Nat
        /\ Restarted' = Restarted + (IF reason = "none" THEN 0 ELSE 1)
    BY <1>2, CountRestart
  <2>4. launches + Unpaid <= 1 + Restarted + crashes + launchFailures
        /\ (proc = "dead" => crashes > 0)
    BY DEF PolicyInv, LaunchInv
  <2>5. launches' + Unpaid' <= 1 + Restarted' + crashes' + launchFailures'
    BY <1>1, <1>2, <2>1, <2>2, <2>3, <2>4
  <2>6. QED
    BY <1>2, <2>4, <2>5 DEF LaunchInv
<1>5. QED
  BY <1>3, <1>4, ReturnedFine DEF PolicyInv

LEMMA RelaunchKeepsPolicy ==
  ASSUME NEW w \in BOOLEAN, Core(w), CountTypeOK, PolicyInv, NEW c \in Client, Relaunch(c) \/ WriteFails(c)
  PROVE  PolicyInv'
<1>1. CASE Relaunch(c)
  <2> DEFINE reason == IF RestartDue(c) THEN "periodic" ELSE pending
             left   == IF RestartDue(c) THEN "none" ELSE proc
  <2>1. /\ pc[c] = "prepare" /\ (proc # "running" \/ RestartDue(c))
        /\ UNCHANGED <<timeouts, calls, crashes>>
        /\ \/ /\ Launch(reason) /\ requests' = 1 /\ pc' = [pc EXCEPT ![c] = "write"]
              /\ UNCHANGED <<lock, call, cmd, result>>
           \/ LaunchRaises(reason, left) /\ Return(c, "OSError", NoAnswer)
    BY <1>1 DEF Relaunch, GoTo
  <2>2. /\ reason \in Reasons \cup {"none"} /\ left \in {"none", proc} /\ left # "running"
        /\ proc # "running" \/ cmd[c] = "load"
    BY <2>1 DEF CountTypeOK, Reasons, RestartDue
  <2>3. reason = "none" => Unpaid = 1
    BY <2>1 DEF Unpaid, Core, ControlTypeOK
  <2>4. QED
    <3> HIDE DEF reason, left
    <3> QED BY <2>1, <2>2, <2>3, LaunchKeepsPolicy, FailedLaunchKeepsPolicy
<1>2. CASE WriteFails(c)
  <2>1. /\ pc[c] = "write" /\ proc # "running" /\ UNCHANGED <<timeouts, calls, crashes>>
        /\ \/ /\ Launch("broken_pipe") /\ requests' = 0 /\ pc' = [pc EXCEPT ![c] = "rewrite"]
              /\ UNCHANGED <<lock, call, cmd, result>>
           \/ LaunchRaises("broken_pipe", "none") /\ Return(c, "OSError", NoAnswer)
    BY <1>2 DEF WriteFails, GoTo
  <2>2. proc = "dead" /\ crashes > 0
    BY <2>1 DEF PolicyInv, OnPolicy, Path, LaunchInv, Core, ControlTypeOK
  <2>3. "broken_pipe" \in Reasons
    BY DEF Reasons
  <2>4. QED
    BY <2>1, <2>2, <2>3, LaunchKeepsPolicy, FailedLaunchKeepsPolicy
<1>3. QED
  BY <1>1, <1>2

LEMMA WriteKeepsPolicy ==
  ASSUME NEW w \in BOOLEAN, Core(w), CountTypeOK, PolicyInv, NEW c \in Client, Write(c) \/ Rewrite(c)
  PROVE  PolicyInv'
<1>1. /\ pc[c] \in {"write", "rewrite"} /\ proc = "running"
      /\ served' = served + 1 /\ pc' = [pc EXCEPT ![c] = "read"]
      /\ UNCHANGED <<engineVars, proc, stdout, policyVars, lock, call, cmd, result,
                     launches, calls, crashes, launchFailures>>
  BY DEF Write, Rewrite, Send, GoTo
<1>2. UNCHANGED <<requests, pending, restarts, proveKnown>>
  BY <1>1 DEF policyVars, engineVars
<1>3. /\ requests \in Nat /\ served \in Nat /\ RestartEvery \in Nat /\ crashes \in Nat
  BY ServerAssumption DEF CountTypeOK
<1>4. RestartEvery > 0 => served + 1 <= requests + Slack /\ requests <= RestartEvery + 1
  BY <1>1 DEF PolicyInv, OnPolicy, Room, ServedInv
<1>5. ServedInv'
  <2>1. Slack \in Nat /\ Slack' = Slack
    BY <1>1 DEF Slack
  <2>2. QED
    BY <1>1, <1>2, <1>3, <1>4, <2>1 DEF ServedInv
<1>6. LaunchInv'
  BY <1>1, <1>2 DEF PolicyInv, LaunchInv, Restarted, Unpaid
<1>7. OnPolicy(c)'
  <2>1. pc'[c] = "read" /\ stdout' = <<>>
    <3>1. Quiet
      BY <1>1, QuietBetweenExchanges DEF Core, Awaiting
    <3>2. QED
      BY <1>1, <3>1 DEF Core, ControlTypeOK, Quiet
  <2>2. Path(c)'
    BY <1>1, <2>1 DEF PolicyInv, OnPolicy, Path
  <2>3. RestartEvery > 0 => Room(c)'
    BY <1>1, <1>2, <2>1 DEF PolicyInv, OnPolicy, Room
  <2>4. Loaded(c)'
    BY <1>1, <1>2, <2>1 DEF PolicyInv, OnPolicy, Loaded
  <2>5. QED
    BY <2>2, <2>3, <2>4 DEF OnPolicy
<1>8. \A d \in Client \ {c} : pc'[d] = pc[d] /\ call'[d] = call[d]
  BY <1>1 DEF Core, ControlTypeOK
<1>9. QED
  BY <1>1, <1>5, <1>6, <1>7, <1>8, OthersFine DEF PolicyInv

\* Every end of an exchange that does not go on to a query.
LEMMA EndKeepsPolicy ==
  ASSUME NEW w \in BOOLEAN, Core(w), CountTypeOK, PolicyInv, NEW c \in Client, pc[c] \notin {"idle", "lock"},
         NEW status, NEW answer, Return(c, status, answer),
         UNCHANGED <<served, launches, calls, crashes, launchFailures>>,
         \/ UNCHANGED <<policyVars, proc>>
         \/ DropLateEngine
  PROVE  PolicyInv'
<1>1. UNCHANGED <<requests, restarts>>
  BY DEF policyVars, DropLateEngine
<1>2. ServedInv'
  BY <1>1 DEF PolicyInv, ServedInv, Slack, DropLateEngine, Terminate
<1>3. CASE UNCHANGED <<policyVars, proc>>
  BY <1>2, <1>3, ReturnedFine DEF PolicyInv, LaunchInv, Restarted, Unpaid, policyVars
<1>4. CASE DropLateEngine
  <2>1. proc' = "none" /\ pending' = "timeout"
    BY <1>4 DEF DropLateEngine, Terminate
  <2>2. Unpaid' = 0 /\ Unpaid \in {0, 1} /\ UNCHANGED Restarted
    BY <1>1, <2>1 DEF Unpaid, Restarted
  <2>3. launches \in Nat /\ launches + Unpaid <= 1 + Restarted + crashes + launchFailures
    BY DEF PolicyInv, LaunchInv, CountTypeOK
  <2>4. Restarted \in Nat
    BY DEF CountTypeOK, Reasons, Restarted
  <2>5. LaunchInv'
    BY <2>1, <2>2, <2>3, <2>4 DEF LaunchInv, CountTypeOK
  <2>6. QED
    BY <1>2, <2>5, ReturnedFine DEF PolicyInv
<1>5. QED
  BY <1>3, <1>4

LEMMA ReadKeepsPolicy ==
  ASSUME NEW w \in BOOLEAN, Core(w), CountTypeOK, PolicyInv, NEW c \in Client,
         ReadReply(c) \/ ReadEOF(c) \/ ReadTimeout(c) \/ RewriteFails(c)
  PROVE  PolicyInv'
<1>1. CASE ReadEOF(c) \/ RewriteFails(c)
  <2>1. /\ pc[c] \notin {"idle", "lock"} /\ UNCHANGED <<policyVars, processVars, historyVars>>
        /\ \E status : Return(c, status, NoAnswer)
    BY <1>1 DEF ReadEOF, RewriteFails, Raise
  <2>2. QED
    BY <2>1, EndKeepsPolicy DEF processVars, historyVars
<1>2. CASE ReadTimeout(c)
  BY <1>2, EndKeepsPolicy DEF ReadTimeout, Raise
<1>3. CASE ReadReply(c)
  <2> DEFINE r == Head(stdout)
  <2>1. /\ pc[c] = "read" /\ stdout # <<>>
        /\ UNCHANGED <<served, launches, calls, crashes, launchFailures>>
    BY <1>3 DEF ReadReply
  <2>2. CASE Raise(c) /\ (DropLateEngine \/ UNCHANGED <<policyVars, proc>>)
    BY <2>1, <2>2, EndKeepsPolicy DEF Raise
  <2>3. CASE /\ r.status = "ok" /\ Proceed(c, r.answer) /\ stdout' = Tail(stdout)
             /\ UNCHANGED <<engineVars, proc, stdin, policyVars, disturbed>>
    <3>1. CASE ~(call[c].op = "execute" /\ cmd[c] = "load")
      BY <2>1, <2>3, <3>1, EndKeepsPolicy DEF Proceed
    <3>2. CASE call[c].op = "execute" /\ cmd[c] = "load"
      <4>1. /\ cmd' = [cmd EXCEPT ![c] = "query"] /\ pc' = [pc EXCEPT ![c] = "prepare"]
            /\ UNCHANGED <<lock, call, result>>
        BY <2>3, <3>2 DEF Proceed, GoTo
      <4>2. UNCHANGED <<requests, pending, restarts, proveKnown>>
        BY <2>3 DEF policyVars, engineVars
      <4>3. ServedInv' /\ LaunchInv'
        BY <2>1, <2>3, <4>2 DEF PolicyInv, ServedInv, LaunchInv, Slack, Restarted, Unpaid
      <4>4. pc'[c] = "prepare" /\ cmd'[c] = "query"
        BY <4>1 DEF Core, ControlTypeOK
      <4>5. Path(c)'
        BY <3>2, <4>1, <4>4 DEF Path
      <4>6. RestartEvery > 0 => Room(c)'
        BY <2>1, <3>2, <4>2, <4>4 DEF PolicyInv, OnPolicy, Room
      <4>7. Loaded(c)'
        BY <2>1, <2>3, <4>2, <4>4 DEF PolicyInv, OnPolicy, Loaded
      <4>8. \A d \in Client \ {c} : pc'[d] = pc[d] /\ call'[d] = call[d]
        BY <4>1 DEF Core, ControlTypeOK
      <4>9. OnPolicy(c)'
        BY <4>5, <4>6, <4>7 DEF OnPolicy
      <4>10. QED
        BY <2>1, <4>3, <4>8, <4>9, OthersFine DEF PolicyInv
    <3>3. QED
      BY <3>1, <3>2
  <2>4. QED
    BY <1>3, <2>2, <2>3 DEF ReadReply
<1>4. QED
  BY <1>1, <1>2, <1>3

\* A recorded fingerprint is that of a load, and a load brings the interpreter.
HashMeansKnown == kbHash # NoHash => proveKnown

LEMMA KnownPreserved ==
  ASSUME HashMeansKnown, [Next]_vars
  PROVE  HashMeansKnown'
<1>1. ASSUME NEW c \in Client, Thread(c)
      PROVE  UNCHANGED engineVars \/ ResetEngine
  <2>1. CASE Exchange(c)
    BY <2>1 DEF Exchange, Prepare, Relaunch, Write, WriteFails, Rewrite, RewriteFails,
                ReadReply, ReadEOF, ReadTimeout, Launch, LaunchRaises, Terminate,
                Discard, Die, Send, DropLateEngine, processVars
  <2>2. CASE Stop(c)
    <3>1. CASE Close(c) \/ HaltNotRunning(c)
      BY <3>1 DEF Close, HaltNotRunning, Terminate, Discard, processVars
    <3>2. CASE HaltAlive(c) \/ HaltWrite(c)
      BY <3>2 DEF HaltAlive, HaltWrite, Terminate, Discard, Send, processVars
    <3>3. CASE HaltEnds(c) \/ HaltTimeout(c)
      BY <3>3 DEF HaltEnds, HaltTimeout, DropLateEngine, Terminate, Discard, processVars
    <3>4. QED
      BY <2>2, <3>1, <3>2, <3>3 DEF Stop
  <2>3. QED
    BY <1>1, <2>1, <2>2 DEF Thread, Enter, processVars
<1>2. CASE Engine
  <2>1. \/ \E k, hashed : HandleLoad(k, hashed)
        \/ \E s : HandleAssert(s) \/ HandleRetract(s)
        \/ UNCHANGED engineVars \/ ResetEngine
    BY <1>2 DEF Engine, ServeLoad, ServeQuery, ServeAssert, ServeRetract, ServeOther,
                ServeHalt, Die
  <2>2. QED
    BY <2>1 DEF HashMeansKnown, HandleLoad, Rebuild, HandleAssert, HandleRetract,
                RefuseAssert, ResetEngine, engineVars
<1>3. CASE Crash \/ UNCHANGED vars \/ \E c \in Client, o \in Calls : Invoke(c, o)
  BY <1>3 DEF Crash, Die, Invoke, vars, processVars, engineVars, HashMeansKnown, ResetEngine
<1>4. QED
  BY <1>1, <1>2, <1>3 DEF Next, HashMeansKnown, ResetEngine, engineVars

LEMMA EngineKeepsPolicy ==
  ASSUME NEW w \in BOOLEAN, w => CleanWorld, Core(w), CountTypeOK, PolicyInv,
         HashMeansKnown, Engine
  PROVE  PolicyInv'
<1>1. stdin # <<>>
  BY DEF Engine, ServeLoad, ServeQuery, ServeAssert, ServeRetract, ServeOther, ServeHalt,
         Serves
<1>2. PICK c \in Client : /\ Awaiting(c) /\ lock = c /\ stdout = <<>>
                          /\ Head(stdin) = Written(c)
  BY <1>1, HeadIsWritten DEF Core
<1>3. pc[c] = "read" /\ Head(stdin).cmd = cmd[c]
  BY <1>2 DEF Awaiting, Written, PolicyInv, OnPolicy, Path
<1>4. cmd[c] \in {"load", "query"}
  BY <1>3, CommandOf
<1>5. ServeLoad \/ ServeQuery
  BY <1>3, <1>4 DEF Engine, ServeAssert, ServeRetract, ServeOther, ServeHalt, Serves
<1>6. proc = "running" /\ UNCHANGED <<policyVars, clientVars, historyVars, proc>>
  BY <1>5 DEF ServeLoad, ServeQuery, Serves, Undisturbed
<1>7. UNCHANGED <<requests, pending, restarts, pc, call, cmd, served, launches, crashes,
                  launchFailures>>
  BY <1>6 DEF policyVars, clientVars, historyVars
<1>8. ServedInv' /\ LaunchInv'
  BY <1>6, <1>7 DEF PolicyInv, ServedInv, LaunchInv, Slack, Restarted, Unpaid
<1>9. crashes = 0 => proveKnown'
  <2>1. CASE ServeLoad
    <3>1. cmd[c] = "load" /\ WellFormedCall(call[c]) /\ call[c].op \in {"execute", "load"}
      BY <1>3, <2>1 DEF ServeLoad, Serves, Core, CallInv, PolicyInv, OnPolicy, Path
    <3>2. call[c].kb # NoHash
      BY <3>1, EngineAssumption DEF WellFormedCall
    <3>3. HandleLoad(call[c].kb, call[c].hashed)
      BY <1>2, <2>1 DEF ServeLoad, Written
    <3>4. QED
      BY <3>2, <3>3 DEF HandleLoad, SkipsLoad, Rebuild, HashMeansKnown, engineVars
  <2>2. CASE ServeQuery
    BY <1>3, <2>2 DEF ServeQuery, Serves, engineVars, PolicyInv, OnPolicy, Loaded
  <2>3. QED
    BY <1>5, <2>1, <2>2
<1>10. OnPolicy(c)'
  BY <1>3, <1>6, <1>7, <1>9 DEF PolicyInv, OnPolicy, Path, Room, Loaded, Slack
<1>11. QED
  BY <1>3, <1>7, <1>8, <1>10, OthersFine DEF PolicyInv

LEMMA CrashKeepsPolicy ==
  ASSUME NEW w \in BOOLEAN, Core(w), CountTypeOK, PolicyInv, Crash
  PROVE  PolicyInv'
<1>1. /\ proc = "running" /\ proc' = "dead" /\ crashes' = crashes + 1
      /\ UNCHANGED <<stdout, policyVars, clientVars, served, launches, launchFailures>>
  BY DEF Crash, Die
<1>2. UNCHANGED <<requests, pending, restarts, pc, call, cmd, served, launches, launchFailures>>
  BY <1>1 DEF policyVars, clientVars
<1>3. crashes \in Nat /\ crashes' > 0 /\ served \in Nat /\ RestartEvery \in Nat /\ launches \in Nat
  BY <1>1, ServerAssumption DEF CountTypeOK
<1>4. Slack' = 1 /\ Slack \in {0, 1} /\ Unpaid = 0 /\ Unpaid' = 1 /\ UNCHANGED Restarted
  BY <1>1, <1>2, <1>3 DEF Slack, Unpaid, Restarted
<1>5. ServedInv'
  BY <1>1, <1>2, <1>3, <1>4 DEF PolicyInv, ServedInv
<1>6. LaunchInv'
  <2>1. Restarted \in Nat /\ launchFailures \in Nat
    BY DEF CountTypeOK, Reasons, Restarted
  <2>2. QED
    BY <1>1, <1>2, <1>3, <1>4, <2>1 DEF PolicyInv, LaunchInv
<1>7. ASSUME NEW d \in Client PROVE OnPolicy(d)'
  BY <1>1, <1>2, <1>3 DEF PolicyInv, OnPolicy, Path, Room, Loaded
<1>8. QED
  BY <1>5, <1>6, <1>7 DEF PolicyInv

----------------------------------------------------------------------------
(* The theorems.                                                           *)

LEMMA PolicyInvariant ==
  ASSUME OnlyLoads
  PROVE  Spec => [](Core(FALSE) /\ CountTypeOK /\ PolicyInv)
<1> DEFINE Inv == Core(FALSE) /\ CountTypeOK /\ PolicyInv /\ HashMeansKnown
<1>1. Init => Inv
  <2> SUFFICES ASSUME Init PROVE PolicyInv
    BY InitEstablishes DEF Init, FreshEngine, HashMeansKnown
  <2>1. /\ proc = "none" /\ pending = "none" /\ requests = 0 /\ served = 0
        /\ launches = 0 /\ crashes = 0 /\ launchFailures = 0
        /\ restarts = [r \in Reasons |-> 0] /\ pc = [c \in Client |-> "idle"]
    BY DEF Init
  <2>2. Restarted = 0
    BY <2>1 DEF Restarted, Reasons
  <2>3. ServedInv /\ LaunchInv
    BY <2>1, <2>2, ServerAssumption DEF ServedInv, LaunchInv, Slack, Unpaid
  <2>4. \A c \in Client : OnPolicy(c)
    BY <2>1 DEF OnPolicy, Path, Room, Loaded
  <2>5. QED
    BY <2>3, <2>4 DEF PolicyInv
<1>2. Inv /\ [Next]_vars => Inv'
  <2> SUFFICES ASSUME Inv, [Next]_vars PROVE Inv'
    OBVIOUS
  <2>1. Core(FALSE)' /\ CountTypeOK' /\ HashMeansKnown'
    BY CorePreserved, CountsPreserved, KnownPreserved
  <2>2. ASSUME NEW c \in Client, (\E o \in Calls : Invoke(c, o)) \/ Enter(c)
        PROVE  PolicyInv'
    BY <2>2, CallsKeepPolicy
  <2>3. ASSUME NEW c \in Client, Exchange(c) PROVE PolicyInv'
    BY <2>3, PrepareKeepsPolicy, RelaunchKeepsPolicy, WriteKeepsPolicy, ReadKeepsPolicy
       DEF Exchange
  <2>4. ASSUME NEW c \in Client, Stop(c) PROVE FALSE
    BY <2>4 DEF Stop, Close, HaltNotRunning, HaltAlive, HaltWrite, HaltEnds, HaltTimeout,
                PolicyInv, OnPolicy, Path
  <2>5. ASSUME Engine PROVE PolicyInv'
    BY <2>5, EngineKeepsPolicy
  <2>6. ASSUME Crash PROVE PolicyInv'
    BY <2>6, CrashKeepsPolicy
  <2>7. ASSUME UNCHANGED vars PROVE PolicyInv'
    BY <2>7 DEF vars, processVars, engineVars, policyVars, clientVars, historyVars,
                PolicyInv, ServedInv, LaunchInv, OnPolicy, Path, Room, Loaded, Slack,
                Restarted, Unpaid
  <2>8. PolicyInv'
    BY <2>2, <2>3, <2>4, <2>5, <2>6, <2>7 DEF Next, Thread
  <2>9. QED
    BY <2>1, <2>8
<1>3. Inv => Core(FALSE) /\ CountTypeOK /\ PolicyInv
  OBVIOUS
<1>4. QED
  <2> HIDE DEF Inv
  <2> QED BY <1>1, <1>2, <1>3, PTL DEF Spec

\* The periodic restart of _request waits for a load: the query of a
\* load_and_query meets a workspace that was never loaded after a crash only.
THEOREM QueriesFollowTheirLoad ==
  ASSUME OnlyLoads
  PROVE  Spec => []BareQueryNeedsCrash
<1>1. Core(FALSE) /\ CountTypeOK /\ PolicyInv => BareQueryNeedsCrash
  BY DEF PolicyInv, OnPolicy, Loaded, BareQueryNeedsCrash, CountTypeOK
<1>2. QED
  BY <1>1, PolicyInvariant, PTL

\* restart_every bounds what one process serves: the query of the last load
\* comes on top, and one request whose write a crash made _request repeat.
THEOREM ProcessesAreReplaced ==
  ASSUME OnlyLoads
  PROVE  Spec => []ProcessServesBounded
<1>1. Core(FALSE) /\ CountTypeOK /\ PolicyInv => ProcessServesBounded
  <2> SUFFICES ASSUME CountTypeOK, PolicyInv, RestartEvery > 0
               PROVE  served <= RestartEvery + (IF crashes = 0 THEN 1 ELSE 2)
    BY DEF ProcessServesBounded
  <2>1. served \in Nat /\ RestartEvery \in Nat
    BY ServerAssumption DEF CountTypeOK
  <2>2. QED
    BY <2>1 DEF PolicyInv, ServedInv, Slack
<1>2. QED
  BY <1>1, PolicyInvariant, PTL

\* Every launch of _launch is the first one, one the restart counter counts, or
\* the repair of a crash or of a launch that failed.
THEOREM LaunchesAreExplained ==
  ASSUME OnlyLoads
  PROVE  Spec => []RestartsExplainLaunches
<1>1. Core(FALSE) /\ CountTypeOK /\ PolicyInv => RestartsExplainLaunches
  <2> SUFFICES ASSUME CountTypeOK, PolicyInv PROVE RestartsExplainLaunches
    OBVIOUS
  <2>1. /\ launches \in Nat /\ crashes \in Nat /\ launchFailures \in Nat
        /\ restarts["periodic"] \in Nat /\ restarts["timeout"] \in Nat
        /\ restarts["broken_pipe"] \in Nat
    BY DEF CountTypeOK, Reasons
  <2>2. QED
    BY <2>1 DEF PolicyInv, LaunchInv, Unpaid, Restarted, RestartsExplainLaunches
<1>2. QED
  BY <1>1, PolicyInvariant, PTL

----------------------------------------------------------------------------
(* Seen by the callers of execute, the server is a ReasoningService.       *)

\* A step of the server is a call, a return, or one callers do not see.
Hidden ==
  UNCHANGED <<call, result>> /\ \A c \in Client : (pc'[c] = "idle") <=> (pc[c] = "idle")

Called(c, o) ==
  /\ pc[c] = "idle" /\ pc' = [pc EXCEPT ![c] = "lock"]
  /\ call' = [call EXCEPT ![c] = o] /\ result' = [result EXCEPT ![c] = Idle]

Returned(c) ==
  /\ pc[c] # "idle" /\ pc' = [pc EXCEPT ![c] = "idle"] /\ call' = call
  /\ \E status \in {"ok", "RuntimeError", "OSError"}, answer \in Contents \cup {NoAnswer} :
       result' = [result EXCEPT ![c] = [status |-> status, answer |-> answer]]

LEMMA MovesAreHidden ==
  ASSUME ControlTypeOK, NEW c \in Client, pc[c] # "idle", NEW label, label # "idle",
         GoTo(c, label), UNCHANGED <<call, result>>
  PROVE  Hidden
BY DEF ControlTypeOK, GoTo, Hidden

LEMMA ReturnsAreReturned ==
  ASSUME NEW c \in Client, pc[c] # "idle",
         NEW status \in {"ok", "RuntimeError", "OSError"},
         NEW answer \in Contents \cup {NoAnswer}, Return(c, status, answer)
  PROVE  Returned(c)
<1>1. /\ pc' = [pc EXCEPT ![c] = "idle"] /\ call' = call
      /\ result' = [result EXCEPT ![c] = [status |-> status, answer |-> answer]]
  BY DEF Return, GoTo
<1>2. QED
  BY <1>1 DEF Returned

LEMMA ReadReplyShape ==
  ASSUME NEW w \in BOOLEAN, Core(w), NEW c \in Client, ReadReply(c)
  PROVE  Hidden \/ Returned(c)
<1>1. ControlTypeOK /\ pc[c] = "read" /\ stdout # <<>> /\ Head(stdout) \in Response
  BY ReplyIsAlone DEF Core, ReadReply, Awaiting
<1>2. Head(stdout).answer \in Contents \cup {NoAnswer}
  BY <1>1 DEF Response
<1>3. CASE Proceed(c, Head(stdout).answer)
  <2>1. CASE GoTo(c, "prepare") /\ UNCHANGED <<call, result>>
    BY <2>1, <1>1, MovesAreHidden
  <2>2. CASE Return(c, "ok", Head(stdout).answer)
    BY <2>2, <1>1, <1>2, ReturnsAreReturned
  <2>3. QED
    BY <1>3, <2>1, <2>2 DEF Proceed
<1>4. CASE Raise(c)
  BY <1>1, <1>4, ReturnsAreReturned DEF Raise
<1>5. QED
  BY <1>3, <1>4 DEF ReadReply

LEMMA ThreadShape ==
  ASSUME NEW w \in BOOLEAN, Core(w), NEW c \in Client, Thread(c)
  PROVE  Hidden \/ Returned(c)
<1>0. ControlTypeOK
  BY DEF Core
<1>1. CASE Enter(c)
  <2>1. PICK label \in {"close", "halt", "prepare"} : GoTo(c, label)
    BY <1>1 DEF Enter
  <2>2. pc[c] # "idle" /\ label # "idle" /\ UNCHANGED <<call, result>>
    BY <1>1 DEF Enter
  <2>3. QED
    BY <1>0, <2>1, <2>2, MovesAreHidden
<1>2. CASE Prepare(c)
  BY <1>0, <1>2, MovesAreHidden DEF Prepare
<1>3. CASE Relaunch(c) \/ WriteFails(c)
  <2>1. /\ pc[c] # "idle"
        /\ \/ GoTo(c, "write") /\ UNCHANGED <<call, result>>
           \/ GoTo(c, "rewrite") /\ UNCHANGED <<call, result>>
           \/ Return(c, "OSError", NoAnswer)
    BY <1>3 DEF Relaunch, WriteFails
  <2>2. QED
    BY <1>0, <2>1, MovesAreHidden, ReturnsAreReturned
<1>4. CASE Write(c) \/ Rewrite(c) \/ HaltWrite(c)
  <2>1. /\ pc[c] # "idle" /\ UNCHANGED <<call, result>>
        /\ GoTo(c, "read") \/ GoTo(c, "halt_read")
    BY <1>4 DEF Write, Rewrite, HaltWrite, Send
  <2>2. QED
    BY <1>0, <2>1, MovesAreHidden
<1>5. CASE RewriteFails(c) \/ ReadEOF(c) \/ ReadTimeout(c)
  BY <1>5, ReturnsAreReturned DEF RewriteFails, ReadEOF, ReadTimeout, Raise
<1>6. CASE HaltAlive(c)
  BY <1>0, <1>6, MovesAreHidden DEF HaltAlive
<1>7. CASE Close(c) \/ HaltNotRunning(c) \/ HaltEnds(c) \/ HaltTimeout(c)
  BY <1>7, ReturnsAreReturned DEF Close, HaltNotRunning, HaltEnds, HaltTimeout
<1>8. QED
  BY <1>1, <1>2, <1>3, <1>4, <1>5, <1>6, <1>7, ReadReplyShape DEF Thread, Exchange, Stop

LEMMA StepShape ==
  ASSUME NEW w \in BOOLEAN, Core(w), [Next]_vars
  PROVE  \/ Hidden
         \/ \E c \in Client, o \in Calls : Called(c, o)
         \/ \E c \in Client : Returned(c)
<1>1. ASSUME NEW c \in Client, NEW o \in Calls, Invoke(c, o) PROVE Called(c, o)
  BY <1>1 DEF Invoke, Called, GoTo
<1>2. CASE Engine \/ Crash
  <2>1. UNCHANGED <<pc, call, result>>
    BY <1>2 DEF Engine, ServeLoad, ServeQuery, ServeAssert, ServeRetract, ServeOther,
                ServeHalt, Undisturbed, Crash, clientVars
  <2>2. QED
    BY <2>1 DEF Hidden
<1>3. CASE UNCHANGED vars
  BY <1>3 DEF vars, clientVars, Hidden
<1>4. QED
  BY <1>1, <1>2, <1>3, ThreadShape DEF Next

AskedOf(c) == IF Asking(c) THEN call[c].kb ELSE NoKB

LEMMA HiddenStutters == ASSUME Hidden PROVE UNCHANGED Service!vars
<1>1. \A c \in Client : AskedOf(c)' = AskedOf(c) /\ OutcomeOf(c)' = OutcomeOf(c)
  BY DEF Hidden, AskedOf, Asking, OutcomeOf
<1>2. QED
  BY <1>1 DEF Service!vars, AskedOf

\* A call of execute is a question; any other leaves the caller without one.
LEMMA CallRefines ==
  ASSUME NEW w \in BOOLEAN, Core(w), NEW c \in Client, NEW o \in Calls, Called(c, o)
  PROVE  Service!Next
<1>0. /\ o \in CallType /\ WellFormedCall(o)
      /\ DOMAIN pc = Client /\ DOMAIN call = Client /\ DOMAIN result = Client
  BY ServerAssumption DEF Core, ControlTypeOK
<1>1. /\ pc[c] = "idle" /\ pc' = [pc EXCEPT ![c] = "lock"]
      /\ call' = [call EXCEPT ![c] = o] /\ result' = [result EXCEPT ![c] = Idle]
  BY DEF Called
<1>2. /\ AskedOf(c) = NoKB /\ OutcomeOf(c)' = Idle
      /\ AskedOf(c)' = IF o.op = "execute" THEN o.kb ELSE NoKB
  BY <1>0, <1>1 DEF Asking, AskedOf, OutcomeOf
<1>3. \A d \in Client \ {c} : AskedOf(d)' = AskedOf(d) /\ OutcomeOf(d)' = OutcomeOf(d)
  BY <1>0, <1>1 DEF Asking, AskedOf, OutcomeOf
<1>4. CASE o.op = "execute"
  <2>1. o.kb \in KB
    BY <1>0, <1>4 DEF WellFormedCall
  <2>2. Service!Ask(c, o.kb)
    BY <1>2, <1>3, <1>4 DEF Service!Ask, AskedOf
  <2>3. QED
    BY <2>1, <2>2 DEF Service!Next
<1>5. CASE o.op # "execute"
  <2>1. Service!Forget(c)
    BY <1>2, <1>3, <1>5 DEF Service!Forget, AskedOf
  <2>2. QED
    BY <2>1 DEF Service!Next
<1>6. QED
  BY <1>4, <1>5

\* The return of an execute is its answer, or a failure.
LEMMA ReturnRefines ==
  ASSUME NEW w \in BOOLEAN, Core(w), AnswersOverOwnKB', NEW c \in Client, Returned(c)
  PROVE  Service!Next \/ UNCHANGED Service!vars
<1>0. /\ call[c] \in CallType /\ WellFormedCall(call[c])
      /\ DOMAIN pc = Client /\ DOMAIN call = Client /\ DOMAIN result = Client
  BY DEF Core, ControlTypeOK, CallInv
<1>1. PICK status \in {"ok", "RuntimeError", "OSError"}, answer \in Contents \cup {NoAnswer} :
        result' = [result EXCEPT ![c] = [status |-> status, answer |-> answer]]
  BY DEF Returned
<1>2. pc[c] # "idle" /\ pc' = [pc EXCEPT ![c] = "idle"] /\ call' = call
  BY DEF Returned
<1>3. \A d \in Client \ {c} : AskedOf(d)' = AskedOf(d) /\ OutcomeOf(d)' = OutcomeOf(d)
  BY <1>0, <1>1, <1>2 DEF Asking, AskedOf, OutcomeOf
<1>4. AskedOf(c)' = NoKB /\ OutcomeOf(c) = Idle
  BY <1>0, <1>2 DEF Asking, AskedOf, OutcomeOf
<1>5. CASE call[c].op = "execute"
  <2>1. AskedOf(c) = call[c].kb /\ call[c].kb \in KB /\ AskedOf(c) # NoKB
    BY <1>0, <1>2, <1>5, ServerAssumption DEF AskedOf, Asking, WellFormedCall
  <2>2. status = "ok" => answer = ContentsOf(call[c].kb)
    <3>1. result'[c] = [status |-> status, answer |-> answer] /\ call'[c] = call[c]
      BY <1>0, <1>1, <1>2
    <3>2. ASSUME status = "ok" PROVE result'[c].answer = ContentsOf(call[c].kb)
      <4>1. call'[c].op = "execute" /\ result'[c].status = "ok"
        BY <1>5, <3>1, <3>2
      <4>2. result'[c].answer = ContentsOf(call[c].kb)'
        BY <4>1 DEF AnswersOverOwnKB
      <4>3. QED
        BY <3>1, <4>2 DEF ContentsOf
    <3>3. QED
      BY <3>1, <3>2
  <2>3. OutcomeOf(c)' = IF status = "ok" THEN [status |-> "ok", answer |-> ContentsOf(call[c].kb)]
                        ELSE [status |-> "failed", answer |-> NoAnswer]
    BY <1>0, <1>1, <1>2, <1>5, <2>2 DEF OutcomeOf
  <2>4. Service!Answer(c)
    BY <1>3, <1>4, <2>1, <2>3
       DEF Service!Answer, Service!Answered, Service!Failed, AskedOf
  <2>5. QED
    BY <2>4 DEF Service!Next
<1>6. CASE call[c].op # "execute"
  <2>1. AskedOf(c) = NoKB /\ OutcomeOf(c)' = Idle
    BY <1>0, <1>2, <1>6 DEF Asking, AskedOf, OutcomeOf
  <2>2. \A d \in Client : AskedOf(d)' = AskedOf(d) /\ OutcomeOf(d)' = OutcomeOf(d)
    BY <1>3, <1>4, <2>1
  <2>3. QED
    BY <2>2 DEF Service!vars, AskedOf
<1>7. QED
  BY <1>5, <1>6

\* Whatever the threads, the restarts and the crashes, callers of execute see
\* a service that answers each question over its own KB, or fails it.
THEOREM ServerImplementsService ==
  ASSUME CleanWorld
  PROVE  Spec => ServesCallers
<1> DEFINE Inv == Core(TRUE) /\ CountTypeOK
<1>1. Init => Inv
  BY InitEstablishes
<1>2. Inv /\ [Next]_vars => Inv'
  BY CorePreserved, CountsPreserved
<1>3. Init => Service!Init
  BY DEF Init, Service!Init, Asking, OutcomeOf, Simple, Idle
<1>4. Inv /\ [Next]_vars => [Service!Next]_(Service!vars)
  <2> SUFFICES ASSUME Inv, [Next]_vars PROVE Service!Next \/ UNCHANGED Service!vars
    OBVIOUS
  <2>1. Core(TRUE) /\ AnswersOverOwnKB'
    BY <1>2 DEF Core
  <2>2. QED
    BY <2>1, StepShape, HiddenStutters, CallRefines, ReturnRefines
<1>5. QED
  <2> HIDE DEF Inv
  <2> QED BY <1>1, <1>2, <1>3, <1>4, PTL DEF Spec, ServesCallers, Service!Spec

----------------------------------------------------------------------------
(* A call that fails without a fault of the engine or of its launch.       *)

\* What a request that has failed, or is about to, tells of the faults since
\* the lock was taken.
Blamed(c) ==
  /\ pc[c] = "rewrite" /\ proc # "running" => disturbed
  /\ pc[c] = "read" /\ proc # "running" /\ stdout = <<>> => disturbed
  /\ pc[c] = "read" /\ stdout # <<>> /\ Head(stdout).status # "ok"
       => cmd[c] \in {"query", "assert", "retract"}

HealInv == \A c \in Client : Blamed(c)

\* A step of the holder to anywhere but a retry or a read leaves nothing to
\* blame.
LEMMA NothingToBlame ==
  ASSUME NEW w \in BOOLEAN, Core(w), NEW c \in Client, pc[c] # "idle", pc[c] # "lock" \/ lock = NoClient,
         NEW label, label \notin {"rewrite", "read"}, GoTo(c, label)
  PROVE  HealInv'
<1>1. \A d \in Client \ {c} : pc[d] \in {"idle", "lock"}
  <2>1. CASE pc[c] # "lock"
    BY <2>1, HolderIsAlone DEF Core
  <2>2. CASE lock = NoClient
    BY <2>2, ServerAssumption DEF Core, LockInv
  <2>3. QED
    BY <2>1, <2>2
<1>2. \A d \in Client : pc'[d] \notin {"rewrite", "read"}
  BY <1>1 DEF Core, ControlTypeOK, GoTo
<1>3. QED
  BY <1>2 DEF HealInv, Blamed

LEMMA SentIsRunning ==
  ASSUME NEW w \in BOOLEAN, Core(w), NEW c \in Client, Write(c) \/ Rewrite(c)
  PROVE  HealInv'
<1>1. /\ pc[c] \in {"write", "rewrite"} /\ proc' = "running" /\ stdout' = stdout
      /\ GoTo(c, "read")
  BY DEF Write, Rewrite, Send
<1>2. stdout = <<>> /\ \A d \in Client \ {c} : pc[d] \in {"idle", "lock"}
  BY <1>1, QuietBetweenExchanges, HolderIsAlone DEF Core, Awaiting, Quiet
<1>3. \A d \in Client \ {c} : pc'[d] \in {"idle", "lock"}
  BY <1>1, <1>2 DEF Core, ControlTypeOK, GoTo
<1>4. pc'[c] = "read"
  BY <1>1 DEF Core, ControlTypeOK, GoTo
<1>5. Blamed(c)'
  BY <1>1, <1>2, <1>4 DEF Blamed
<1>6. ASSUME NEW d \in Client \ {c} PROVE Blamed(d)'
  BY <1>3 DEF Blamed
<1>7. QED
  BY <1>5, <1>6 DEF HealInv

LEMMA ThreadBlames ==
  ASSUME NEW w \in BOOLEAN, Core(w), NEW c \in Client, Thread(c)
  PROVE  HealInv'
<1>1. CASE Enter(c)
  <2>1. PICK label \in {"close", "halt", "prepare"} : GoTo(c, label)
    BY <1>1 DEF Enter
  <2>2. pc[c] # "idle" /\ lock = NoClient /\ label \notin {"rewrite", "read"}
    BY <1>1 DEF Enter
  <2>3. QED
    BY <2>1, <2>2, NothingToBlame
<1>2. CASE Write(c) \/ Rewrite(c)
  BY <1>2, SentIsRunning
<1>3. CASE WriteFails(c) /\ GoTo(c, "rewrite")
  <2>1. pc[c] = "write" /\ proc' = "running"
    <3>1. Launch("broken_pipe") \/ Return(c, "OSError", NoAnswer)
      BY <1>3 DEF WriteFails
    <3>2. ~Return(c, "OSError", NoAnswer)
      BY <1>3 DEF Return, GoTo, Core, ControlTypeOK
    <3>3. QED
      BY <1>3, <3>1, <3>2 DEF WriteFails, Launch
  <2>2. \A d \in Client \ {c} : pc[d] \in {"idle", "lock"}
    BY <2>1, HolderIsAlone DEF Core
  <2>3. pc'[c] = "rewrite" /\ \A d \in Client \ {c} : pc'[d] \in {"idle", "lock"}
    BY <1>3, <2>2 DEF Core, ControlTypeOK, GoTo
  <2>4. QED
    BY <2>1, <2>3 DEF HealInv, Blamed
<1>4. ASSUME NEW label \in {"idle", "prepare", "write", "halt_write", "halt_read"},
             pc[c] \notin {"idle", "lock"}, GoTo(c, label)
      PROVE  HealInv'
  <2>1. label \notin {"rewrite", "read"}
    BY <1>4
  <2>2. QED
    BY <1>4, <2>1, NothingToBlame
<1>5. CASE Prepare(c) \/ Relaunch(c) \/ (WriteFails(c) /\ ~GoTo(c, "rewrite")) \/ RewriteFails(c)
  <2>1. /\ pc[c] \notin {"idle", "lock"}
        /\ GoTo(c, "write") \/ GoTo(c, "idle")
    BY <1>5 DEF Prepare, Relaunch, WriteFails, RewriteFails, Return
  <2>2. QED
    BY <1>4, <2>1
<1>6. CASE ReadReply(c) \/ ReadEOF(c) \/ ReadTimeout(c)
  <2>1. /\ pc[c] \notin {"idle", "lock"}
        /\ GoTo(c, "prepare") \/ GoTo(c, "idle")
    BY <1>6 DEF ReadReply, ReadEOF, ReadTimeout, Proceed, Raise, Return
  <2>2. QED
    BY <1>4, <2>1
<1>7. CASE Stop(c)
  <2>1. /\ pc[c] \notin {"idle", "lock"}
        /\ GoTo(c, "halt_write") \/ GoTo(c, "halt_read") \/ GoTo(c, "idle")
    BY <1>7 DEF Stop, Close, HaltNotRunning, HaltAlive, HaltWrite, HaltEnds,
                HaltTimeout, Return
  <2>2. QED
    BY <1>4, <2>1
<1>8. QED
  BY <1>1, <1>2, <1>3, <1>5, <1>6, <1>7 DEF Thread, Exchange

\* The process refuses a statement or fails a query; whatever else it is asked
\* it does.
LEMMA EngineBlames ==
  ASSUME CleanWorld, Core(TRUE), Engine
  PROVE  HealInv'
<1>1. stdin # <<>> /\ UNCHANGED clientVars
  BY DEF Engine, ServeLoad, ServeQuery, ServeAssert, ServeRetract, ServeOther, ServeHalt,
         Serves, Undisturbed
<1>2. PICK c \in Client : /\ Awaiting(c) /\ stdout = <<>> /\ Head(stdin) = Written(c)
  BY <1>1, HeadIsWritten DEF Core
<1>3. \E status, answer :
        /\ Reply(status, answer)
        /\ status = "ok" \/ cmd[c] \in {"query", "assert", "retract"}
  <2>1. Head(stdin).cmd = cmd[c]
    BY <1>2 DEF Written
  <2>2. ASSUME ServeLoad PROVE LoadStatus(Head(stdin).kb, Head(stdin).hashed) = "ok"
    <3>1. cmd[c] = "load" /\ call[c] \in CallType /\ WellFormedCall(call[c])
      BY <2>1, <2>2 DEF ServeLoad, Serves, Core, ControlTypeOK, CallInv
    <3>2. call[c].op \in {"execute", "load"}
      BY <3>1 DEF Core, CallInv, FirstCommand, CallType
    <3>3. call[c].kb \in KB /\ call[c].hashed \in BOOLEAN
      BY <3>1, <3>2 DEF WellFormedCall, CallType
    <3>4. Head(stdin).kb = call[c].kb /\ Head(stdin).hashed = call[c].hashed
      BY <1>2 DEF Written
    <3>5. QED
      BY <2>2, <3>3, <3>4, LoadPreserves DEF CleanWorld, Core, EngineFine, EngineInv, ServeLoad
  <2>3. CASE ServeLoad
    BY <2>2, <2>3 DEF ServeLoad
  <2>4. CASE ServeQuery \/ ServeAssert \/ ServeRetract
    BY <2>1, <2>4 DEF ServeQuery, ServeAssert, ServeRetract, Serves
  <2>5. CASE ServeOther \/ ServeHalt
    BY <2>5 DEF ServeOther, ServeHalt
  <2>6. QED
    BY <2>3, <2>4, <2>5 DEF Engine
<1>4. PICK status, answer : /\ Reply(status, answer)
                            /\ status = "ok" \/ cmd[c] \in {"query", "assert", "retract"}
  BY <1>3
<1>5. stdout' # <<>> /\ Head(stdout').status = status
  BY <1>2, <1>4 DEF Reply
<1>6. pc' = pc /\ cmd' = cmd
  BY <1>1 DEF clientVars
<1>7. Blamed(c)'
  BY <1>2, <1>4, <1>5, <1>6 DEF Blamed, Awaiting
<1>8. ASSUME NEW d \in Client \ {c} PROVE Blamed(d)'
  <2>1. pc[d] \in {"idle", "lock"}
    BY <1>2, HolderIsAlone DEF Core, Awaiting
  <2>2. QED
    BY <1>6, <2>1 DEF Blamed
<1>9. QED
  BY <1>7, <1>8 DEF HealInv

LEMMA HealPreserved ==
  ASSUME CleanWorld, Core(TRUE), HealInv, [Next]_vars
  PROVE  HealInv'
<1>1. ASSUME NEW c \in Client, NEW o \in Calls, Invoke(c, o) PROVE HealInv'
  <2>1. /\ pc' = [pc EXCEPT ![c] = "lock"] /\ cmd' = [cmd EXCEPT ![c] = FirstCommand(o)]
        /\ UNCHANGED <<proc, stdout, disturbed>>
    BY <1>1 DEF Invoke, GoTo, processVars
  <2>2. pc'[c] = "lock" /\ \A d \in Client \ {c} : pc'[d] = pc[d] /\ cmd'[d] = cmd[d]
    BY <2>1 DEF Core, ControlTypeOK
  <2>3. QED
    BY <2>1, <2>2 DEF HealInv, Blamed
<1>2. CASE Crash
  <2>1. disturbed' = TRUE /\ UNCHANGED <<pc, cmd, stdout>>
    BY <1>2 DEF Crash, clientVars
  <2>2. QED
    BY <2>1 DEF HealInv, Blamed
<1>3. CASE UNCHANGED vars
  BY <1>3 DEF vars, processVars, clientVars, historyVars, HealInv, Blamed
<1>4. QED
  BY <1>1, <1>2, <1>3, ThreadBlames, EngineBlames DEF Next

\* A call fails for a fault since it took the lock, or over what the engine
\* computes.
LEMMA FailuresAreBlamed ==
  ASSUME NEW w \in BOOLEAN, Core(w), HealInv, NEW c \in Client, Exchange(c) \/ Stop(c),
         NEW status \in {"RuntimeError", "OSError"}, Return(c, status, NoAnswer)
  PROVE  disturbed' \/ cmd[c] \in {"query", "assert", "retract"}
<1>0. /\ pc'[c] = "idle" /\ result'[c].status = status
  BY DEF Return, GoTo, Core, ControlTypeOK
<1>1. CASE Relaunch(c) \/ WriteFails(c)
  <2>1. pc'[c] \notin {"write", "rewrite"}
    BY <1>0
  <2>2. ~GoTo(c, "write") /\ ~GoTo(c, "rewrite")
    BY <2>1 DEF GoTo, Core, ControlTypeOK
  <2>3. QED
    BY <1>1, <2>2 DEF Relaunch, WriteFails, LaunchRaises
<1>2. CASE RewriteFails(c)
  BY <1>2 DEF RewriteFails, historyVars, HealInv, Blamed
<1>3. CASE ReadReply(c)
  <2>1. CASE DropLateEngine
    BY <2>1 DEF DropLateEngine
  <2>2. CASE Head(stdout).status = "ok" /\ Proceed(c, Head(stdout).answer)
    <3>1. GoTo(c, "prepare") \/ Return(c, "ok", Head(stdout).answer)
      BY <2>2 DEF Proceed
    <3>2. pc'[c] = "prepare" \/ result'[c].status = "ok"
      BY <3>1 DEF GoTo, Return, Core, ControlTypeOK
    <3>3. QED
      BY <1>0, <3>2
  <2>3. CASE Head(stdout).status = "error"
    BY <1>3, <2>3 DEF ReadReply, HealInv, Blamed
  <2>4. QED
    BY <1>3, <2>1, <2>2, <2>3 DEF ReadReply
<1>4. CASE ReadEOF(c)
  BY <1>4 DEF ReadEOF, historyVars, HealInv, Blamed
<1>5. CASE ReadTimeout(c)
  BY <1>5 DEF ReadTimeout, DropLateEngine
<1>6. CASE Prepare(c) \/ Write(c) \/ Rewrite(c)
  <2>1. GoTo(c, "write") \/ GoTo(c, "read")
    BY <1>6 DEF Prepare, Write, Rewrite
  <2>2. QED
    BY <1>0, <2>1 DEF GoTo, Core, ControlTypeOK
<1>7. CASE Stop(c)
  <2>1. GoTo(c, "halt_write") \/ GoTo(c, "halt_read") \/ Return(c, "ok", NoAnswer)
    BY <1>7 DEF Stop, Close, HaltNotRunning, HaltAlive, HaltWrite, HaltEnds, HaltTimeout
  <2>2. pc'[c] \in {"halt_write", "halt_read"} \/ result'[c].status = "ok"
    BY <2>1 DEF GoTo, Return, Core, ControlTypeOK
  <2>3. QED
    BY <1>0, <2>2
<1>8. QED
  BY <1>1, <1>2, <1>3, <1>4, <1>5, <1>6, <1>7 DEF Exchange

\* How the result of the last call may change.
LEMMA ResultsOfReturns ==
  ASSUME NEW d \in Client, Exchange(d) \/ Stop(d)
  PROVE  \/ UNCHANGED result
         \/ \E answer : Return(d, "ok", answer)
         \/ \E status \in {"RuntimeError", "OSError"} : Return(d, status, NoAnswer)
<1>1. CASE Prepare(d) \/ Relaunch(d) \/ Write(d) \/ WriteFails(d) \/ Rewrite(d) \/ RewriteFails(d)
  BY <1>1 DEF Prepare, Relaunch, Write, WriteFails, Rewrite, RewriteFails, Send
<1>2. CASE ReadReply(d) \/ ReadEOF(d) \/ ReadTimeout(d)
  BY <1>2 DEF ReadReply, ReadEOF, ReadTimeout, Proceed, Raise
<1>3. CASE Stop(d)
  BY <1>3 DEF Stop, Close, HaltNotRunning, HaltAlive, HaltWrite, HaltEnds, HaltTimeout, Send
<1>4. QED
  BY <1>1, <1>2, <1>3 DEF Exchange

LEMMA StepHeals ==
  ASSUME NEW w \in BOOLEAN, Core(w), HealInv, [Next]_vars, NEW c \in Client,
         call[c].op \in {"ping", "stats", "load", "close", "halt"},
         result[c].status = "none", result'[c].status \in {"RuntimeError", "OSError"}
  PROVE  disturbed'
<1>1. result'[c] # result[c] /\ DOMAIN result = Client
  BY DEF Core, ControlTypeOK
<1>2. ~(\E d \in Client, o \in Calls : Invoke(d, o))
  BY <1>1 DEF Invoke, Idle
<1>3. ~Engine /\ ~Crash /\ ~UNCHANGED vars /\ ~(\E d \in Client : Enter(d))
  BY <1>1 DEF Engine, ServeLoad, ServeQuery, ServeAssert, ServeRetract, ServeOther,
              ServeHalt, Undisturbed, Crash, clientVars, vars, Enter
<1>4. PICK d \in Client : Exchange(d) \/ Stop(d)
  BY <1>2, <1>3 DEF Next, Thread
<1>5. d = c /\ \E status \in {"RuntimeError", "OSError"} : Return(c, status, NoAnswer)
  <2>1. CASE UNCHANGED result
    BY <1>1, <2>1
  <2>2. ASSUME NEW answer, Return(d, "ok", answer) PROVE FALSE
    BY <1>1, <2>2 DEF Return
  <2>3. ASSUME NEW status \in {"RuntimeError", "OSError"}, Return(d, status, NoAnswer)
        PROVE  d = c
    BY <1>1, <2>3 DEF Return
  <2>4. QED
    BY <1>4, <2>1, <2>2, <2>3, ResultsOfReturns
<1>6. cmd[c] \notin {"query", "assert", "retract"}
  BY DEF Core, CallInv, FirstCommand
<1>7. QED
  BY <1>4, <1>5, <1>6, FailuresAreBlamed

\* What a crash, a timeout or a failed launch leaves behind is repaired before
\* the next request: ping, stats, load, close and halt fail only for a fault
\* that strikes while they hold the lock.
THEOREM ServerHeals ==
  ASSUME CleanWorld
  PROVE  Spec => SelfHealing
<1> DEFINE Inv == Core(TRUE) /\ CountTypeOK /\ HealInv
<1>1. Init => Inv
  <2>1. Init => HealInv
    BY DEF Init, HealInv, Blamed
  <2>2. QED
    BY <2>1, InitEstablishes
<1>2. Inv /\ [Next]_vars => Inv'
  BY CorePreserved, CountsPreserved, HealPreserved
<1>3. Inv /\ [Next]_vars =>
        [\A c \in Client :
           (/\ call[c].op \in {"ping", "stats", "load", "close", "halt"}
            /\ result[c].status = "none"
            /\ result'[c].status \in {"RuntimeError", "OSError"})
              => disturbed']_vars
  BY StepHeals
<1>4. QED
  <2> HIDE DEF Inv
  <2> QED BY <1>1, <1>2, <1>3, PTL DEF Spec, SelfHealing
============================================================================
