-------------------------- MODULE ReasoningService --------------------------
(***************************************************************************)
(* What the engine promises to a caller of prolog_bridge.execute: it asks  *)
(* about one KB and gets one outcome, the answer over that KB or a         *)
(* failure.  Nothing of the other callers, of the KBs asked about before,  *)
(* or of the engine's restarts can be seen.                                *)
(***************************************************************************)
CONSTANTS
  Client, KB, NoKB,
  Meaning,     \* [KB -> answers]
  Nothing,     \* no outcome
  NoAnswer     \* the answer part of a failure

VARIABLES
  asked,      \* the KB a client is waiting for an answer over, or NoKB
  outcome     \* the outcome of its last question, or Nothing

vars == <<asked, outcome>>

Init ==
  /\ asked = [c \in Client |-> NoKB]
  /\ outcome = [c \in Client |-> Nothing]

Ask(c, k) ==
  /\ asked[c] = NoKB
  /\ asked' = [asked EXCEPT ![c] = k]
  /\ outcome' = [outcome EXCEPT ![c] = Nothing]

Answered(k) == [status |-> "ok", answer |-> Meaning[k]]
Failed      == [status |-> "failed", answer |-> NoAnswer]

Answer(c) ==
  /\ asked[c] # NoKB
  /\ asked' = [asked EXCEPT ![c] = NoKB]
  /\ \/ outcome' = [outcome EXCEPT ![c] = Answered(asked[c])]
     \/ outcome' = [outcome EXCEPT ![c] = Failed]

\* The client goes on to something that is not a question.
Forget(c) ==
  /\ asked[c] = NoKB
  /\ outcome' = [outcome EXCEPT ![c] = Nothing]
  /\ UNCHANGED asked

Next == \E c \in Client : Answer(c) \/ Forget(c) \/ \E k \in KB : Ask(c, k)

Spec == Init /\ [][Next]_vars
============================================================================
