-------------------------- MODULE MCEngineSession --------------------------
(* Small worlds of statements and knowledge bases for EngineSession.       *)
EXTENDS EngineSession, TLC

CONSTANTS s1, s2, s3, s4, s5, k1, k2, k3, p1, p2, p3

\* Two KBs that share the predicate p1; s2 occurs twice in k2.  Of k3 the engine
\* refuses the second statement.  The signature of s5 cannot be read.
MCStatements == (k1 :> <<s1, s3>>) @@ (k2 :> <<s2, s5, s2>>) @@ (k3 :> <<s3, s4, s1>>)
MCHeadPred   == (s1 :> p1) @@ (s2 :> p1) @@ (s3 :> p2) @@ (s4 :> p2) @@ (s5 :> p3)
============================================================================
