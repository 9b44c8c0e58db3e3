--------------------------- MODULE MCPrologServer ---------------------------
(* Two threads and two one-statement KBs over a shared predicate.          *)
EXTENDS PrologServer, TLC

CONSTANTS s1, s2, s3, k1, k2, p1, p2, c1, c2

MCStatements == (k1 :> <<s1>>) @@ (k2 :> <<s2, s3>>)
MCHeadPred   == (s1 :> p1) @@ (s2 :> p1) @@ (s3 :> p2)

ExecuteCalls == {CallExecute(k1), CallExecute(k2)}
\* A load of its own makes the number of requests odd when a load_and_query
\* begins.
LoadingCalls == ExecuteCalls \cup {CallLoad(k1, TRUE)}
MixedCalls   == {CallExecute(k1), CallExecute(k2), CallLoad(k2, FALSE), CallAssert(s2),
                 CallRetract(s1), Simple("close")}
LifecycleCalls == {CallLoad(k1, TRUE), Simple("ping"), Simple("stats"),
                   Simple("query"),
                   Simple("halt"), Simple("close")}

Threads == Permutations(Client)
============================================================================
