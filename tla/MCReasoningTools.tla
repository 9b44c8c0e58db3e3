-------------------------- MODULE MCReasoningTools --------------------------
(* Two threads, two kb_ids, texts of at most two lines.                    *)
EXTENDS ReasoningTools, TLC

CONSTANTS f1, f2, bad, q1, q2, q3, i1, i2, c1, c2

T(lines, query) == [lines |-> lines, query |-> query]

t1 == T({f1}, q1)
t2 == T({f2}, NoQuery)
t3 == T({f1, f2}, q1)

Call(tool, knowledge, id, query) ==
  [tool |-> tool, knowledge |-> knowledge, id |-> id, delta |-> NoText,
   query |-> query, limits |-> TRUE, form |-> TRUE, mods |-> NoMods]

\* Drop f1: nothing is left of a text of f1 alone.
Drop1(o) == [o EXCEPT !.mods = [add |-> {}, remove |-> {f1}]]
Swap1(o) == [o EXCEPT !.mods = [add |-> {f2}, remove |-> {f1}]]

RegistryCalls ==
  {Call("register_kb", t1, i1, NoQuery), Call("register_kb", t2, i1, NoQuery),
   Call("register_kb", T({bad}, NoQuery), i1, NoQuery),
   Call("register_kb", t3, i2, NoQuery), Call("register_kb", t1, i2, NoQuery),
   Call("unregister_kb", NoText, i1, NoQuery), Call("list_kbs", NoText, NoId, NoQuery),
   Call("reason", NoText, i1, NoQuery), Call("reason", t1, NoId, q2),
   Call("explain", NoText, i2, q3),
   [Call("diagnose", NoText, i1, q1) EXCEPT !.delta = T({f1}, NoQuery)],
   [Call("diagnose", t2, NoId, q1) EXCEPT !.form = FALSE],
   [Call("reason", NoText, i1, q1) EXCEPT !.limits = FALSE],
   Call("check_kb", NoText, i2, NoQuery),
   Swap1(Call("what_if", NoText, i1, q1))}

Threads == Permutations({c1, c2})
============================================================================
