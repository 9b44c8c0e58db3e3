--------------------------- MODULE InferenceProofs ---------------------------
(***************************************************************************)
(* For any knowledge base, query, bounds and backend: the stream of an     *)
(* atom at a depth has a proof iff the atom follows within that depth,     *)
(* unless it raises before it has one; streams of the two backends that do *)
(* not raise have the same proofs, each as often; these are proofs in the  *)
(* sense of the rules, and all of them; and a solve that ends well has the *)
(* first proofs of the stream of its query.                                *)
(***************************************************************************)
EXTENDS Inference, FiniteSetTheorems, FunctionTheorems, WellFoundedInduction, TLAPS

LEMMA NatMin ==
  ASSUME NEW T \in SUBSET Nat, T # {}
  PROVE  \E x \in T : \A y \in T : x <= y
<1> DEFINE R == OpToRel(<, Nat)
<1>1. IsWellFoundedOn(R, Nat)
  BY NatLessThanWellFounded
<1>2. \A x, y \in Nat : x < y => <<x, y>> \in R
  BY DEF OpToRel
<1> HIDE DEF R
<1>3. PICK x \in T : \A y \in T : ~(<<y, x>> \in R)
  BY <1>1, WFMin
<1>4. \A y \in T : ~(y < x)
  BY <1>2, <1>3
<1>5. QED
  BY <1>3, <1>4

LEMMA NatInd ==
  ASSUME NEW S, 0 \in S, \A n \in Nat : n \in S => n + 1 \in S
  PROVE  \A n \in Nat : n \in S
<1> SUFFICES ASSUME NEW m \in Nat, m \notin S PROVE FALSE
  OBVIOUS
<1>1. PICK x \in Nat \ S : \A y \in Nat \ S : x <= y
  BY NatMin
<1>2. x - 1 \in Nat /\ x - 1 \in S
  BY <1>1
<1>3. QED
  BY <1>1, <1>2

----------------------------------------------------------------------------
(* The recursions, each from the value before i to the value at i.         *)

Step(what, x, y, i) ==
  CASE what = "candidates" -> IF x.kb[i].head = x.a THEN Placed(y, x.kb[i], x.b) ELSE y
    [] what = "goals" ->
         LET first == ProveLiteral(x.goals[Len(x.goals) + 1 - i], x.b, x.streams)
         IN  IF i = 1 THEN first ELSE Both(first, y)
    [] what = "clauses" -> Then(y, ProveClause(x.cs[i], x.b, x.d, x.below))
    [] what = "levels"  -> [a \in Atom |-> ProveAtom(x.kb, x.b, i - 1, y, a)]
    [] what = "within"  -> Given(x.job, i - 1, y)
    [] what = "proofs"  -> LevelProofs(x.job, i - 1, y)
    [] what = "bodies"  ->
         LET first == LiteralProofs(x.goals[Len(x.goals) + 1 - i], x.b, x.of)
         IN  IF i = 1 THEN first ELSE Pairs(first, y)

Values(what, x, base, f, i) ==
  IF i = 0 THEN base ELSE Step(what, x, f[i - 1], i)

RecursUpto(n, what, x, base, f) ==
  f = [i \in 0..n |-> Values(what, x, base, f, i)]

LEMMA Recursion ==
  ASSUME NEW what, NEW x, NEW base
  PROVE  \A n \in Nat : \E f : RecursUpto(n, what, x, base, f)
<1> DEFINE Upto == {n \in Nat : \E f : RecursUpto(n, what, x, base, f)}
<1>1. 0 \in Upto
  <2> DEFINE f == [i \in 0..0 |-> base]
  <2>1. f = [i \in 0..0 |-> Values(what, x, base, f, i)]
    BY DEF Values
  <2>2. QED
    BY <2>1 DEF RecursUpto
<1>2. ASSUME NEW n \in Nat, n \in Upto PROVE n + 1 \in Upto
  <2>1. PICK f : f = [i \in 0..n |-> Values(what, x, base, f, i)]
    BY <1>2 DEF RecursUpto
  <2> DEFINE g == [i \in 0..(n + 1) |-> Values(what, x, base, f, i)]
  <2>2. \A i \in 0..n : g[i] = f[i]
    <3> TAKE i \in 0..n
    <3>1. f[i] = Values(what, x, base, f, i)
      BY <2>1
    <3>2. i \in 0..(n + 1)
      OBVIOUS
    <3>3. QED
      BY <3>1, <3>2
  <2>3. \A i \in 0..(n + 1) : Values(what, x, base, f, i) = Values(what, x, base, g, i)
    <3> TAKE i \in 0..(n + 1)
    <3>1. CASE i > 0
      <4>1. i - 1 \in 0..n
        BY <3>1
      <4>2. g[i - 1] = f[i - 1]
        BY <2>2, <4>1
      <4> HIDE DEF g
      <4>3. QED
        BY <4>2 DEF Values
    <3>2. CASE i = 0
      BY <3>2 DEF Values
    <3>3. QED
      BY <3>1, <3>2
  <2>4. g = [i \in 0..(n + 1) |-> Values(what, x, base, g, i)]
    BY <2>3
  <2>5. RecursUpto(n + 1, what, x, base, g)
    BY <2>4 DEF RecursUpto
  <2> HIDE DEF g
  <2>6. QED
    BY <2>5
<1>3. QED
  <2> HIDE DEF Upto
  <2>1. \A n \in Nat : n \in Upto
    BY <1>1, <1>2, NatInd
  <2>2. QED
    BY <2>1 DEF Upto

LEMMA CandidatesSteps ==
  ASSUME NEW S, NEW kb \in Seq(S), NEW b, NEW a
  PROVE  \E f : /\ f[0] = <<>> /\ f[Len(kb)] = Candidates(kb, b, a)
                /\ \A i \in 1..Len(kb) :
                     f[i] = IF kb[i].head = a THEN Placed(f[i - 1], kb[i], b) ELSE f[i - 1]
<1>0. Len(kb) \in Nat
  OBVIOUS
<1> PICK x : x = [kb |-> kb, a |-> a, b |-> b]
  OBVIOUS
<1>1. PICK f : RecursUpto(Len(kb), "candidates", x, <<>>, f)
  BY <1>0, Recursion
<1>2. f = [i \in 0..Len(kb) |->
             IF i = 0 THEN <<>>
             ELSE IF kb[i].head = a THEN Placed(f[i - 1], kb[i], b) ELSE f[i - 1]]
  <2>1. \A y, i : Step("candidates", x, y, i) = IF kb[i].head = a THEN Placed(y, kb[i], b) ELSE y
    BY DEF Step
  <2>2. QED
    BY <1>1, <2>1 DEF RecursUpto, Values
<1>3. PICK g : /\ g = [i \in 0..Len(kb) |->
                         IF i = 0 THEN <<>>
                         ELSE IF kb[i].head = a THEN Placed(g[i - 1], kb[i], b) ELSE g[i - 1]]
               /\ g[Len(kb)] = Candidates(kb, b, a)
  BY <1>2 DEF Candidates
<1>4. g[0] = <<>>
  BY <1>0, <1>3
<1>5. ASSUME NEW i \in 1..Len(kb)
      PROVE  g[i] = IF kb[i].head = a THEN Placed(g[i - 1], kb[i], b) ELSE g[i - 1]
  <2>1. i \in 0..Len(kb) /\ i # 0
    BY <1>0
  <2>2. QED
    BY <1>3, <2>1
<1>6. QED
  BY <1>3, <1>4, <1>5

\* f[n] is the stream of the last n goals.
NestsGoals(f, goals, b, streams) ==
  /\ f[0] = Yield(<<TrueNode>>) /\ f[Len(goals)] = ProveGoals(goals, b, streams)
  /\ \A i \in 1..Len(goals) :
       LET first == ProveLiteral(goals[Len(goals) + 1 - i], b, streams)
       IN  f[i] = IF i = 1 THEN first ELSE Both(first, f[i - 1])

LEMMA GoalsSteps ==
  ASSUME NEW goals \in Seq(Literal), NEW b, NEW streams
  PROVE  \E f : NestsGoals(f, goals, b, streams)
<1>0. Len(goals) \in Nat
  OBVIOUS
<1> PICK x : x = [goals |-> goals, b |-> b, streams |-> streams]
  OBVIOUS
<1> DEFINE first(i) == ProveLiteral(goals[Len(goals) + 1 - i], b, streams)
<1>1. PICK f : RecursUpto(Len(goals), "goals", x, Yield(<<TrueNode>>), f)
  BY <1>0, Recursion
<1>2. \A i \in 0..Len(goals) :
        Values("goals", x, Yield(<<TrueNode>>), f, i) =
          CASE i = 0 -> Yield(<<TrueNode>>)
            [] i = 1 -> first(i)
            [] OTHER -> Both(first(i), f[i - 1])
  <2>1. \A y, i : Step("goals", x, y, i) = IF i = 1 THEN first(i) ELSE Both(first(i), y)
    BY DEF Step
  <2> HIDE DEF first
  <2>2. QED
    BY <2>1 DEF Values
<1>3. f = [i \in 0..Len(goals) |->
             CASE i = 0 -> Yield(<<TrueNode>>)
               [] i = 1 -> first(i)
               [] OTHER -> Both(first(i), f[i - 1])]
  <2> HIDE DEF first
  <2> QED BY <1>1, <1>2 DEF RecursUpto
<1>4. PICK g : /\ g = [i \in 0..Len(goals) |->
                         CASE i = 0 -> Yield(<<TrueNode>>)
                           [] i = 1 -> first(i)
                           [] OTHER -> Both(first(i), g[i - 1])]
               /\ g[Len(goals)] = ProveGoals(goals, b, streams)
  BY <1>3 DEF ProveGoals
<1> HIDE DEF first
<1>5. g[0] = Yield(<<TrueNode>>)
  BY <1>0, <1>4
<1>6. ASSUME NEW i \in 1..Len(goals)
      PROVE  g[i] = IF i = 1 THEN first(i) ELSE Both(first(i), g[i - 1])
  <2>1. i \in 0..Len(goals) /\ i # 0
    BY <1>0
  <2>2. QED
    BY <1>4, <2>1
<1>7. QED
  BY <1>4, <1>5, <1>6 DEF first, NestsGoals

LEMMA AtomSteps ==
  ASSUME NEW kb, NEW b, NEW d, NEW below, NEW a, NEW S, NEW cs \in Seq(S),
         cs = Candidates(kb, b, a)
  PROVE  \E f : /\ f[0] = Fail /\ f[Len(cs)] = ProveAtom(kb, b, d, below, a)
                /\ \A i \in 1..Len(cs) :
                     f[i] = Then(f[i - 1], ProveClause(cs[i], b, d, below))
<1>0. Len(cs) \in Nat
  OBVIOUS
<1> PICK x : x = [cs |-> cs, b |-> b, d |-> d, below |-> below]
  OBVIOUS
<1>1. PICK f : RecursUpto(Len(cs), "clauses", x, Fail, f)
  BY <1>0, Recursion
<1>2. f = [i \in 0..Len(cs) |->
             IF i = 0 THEN Fail ELSE Then(f[i - 1], ProveClause(cs[i], b, d, below))]
  <2>1. \A y, i : Step("clauses", x, y, i) = Then(y, ProveClause(cs[i], b, d, below))
    BY DEF Step
  <2>2. QED
    BY <1>1, <2>1 DEF RecursUpto, Values
<1>3. PICK g : /\ g = [i \in 0..Len(cs) |->
                         IF i = 0 THEN Fail
                         ELSE Then(g[i - 1], ProveClause(cs[i], b, d, below))]
               /\ g[Len(cs)] = ProveAtom(kb, b, d, below, a)
  BY <1>2 DEF ProveAtom
<1>4. g[0] = Fail
  BY <1>0, <1>3
<1>5. ASSUME NEW i \in 1..Len(cs) PROVE g[i] = Then(g[i - 1], ProveClause(cs[i], b, d, below))
  <2>1. i \in 0..Len(cs) /\ i # 0
    BY <1>0
  <2>2. QED
    BY <1>3, <2>1
<1>6. QED
  BY <1>3, <1>4, <1>5

LEMMA LevelSteps ==
  ASSUME NEW kb, NEW b, NEW depth \in Nat
  PROVE  \E f : /\ f[depth + 1] = Streams(kb, b, depth)
                /\ \A a \in Atom : f[0][a] = Fail
                /\ \A n \in 1..(depth + 1), a \in Atom :
                     f[n][a] = ProveAtom(kb, b, n - 1, f[n - 1], a)
<1> PICK x : x = [kb |-> kb, b |-> b]
  OBVIOUS
<1>1. PICK f : RecursUpto(depth + 1, "levels", x, [a \in Atom |-> Fail], f)
  BY Recursion
<1>2. f = [n \in 0..(depth + 1) |->
             [a \in Atom |-> IF n = 0 THEN Fail ELSE ProveAtom(kb, b, n - 1, f[n - 1], a)]]
  <2>1. \A y, n : Step("levels", x, y, n) = [a \in Atom |-> ProveAtom(kb, b, n - 1, y, a)]
    BY DEF Step
  <2>2. \A n \in 0..(depth + 1) :
          Values("levels", x, [a \in Atom |-> Fail], f, n) =
            [a \in Atom |-> IF n = 0 THEN Fail ELSE ProveAtom(kb, b, n - 1, f[n - 1], a)]
    BY <2>1 DEF Values
  <2>3. QED
    BY <1>1, <2>2 DEF RecursUpto
<1>3. PICK g : /\ g = [n \in 0..(depth + 1) |->
                         [a \in Atom |->
                            IF n = 0 THEN Fail ELSE ProveAtom(kb, b, n - 1, g[n - 1], a)]]
               /\ g[depth + 1] = Streams(kb, b, depth)
  BY <1>2 DEF Streams
<1>4. \A a \in Atom : g[0][a] = Fail
  BY <1>3
<1>5. ASSUME NEW n \in 1..(depth + 1), NEW a \in Atom
      PROVE  g[n][a] = ProveAtom(kb, b, n - 1, g[n - 1], a)
  <2>1. n \in 0..(depth + 1) /\ n # 0
    OBVIOUS
  <2>2. QED
    BY <1>3, <2>1
<1>6. QED
  BY <1>3, <1>4, <1>5

LEMMA WithinSteps ==
  ASSUME NEW j, j.depth \in Nat
  PROVE  \E f : /\ f[0] = {} /\ f[j.depth + 1] = Consequences(j)
                /\ \A n \in 1..(j.depth + 1) : f[n] = Given(j, n - 1, f[n - 1])
<1> PICK x : x = [job |-> j]
  OBVIOUS
<1>1. PICK f : RecursUpto(j.depth + 1, "within", x, {}, f)
  <2>1. j.depth + 1 \in Nat
    OBVIOUS
  <2>2. QED
    BY <2>1, Recursion
<1>2. f = [n \in 0..(j.depth + 1) |-> IF n = 0 THEN {} ELSE Given(j, n - 1, f[n - 1])]
  <2>1. \A y, n : Step("within", x, y, n) = Given(j, n - 1, y)
    BY DEF Step
  <2>2. QED
    BY <1>1, <2>1 DEF RecursUpto, Values
<1>3. PICK g : /\ g = [n \in 0..(j.depth + 1) |->
                         IF n = 0 THEN {} ELSE Given(j, n - 1, g[n - 1])]
               /\ g[j.depth + 1] = Consequences(j)
  BY <1>2 DEF Consequences
<1>4. g[0] = {}
  BY <1>3
<1>5. ASSUME NEW n \in 1..(j.depth + 1) PROVE g[n] = Given(j, n - 1, g[n - 1])
  <2>1. n \in 0..(j.depth + 1) /\ n # 0
    OBVIOUS
  <2>2. QED
    BY <1>3, <2>1
<1>6. QED
  BY <1>3, <1>4, <1>5

----------------------------------------------------------------------------
(* Streams.                                                                *)

IsStream(s) ==
  /\ s = [proofs |-> s.proofs, raised |-> s.raised] /\ s.raised \in BOOLEAN
  /\ \E S : s.proofs \in Seq(S)

LEMMA SeqsOf ==
  ASSUME NEW S, NEW s \in Seq(S)
  PROVE  /\ Len(s) \in Nat /\ DOMAIN s = 1..Len(s) /\ (s = <<>> <=> Len(s) = 0)
         /\ s = [i \in 1..Len(s) |-> s[i]] /\ \A i \in 1..Len(s) : s[i] \in S
OBVIOUS

LEMMA StreamOf ==
  ASSUME NEW S, NEW p \in Seq(S), NEW r \in BOOLEAN
  PROVE  IsStream([proofs |-> p, raised |-> r])
BY DEF IsStream

LEMMA FunctionIsSeq ==
  ASSUME NEW n \in Nat, NEW f, DOMAIN f = 1..n, f = [i \in 1..n |-> f[i]]
  PROVE  f \in Seq({f[i] : i \in 1..n}) /\ Len(f) = n /\ (f # <<>> <=> n > 0)
OBVIOUS

LEMMA BasicStreams ==
  /\ IsStream(Fail) /\ Fail.proofs = <<>> /\ ~Fail.raised
  /\ IsStream(Raise) /\ Raise.proofs = <<>> /\ Raise.raised
  /\ \A p : IsStream(Yield(<<p>>)) /\ Yield(<<p>>).proofs # <<>> /\ ~Yield(<<p>>).raised
<1>1. <<>> \in Seq({}) /\ \A p : <<p>> \in Seq({p}) /\ <<p>> # <<>>
  OBVIOUS
<1>2. QED
  BY <1>1, StreamOf DEF Fail, Raise, Yield

LEMMA ThenIs ==
  ASSUME NEW s, NEW t, IsStream(s), IsStream(t)
  PROVE  /\ IsStream(Then(s, t))
         /\ Then(s, t).raised <=> s.raised \/ t.raised
         /\ Then(s, t).proofs # <<>> <=> s.proofs # <<>> \/ (~s.raised /\ t.proofs # <<>>)
<1>1. CASE s.raised
  BY <1>1 DEF Then
<1>2. CASE ~s.raised
  <2>1. PICK S, T : s.proofs \in Seq(S) /\ t.proofs \in Seq(T)
    BY DEF IsStream
  <2>2. s.proofs \in Seq(S \cup T) /\ t.proofs \in Seq(S \cup T)
    BY <2>1
  <2>3. s.proofs \o t.proofs \in Seq(S \cup T)
        /\ (s.proofs \o t.proofs # <<>> <=> s.proofs # <<>> \/ t.proofs # <<>>)
    BY <2>2
  <2>4. PICK p : p = s.proofs \o t.proofs
    OBVIOUS
  <2>5. Then(s, t) = [proofs |-> p, raised |-> t.raised]
    BY <1>2, <2>4 DEF Then
  <2>6. t.raised \in BOOLEAN
    BY DEF IsStream
  <2>7. IsStream(Then(s, t))
    BY <2>3, <2>4, <2>5, <2>6, StreamOf
  <2>8. Then(s, t).raised = t.raised /\ Then(s, t).proofs = p
    BY <2>5
  <2>9. QED
    BY <1>2, <2>3, <2>4, <2>7, <2>8
<1>3. QED
  BY <1>1, <1>2

LEMMA Products ==
  ASSUME NEW m \in Nat, NEW n \in Nat, m > 0
  PROVE  m * n \in Nat /\ (m * n > 0 <=> n > 0)
<1>1. n > 0 => m * n >= m
  OBVIOUS
<1>2. m * 0 = 0 /\ m * n \in Nat
  OBVIOUS
<1>3. QED
  BY <1>1, <1>2

LEMMA BothIs ==
  ASSUME NEW s, NEW t, IsStream(s), IsStream(t)
  PROVE  /\ IsStream(Both(s, t))
         /\ Both(s, t).proofs # <<>> <=> s.proofs # <<>> /\ t.proofs # <<>>
         /\ Both(s, t).raised <=> s.raised \/ (s.proofs # <<>> /\ t.raised)
<1> DEFINE n == Len(t.proofs)
           m == Len(s.proofs)
<1>1. PICK S, T : s.proofs \in Seq(S) /\ t.proofs \in Seq(T)
  BY DEF IsStream
<1>2. n \in Nat /\ m \in Nat /\ (t.proofs # <<>> <=> n > 0) /\ (s.proofs # <<>> <=> m > 0)
  BY <1>1, SeqsOf
<1>3. s.raised \in BOOLEAN /\ t.raised \in BOOLEAN
  BY DEF IsStream
<1>4. CASE s.proofs = <<>>
  BY <1>4 DEF Both
<1>5. CASE s.proofs # <<>> /\ t.raised
  <2> DEFINE p == [k \in 1..n |-> AndNode(s.proofs[1], t.proofs[k])]
  <2>1. Both(s, t) = [proofs |-> p, raised |-> t.raised]
    <3>1. Both(s, t) = [t EXCEPT !.proofs = p]
      BY <1>5 DEF Both
    <3>2. t = [proofs |-> t.proofs, raised |-> t.raised]
      BY DEF IsStream
    <3> HIDE DEF p
    <3>3. QED
      BY <3>1, <3>2
  <2>2. DOMAIN p = 1..n /\ p = [i \in 1..n |-> p[i]]
    OBVIOUS
  <2> HIDE DEF p
  <2>3. p \in Seq({p[i] : i \in 1..n}) /\ (p # <<>> <=> n > 0)
    BY <1>2, <2>2, FunctionIsSeq
  <2>4. IsStream(Both(s, t))
    BY <1>3, <2>1, <2>3, StreamOf
  <2>5. Both(s, t).proofs = p /\ Both(s, t).raised = t.raised
    BY <2>1
  <2>6. QED
    BY <1>2, <1>5, <2>3, <2>4, <2>5
<1>6. CASE s.proofs # <<>> /\ ~t.raised
  <2> DEFINE p == [k \in 1..(m * n) |->
                     AndNode(s.proofs[((k - 1) \div n) + 1], t.proofs[((k - 1) % n) + 1])]
  <2>1. Both(s, t) = [proofs |-> p, raised |-> s.raised]
    <3>1. Both(s, t) = [s EXCEPT !.proofs = p]
      BY <1>6 DEF Both
    <3>2. s = [proofs |-> s.proofs, raised |-> s.raised]
      BY DEF IsStream
    <3> HIDE DEF p
    <3>3. QED
      BY <3>1, <3>2
  <2>2. DOMAIN p = 1..(m * n) /\ p = [i \in 1..(m * n) |-> p[i]]
    OBVIOUS
  <2>3. m * n \in Nat /\ (m * n > 0 <=> n > 0)
    BY <1>2, <1>6, Products
  <2> HIDE DEF p
  <2>4. p \in Seq({p[i] : i \in 1..(m * n)}) /\ (p # <<>> <=> m * n > 0)
    BY <2>2, <2>3, FunctionIsSeq
  <2>5. IsStream(Both(s, t))
    BY <1>3, <2>1, <2>4, StreamOf
  <2>6. Both(s, t).proofs = p /\ Both(s, t).raised = s.raised
    BY <2>1
  <2>7. QED
    BY <1>2, <1>6, <2>3, <2>4, <2>5, <2>6
<1>7. QED
  BY <1>4, <1>5, <1>6

----------------------------------------------------------------------------
(* A stream decides v: it has a proof only if v holds, and if v holds it   *)
(* has one, or raises.                                                     *)

Decides(s, v) ==
  /\ IsStream(s)
  /\ s.proofs # <<>> => v
  /\ v => s.raised \/ s.proofs # <<>>

LEMMA ReducedIs ==
  ASSUME NEW l \in Literal, NEW b \in Backend
  PROVE  /\ Reduced(l.goal, b) \in Atom \cup {"true", "false", "error"}
         /\ Reduced(l.goal, b) \in Atom => Reduced(l.goal, b) = l.goal
         /\ \A a \in Atom : a # "true" /\ a # "false" /\ a # "error"
<1>1. l.goal \in Atom \cup Operation \cup {"true", "false"}
  BY DEF Literal
<1>2. CASE l.goal \in Operation
  <2>1. Value[l.goal][b] \in {"true", "false", "error"}
    BY <1>2, InferenceAssumption
  <2>2. QED
    BY <1>2, <2>1, InferenceAssumption DEF Reduced, Outcome
<1>3. CASE l.goal \notin Operation
  BY <1>1, <1>3, InferenceAssumption DEF Reduced
<1>4. QED
  BY <1>2, <1>3

GoalHolds(g, H) == g = "true" \/ (g \in Atom /\ g \in H)
LitHolds(l, b, H) == GoalHolds(Reduced(l.goal, b), H) # l.neg

\* streams decides, of each atom, whether it is in H.
DecidesAtoms(streams, H) == \A a \in Atom : Decides(streams[a], a \in H)

LEMMA LiteralDecided ==
  ASSUME NEW l \in Literal, NEW b \in Backend, NEW streams, NEW H, DecidesAtoms(streams, H)
  PROVE  Decides(ProveLiteral(l, b, streams), LitHolds(l, b, H))
<1>g. PICK g : g = Reduced(l.goal, b)
  OBVIOUS
<1> DEFINE s == CASE g = "true"  -> Yield(<<TrueNode>>)
                  [] g = "false" -> Fail
                  [] g = "error" -> Raise
                  [] OTHER            -> streams[g]
           v == GoalHolds(g, H)
<1>0. /\ l.neg \in BOOLEAN /\ g \in Atom \cup {"true", "false", "error"}
      /\ \A a \in Atom : a # "true" /\ a # "false" /\ a # "error"
  BY ReducedIs, <1>g DEF Literal
<1>1. Decides(s, v)
  <2>1. CASE g = "true"
    BY <2>1, BasicStreams DEF Decides, GoalHolds
  <2>2. CASE g = "false"
    BY <1>0, <2>2, BasicStreams DEF Decides, GoalHolds
  <2>3. CASE g = "error"
    BY <1>0, <2>3, BasicStreams DEF Decides, GoalHolds
  <2>4. CASE g \in Atom
    <3>1. s = streams[g] /\ (v <=> g \in H)
      BY <1>0, <2>4 DEF GoalHolds
    <3>2. Decides(streams[g], g \in H)
      BY <2>4 DEF DecidesAtoms
    <3> HIDE DEF s, v
    <3>3. QED
      BY <3>1, <3>2 DEF Decides
  <2>5. QED
    BY <1>0, <2>1, <2>2, <2>3, <2>4
<1>2. ProveLiteral(l, b, streams) = IF l.neg THEN Negated(l.goal, s) ELSE s
  BY <1>g DEF ProveLiteral
<1> HIDE DEF s, v
<1>4. CASE ~l.neg
  <2>1. l.neg = FALSE
    BY <1>0, <1>4
  <2>2. ProveLiteral(l, b, streams) = s /\ (LitHolds(l, b, H) <=> v)
    <3>1. LitHolds(l, b, H) <=> v
      BY <1>g, <2>1 DEF GoalHolds, LitHolds, v
    <3>2. QED
      BY <1>2, <2>1, <3>1
  <2>3. QED
    BY <1>1, <2>2 DEF Decides
<1>5. CASE l.neg
  <2>1. l.neg = TRUE
    BY <1>0, <1>5
  <2>2. ProveLiteral(l, b, streams) = Negated(l.goal, s) /\ (LitHolds(l, b, H) <=> ~v)
    <3>1. LitHolds(l, b, H) <=> ~v
      BY <1>g, <2>1 DEF GoalHolds, LitHolds, v
    <3>2. QED
      BY <1>2, <2>1, <3>1
  <2>3. CASE s.proofs # <<>>
    <3>1. Negated(l.goal, s) = Fail /\ v
      BY <1>1, <2>3 DEF Negated, Decides
    <3>2. QED
      BY <2>2, <3>1, BasicStreams DEF Decides
  <2>4. CASE s.proofs = <<>> /\ s.raised
    <3>1. Negated(l.goal, s) = Raise
      BY <2>4 DEF Negated
    <3>2. QED
      BY <2>2, <3>1, BasicStreams DEF Decides
  <2>5. CASE s.proofs = <<>> /\ ~s.raised
    <3>1. Negated(l.goal, s) = Yield(<<NegNode(l.goal)>>) /\ ~v
      BY <1>1, <2>5 DEF Negated, Decides
    <3>2. QED
      BY <2>2, <3>1, BasicStreams DEF Decides
  <2>6. QED
    BY <2>3, <2>4, <2>5
<1>6. QED
  BY <1>4, <1>5

LEMMA GoalsDecided ==
  ASSUME NEW goals \in Seq(Literal), NEW b \in Backend, NEW streams, NEW H, DecidesAtoms(streams, H)
  PROVE  Decides(ProveGoals(goals, b, streams), \A i \in DOMAIN goals : LitHolds(goals[i], b, H))
<1> DEFINE m == Len(goals)
           Rest(n) == \A i \in 1..m : m - n < i => LitHolds(goals[i], b, H)
<1>0. m \in Nat /\ DOMAIN goals = 1..m /\ \A i \in 1..m : goals[i] \in Literal
  BY SeqsOf
<1>1. PICK f : NestsGoals(f, goals, b, streams)
  BY GoalsSteps
<1> DEFINE Done(n) == Decides(f[n], Rest(n))
           S == {n \in Nat : n <= m => Done(n)}
<1> HIDE DEF Done, m
<1>2. 0 \in S
  <2>1. Rest(0)
    BY <1>0
  <2> HIDE DEF Rest
  <2>2. Decides(f[0], Rest(0))
    BY <1>1, <2>1, BasicStreams DEF Decides, NestsGoals
  <2>3. Done(0)
    BY <2>2 DEF Done
  <2>4. QED
    BY <2>3
<1>3. ASSUME NEW n \in Nat, n \in S PROVE n + 1 \in S
  <2> SUFFICES ASSUME n + 1 <= m PROVE Done(n + 1)
    OBVIOUS
  <2>1. m - n \in 1..m /\ n + 1 \in 1..m /\ m + 1 - (n + 1) = m - n /\ (n + 1) - 1 = n
    <3>1. m \in Nat
      BY <1>0
    <3>2. QED
      BY <3>1
  <2> HIDE DEF Rest
  <2>2. Decides(f[n], Rest(n))
    <3>1. n <= m
      BY <1>0
    <3>2. QED
      BY <1>3, <3>1 DEF Done
  <2> DEFINE first == ProveLiteral(goals[m - n], b, streams)
  <2>3. Decides(first, LitHolds(goals[m - n], b, H))
    BY <1>0, <2>1, LiteralDecided
  <2>4. Rest(n + 1) <=> Rest(n) /\ LitHolds(goals[m - n], b, H)
    <3>0. m \in Nat
      BY <1>0
    <3>1. \A i \in 1..m : m - (n + 1) < i <=> (m - n < i \/ i = m - n)
      BY <3>0
    <3>2. QED
      BY <2>1, <3>1 DEF Rest
  <2>5. f[n + 1] = IF n = 0 THEN first ELSE Both(first, f[n])
    <3>1. n + 1 = 1 <=> n = 0
      OBVIOUS
    <3>2. QED
      BY <1>1, <2>1, <3>1 DEF m, NestsGoals
  <2>6. CASE n = 0
    <3>1. Rest(n)
      BY <1>0, <2>6 DEF Rest
    <3> HIDE DEF first
    <3>2. QED
      BY <2>3, <2>4, <2>5, <2>6, <3>1 DEF Decides, Done
  <2>7. CASE n # 0
    <3> HIDE DEF first
    <3>1. f[n + 1] = Both(first, f[n]) /\ IsStream(first) /\ IsStream(f[n])
      BY <2>2, <2>3, <2>5, <2>7 DEF Decides
    <3>2. /\ IsStream(f[n + 1])
          /\ f[n + 1].proofs # <<>> <=> first.proofs # <<>> /\ f[n].proofs # <<>>
          /\ f[n + 1].raised <=> first.raised \/ (first.proofs # <<>> /\ f[n].raised)
      BY <3>1, BothIs
    <3>3. QED
      BY <2>2, <2>3, <2>4, <3>2 DEF Decides, Done
  <2>8. QED
    BY <2>6, <2>7
<1>4. m \in S
  <2> HIDE DEF S
  <2> QED BY <1>0, <1>2, <1>3, NatInd
<1>5. Rest(m) <=> \A i \in DOMAIN goals : LitHolds(goals[i], b, H)
  BY <1>0
<1> HIDE DEF Rest, m
<1>6. QED
  BY <1>0, <1>1, <1>4, <1>5 DEF Decides, Done, m, NestsGoals

----------------------------------------------------------------------------
(* The clauses of an atom.                                                 *)

LEMMA FactIs ==
  ASSUME NEW c \in Clause, NEW b \in Backend
  PROVE  FactClause(c, b) <=> c.body = <<>> \/ (c.id = NoId /\ c.body = TrueBody)
<1>1. c.body \in Seq(Literal) /\ (c.body = <<>> => c.id = NoId) /\ (b = "native" \/ b = "prolog")
  BY DEF Clause, Backend
<1>2. CASE b = "native"
  BY <1>2 DEF FactClause, ProvesAsFact
<1>3. CASE b = "prolog" /\ c.id = NoId
  BY <1>3 DEF FactClause, TranslatedBody
<1>4. CASE b = "prolog" /\ c.id # NoId
  <2> DEFINE marker == [neg |-> FALSE, goal |-> "marker"]
             t == <<marker>> \o c.body
  <2>1. Len(t) = Len(c.body) + 1 /\ t[1] = marker /\ Len(c.body) \in Nat
    BY <1>1
  <2>2. t # <<>>
    BY <2>1
  <2>3. t # TrueBody
    <3>1. TrueBody[1].goal = "true" /\ marker.goal = "marker"
      BY DEF TrueBody
    <3>2. QED
      BY <2>1, <3>1
  <2>4. ~FactClause(c, b)
    BY <1>4, <2>2, <2>3 DEF FactClause, TranslatedBody
  <2>5. QED
    BY <1>1, <1>4, <2>4
<1>5. QED
  BY <1>1, <1>2, <1>3, <1>4

LEMMA Joined ==
  ASSUME NEW S, NEW s \in Seq(S), NEW t \in Seq(S)
  PROVE  /\ Len(s \o t) = Len(s) + Len(t)
         /\ \A i \in 1..Len(s) : (s \o t)[i] = s[i]
         /\ \A i \in 1..Len(t) : (s \o t)[Len(s) + i] = t[i]
OBVIOUS

LEMMA InsertedAt ==
  ASSUME NEW S, NEW s \in Seq(S), NEW k \in 1..(Len(s) + 1), NEW c \in S
  PROVE  /\ InsertAt(s, k, c) \in Seq(S) /\ Len(InsertAt(s, k, c)) = Len(s) + 1
         /\ \A i \in 1..(Len(s) + 1) :
              InsertAt(s, k, c)[i] = IF i < k THEN s[i] ELSE IF i = k THEN c ELSE s[i - 1]
<1>1. Len(s) \in Nat /\ k \in Nat
  OBVIOUS
<1>2. PICK u : u = SubSeq(s, 1, k - 1)
  OBVIOUS
<1>3. PICK v : v = SubSeq(s, k, Len(s))
  OBVIOUS
<1>4. u \in Seq(S) /\ Len(u) = k - 1 /\ \A i \in 1..(k - 1) : u[i] = s[i]
  BY <1>1, <1>2
<1>5. v \in Seq(S) /\ Len(v) = Len(s) + 1 - k /\ \A i \in 1..(Len(s) + 1 - k) : v[i] = s[k + i - 1]
  BY <1>1, <1>3
<1>6. InsertAt(s, k, c) = (u \o <<c>>) \o v
  BY <1>2, <1>3 DEF InsertAt
<1>7. PICK w \in Seq(S) : w = u \o <<c>>
  <2>1. <<c>> \in Seq(S)
    OBVIOUS
  <2>2. u \o <<c>> \in Seq(S)
    BY <1>4, <2>1
  <2>3. QED
    BY <2>2
<1>8. Len(w) = k /\ w[k] = c /\ \A i \in 1..(k - 1) : w[i] = s[i]
  BY <1>1, <1>4, <1>7
<1>9. PICK r \in Seq(S) : r = w \o v
  <2>1. w \o v \in Seq(S)
    BY <1>5
  <2>2. QED
    BY <2>1
<1>10. /\ Len(r) = Len(s) + 1
       /\ \A i \in 1..k : r[i] = w[i]
       /\ \A i \in 1..(Len(s) + 1 - k) : r[k + i] = v[i]
  <2>2. /\ Len(r) = Len(w) + Len(v)
        /\ \A i \in 1..Len(w) : r[i] = w[i]
        /\ \A i \in 1..Len(v) : r[Len(w) + i] = v[i]
    <3>1. v \in Seq(S)
      BY <1>5
    <3>2. /\ Len(w \o v) = Len(w) + Len(v)
          /\ \A i \in 1..Len(w) : (w \o v)[i] = w[i]
          /\ \A i \in 1..Len(v) : (w \o v)[Len(w) + i] = v[i]
      BY <3>1, Joined
    <3>3. r = w \o v
      BY <1>9
    <3>4. QED
      BY <3>2, <3>3, Zenon
  <2>3. QED
    BY <1>1, <1>5, <1>8, <2>2
<1>11. ASSUME NEW i \in 1..(Len(s) + 1)
       PROVE  r[i] = IF i < k THEN s[i] ELSE IF i = k THEN c ELSE s[i - 1]
  <2>1. CASE i < k
    <3>1. i \in 1..k /\ i \in 1..(k - 1)
      BY <1>1, <2>1
    <3>2. QED
      BY <1>8, <1>10, <2>1, <3>1
  <2>2. CASE i = k
    BY <1>1, <1>8, <1>10, <2>2
  <2>3. CASE i > k
    <3>1. PICK h \in 1..(Len(s) + 1 - k) : k + h = i
      <4>1. i - k \in 1..(Len(s) + 1 - k) /\ k + (i - k) = i
        BY <1>1, <2>3
      <4>2. QED
        BY <4>1
    <3>2. r[k + h] = v[h] /\ v[h] = s[k + h - 1]
      BY <1>5, <1>10
    <3>3. r[i] = s[i - 1]
      BY <3>1, <3>2
    <3>4. QED
      BY <1>1, <2>3, <3>3
  <2>4. QED
    BY <1>1, <2>1, <2>2, <2>3
<1>12. QED
  BY <1>6, <1>7, <1>9, <1>10, <1>11

LEMMA PlacedAt ==
  ASSUME NEW s \in Seq(Clause), NEW c \in Clause, NEW b
  PROVE  \E k \in 1..(Len(s) + 1) : Placed(s, c, b) = InsertAt(s, k, c)
<1> DEFINE P == {i \in DOMAIN s : Precedes(s[i], c, b)}
<1>1. Len(s) \in Nat /\ DOMAIN s = 1..Len(s)
  OBVIOUS
<1>2. IsFiniteSet(1..Len(s)) /\ Cardinality(1..Len(s)) = Len(s)
  <2>1. Len(s) \in Int /\ 1 \in Int
    BY <1>1
  <2>2. IsFiniteSet(1..Len(s))
        /\ Cardinality(1..Len(s)) = IF 1 > Len(s) THEN 0 ELSE Len(s) - 1 + 1
    BY <2>1, FS_Interval
  <2>3. QED
    BY <1>1, <2>2
<1>3. P \subseteq 1..Len(s)
  BY <1>1
<1> HIDE DEF P
<1>4. IsFiniteSet(P) /\ Cardinality(P) <= Len(s)
  BY <1>2, <1>3, FS_Subset
<1>5. Cardinality(P) \in Nat
  BY <1>4, FS_CardinalityType
<1>6. Cardinality(P) + 1 \in 1..(Len(s) + 1)
  BY <1>1, <1>4, <1>5
<1>7. QED
  BY <1>6 DEF Placed, P

\* cs are the clauses of kb whose head is a.
HasClausesOf(cs, kb, a) ==
  \A c : (\E i \in DOMAIN cs : cs[i] = c) <=> (\E i \in DOMAIN kb : kb[i] = c /\ c.head = a)

LEMMA CandidatesAre ==
  ASSUME NEW kb \in Seq(Clause), NEW b, NEW a
  PROVE  Candidates(kb, b, a) \in Seq(Clause) /\ HasClausesOf(Candidates(kb, b, a), kb, a)
<1> DEFINE m == Len(kb)
<1>0. m \in Nat /\ DOMAIN kb = 1..m /\ \A i \in 1..m : kb[i] \in Clause
  BY SeqsOf
<1>1. PICK f : /\ f[0] = <<>> /\ f[Len(kb)] = Candidates(kb, b, a)
               /\ \A i \in 1..Len(kb) :
                    f[i] = IF kb[i].head = a THEN Placed(f[i - 1], kb[i], b) ELSE f[i - 1]
  BY CandidatesSteps
<1> DEFINE Has(s, c) == \E i \in DOMAIN s : s[i] = c
           Done(n) == /\ f[n] \in Seq(Clause)
                      /\ \A c : Has(f[n], c) <=> \E i \in 1..n : kb[i] = c /\ c.head = a
           S == {n \in Nat : n <= m => Done(n)}
<1> HIDE DEF m, Done
<1>2. 0 \in S
  <2>1. f[0] \in Seq(Clause) /\ DOMAIN f[0] = {} /\ 1..0 = {}
    BY <1>1
  <2>2. Done(0)
    BY <2>1 DEF Done
  <2>3. QED
    BY <2>2
<1>3. ASSUME NEW n \in Nat, n \in S PROVE n + 1 \in S
  <2> SUFFICES ASSUME n + 1 <= m PROVE Done(n + 1)
    OBVIOUS
  <2>1. n + 1 \in 1..m /\ (n + 1) - 1 = n /\ n <= m /\ \A i \in 1..(n + 1) : i \in 1..n \/ i = n + 1
    <3>1. m \in Nat
      BY <1>0
    <3>2. QED
      BY <3>1
  <2>2. Done(n)
    BY <1>3, <2>1
  <2>3. PICK c : c = kb[n + 1]
    OBVIOUS
  <2>4. c \in Clause /\ f[n] \in Seq(Clause)
    BY <1>0, <2>1, <2>2, <2>3 DEF Done
  <2>5. CASE c.head # a
    <3>1. f[n + 1] = f[n]
      BY <1>1, <2>1, <2>3, <2>5 DEF m
    <3>2. \A e : (\E i \in 1..(n + 1) : kb[i] = e /\ e.head = a)
                   <=> (\E i \in 1..n : kb[i] = e /\ e.head = a)
      BY <2>1, <2>3, <2>5
    <3>3. QED
      BY <2>2, <3>1, <3>2 DEF Done
  <2>6. CASE c.head = a
    <3>1. PICK k \in 1..(Len(f[n]) + 1) : f[n + 1] = InsertAt(f[n], k, c)
      <4>1. f[n + 1] = Placed(f[n], c, b)
        BY <1>1, <2>1, <2>3, <2>6 DEF m
      <4>2. QED
        BY <2>4, <4>1, PlacedAt
    <3>2. /\ f[n + 1] \in Seq(Clause) /\ Len(f[n + 1]) = Len(f[n]) + 1
          /\ \A i \in 1..(Len(f[n]) + 1) :
               f[n + 1][i] = IF i < k THEN f[n][i] ELSE IF i = k THEN c ELSE f[n][i - 1]
      <4>1. PICK s \in Seq(Clause) : s = f[n]
        BY <2>4
      <4>2. k \in 1..(Len(s) + 1) /\ f[n + 1] = InsertAt(s, k, c)
        BY <3>1, <4>1
      <4>3. /\ InsertAt(s, k, c) \in Seq(Clause) /\ Len(InsertAt(s, k, c)) = Len(s) + 1
            /\ \A i \in 1..(Len(s) + 1) :
                 InsertAt(s, k, c)[i] = IF i < k THEN s[i] ELSE IF i = k THEN c ELSE s[i - 1]
        BY <2>4, <4>2, InsertedAt
      <4>4. QED
        BY <4>1, <4>2, <4>3
    <3>3. PICK l \in Nat : l = Len(f[n])
      BY <2>4
    <3>4. DOMAIN f[n] = 1..l /\ DOMAIN f[n + 1] = 1..(l + 1) /\ k \in 1..(l + 1)
      BY <2>4, <3>2, <3>3
    <3>5. \A e : Has(f[n + 1], e) <=> Has(f[n], e) \/ e = c
      <4> TAKE e
      <4>1. ASSUME NEW i \in 1..l PROVE \E h \in 1..(l + 1) : f[n + 1][h] = f[n][i]
        <5>1. i < k => i \in 1..(l + 1) /\ f[n + 1][i] = f[n][i]
          BY <3>2, <3>3
        <5>2. i >= k => i + 1 \in 1..(l + 1) /\ f[n + 1][i + 1] = f[n][i]
          <6>1. i >= k => i + 1 \in 1..(l + 1) /\ ~(i + 1 < k) /\ i + 1 # k /\ (i + 1) - 1 = i
            BY <3>4
          <6>2. QED
            BY <3>2, <3>3, <6>1
        <5>3. QED
          BY <3>4, <5>1, <5>2
      <4>2. f[n + 1][k] = c
        BY <3>2, <3>3, <3>4
      <4>3. ASSUME NEW i \in 1..(l + 1), i # k PROVE \E h \in 1..l : f[n + 1][i] = f[n][h]
        <5>1. i < k => i \in 1..l /\ f[n + 1][i] = f[n][i]
          BY <3>2, <3>3, <3>4
        <5>2. i > k => i - 1 \in 1..l /\ f[n + 1][i] = f[n][i - 1]
          BY <3>2, <3>3, <3>4
        <5>3. QED
          BY <3>4, <4>3, <5>1, <5>2
      <4>4. Has(f[n], e) \/ e = c => Has(f[n + 1], e)
        BY <3>4, <4>1, <4>2
      <4>5. Has(f[n + 1], e) => Has(f[n], e) \/ e = c
        <5>1. ASSUME NEW i \in 1..(l + 1), f[n + 1][i] = e PROVE e = c \/ \E h \in 1..l : f[n][h] = e
          BY <4>2, <4>3, <5>1
        <5>2. QED
          BY <3>4, <5>1
      <4>6. QED
        BY <4>4, <4>5
    <3>6. \A e : (\E i \in 1..(n + 1) : kb[i] = e /\ e.head = a)
                   <=> (\E i \in 1..n : kb[i] = e /\ e.head = a) \/ e = c
      BY <2>1, <2>3, <2>6
    <3> HIDE DEF Has
    <3>7. QED
      BY <2>2, <3>2, <3>5, <3>6 DEF Done
  <2>7. QED
    BY <2>5, <2>6
<1>4. m \in S
  <2> HIDE DEF S
  <2> QED BY <1>0, <1>2, <1>3, NatInd
<1>5. Done(m)
  BY <1>0, <1>4
<1>6. PICK r : r = Candidates(kb, b, a)
  OBVIOUS
<1>7. r \in Seq(Clause) /\ \A c : Has(r, c) <=> \E i \in 1..m : kb[i] = c /\ c.head = a
  <2> HIDE DEF Has
  <2> QED BY <1>1, <1>5, <1>6 DEF Done, m
<1>8. QED
  BY <1>0, <1>6, <1>7 DEF HasClausesOf

----------------------------------------------------------------------------
(* A clause gives its atom, d levels above the atoms in H.                 *)

Gives(c, b, d, H) ==
  \/ c.body = <<>>
  \/ c.id = NoId /\ c.body = TrueBody
  \/ d > 0 /\ \A i \in DOMAIN c.body : LitHolds(c.body[i], b, H)

LEMMA GivenIs ==
  ASSUME NEW j, NEW d, NEW H, NEW a
  PROVE  a \in Given(j, d, H) <=> \E i \in DOMAIN j.kb : j.kb[i].head = a /\ Gives(j.kb[i], j.backend, d, H)
<1>1. \A goals : GoalsHold(goals, j.backend, LAMBDA g : g \in H)
                   <=> \A i \in DOMAIN goals : LitHolds(goals[i], j.backend, H)
  BY DEF GoalHolds, GoalsHold, LitHolds
<1>2. \A c : (\/ c.body = <<>>
              \/ c.id = NoId /\ c.body = <<[neg |-> FALSE, goal |-> "true"]>>
              \/ d > 0 /\ GoalsHold(c.body, j.backend, LAMBDA g : g \in H)) <=> Gives(c, j.backend, d, H)
  BY <1>1 DEF Gives, TrueBody
<1>3. Given(j, d, H) = {c.head : c \in {c \in Clauses(j) : Gives(c, j.backend, d, H)}}
  BY <1>2 DEF Given
<1>4. QED
  BY <1>3 DEF Clauses

LEMMA RelabelledStream ==
  ASSUME NEW s, NEW c, IsStream(s)
  PROVE  LET t == [s EXCEPT !.proofs = [i \in DOMAIN @ |-> RuleNode(c, @[i])]]
         IN  IsStream(t) /\ (t.proofs # <<>> <=> s.proofs # <<>>) /\ t.raised = s.raised
<1> DEFINE n == Len(s.proofs)
           p == [i \in 1..n |-> RuleNode(c, s.proofs[i])]
<1>1. PICK S : s.proofs \in Seq(S)
  BY DEF IsStream
<1>2. n \in Nat /\ DOMAIN s.proofs = 1..n /\ (s.proofs # <<>> <=> n > 0) /\ s.raised \in BOOLEAN
  BY <1>1, SeqsOf DEF IsStream
<1>3. [s EXCEPT !.proofs = [i \in DOMAIN @ |-> RuleNode(c, @[i])]] = [proofs |-> p, raised |-> s.raised]
  <2>1. [s EXCEPT !.proofs = [i \in DOMAIN @ |-> RuleNode(c, @[i])]] = [s EXCEPT !.proofs = p]
    BY <1>2
  <2>2. s = [proofs |-> s.proofs, raised |-> s.raised]
    BY DEF IsStream
  <2> HIDE DEF p
  <2>3. QED
    BY <2>1, <2>2
<1>4. DOMAIN p = 1..n /\ p = [i \in 1..n |-> p[i]]
  OBVIOUS
<1> HIDE DEF p
<1>5. p \in Seq({p[i] : i \in 1..n}) /\ (p # <<>> <=> n > 0)
  BY <1>2, <1>4, FunctionIsSeq
<1>6. IsStream([proofs |-> p, raised |-> s.raised])
  BY <1>2, <1>5, StreamOf
<1>7. QED
  BY <1>2, <1>3, <1>5, <1>6

LEMMA ClauseDecided ==
  ASSUME NEW c \in Clause, NEW b \in Backend, NEW d \in Nat, NEW below, NEW H,
         DecidesAtoms(below, H)
  PROVE  Decides(ProveClause(c, b, d, below), Gives(c, b, d, H))
<1>1. CASE FactClause(c, b)
  <2>1. Gives(c, b, d, H)
    BY <1>1, FactIs DEF Gives
  <2>2. ProveClause(c, b, d, below) = Yield(<<FactNode(c.head)>>)
    BY <1>1 DEF ProveClause
  <2>3. QED
    BY <2>1, <2>2, BasicStreams DEF Decides
<1>2. CASE ~FactClause(c, b) /\ ~(d > 0)
  <2>1. ~Gives(c, b, d, H)
    BY <1>2, FactIs DEF Gives
  <2>2. ProveClause(c, b, d, below) = Fail
    BY <1>2 DEF ProveClause, DepthLeft
  <2>3. QED
    BY <2>1, <2>2, BasicStreams DEF Decides
<1>3. CASE ~FactClause(c, b) /\ d > 0
  <2>1. PICK s : s = ProveGoals(c.body, b, below)
    OBVIOUS
  <2>2. Gives(c, b, d, H) <=> \A i \in DOMAIN c.body : LitHolds(c.body[i], b, H)
    BY <1>3, FactIs DEF Gives
  <2>3. PICK body \in Seq(Literal) : body = c.body
    BY DEF Clause
  <2>4. Decides(s, Gives(c, b, d, H))
    <3>1. Decides(ProveGoals(body, b, below), \A i \in DOMAIN body : LitHolds(body[i], b, H))
      BY GoalsDecided
    <3>2. QED
      BY <2>1, <2>2, <2>3, <3>1 DEF Decides
  <2>5. PICK t : t = [s EXCEPT !.proofs = [i \in DOMAIN @ |-> RuleNode(c, @[i])]]
    OBVIOUS
  <2>6. ProveClause(c, b, d, below) = t
    BY <1>3, <2>1, <2>5 DEF ProveClause, DepthLeft
  <2>7. IsStream(t) /\ (t.proofs # <<>> <=> s.proofs # <<>>) /\ t.raised = s.raised
    <3>1. IsStream(s)
      BY <2>4 DEF Decides
    <3>2. QED
      BY <2>5, <3>1, RelabelledStream
  <2>8. QED
    BY <2>4, <2>6, <2>7 DEF Decides
<1>4. QED
  BY <1>1, <1>2, <1>3

LEMMA AtomDecided ==
  ASSUME NEW j, j.kb \in Seq(Clause), NEW b \in Backend, b = j.backend, NEW d \in Nat,
         NEW below, NEW H, DecidesAtoms(below, H), NEW a
  PROVE  Decides(ProveAtom(j.kb, b, d, below, a), a \in Given(j, d, H))
<1>1. PICK cs : cs = Candidates(j.kb, b, a)
  OBVIOUS
<1>2. cs \in Seq(Clause) /\ HasClausesOf(cs, j.kb, a)
  <2>1. PICK kb : kb = j.kb
    OBVIOUS
  <2>0. kb \in Seq(Clause)
    BY <2>1
  <2>2. Candidates(kb, b, a) \in Seq(Clause) /\ HasClausesOf(Candidates(kb, b, a), kb, a)
    BY <2>0, CandidatesAre
  <2>3. QED
    BY <1>1, <2>1, <2>2
<1> DEFINE m == Len(cs)
<1>3. m \in Nat /\ DOMAIN cs = 1..m /\ \A i \in 1..m : cs[i] \in Clause
  BY <1>2, SeqsOf
<1>4. PICK f : /\ f[0] = Fail /\ f[Len(cs)] = ProveAtom(j.kb, b, d, below, a)
               /\ \A i \in 1..Len(cs) : f[i] = Then(f[i - 1], ProveClause(cs[i], b, d, below))
  <2>1. PICK kb : kb = j.kb
    OBVIOUS
  <2>2. cs \in Seq(Clause) /\ cs = Candidates(kb, b, a)
    BY <1>1, <1>2, <2>1
  <2>3. QED
    BY <2>1, <2>2, AtomSteps
<1> DEFINE Some(n) == \E i \in 1..n : Gives(cs[i], b, d, H)
           Done(n) == Decides(f[n], Some(n))
           S == {n \in Nat : n <= m => Done(n)}
<1> HIDE DEF m, Done
<1>5. 0 \in S
  <2>1. ~Some(0)
    OBVIOUS
  <2> HIDE DEF Some
  <2>2. Done(0)
    BY <1>4, <2>1, BasicStreams DEF Decides, Done
  <2>3. QED
    BY <2>2
<1>6. ASSUME NEW n \in Nat, n \in S PROVE n + 1 \in S
  <2> SUFFICES ASSUME n + 1 <= m PROVE Done(n + 1)
    OBVIOUS
  <2>1. n + 1 \in 1..m /\ (n + 1) - 1 = n /\ n <= m
    <3>1. m \in Nat
      BY <1>3
    <3>2. QED
      BY <3>1
  <2>2. PICK t : t = ProveClause(cs[n + 1], b, d, below)
    OBVIOUS
  <2>3. Decides(t, Gives(cs[n + 1], b, d, H))
    <3>1. PICK c \in Clause : c = cs[n + 1]
      BY <1>3, <2>1
    <3>2. Decides(ProveClause(c, b, d, below), Gives(c, b, d, H))
      BY ClauseDecided
    <3>3. QED
      BY <2>2, <3>1, <3>2
  <2>4. Some(n + 1) <=> Some(n) \/ Gives(cs[n + 1], b, d, H)
    <3>1. \A i : i \in 1..(n + 1) <=> i \in 1..n \/ i = n + 1
      OBVIOUS
    <3>2. QED
      BY <3>1
  <2> HIDE DEF Some
  <2>5. Decides(f[n], Some(n))
    BY <1>6, <2>1 DEF Done
  <2>6. f[n + 1] = Then(f[n], t)
    BY <1>4, <2>1, <2>2 DEF m
  <2>7. /\ IsStream(f[n + 1])
        /\ f[n + 1].raised <=> f[n].raised \/ t.raised
        /\ f[n + 1].proofs # <<>> <=> f[n].proofs # <<>> \/ (~f[n].raised /\ t.proofs # <<>>)
    BY <2>3, <2>5, <2>6, ThenIs DEF Decides
  <2>8. QED
    BY <2>3, <2>4, <2>5, <2>7 DEF Decides, Done
<1>7. Done(m)
  <2> HIDE DEF S
  <2>1. m \in S
    BY <1>3, <1>5, <1>6, NatInd
  <2>2. QED
    BY <1>3, <2>1 DEF S
<1>8. Some(m) <=> a \in Given(j, d, H)
  <2>1. Some(m) <=> \E c : (\E i \in DOMAIN cs : cs[i] = c) /\ Gives(c, b, d, H)
    BY <1>3
  <2>2. (\E i \in DOMAIN j.kb : j.kb[i].head = a /\ Gives(j.kb[i], b, d, H))
          <=> \E c : (\E i \in DOMAIN j.kb : j.kb[i] = c /\ c.head = a) /\ Gives(c, b, d, H)
    OBVIOUS
  <2> HIDE DEF Some
  <2>3. (\E c : (\E i \in DOMAIN cs : cs[i] = c) /\ Gives(c, b, d, H))
          <=> \E c : (\E i \in DOMAIN j.kb : j.kb[i] = c /\ c.head = a) /\ Gives(c, b, d, H)
    BY <1>2 DEF HasClausesOf
  <2>4. a \in Given(j, d, H) <=> \E i \in DOMAIN j.kb : j.kb[i].head = a /\ Gives(j.kb[i], b, d, H)
    BY GivenIs
  <2>5. QED
    BY <2>1, <2>2, <2>3, <2>4
<1> HIDE DEF Some
<1>9. QED
  BY <1>4, <1>7, <1>8 DEF Decides, Done, m

LEMMA StreamsDecided ==
  ASSUME NEW j, IsJob(j), NEW b \in Backend, b = j.backend
  PROVE  DecidesAtoms(Streams(j.kb, b, j.depth), Consequences(j))
<1>0. j.depth \in Nat /\ j.kb \in Seq(Clause)
  BY DEF IsJob
<1>1. PICK f : /\ f[j.depth + 1] = Streams(j.kb, b, j.depth)
               /\ \A a \in Atom : f[0][a] = Fail
               /\ \A n \in 1..(j.depth + 1), a \in Atom :
                    f[n][a] = ProveAtom(j.kb, b, n - 1, f[n - 1], a)
  <2>1. PICK depth \in Nat : depth = j.depth
    BY <1>0
  <2> PICK kb : kb = j.kb
    OBVIOUS
  <2>2. QED
    BY <2>1, LevelSteps
<1>2. PICK g : /\ g[0] = {} /\ g[j.depth + 1] = Consequences(j)
               /\ \A n \in 1..(j.depth + 1) : g[n] = Given(j, n - 1, g[n - 1])
  BY <1>0, WithinSteps
<1> DEFINE Done(n) == DecidesAtoms(f[n], g[n])
           S == {n \in Nat : n <= j.depth + 1 => Done(n)}
<1> HIDE DEF Done
<1>3. 0 \in S
  <2>1. Done(0)
    BY <1>1, <1>2, BasicStreams DEF DecidesAtoms, Decides, Done
  <2>2. QED
    BY <2>1
<1>4. ASSUME NEW n \in Nat, n \in S PROVE n + 1 \in S
  <2> SUFFICES ASSUME n + 1 <= j.depth + 1 PROVE Done(n + 1)
    OBVIOUS
  <2>1. n + 1 \in 1..(j.depth + 1) /\ (n + 1) - 1 = n /\ n <= j.depth + 1
    BY <1>0
  <2>2. PICK below, H : below = f[n] /\ H = g[n]
    OBVIOUS
  <2>3. DecidesAtoms(below, H)
    BY <1>4, <2>1, <2>2 DEF Done
  <2>4. g[n + 1] = Given(j, n, H)
    BY <1>2, <2>1, <2>2
  <2>5. ASSUME NEW a \in Atom PROVE Decides(f[n + 1][a], a \in g[n + 1])
    <3>1. f[n + 1][a] = ProveAtom(j.kb, b, n, below, a)
      BY <1>1, <2>1, <2>2
    <3>2. Decides(ProveAtom(j.kb, b, n, below, a), a \in Given(j, n, H))
      BY <1>0, <2>3, AtomDecided
    <3>3. QED
      BY <2>4, <3>1, <3>2
  <2>6. QED
    BY <2>5 DEF DecidesAtoms, Done
<1>5. Done(j.depth + 1)
  <2> HIDE DEF S
  <2>1. j.depth + 1 \in S
    BY <1>0, <1>3, <1>4, NatInd
  <2>2. QED
    BY <1>0, <2>1 DEF S
<1>6. QED
  BY <1>1, <1>2, <1>5 DEF Done

\* The goals follow within the depth.
Follows(j) == GoalsHold(j.goals, j.backend, LAMBDA a : a \in Consequences(j))

\* The stream of a query decides whether its goals follow, where the backend
\* searches for the goals as they are.
LEMMA SearchDecided ==
  ASSUME NEW j, IsJob(j), ~Misread(j)
  PROVE  Decides(Search(j), Follows(j))
<1>1. PICK goals \in Seq(Literal) : goals = j.goals
  BY DEF IsJob
<1>2. QueryGoals(j) = goals
  <2>2. QueryGoals(j) = [i \in DOMAIN goals |-> goals[i]]
    BY <1>1 DEF QueryGoals
  <2>3. QED
    BY <2>2
<1>b. PICK b \in Backend : b = j.backend
  BY DEF IsJob
<1>3. PICK streams, H : streams = Streams(j.kb, b, j.depth) /\ H = Consequences(j)
  OBVIOUS
<1>4. DecidesAtoms(streams, H)
  BY <1>b, <1>3, StreamsDecided
<1>5. Decides(ProveGoals(goals, b, streams), \A i \in DOMAIN goals : LitHolds(goals[i], b, H))
  BY <1>4, GoalsDecided
<1>6. Search(j) = ProveGoals(goals, b, streams)
  BY <1>b, <1>2, <1>3 DEF Search
<1>7. Follows(j)
        <=> \A i \in DOMAIN goals : LitHolds(goals[i], b, H)
  BY <1>b, <1>1, <1>3 DEF Follows, GoalHolds, GoalsHold, LitHolds
<1>8. QED
  BY <1>5, <1>6, <1>7 DEF Decides

----------------------------------------------------------------------------
(* Consuming the generator.                                                *)

Least(m, n) == IF m < n THEN m ELSE n

\* k proofs of P have been taken from the stream, which may raise after them.
Taken(k, P, raised) ==
  /\ pending = [proofs |-> SubSeq(P, k + 1, Len(P)), raised |-> raised]
  /\ status # "error" => found = SubSeq(P, 1, Least(k, job.cap))
  /\ job.backend = "native" => k <= job.cap
  /\ job.backend = "native" /\ status = "searching" => k < job.cap
  /\ status = "ok" => \/ k = Len(P) /\ ~raised
                      \/ job.backend = "native" /\ k = job.cap

\* The solve has taken a number of proofs, or is of a query that raises before
\* the search starts.
Progress ==
  /\ job \in Jobs
  /\ status \in {"searching", "ok", "error"}
  /\ status = "error" => found = <<>>
  /\ \/ \E k \in 0..Len(Search(job).proofs) : Taken(k, Search(job).proofs, Search(job).raised)
     \/ pending = Raise /\ found = <<>> /\ status # "ok" /\ Misread(job)

LEMMA SearchIsStream ==
  ASSUME NEW j, IsJob(j)
  PROVE  IsStream(Search(j))
<1>1. PICK goals : goals = QueryGoals(j)
  OBVIOUS
<1>2. goals \in Seq(Literal)
  <2>1. PICK gs \in Seq(Literal) : gs = j.goals
    BY DEF IsJob
  <2>2. \A i \in DOMAIN gs : gs[i] \in Literal
    OBVIOUS
  <2>3. [neg |-> FALSE, goal |-> "false"] \in Literal
    BY DEF Literal
  <2>4. goals = [i \in 1..Len(gs) |-> IF Misread(j) /\ (gs[i].neg \/ Operates(gs))
                                      THEN [neg |-> FALSE, goal |-> "false"] ELSE gs[i]]
    BY <1>1, <2>1 DEF QueryGoals
  <2>5. QED
    BY <2>2, <2>3, <2>4
<1>b. PICK b \in Backend : b = j.backend
  BY DEF IsJob
<1>3. PICK streams : streams = Streams(j.kb, b, j.depth)
  OBVIOUS
<1>4. DecidesAtoms(streams, Consequences(j))
  BY <1>b, <1>3, StreamsDecided
<1>5. Decides(ProveGoals(goals, b, streams), \A i \in DOMAIN goals : LitHolds(goals[i], b, Consequences(j)))
  BY <1>2, <1>4, GoalsDecided
<1>6. QED
  BY <1>b, <1>1, <1>3, <1>5 DEF Search, Decides

LEMMA SearchOfJob ==
  ASSUME NEW j \in Jobs
  PROVE  /\ IsJob(j) /\ j.cap \in Nat \ {0} /\ j.backend \in Backend
         /\ Search(j) = [proofs |-> Search(j).proofs, raised |-> Search(j).raised]
         /\ Search(j).raised \in BOOLEAN
         /\ \E S : Search(j).proofs \in Seq(S)
<1>1. IsJob(j)
  BY InferenceAssumption
<1>2. IsStream(Search(j))
  BY <1>1, SearchIsStream
<1>3. QED
  BY <1>1, <1>2 DEF IsJob, IsStream

\* The stream after k proofs.
LEMMA AfterTaking ==
  ASSUME NEW S, NEW P \in Seq(S), NEW k \in 0..Len(P)
  PROVE  /\ SubSeq(P, k + 1, Len(P)) = <<>> <=> k = Len(P)
         /\ k < Len(P) => /\ Head(SubSeq(P, k + 1, Len(P))) = P[k + 1]
                          /\ Tail(SubSeq(P, k + 1, Len(P))) = SubSeq(P, (k + 1) + 1, Len(P))
                          /\ Append(SubSeq(P, 1, k), P[k + 1]) = SubSeq(P, 1, k + 1)
         /\ Len(SubSeq(P, 1, k)) = k
<1>1. Len(P) \in Nat /\ k \in Nat
  OBVIOUS
<1>2. PICK r : r = SubSeq(P, k + 1, Len(P))
  OBVIOUS
<1>3. /\ r \in Seq(S) /\ Len(r) = Len(P) - k
      /\ \A i \in 1..(Len(P) - k) : r[i] = P[k + i]
  BY <1>1, <1>2
<1>4. r = <<>> <=> k = Len(P)
  BY <1>1, <1>3
<1>5. ASSUME k < Len(P)
      PROVE  Head(r) = P[k + 1] /\ Tail(r) = SubSeq(P, (k + 1) + 1, Len(P))
  <2>1. 1 \in 1..(Len(P) - k) /\ r # <<>>
    BY <1>1, <1>3, <1>5
  <2>2. Head(r) = P[k + 1]
    BY <1>3, <2>1
  <2>3. PICK t : t = Tail(r)
    OBVIOUS
  <2>4. PICK u : u = SubSeq(P, (k + 1) + 1, Len(P))
    OBVIOUS
  <2>5. /\ t \in Seq(S) /\ Len(t) = Len(P) - k - 1
        /\ \A i \in 1..(Len(P) - k - 1) : t[i] = r[i + 1]
    BY <1>1, <1>3, <2>1, <2>3
  <2>6. /\ u \in Seq(S) /\ Len(u) = Len(P) - k - 1
        /\ \A i \in 1..(Len(P) - k - 1) : u[i] = P[(k + 1) + i]
    BY <1>1, <1>5, <2>4
  <2>7. ASSUME NEW i \in 1..(Len(P) - k - 1) PROVE t[i] = u[i]
    <3>1. i + 1 \in 1..(Len(P) - k) /\ k + (i + 1) = (k + 1) + i
      BY <1>1, <1>5
    <3>2. QED
      BY <1>3, <2>5, <2>6, <3>1
  <2>8. t = u
    BY <1>1, <1>5, <2>5, <2>6, <2>7
  <2>9. QED
    BY <2>2, <2>3, <2>4, <2>8
<1>6. ASSUME k < Len(P) PROVE Append(SubSeq(P, 1, k), P[k + 1]) = SubSeq(P, 1, k + 1)
  <2>1. PICK t : t = SubSeq(P, 1, k)
    OBVIOUS
  <2>2. PICK u : u = SubSeq(P, 1, k + 1)
    OBVIOUS
  <2>3. t \in Seq(S) /\ Len(t) = k /\ \A i \in 1..k : t[i] = P[i]
    BY <1>1, <2>1
  <2>4. u \in Seq(S) /\ Len(u) = k + 1 /\ \A i \in 1..(k + 1) : u[i] = P[i]
    BY <1>1, <1>6, <2>2
  <2>5. P[k + 1] \in S
    BY <1>1, <1>6
  <2>6. PICK v : v = Append(t, P[k + 1])
    OBVIOUS
  <2>7. /\ v \in Seq(S) /\ Len(v) = k + 1 /\ v[k + 1] = P[k + 1]
        /\ \A i \in 1..k : v[i] = t[i]
    BY <1>1, <2>3, <2>5, <2>6
  <2>8. \A i \in 1..(k + 1) : v[i] = u[i]
    <3>1. \A i \in 1..(k + 1) : i \in 1..k \/ i = k + 1
      BY <1>1
    <3>2. QED
      BY <1>1, <2>3, <2>4, <2>7, <3>1
  <2>9. v = u
    BY <1>1, <2>4, <2>7, <2>8
  <2>10. QED
    BY <2>1, <2>2, <2>6, <2>9
<1>7. Len(SubSeq(P, 1, k)) = k
  BY <1>1
<1>8. QED
  BY <1>2, <1>4, <1>5, <1>6, <1>7

LEMMA ProgressInit == Init => Progress
<1> SUFFICES ASSUME Init PROVE Progress
  OBVIOUS
<1>1. job \in Jobs /\ found = <<>> /\ status = "searching" /\ pending \in Searches(job)
  BY DEF Init
<1> PICK P : P = Search(job).proofs
  OBVIOUS
<1> PICK raised : raised = Search(job).raised
  OBVIOUS
<1>2. CASE pending = Search(job)
  <2>1. /\ job.cap \in Nat \ {0} /\ pending = [proofs |-> P, raised |-> raised]
        /\ \E S : P \in Seq(S)
    BY <1>1, <1>2, SearchOfJob
  <2>2. PICK S : P \in Seq(S)
    BY <2>1
  <2>3. 0 \in 0..Len(P) /\ SubSeq(P, 0 + 1, Len(P)) = P /\ SubSeq(P, 1, 0) = <<>>
    BY <2>2
  <2>4. Least(0, job.cap) = 0 /\ 0 < job.cap /\ 0 <= job.cap
    BY <2>1 DEF Least
  <2>5. Taken(0, P, raised)
    BY <1>1, <2>1, <2>3, <2>4 DEF Taken
  <2>6. QED
    BY <1>1, <2>3, <2>5 DEF Progress
<1>3. CASE pending # Search(job)
  BY <1>1, <1>3 DEF Searches, Progress
<1>4. QED
  BY <1>2, <1>3

LEMMA ProgressStep == Progress /\ [Next]_vars => Progress'
<1> SUFFICES ASSUME Progress, [Next]_vars PROVE Progress'
  OBVIOUS
<1> PICK P : P = Search(job).proofs
  OBVIOUS
<1> PICK raised : raised = Search(job).raised
  OBVIOUS
<1>1. job \in Jobs /\ job' = job
  BY DEF Progress, Next, Keep, Ignore, Exhaust, GiveUp, vars
<1>2. /\ job.cap \in Nat \ {0} /\ job.backend \in {"native", "prolog"} /\ raised \in BOOLEAN
      /\ \E S : P \in Seq(S)
  BY <1>1, SearchOfJob DEF Backend
<1>3. PICK S : P \in Seq(S)
  BY <1>2
<1>4. P = Search(job').proofs /\ raised = Search(job').raised
  BY <1>1
<1>5. Len(P) \in Nat
  BY <1>3
<1>6. CASE pending = Raise /\ found = <<>> /\ status # "ok" /\ Misread(job)
  <2>1. pending.proofs = <<>> /\ pending.raised
    BY <1>6 DEF Raise
  <2>2. pending' = pending /\ found' = <<>> /\ status' \in {"searching", "error"}
    BY <1>6, <2>1 DEF Progress, Next, Keep, Ignore, Exhaust, GiveUp, vars
  <2>3. QED
    BY <1>1, <1>6, <2>2 DEF Progress
<1>7. ASSUME NEW k \in 0..Len(P), Taken(k, P, raised) PROVE Progress'
  <2>1. pending.proofs = SubSeq(P, k + 1, Len(P)) /\ pending.raised = raised
        /\ pending = [proofs |-> pending.proofs, raised |-> raised]
    BY <1>7 DEF Taken
  <2>2. /\ pending.proofs = <<>> <=> k = Len(P)
        /\ k < Len(P) => /\ Head(pending.proofs) = P[k + 1]
                         /\ Tail(pending.proofs) = SubSeq(P, (k + 1) + 1, Len(P))
                         /\ Append(SubSeq(P, 1, k), P[k + 1]) = SubSeq(P, 1, k + 1)
        /\ Len(SubSeq(P, 1, k)) = k
    <3>1. /\ SubSeq(P, k + 1, Len(P)) = <<>> <=> k = Len(P)
          /\ k < Len(P) => /\ Head(SubSeq(P, k + 1, Len(P))) = P[k + 1]
                           /\ Tail(SubSeq(P, k + 1, Len(P))) = SubSeq(P, (k + 1) + 1, Len(P))
                           /\ Append(SubSeq(P, 1, k), P[k + 1]) = SubSeq(P, 1, k + 1)
          /\ Len(SubSeq(P, 1, k)) = k
      BY <1>3, AfterTaking
    <3>2. QED
      BY <2>1, <3>1
  <2>3. k \in Nat /\ k <= Len(P) /\ (k # Len(P) => k + 1 \in 0..Len(P))
    BY <1>5
  <2>4. status \in {"searching", "ok", "error"} /\ (status = "error" => found = <<>>)
    BY DEF Progress
  <2>5. ASSUME Keep PROVE Progress'
    <3>1. status = "searching" /\ pending.proofs # <<>> /\ ~Ignores(Len(found))
      BY <2>5 DEF Keep
    <3>2. found' = Append(found, Head(pending.proofs))
          /\ pending' = [pending EXCEPT !.proofs = Tail(@)]
          /\ status' = IF Stops(Len(found')) THEN "ok" ELSE "searching"
      BY <2>5 DEF Keep
    <3>3. k < Len(P) /\ k + 1 \in 0..Len(P)
      BY <1>5, <2>2, <2>3, <3>1
    <3>4. k < job.cap
      <4>1. CASE job.backend = "native"
        BY <1>7, <3>1, <4>1 DEF Taken
      <4>2. CASE job.backend = "prolog"
        <5>1. SUFFICES ASSUME ~(k < job.cap) PROVE FALSE
          OBVIOUS
        <5>2. found = SubSeq(P, 1, job.cap)
          BY <1>2, <1>7, <2>3, <3>1, <5>1 DEF Taken, Least
        <5>3. job.cap \in 0..Len(P)
          BY <1>2, <1>5, <2>3, <5>1
        <5>4. Len(found) = job.cap
          BY <1>3, <5>2, <5>3, AfterTaking
        <5>5. QED
          BY <1>2, <3>1, <4>2, <5>4 DEF Ignores
      <4>3. QED
        BY <1>2, <4>1, <4>2
    <3>5. found = SubSeq(P, 1, k) /\ Least(k, job.cap) = k /\ Least(k + 1, job.cap) = k + 1
      <4>1. Least(k, job.cap) = k /\ Least(k + 1, job.cap) = k + 1
        BY <1>2, <2>3, <3>4 DEF Least
      <4>2. QED
        BY <1>7, <3>1, <4>1 DEF Taken
    <3>6. found' = SubSeq(P, 1, k + 1) /\ Len(found') = k + 1
      <4>1. Len(SubSeq(P, 1, k + 1)) = k + 1
        BY <1>3, <3>3, AfterTaking
      <4>2. QED
        BY <2>2, <3>2, <3>3, <3>5, <4>1
    <3>7. pending' = [proofs |-> SubSeq(P, (k + 1) + 1, Len(P)), raised |-> raised]
      BY <2>1, <2>2, <3>2, <3>3
    <3>8. /\ status' \in {"searching", "ok"}
          /\ status' = "ok" => job.backend = "native" /\ k + 1 >= job.cap
          /\ job.backend = "native" /\ status' = "searching" => ~(k + 1 >= job.cap)
      BY <3>2, <3>6 DEF Stops
    <3>9. Taken(k + 1, P, raised)'
      <4>1. k + 1 <= job.cap /\ (k + 1 >= job.cap => k + 1 = job.cap)
            /\ (~(k + 1 >= job.cap) => k + 1 < job.cap)
        BY <1>2, <2>3, <3>4
      <4>2. QED
        BY <1>1, <3>5, <3>6, <3>7, <3>8, <4>1 DEF Taken
    <3>10. QED
      BY <1>1, <1>4, <3>3, <3>8, <3>9 DEF Progress
  <2>6. ASSUME Ignore PROVE Progress'
    <3>1. status = "searching" /\ pending.proofs # <<>> /\ Ignores(Len(found))
          /\ pending' = [pending EXCEPT !.proofs = Tail(@)] /\ found' = found /\ status' = status
      BY <2>6 DEF Ignore
    <3>2. k < Len(P) /\ k + 1 \in 0..Len(P) /\ job.backend = "prolog"
      BY <1>5, <2>2, <2>3, <3>1 DEF Ignores
    <3>3. k >= job.cap
      <4> SUFFICES ASSUME k < job.cap PROVE FALSE
        BY <1>2, <2>3
      <4>1. Least(k, job.cap) = k
        BY DEF Least
      <4>2. Len(found) = k
        BY <1>7, <2>2, <3>1, <4>1 DEF Taken
      <4>3. QED
        BY <1>2, <2>3, <3>1, <4>2 DEF Ignores
    <3>4. Least(k, job.cap) = job.cap /\ Least(k + 1, job.cap) = job.cap
      BY <1>2, <2>3, <3>3 DEF Least
    <3>5. pending' = [proofs |-> SubSeq(P, (k + 1) + 1, Len(P)), raised |-> raised]
      BY <2>1, <2>2, <3>1, <3>2
    <3>6. Taken(k + 1, P, raised)'
      BY <1>1, <1>7, <3>1, <3>2, <3>4, <3>5 DEF Taken
    <3>7. QED
      BY <1>1, <1>4, <2>4, <3>1, <3>2, <3>6 DEF Progress
  <2>7. ASSUME Exhaust PROVE Progress'
    <3>1. status = "searching" /\ pending.proofs = <<>> /\ pending' = pending
          /\ status' = (IF pending.raised THEN "error" ELSE "ok")
          /\ found' = (IF pending.raised THEN <<>> ELSE found)
      BY <2>7 DEF Exhaust
    <3>2. k = Len(P)
      BY <2>2, <3>1
    <3>3. CASE raised
      <4>1. status' = "error" /\ found' = <<>>
        BY <2>1, <3>1, <3>3
      <4>2. Taken(k, P, raised)'
        BY <1>1, <1>7, <3>1, <4>1 DEF Taken
      <4>3. QED
        BY <1>1, <1>4, <4>1, <4>2 DEF Progress
    <3>4. CASE ~raised
      <4>1. status' = "ok" /\ found' = found
        BY <2>1, <3>1, <3>4
      <4>2. Taken(k, P, raised)'
        BY <1>1, <1>7, <3>1, <3>2, <3>4, <4>1 DEF Taken
      <4>3. QED
        BY <1>1, <1>4, <4>1, <4>2 DEF Progress
    <3>5. QED
      BY <3>3, <3>4
  <2>8. ASSUME GiveUp PROVE Progress'
    <3>1. status' = "error" /\ found' = <<>> /\ pending' = pending /\ status = "searching"
      BY <2>8 DEF GiveUp
    <3>2. Taken(k, P, raised)'
      BY <1>1, <1>7, <3>1 DEF Taken
    <3>3. QED
      BY <1>1, <1>4, <3>1, <3>2 DEF Progress
  <2>9. ASSUME UNCHANGED vars PROVE Progress'
    <3>1. pending' = pending /\ found' = found /\ status' = status
      BY <2>9 DEF vars
    <3>2. Taken(k, P, raised)'
      BY <1>1, <1>7, <3>1 DEF Taken
    <3>3. QED
      BY <1>1, <1>4, <2>4, <3>1, <3>2 DEF Progress
  <2>10. QED
    BY <2>5, <2>6, <2>7, <2>8, <2>9 DEF Next
<1>8. QED
  BY <1>6, <1>7 DEF Progress

\* A solve that ends well has the first cap proofs of the stream of its query,
\* or all of them when the stream does not raise; and the stream raises after
\* a proof if it raises at all.
LEMMA WellEnded ==
  ASSUME Progress, status = "ok"
  PROVE  /\ job \in Jobs
         /\ found = SubSeq(Search(job).proofs, 1, Least(Len(Search(job).proofs), job.cap))
         /\ Search(job).raised => Search(job).proofs # <<>>
         /\ found # <<>> <=> Search(job).proofs # <<>>
<1>1. job \in Jobs
  BY DEF Progress
<1>2. PICK P : P = Search(job).proofs
  OBVIOUS
<1>3. job.cap \in Nat \ {0} /\ \E S : P \in Seq(S)
  BY <1>1, <1>2, SearchOfJob
<1>4. PICK S : P \in Seq(S)
  BY <1>3
<1>5. PICK k \in 0..Len(P) : Taken(k, P, Search(job).raised)
  BY <1>2 DEF Progress
<1>6. Len(P) \in Nat /\ k \in Nat /\ k <= Len(P)
  BY <1>4
<1>7. found = SubSeq(P, 1, Least(k, job.cap))
      /\ ((k = Len(P) /\ ~Search(job).raised) \/ k = job.cap)
  BY <1>5 DEF Taken
<1>8. Least(k, job.cap) = Least(Len(P), job.cap)
  BY <1>3, <1>6, <1>7 DEF Least
<1>9. PICK n \in Nat : n = Least(Len(P), job.cap) /\ n <= Len(P) /\ (n > 0 <=> Len(P) > 0)
  <2>1. Least(Len(P), job.cap) \in {Len(P), job.cap} /\ Least(Len(P), job.cap) <= Len(P)
    BY <1>3, <1>6 DEF Least
  <2>2. QED
    BY <1>3, <1>6, <2>1
<1>10. found = SubSeq(P, 1, n)
  BY <1>7, <1>8, <1>9
<1>11. Len(found) = n /\ found \in Seq(S)
  BY <1>4, <1>6, <1>9, <1>10
<1>12. found # <<>> <=> P # <<>>
  BY <1>4, <1>6, <1>9, <1>11
<1>13. Search(job).raised => P # <<>>
  BY <1>3, <1>4, <1>6, <1>7
<1>14. QED
  BY <1>1, <1>2, <1>9, <1>10, <1>12, <1>13

----------------------------------------------------------------------------
(* Without recursion the consequences are the one model of the completion. *)

Ranks(j, rank) ==
  \A c \in Clauses(j) : \A i \in DOMAIN c.body :
    c.body[i].goal \in Atom => rank[c.body[i].goal] < rank[c.head]

Agree(X, Y, rank, n) == \A a \in Atom : rank[a] <= n => (a \in X <=> a \in Y)

LEMMA GivenAtoms ==
  ASSUME NEW j, IsJob(j), NEW d, NEW H
  PROVE  Given(j, d, H) \subseteq Atom
<1>1. PICK kb \in Seq(Clause) : kb = j.kb
  BY DEF IsJob
<1>2. \A i \in DOMAIN j.kb : j.kb[i].head \in Atom
  BY <1>1 DEF Clause
<1>3. ASSUME NEW a \in Given(j, d, H) PROVE a \in Atom
  BY <1>2, GivenIs
<1>4. QED
  BY <1>3

LEMMA GivenAboveFacts ==
  ASSUME NEW j, NEW d, d > 0, NEW H
  PROVE  \A a : a \in Given(j, d, H)
                  <=> \E c \in Clauses(j) : c.head = a /\ \A i \in DOMAIN c.body : LitHolds(c.body[i], j.backend, H)
<1> TAKE a
<1>1. LitHolds(TrueBody[1], j.backend, H) /\ DOMAIN TrueBody = {1}
  <2>1. DOMAIN TrueBody = {1} /\ TrueBody[1].neg = FALSE /\ TrueBody[1].goal = "true"
    BY DEF TrueBody
  <2>2. LitHolds(TrueBody[1], j.backend, H)
    BY <2>1, InferenceAssumption DEF GoalHolds, LitHolds, Reduced
  <2>3. QED
    BY <2>1, <2>2
<1>2. \A c : Gives(c, j.backend, d, H) <=> \A i \in DOMAIN c.body : LitHolds(c.body[i], j.backend, H)
  BY <1>1 DEF Gives
<1>3. QED
  BY <1>2, GivenIs DEF Clauses

LEMMA AgreementRises ==
  ASSUME NEW j, IsJob(j), NEW rank \in [Atom -> Nat], Ranks(j, rank), NEW n \in Nat,
         NEW X, NEW Y, Agree(X, Y, rank, n), NEW d, NEW e, d > 0, e > 0
  PROVE  Agree(Given(j, d, X), Given(j, e, Y), rank, n + 1)
<1>0. ASSUME NEW f, f > 0, NEW Z, NEW a
      PROVE  a \in Given(j, f, Z)
               <=> \E c \in Clauses(j) : c.head = a /\ \A i \in DOMAIN c.body : LitHolds(c.body[i], j.backend, Z)
  <2>1. \A x : x \in Given(j, f, Z)
                 <=> \E c \in Clauses(j) : c.head = x /\ \A i \in DOMAIN c.body : LitHolds(c.body[i], j.backend, Z)
    BY <1>0, GivenAboveFacts
  <2>2. QED
    BY <2>1
<1>1. ASSUME NEW a \in Atom, rank[a] <= n + 1, NEW c \in Clauses(j), c.head = a,
             NEW i \in DOMAIN c.body
      PROVE  LitHolds(c.body[i], j.backend, X) <=> LitHolds(c.body[i], j.backend, Y)
  <2>0. PICK l \in Literal, b \in Backend : l = c.body[i] /\ b = j.backend
    <3>1. c.body \in Seq(Literal)
      BY DEF Clause, Clauses, IsJob
    <3>2. QED
      BY <3>1 DEF IsJob
  <2>1. c.body[i].goal \in Atom => rank[c.body[i].goal] < rank[a]
    BY <1>1 DEF Ranks
  <2>2. c.body[i].goal \in Atom => rank[c.body[i].goal] <= n
    <3> SUFFICES ASSUME c.body[i].goal \in Atom PROVE rank[c.body[i].goal] <= n
      OBVIOUS
    <3>1. PICK r \in Nat, q \in Nat : r = rank[c.body[i].goal] /\ q = rank[a]
      OBVIOUS
    <3>2. QED
      BY <1>1, <2>1, <3>1
  <2>3. c.body[i].goal \in Atom => (c.body[i].goal \in X <=> c.body[i].goal \in Y)
    BY <2>2 DEF Agree
  <2>4. QED
    BY <2>0, <2>3, ReducedIs DEF GoalHolds, LitHolds
<1>2. ASSUME NEW a \in Atom, rank[a] <= n + 1
      PROVE  a \in Given(j, d, X) <=> a \in Given(j, e, Y)
  <2>1. a \in Given(j, d, X)
          <=> \E c \in Clauses(j) : c.head = a /\ \A i \in DOMAIN c.body : LitHolds(c.body[i], j.backend, X)
    BY <1>0
  <2>2. a \in Given(j, e, Y)
          <=> \E c \in Clauses(j) : c.head = a /\ \A i \in DOMAIN c.body : LitHolds(c.body[i], j.backend, Y)
    BY <1>0
  <2>3. \A c \in Clauses(j) : c.head = a =>
          ((\A i \in DOMAIN c.body : LitHolds(c.body[i], j.backend, X))
             <=> \A i \in DOMAIN c.body : LitHolds(c.body[i], j.backend, Y))
    BY <1>1, <1>2
  <2>4. QED
    BY <2>1, <2>2, <2>3
<1>3. QED
  BY <1>2 DEF Agree

\* M holds of each atom iff the body of one of its clauses does.
Completes(j, M) == M \subseteq Atom /\ \A a \in Atom : a \in M <=> a \in Given(j, 1, M)

LEMMA NoRankZero ==
  ASSUME NEW rank \in [Atom -> 1..Cardinality(Atom)], NEW X, NEW Y
  PROVE  Agree(X, Y, rank, 0) /\ rank \in [Atom -> Nat]
<1>1. Cardinality(Atom) \in Nat
  BY InferenceAssumption, FS_CardinalityType
<1>2. \A a \in Atom : rank[a] \in 1..Cardinality(Atom)
  OBVIOUS
<1>3. \A a \in Atom : ~(rank[a] <= 0)
  BY <1>1, <1>2
<1>4. QED
  BY <1>1, <1>3 DEF Agree

LEMMA ConsequencesComplete ==
  ASSUME NEW j, IsJob(j), j.depth >= Cardinality(Atom),
         NEW rank \in [Atom -> 1..Cardinality(Atom)], Ranks(j, rank)
  PROVE  Completes(j, Consequences(j))
<1>0. j.depth \in Nat /\ Cardinality(Atom) \in Nat /\ rank \in [Atom -> Nat]
  BY InferenceAssumption, FS_CardinalityType, NoRankZero DEF IsJob
<1>1. PICK g : /\ g[0] = {} /\ g[j.depth + 1] = Consequences(j)
               /\ \A n \in 1..(j.depth + 1) : g[n] = Given(j, n - 1, g[n - 1])
  BY <1>0, WithinSteps
<1> DEFINE Done(n) == Agree(g[n + 1], Given(j, 1, g[n + 1]), rank, n)
           S == {n \in Nat : n <= j.depth => Done(n)}
<1> HIDE DEF Done
<1>2. 0 \in S
  <2>1. Done(0)
    BY NoRankZero DEF Done
  <2>2. QED
    BY <2>1
<1>3. ASSUME NEW n \in Nat, n \in S PROVE n + 1 \in S
  <2> SUFFICES ASSUME n + 1 <= j.depth PROVE Done(n + 1)
    OBVIOUS
  <2>1. PICK X : X = g[n + 1]
    OBVIOUS
  <2>2. Agree(X, Given(j, 1, X), rank, n)
    <3>1. n <= j.depth
      BY <1>0
    <3>2. QED
      BY <1>3, <2>1, <3>1 DEF Done
  <2>3. g[(n + 1) + 1] = Given(j, n + 1, X)
    <3>1. (n + 1) + 1 \in 1..(j.depth + 1) /\ ((n + 1) + 1) - 1 = n + 1
      BY <1>0
    <3>2. QED
      BY <1>1, <2>1, <3>1
  <2>4. PICK d \in Nat : d = n + 1 /\ d > 0
    OBVIOUS
  <2>5. PICK Y : Y = Given(j, 1, X)
    OBVIOUS
  <2>6. Agree(Given(j, d, X), Given(j, 1, Y), rank, n + 1)
    <3>1. 1 > 0
      OBVIOUS
    <3>2. QED
      BY <1>0, <2>2, <2>4, <2>5, <3>1, AgreementRises
  <2>7. \A a : a \in Given(j, d, X) <=> a \in Y
    <3>1. 1 > 0
      OBVIOUS
    <3>2. \A a : a \in Given(j, d, X)
                   <=> \E c \in Clauses(j) : c.head = a /\ \A i \in DOMAIN c.body : LitHolds(c.body[i], j.backend, X)
      <4>1. d > 0
        BY <2>4
      <4> HIDE <2>4
      <4>2. QED
        BY <4>1, GivenAboveFacts
    <3>3. \A a : a \in Given(j, 1, X)
                   <=> \E c \in Clauses(j) : c.head = a /\ \A i \in DOMAIN c.body : LitHolds(c.body[i], j.backend, X)
      BY <3>1, GivenAboveFacts
    <3>4. QED
      BY <2>5, <3>2, <3>3
  <2>8. Given(j, d, X) = Y
    BY <2>7
  <2>9. QED
    BY <2>3, <2>4, <2>6, <2>8 DEF Done
<1>4. Done(j.depth)
  <2> HIDE DEF S
  <2>1. j.depth \in S
    BY <1>0, <1>2, <1>3, NatInd
  <2>2. QED
    BY <1>0, <2>1 DEF S
<1>5. PICK C : C = Consequences(j)
  OBVIOUS
<1>6. \A a \in Atom : a \in C <=> a \in Given(j, 1, C)
  <2>1. Agree(C, Given(j, 1, C), rank, j.depth)
    BY <1>1, <1>4, <1>5 DEF Done
  <2>2. \A a \in Atom : rank[a] \in 1..Cardinality(Atom)
    OBVIOUS
  <2>3. \A a \in Atom : rank[a] <= j.depth
    BY <1>0, <2>2
  <2>4. QED
    BY <2>1, <2>3 DEF Agree
<1>7. C \subseteq Atom
  <2>1. j.depth + 1 \in 1..(j.depth + 1)
    BY <1>0
  <2>2. \E d, H : C = Given(j, d, H)
    BY <1>1, <1>5, <2>1
  <2>3. QED
    BY <2>2, GivenAtoms
<1>8. QED
  BY <1>5, <1>6, <1>7 DEF Completes

LEMMA CompletionUnique ==
  ASSUME NEW j, IsJob(j), NEW rank \in [Atom -> 1..Cardinality(Atom)], Ranks(j, rank),
         NEW M, NEW N, Completes(j, M), Completes(j, N)
  PROVE  M = N
<1>0. rank \in [Atom -> Nat]
  BY NoRankZero
<1> DEFINE S == {n \in Nat : Agree(M, N, rank, n)}
<1>1. 0 \in S
  BY NoRankZero
<1>2. ASSUME NEW n \in Nat, n \in S PROVE n + 1 \in S
  <2>1. Agree(Given(j, 1, M), Given(j, 1, N), rank, n + 1)
    <3>1. 1 > 0 /\ Agree(M, N, rank, n)
      BY <1>2
    <3>2. QED
      BY <1>0, <3>1, AgreementRises
  <2>2. Agree(M, N, rank, n + 1)
    BY <2>1 DEF Agree, Completes
  <2>3. QED
    BY <2>2
<1>3. \A n \in Nat : n \in S
  <2> HIDE DEF S
  <2> QED BY <1>1, <1>2, NatInd
<1>4. ASSUME NEW a \in Atom PROVE a \in M <=> a \in N
  <2>1. PICK r \in Nat : r = rank[a]
    BY <1>0
  <2>2. Agree(M, N, rank, r)
    BY <1>3
  <2>3. r <= r
    OBVIOUS
  <2>4. QED
    BY <2>1, <2>2, <2>3 DEF Agree
<1>5. QED
  BY <1>4 DEF Completes

LEMMA ModelIsConsequences ==
  ASSUME NEW j, IsJob(j), NonRecursive(j)
  PROVE  Model(j) = Consequences(j)
<1>1. PICK rank \in [Atom -> 1..Cardinality(Atom)] : Ranks(j, rank)
  BY DEF NonRecursive, Ranks
<1>2. Completes(j, Consequences(j))
  BY <1>1, ConsequencesComplete DEF NonRecursive
<1> DEFINE IsModel(M) ==
             \A a \in Atom :
               a \in M <=> \E c \in Clauses(j) : c.head = a /\ GoalsHold(c.body, j.backend, LAMBDA g : g \in M)
<1>3. ASSUME NEW M \in SUBSET Atom PROVE IsModel(M) <=> Completes(j, M)
  <2>1. \A goals : GoalsHold(goals, j.backend, LAMBDA g : g \in M)
                     <=> \A i \in DOMAIN goals : LitHolds(goals[i], j.backend, M)
    BY DEF GoalHolds, GoalsHold, LitHolds
  <2>2. 1 > 0
    OBVIOUS
  <2>3. \A a : a \in Given(j, 1, M)
                 <=> \E c \in Clauses(j) : c.head = a /\ GoalsHold(c.body, j.backend, LAMBDA g : g \in M)
    <3>1. \A a : a \in Given(j, 1, M)
                   <=> \E c \in Clauses(j) : c.head = a /\ \A i \in DOMAIN c.body : LitHolds(c.body[i], j.backend, M)
      BY <2>2, GivenAboveFacts
    <3>2. QED
      BY <2>1, <3>1
  <2>4. QED
    BY <2>3 DEF Completes
<1>4. Model(j) = CHOOSE M \in SUBSET Atom : IsModel(M)
  BY DEF Model
<1> HIDE DEF IsModel
<1>5. Consequences(j) \in SUBSET Atom /\ IsModel(Consequences(j))
  BY <1>2, <1>3 DEF Completes
<1>6. Model(j) \in SUBSET Atom /\ IsModel(Model(j))
  BY <1>4, <1>5
<1>7. Completes(j, Model(j))
  BY <1>3, <1>6
<1>8. QED
  BY <1>1, <1>2, <1>7, CompletionUnique

----------------------------------------------------------------------------
(* Counting the copies of a proof, or all proofs.                          *)

Counting(p, of, x) == {i \in DOMAIN p : of = "all" \/ p[i] = x}
Count(p, of, x) == Cardinality(Counting(p, of, x))
Counted == {"all", "copies"}

LEMMA CountIs ==
  ASSUME NEW S, NEW p \in Seq(S), NEW x
  PROVE  /\ \A of \in Counted : IsFiniteSet(Counting(p, of, x)) /\ Count(p, of, x) \in Nat
         /\ Count(p, "all", x) = Len(p) /\ Count(p, "copies", x) = Copies(p, x)
<1>1. Len(p) \in Nat /\ DOMAIN p = 1..Len(p)
  OBVIOUS
<1>2. IsFiniteSet(1..Len(p)) /\ Cardinality(1..Len(p)) = Len(p)
  <2>1. Len(p) \in Int /\ 1 \in Int
    BY <1>1
  <2>2. IsFiniteSet(1..Len(p)) /\ Cardinality(1..Len(p)) = IF 1 > Len(p) THEN 0 ELSE Len(p) - 1 + 1
    BY <2>1, FS_Interval
  <2>3. QED
    BY <1>1, <2>2
<1>3. ASSUME NEW of \in Counted
      PROVE  IsFiniteSet(Counting(p, of, x)) /\ Count(p, of, x) \in Nat
  <2>1. Counting(p, of, x) \in SUBSET (1..Len(p))
    BY <1>1 DEF Counting
  <2>2. IsFiniteSet(Counting(p, of, x))
    BY <1>2, <2>1, FS_Subset
  <2>3. QED
    BY <2>2, FS_CardinalityType DEF Count
<1>4. Count(p, "all", x) = Len(p)
  <2>1. {i \in DOMAIN p : TRUE \/ p[i] = x} = 1..Len(p)
    BY <1>1
  <2>2. QED
    BY <1>2, <2>1 DEF Count, Counting
<1>5. Count(p, "copies", x) = Copies(p, x)
  <2>1. {i \in DOMAIN p : FALSE \/ p[i] = x} = {i \in DOMAIN p : p[i] = x}
    OBVIOUS
  <2>2. QED
    BY <2>1 DEF Count, Counting, Copies
<1>6. QED
  BY <1>3, <1>4, <1>5

LEMMA ShiftedCount ==
  ASSUME NEW B \in SUBSET Nat, IsFiniteSet(B), NEW m \in Nat
  PROVE  /\ IsFiniteSet({i + m : i \in B})
         /\ Cardinality({i + m : i \in B}) = Cardinality(B)
<1> DEFINE T == {i + m : i \in B}
           f == [i \in B |-> i + m]
<1>1. f \in [B -> T]
  OBVIOUS
<1>2. \A i, j \in B : f[i] = f[j] => i = j
  OBVIOUS
<1>3. \A t \in T : \E i \in B : f[i] = t
  OBVIOUS
<1>4. f \in Bijection(B, T)
  <2> HIDE DEF f, T
  <2>1. DOMAIN f = B
    BY <1>1
  <2>2. IsInjective(f)
    BY <1>2, <2>1 DEF IsInjective
  <2>3. QED
    BY <1>1, <1>3, <2>2 DEF Bijection, Injection, Surjection
<1>5. ExistsBijection(B, T)
  BY <1>4 DEF ExistsBijection
<1>6. QED
  BY <1>5, FS_Bijection

LEMMA CountConcat ==
  ASSUME NEW S, NEW p \in Seq(S), NEW q \in Seq(S), NEW of \in Counted, NEW x
  PROVE  Count(p \o q, of, x) = Count(p, of, x) + Count(q, of, x)
<1> DEFINE m == Len(p)
           n == Len(q)
           A == {i \in 1..m : of = "all" \/ p[i] = x}
           B == {i \in 1..n : of = "all" \/ q[i] = x}
           C == {i + m : i \in B}
           K == {i \in 1..(m + n) : of = "all" \/ (p \o q)[i] = x}
<1>1. /\ m \in Nat /\ n \in Nat /\ DOMAIN p = 1..m /\ DOMAIN q = 1..n /\ DOMAIN (p \o q) = 1..(m + n)
      /\ \A i \in 1..m : (p \o q)[i] = p[i]
      /\ \A i \in 1..n : (p \o q)[i + m] = q[i]
  OBVIOUS
<1>2. IsFiniteSet(A) /\ IsFiniteSet(B)
  <2>1. IsFiniteSet(Counting(p, of, x))
    BY CountIs
  <2>2. IsFiniteSet(Counting(q, of, x))
    BY CountIs
  <2>3. A = Counting(p, of, x) /\ B = Counting(q, of, x)
    BY <1>1 DEF Counting
  <2>4. QED
    BY <2>1, <2>2, <2>3
<1>3. PICK pq : pq = p \o q
  OBVIOUS
<1>4. K = A \cup C
  <2>1. ASSUME NEW i \in K PROVE i \in A \cup C
    <3>1. CASE i \in 1..m
      BY <1>1, <3>1
    <3>2. CASE i \notin 1..m
      <4>1. i - m \in 1..n /\ (i - m) + m = i
        BY <1>1, <3>2
      <4>2. i - m \in B
        BY <1>1, <4>1
      <4>3. QED
        BY <4>1, <4>2
    <3>3. QED
      BY <3>1, <3>2
  <2>2. \A i \in A : i \in K
    BY <1>1
  <2>3. \A i \in B : i + m \in K
    BY <1>1
  <2> HIDE DEF A, B, K
  <2>4. QED
    BY <2>1, <2>2, <2>3
<1>5. A \cap C = {}
  BY <1>1
<1>6. IsFiniteSet(C) /\ Cardinality(C) = Cardinality(B)
  <2>1. B \in SUBSET Nat
    BY <1>1
  <2> HIDE DEF B
  <2>2. QED
    BY <1>1, <1>2, <2>1, ShiftedCount
<1>7. Count(p, of, x) = Cardinality(A) /\ Count(q, of, x) = Cardinality(B)
      /\ Count(p \o q, of, x) = Cardinality(K)
  BY <1>1 DEF Count, Counting
<1> HIDE DEF A, B, C, K
<1>8. Cardinality(K) = Cardinality(A) + Cardinality(C)
  <2>1. Cardinality(A \cup C) = Cardinality(A) + Cardinality(C) - Cardinality(A \cap C)
    BY <1>2, <1>6, FS_Union
  <2>2. Cardinality(A) \in Nat /\ Cardinality(C) \in Nat /\ Cardinality({}) = 0
    BY <1>2, <1>6, FS_CardinalityType, FS_EmptySet
  <2>3. Cardinality(K) = Cardinality(A) + Cardinality(C) - Cardinality({})
    BY <1>4, <1>5, <2>1
  <2>4. QED
    BY <2>2, <2>3
<1>9. QED
  BY <1>6, <1>7, <1>8

\* k - 1 in the mixed radix of a product.
LEMMA Digits ==
  ASSUME NEW m \in Nat, NEW n \in Nat, n > 0, NEW k \in 1..(m * n)
  PROVE  /\ ((k - 1) \div n) + 1 \in 1..m /\ ((k - 1) % n) + 1 \in 1..n
         /\ k = (((k - 1) \div n) * n) + ((k - 1) % n) + 1
OBVIOUS

LEMMA Composed ==
  ASSUME NEW m \in Nat, NEW n \in Nat, NEW i \in 1..m, NEW j \in 1..n
  PROVE  /\ (i - 1) * n + j \in 1..(m * n)
         /\ (((i - 1) * n + j - 1) \div n) + 1 = i
         /\ (((i - 1) * n + j - 1) % n) + 1 = j
OBVIOUS

\* The places of a product whose digits are in A and in B.
Places(m, n, A, B) ==
  {k \in 1..(m * n) : ((k - 1) \div n) + 1 \in A /\ ((k - 1) % n) + 1 \in B}

LEMMA ProductCount ==
  ASSUME NEW m \in Nat, NEW n \in Nat, NEW A \in SUBSET (1..m), NEW B \in SUBSET (1..n)
  PROVE  Cardinality(Places(m, n, A, B)) = Cardinality(A) * Cardinality(B)
<1> DEFINE K == {k \in 1..(m * n) : ((k - 1) \div n) + 1 \in A /\ ((k - 1) % n) + 1 \in B}
           f == [x \in A \X B |-> (x[1] - 1) * n + x[2]]
<1>1. IsFiniteSet(A) /\ IsFiniteSet(B)
  <2>1. m \in Int /\ n \in Int /\ 1 \in Int
    OBVIOUS
  <2>2. IsFiniteSet(1..m) /\ IsFiniteSet(1..n)
    BY <2>1, FS_Interval
  <2>3. QED
    BY <2>2, FS_Subset
<1>2. ASSUME NEW x \in A \X B
      PROVE  /\ f[x] \in K
             /\ x[1] = ((f[x] - 1) \div n) + 1 /\ x[2] = ((f[x] - 1) % n) + 1
  <2>1. PICK i \in 1..m, j \in 1..n : i = x[1] /\ j = x[2] /\ i \in A /\ j \in B
    OBVIOUS
  <2>2. /\ (i - 1) * n + j \in 1..(m * n)
        /\ (((i - 1) * n + j - 1) \div n) + 1 = i
        /\ (((i - 1) * n + j - 1) % n) + 1 = j
    BY Composed
  <2>3. f[x] = (i - 1) * n + j
    BY <2>1
  <2> HIDE DEF f
  <2>4. QED
    BY <2>1, <2>2, <2>3
<1>3. ASSUME NEW k \in K PROVE \E x \in A \X B : f[x] = k
  <2>1. k \in 1..(m * n) /\ ((k - 1) \div n) + 1 \in A /\ ((k - 1) % n) + 1 \in B
    OBVIOUS
  <2>2. n > 0
    BY <2>1
  <2>3. k = (((k - 1) \div n) * n) + ((k - 1) % n) + 1
    BY <2>1, <2>2, Digits
  <2>4. PICK i \in 1..m, j \in 1..n :
          i = ((k - 1) \div n) + 1 /\ j = ((k - 1) % n) + 1 /\ i \in A /\ j \in B
    BY <2>1
  <2>5. PICK q \in Int, r \in Int : q = (k - 1) \div n /\ r = (k - 1) % n
    BY <2>1, <2>2
  <2>6. (i - 1) * n + j = k
    <3>1. i - 1 = q /\ j = r + 1 /\ k = q * n + r + 1
      BY <2>3, <2>4, <2>5
    <3>2. q * n \in Int
      BY <2>5
    <3>3. QED
      BY <2>5, <3>1, <3>2
  <2>7. f[<<i, j>>] = (i - 1) * n + j /\ <<i, j>> \in A \X B
    BY <2>4
  <2> HIDE DEF f
  <2>8. QED
    BY <2>6, <2>7
<1>4. f \in Bijection(A \X B, K)
  <2>1. DOMAIN f = A \X B /\ f = [x \in A \X B |-> f[x]]
    OBVIOUS
  <2> HIDE DEF f, K
  <2>2. f \in [A \X B -> K]
    BY <1>2, <2>1
  <2>3. ASSUME NEW x \in A \X B, NEW y \in A \X B, f[x] = f[y] PROVE x = y
    <3>1. x[1] = y[1] /\ x[2] = y[2]
      BY <1>2, <2>3
    <3>2. QED
      BY <3>1
  <2>4. IsInjective(f)
    BY <2>1, <2>3 DEF IsInjective
  <2>5. QED
    BY <1>3, <2>2, <2>4 DEF Bijection, Injection, Surjection
<1>5. IsFiniteSet(A \X B) /\ Cardinality(A \X B) = Cardinality(A) * Cardinality(B)
  BY <1>1, FS_Product
<1>6. ExistsBijection(A \X B, K)
  BY <1>4 DEF ExistsBijection
<1> HIDE DEF K
<1>7. Cardinality(K) = Cardinality(A) * Cardinality(B)
  BY <1>5, <1>6, FS_Bijection
<1>8. QED
  BY <1>7 DEF K, Places

\* Two searches have the same proofs, each as often.
Same(p, q) == \A of \in Counted : \A x : Count(p, of, x) = Count(q, of, x)

LEMMA SameIsPermuted ==
  ASSUME NEW S, NEW T, NEW p \in Seq(S), NEW q \in Seq(T), Same(p, q)
  PROVE  /\ Permuted(p, q) /\ Len(p) = Len(q)
         /\ p = <<>> <=> q = <<>>
<1>1. \A x : Count(p, "all", x) = Len(p) /\ Count(p, "copies", x) = Copies(p, x)
  BY CountIs
<1>2. \A x : Count(q, "all", x) = Len(q) /\ Count(q, "copies", x) = Copies(q, x)
  BY CountIs
<1>3. \A x : Copies(p, x) = Copies(q, x)
  BY <1>1, <1>2 DEF Same, Counted
<1>4. Len(p) = Len(q)
  BY <1>1, <1>2 DEF Same, Counted
<1>5. QED
  BY <1>3, <1>4 DEF Permuted

Product(p, q) ==
  [k \in 1..(Len(p) * Len(q)) |-> AndNode(p[((k - 1) \div Len(q)) + 1], q[((k - 1) % Len(q)) + 1])]

LEMMA AndNodeParts ==
  ASSUME NEW a, NEW b, NEW c, NEW d, AndNode(a, b) = AndNode(c, d)
  PROVE  a = c /\ b = d
<1>1. <<a, b>> = <<c, d>>
  BY DEF AndNode, Node
<1>2. QED
  BY <1>1

LEMMA RuleNodeParts ==
  ASSUME NEW c, NEW p, NEW q, RuleNode(c, p) = RuleNode(c, q)
  PROVE  p = q
<1>1. <<p>> = <<q>>
  BY DEF RuleNode, Node
<1>2. QED
  BY <1>1

IsList(p) == Len(p) \in Nat /\ DOMAIN p = 1..Len(p)

LEMMA CountOfProduct ==
  ASSUME NEW p, NEW q, IsList(p), IsList(q), NEW of \in Counted
  PROVE  /\ \A u, v : Count(Product(p, q), of, AndNode(u, v)) = Count(p, of, u) * Count(q, of, v)
         /\ \A x : (\A u, v : x # AndNode(u, v)) => Count(Product(p, q), "copies", x) = 0
<1> DEFINE m == Len(p)
           n == Len(q)
           r == Product(p, q)
<1>1. m \in Nat /\ n \in Nat /\ DOMAIN p = 1..m /\ DOMAIN q = 1..n
  BY DEF IsList
<1>2. /\ DOMAIN r = 1..(m * n)
      /\ \A k \in 1..(m * n) : r[k] = AndNode(p[((k - 1) \div n) + 1], q[((k - 1) % n) + 1])
  BY DEF Product
<1> HIDE DEF m, n, r
<1>3. \A k \in 1..(m * n) : ((k - 1) \div n) + 1 \in 1..m /\ ((k - 1) % n) + 1 \in 1..n
  <2> TAKE k \in 1..(m * n)
  <2>1. n > 0
    BY <1>1
  <2>2. QED
    BY <1>1, <2>1, Digits
<1>4. ASSUME NEW u, NEW v
      PROVE  Count(r, of, AndNode(u, v)) = Count(p, of, u) * Count(q, of, v)
  <2> DEFINE A == {i \in 1..m : of = "all" \/ p[i] = u}
             B == {j \in 1..n : of = "all" \/ q[j] = v}
             K == {k \in 1..(m * n) : ((k - 1) \div n) + 1 \in A /\ ((k - 1) % n) + 1 \in B}
  <2>1. \A k \in 1..(m * n) :
          (of = "all" \/ r[k] = AndNode(u, v))
            <=> ((k - 1) \div n) + 1 \in A /\ ((k - 1) % n) + 1 \in B
    <3> TAKE k \in 1..(m * n)
    <3>1. PICK i \in 1..m, j \in 1..n : i = ((k - 1) \div n) + 1 /\ j = ((k - 1) % n) + 1
      BY <1>3
    <3>2. r[k] = AndNode(p[i], q[j])
      BY <1>2, <3>1
    <3>3. r[k] = AndNode(u, v) <=> p[i] = u /\ q[j] = v
      BY <3>2, AndNodeParts
    <3>4. QED
      BY <3>1, <3>3
  <2>2. {k \in DOMAIN r : of = "all" \/ r[k] = AndNode(u, v)} = K
    BY <1>2, <2>1
  <2>3. A \in SUBSET (1..m) /\ B \in SUBSET (1..n)
    OBVIOUS
  <2>4. Cardinality(A) = Count(p, of, u) /\ Cardinality(B) = Count(q, of, v)
    BY <1>1 DEF Count, Counting
  <2> HIDE DEF A, B
  <2>5. Cardinality(K) = Cardinality(A) * Cardinality(B)
    <3>1. m \in Nat /\ n \in Nat
      BY <1>1
    <3>2. Cardinality(Places(m, n, A, B)) = Cardinality(A) * Cardinality(B)
      BY <2>3, <3>1, ProductCount
    <3>3. K = Places(m, n, A, B)
      BY DEF Places
    <3>4. QED
      BY <3>2, <3>3
  <2>6. QED
    BY <2>2, <2>4, <2>5 DEF Count, Counting
<1>5. ASSUME NEW x, \A u, v : x # AndNode(u, v) PROVE Count(r, "copies", x) = 0
  <2>1. {k \in DOMAIN r : FALSE \/ r[k] = x} = {}
    BY <1>2, <1>5
  <2>2. QED
    BY <2>1, FS_EmptySet DEF Count, Counting
<1>6. QED
  BY <1>4, <1>5 DEF r

LEMMA ProductSame ==
  ASSUME NEW p, NEW q, NEW s, NEW t, IsList(p), IsList(q), IsList(s), IsList(t),
         Same(p, s), Same(q, t)
  PROVE  Same(Product(p, q), Product(s, t))
<1> SUFFICES ASSUME NEW of \in Counted, NEW x
             PROVE  Count(Product(p, q), of, x) = Count(Product(s, t), of, x)
  BY DEF Same
<1>1. ASSUME NEW u, NEW v
      PROVE  Count(Product(p, q), of, AndNode(u, v)) = Count(Product(s, t), of, AndNode(u, v))
  <2>1. Count(Product(p, q), of, AndNode(u, v)) = Count(p, of, u) * Count(q, of, v)
    BY CountOfProduct
  <2>2. Count(Product(s, t), of, AndNode(u, v)) = Count(s, of, u) * Count(t, of, v)
    BY CountOfProduct
  <2>3. QED
    BY <2>1, <2>2 DEF Same
<1>2. CASE of = "all"
  <2>1. \A r : Count(r, of, x) = Count(r, of, AndNode(x, x))
    <3> TAKE r
    <3>1. {i \in DOMAIN r : of = "all" \/ r[i] = x} = {i \in DOMAIN r : of = "all" \/ r[i] = AndNode(x, x)}
      BY <1>2
    <3>2. QED
      BY <3>1 DEF Count, Counting
  <2>2. QED
    BY <1>1, <2>1
<1>3. CASE of # "all" /\ \E u, v : x = AndNode(u, v)
  BY <1>1, <1>3
<1>4. CASE of # "all" /\ \A u, v : x # AndNode(u, v)
  <2>1. Count(Product(p, q), "copies", x) = 0
    BY <1>4, CountOfProduct
  <2>2. Count(Product(s, t), "copies", x) = 0
    BY <1>4, CountOfProduct
  <2>3. of = "copies"
    BY <1>4 DEF Counted
  <2>4. QED
    BY <2>1, <2>2, <2>3
<1>5. QED
  BY <1>2, <1>3, <1>4

LEMMA RelabelledSame ==
  ASSUME NEW S, NEW T, NEW p \in Seq(S), NEW q \in Seq(T), NEW c, Same(p, q)
  PROVE  Same([i \in DOMAIN p |-> RuleNode(c, p[i])], [i \in DOMAIN q |-> RuleNode(c, q[i])])
<1> DEFINE R(s) == [i \in DOMAIN s |-> RuleNode(c, s[i])]
<1>1. ASSUME NEW s, NEW of \in Counted, NEW u PROVE Count(R(s), of, RuleNode(c, u)) = Count(s, of, u)
  <2>1. DOMAIN R(s) = DOMAIN s /\ \A i \in DOMAIN s : R(s)[i] = RuleNode(c, s[i])
    OBVIOUS
  <2> HIDE DEF R
  <2>2. \A i \in DOMAIN s : R(s)[i] = RuleNode(c, u) <=> s[i] = u
    BY <2>1, RuleNodeParts
  <2>3. {i \in DOMAIN R(s) : of = "all" \/ R(s)[i] = RuleNode(c, u)} = {i \in DOMAIN s : of = "all" \/ s[i] = u}
    BY <2>1, <2>2
  <2>4. QED
    BY <2>3 DEF Count, Counting
<1>2. ASSUME NEW s, NEW x, \A u : x # RuleNode(c, u) PROVE Count(R(s), "copies", x) = 0
  <2>1. DOMAIN R(s) = DOMAIN s /\ \A i \in DOMAIN s : R(s)[i] = RuleNode(c, s[i])
    OBVIOUS
  <2> HIDE DEF R
  <2>2. {i \in DOMAIN R(s) : FALSE \/ R(s)[i] = x} = {}
    BY <1>2, <2>1
  <2>3. QED
    BY <2>2, FS_EmptySet DEF Count, Counting
<1> HIDE DEF R
<1>3. ASSUME NEW of \in Counted, NEW x PROVE Count(R(p), of, x) = Count(R(q), of, x)
  <2>1. CASE of = "all"
    <3>1. \A r : Count(r, of, x) = Count(r, of, RuleNode(c, x))
      <4> TAKE r
      <4>1. {i \in DOMAIN r : of = "all" \/ r[i] = x} = {i \in DOMAIN r : of = "all" \/ r[i] = RuleNode(c, x)}
        BY <2>1
      <4>2. QED
        BY <4>1 DEF Count, Counting
    <3>2. Count(R(p), of, RuleNode(c, x)) = Count(R(q), of, RuleNode(c, x))
      BY <1>1 DEF Same
    <3>3. QED
      BY <3>1, <3>2
  <2>2. CASE of # "all" /\ \E u : x = RuleNode(c, u)
    BY <1>1, <2>2 DEF Same
  <2>3. CASE of # "all" /\ \A u : x # RuleNode(c, u)
    <3>1. of = "copies"
      BY <2>3 DEF Counted
    <3>2. QED
      BY <1>2, <2>3, <3>1
  <2>4. QED
    BY <2>1, <2>2, <2>3
<1>4. QED
  BY <1>3 DEF Same, R


----------------------------------------------------------------------------
(* Goals whose operations have one outcome on both backends.               *)

Shared(goals) ==
  \A i \in DOMAIN goals :
    Reduced(goals[i].goal, "native") = Reduced(goals[i].goal, "prolog")

SharedBodies(kb) == \A i \in DOMAIN kb : Shared(kb[i].body)

LEMMA SharedIs ==
  ASSUME NEW goals, Shared(goals), NEW b \in Backend, NEW e \in Backend
  PROVE  \A i \in DOMAIN goals : Reduced(goals[i].goal, b) = Reduced(goals[i].goal, e)
<1>1. b \in {"native", "prolog"} /\ e \in {"native", "prolog"}
  BY DEF Backend
<1>2. QED
  BY <1>1 DEF Shared

LEMMA GivenShared ==
  ASSUME NEW j, NEW o, j.backend \in Backend, o.backend \in Backend, o.kb = j.kb,
         SharedBodies(j.kb), NEW d, NEW H
  PROVE  \A a : a \in Given(j, d, H) <=> a \in Given(o, d, H)
<1>1. PICK b \in Backend, e \in Backend : b = j.backend /\ e = o.backend
  OBVIOUS
<1>2. ASSUME NEW i \in DOMAIN j.kb
      PROVE  Gives(j.kb[i], b, d, H) <=> Gives(j.kb[i], e, d, H)
  <2>1. PICK body : body = j.kb[i].body
    OBVIOUS
  <2>2. Shared(body)
    BY <2>1 DEF SharedBodies
  <2>3. \A k \in DOMAIN body : LitHolds(body[k], b, H) <=> LitHolds(body[k], e, H)
    BY <2>2, SharedIs DEF LitHolds
  <2>4. QED
    BY <2>1, <2>3 DEF Gives
<1>3. QED
  BY <1>1, <1>2, GivenIs

----------------------------------------------------------------------------
(* The two backends, goal by goal: streams that do not raise have the same *)
(* proofs.                                                                 *)

Matches(s, t) == ~s.raised /\ ~t.raised => Same(s.proofs, t.proofs)

\* The atoms of X and Y, streams of the same truths, match.
MatchedAtoms(X, Y, H) ==
  /\ DecidesAtoms(X, H) /\ DecidesAtoms(Y, H)
  /\ \A a \in Atom : Matches(X[a], Y[a])

LEMMA MatchesItself == \A s : Matches(s, s)
BY DEF Matches, Same

LEMMA StreamIsList ==
  ASSUME NEW s, IsStream(s)
  PROVE  IsList(s.proofs) /\ (s.proofs = <<>> <=> Len(s.proofs) = 0)
<1>1. PICK S : s.proofs \in Seq(S)
  BY DEF IsStream
<1>2. QED
  BY <1>1, SeqsOf DEF IsList

LEMMA SameEmptiness ==
  ASSUME NEW s, NEW t, IsStream(s), IsStream(t), Same(s.proofs, t.proofs)
  PROVE  s.proofs = <<>> <=> t.proofs = <<>>
<1>1. PICK S, T : s.proofs \in Seq(S) /\ t.proofs \in Seq(T)
  BY DEF IsStream
<1>2. QED
  BY <1>1, SameIsPermuted

LEMMA LiteralMatches ==
  ASSUME NEW l \in Literal, NEW b \in Backend, NEW e \in Backend,
         Reduced(l.goal, b) = Reduced(l.goal, e),
         NEW X, NEW Y, NEW H, MatchedAtoms(X, Y, H)
  PROVE  Matches(ProveLiteral(l, b, X), ProveLiteral(l, e, Y))
<1>g. PICK g : g = Reduced(l.goal, b) /\ g = Reduced(l.goal, e)
  OBVIOUS
<1> DEFINE Goal(Z) == CASE g = "true"  -> Yield(<<TrueNode>>)
                        [] g = "false" -> Fail
                        [] g = "error" -> Raise
                        [] OTHER            -> Z[g]
<1>0. /\ l.neg \in BOOLEAN /\ g \in Atom \cup {"true", "false", "error"}
      /\ \A a \in Atom : a # "true" /\ a # "false" /\ a # "error"
  BY <1>g, ReducedIs DEF Literal
<1>1. \A Z : /\ ProveLiteral(l, b, Z) = IF l.neg THEN Negated(l.goal, Goal(Z)) ELSE Goal(Z)
             /\ ProveLiteral(l, e, Z) = IF l.neg THEN Negated(l.goal, Goal(Z)) ELSE Goal(Z)
  BY <1>g DEF ProveLiteral
<1>2. CASE g \notin Atom
  <2>1. Goal(X) = Goal(Y)
    BY <1>0, <1>2
  <2> HIDE DEF Goal
  <2>2. ProveLiteral(l, b, X) = ProveLiteral(l, e, Y)
    BY <1>1, <2>1
  <2>3. QED
    BY <2>2, MatchesItself
<1>3. CASE g \in Atom
  <2>1. \A Z : Goal(Z) = Z[g]
    BY <1>0, <1>3
  <2>2. PICK s : s = X[g]
    OBVIOUS
  <2>3. PICK t : t = Y[g]
    OBVIOUS
  <2>4. /\ IsStream(s) /\ IsStream(t) /\ Matches(s, t)
        /\ s.proofs # <<>> => t.raised \/ t.proofs # <<>>
        /\ t.proofs # <<>> => s.raised \/ s.proofs # <<>>
    BY <1>3, <2>2, <2>3 DEF MatchedAtoms, DecidesAtoms, Decides
  <2> HIDE DEF Goal
  <2>5. CASE ~l.neg
    <3>1. ProveLiteral(l, b, X) = s /\ ProveLiteral(l, e, Y) = t
      BY <1>0, <1>1, <2>1, <2>2, <2>3, <2>5
    <3>2. QED
      BY <2>4, <3>1
  <2>6. CASE l.neg
    <3>1. ProveLiteral(l, b, X) = Negated(l.goal, s) /\ ProveLiteral(l, e, Y) = Negated(l.goal, t)
      BY <1>0, <1>1, <2>1, <2>2, <2>3, <2>6
    <3>2. \A u : \/ Negated(l.goal, u).raised
                 \/ Negated(l.goal, u) = Fail /\ u.proofs # <<>>
                 \/ Negated(l.goal, u) = Yield(<<NegNode(l.goal)>>) /\ u.proofs = <<>> /\ ~u.raised
      <4> TAKE u
      <4>1. CASE u.proofs # <<>>
        BY <4>1 DEF Negated
      <4>2. CASE u.proofs = <<>> /\ u.raised
        BY <4>2, BasicStreams DEF Negated
      <4>3. CASE u.proofs = <<>> /\ ~u.raised
        BY <4>3 DEF Negated
      <4>4. QED
        BY <4>1, <4>2, <4>3
    <3>3. \/ Negated(l.goal, s).raised \/ Negated(l.goal, t).raised
          \/ Negated(l.goal, s) = Negated(l.goal, t)
      BY <2>4, <3>2
    <3>4. QED
      BY <3>1, <3>3, MatchesItself DEF Matches
  <2>7. QED
    BY <2>5, <2>6
<1>4. QED
  BY <1>2, <1>3

LEMMA BothMatches ==
  ASSUME NEW s, NEW t, NEW u, NEW v, IsStream(s), IsStream(t), IsStream(u), IsStream(v),
         Matches(s, u), Matches(t, v)
  PROVE  Matches(Both(s, t), Both(u, v))
<1> SUFFICES ASSUME ~Both(s, t).raised, ~Both(u, v).raised
             PROVE  Same(Both(s, t).proofs, Both(u, v).proofs)
  BY DEF Matches
<1>1. ~s.raised /\ ~(s.proofs # <<>> /\ t.raised)
  BY BothIs
<1>2. ~u.raised /\ ~(u.proofs # <<>> /\ v.raised)
  BY BothIs
<1>3. Same(s.proofs, u.proofs) /\ (s.proofs = <<>> <=> u.proofs = <<>>)
  BY <1>1, <1>2, SameEmptiness DEF Matches
<1>4. CASE s.proofs = <<>>
  <2>1. Both(s, t) = s /\ Both(u, v) = u
    BY <1>3, <1>4 DEF Both
  <2>2. QED
    BY <1>3, <2>1
<1>5. CASE s.proofs # <<>>
  <2>1. Same(t.proofs, v.proofs)
    BY <1>1, <1>2, <1>3, <1>5 DEF Matches
  <2>2. ASSUME NEW y, NEW z, IsStream(y), y.proofs # <<>>, ~z.raised
        PROVE  Both(y, z).proofs = Product(y.proofs, z.proofs)
    <3>1. Both(y, z) = [y EXCEPT !.proofs = Product(y.proofs, z.proofs)]
      BY <2>2 DEF Both, Product
    <3>2. y = [proofs |-> y.proofs, raised |-> y.raised]
      BY <2>2 DEF IsStream
    <3>3. QED
      BY <3>1, <3>2
  <2>3. Both(s, t).proofs = Product(s.proofs, t.proofs)
    BY <1>1, <1>5, <2>2
  <2>4. Both(u, v).proofs = Product(u.proofs, v.proofs)
    BY <1>2, <1>3, <1>5, <2>2
  <2>5. Same(Product(s.proofs, t.proofs), Product(u.proofs, v.proofs))
    <3>1. IsList(s.proofs) /\ IsList(t.proofs) /\ IsList(u.proofs) /\ IsList(v.proofs)
      BY StreamIsList
    <3>2. QED
      BY <1>3, <2>1, <3>1, ProductSame
  <2>6. QED
    BY <2>3, <2>4, <2>5
<1>6. QED
  BY <1>4, <1>5

LEMMA GoalsMatch ==
  ASSUME NEW goals \in Seq(Literal), Shared(goals), NEW b \in Backend, NEW e \in Backend,
         NEW X, NEW Y, NEW H, MatchedAtoms(X, Y, H)
  PROVE  Matches(ProveGoals(goals, b, X), ProveGoals(goals, e, Y))
<1>1. PICK f : NestsGoals(f, goals, b, X)
  BY GoalsSteps
<1>2. PICK g : NestsGoals(g, goals, e, Y)
  BY GoalsSteps
<1> DEFINE m == Len(goals)
<1>0. m \in Nat /\ DOMAIN goals = 1..m /\ \A i \in 1..m : goals[i] \in Literal
  BY SeqsOf
<1> DEFINE Done(n) == IsStream(f[n]) /\ IsStream(g[n]) /\ Matches(f[n], g[n])
           S == {n \in Nat : n <= m => Done(n)}
<1> HIDE DEF Done, m, NestsGoals
<1>3. 0 \in S
  <2>1. Done(0)
    BY <1>1, <1>2, BasicStreams, MatchesItself DEF Done, NestsGoals
  <2>2. QED
    BY <2>1
<1>4. ASSUME NEW n \in Nat, n \in S PROVE n + 1 \in S
  <2> SUFFICES ASSUME n + 1 <= m PROVE Done(n + 1)
    OBVIOUS
  <2>1. m - n \in 1..m /\ n + 1 \in 1..m /\ m + 1 - (n + 1) = m - n /\ (n + 1) - 1 = n /\ n <= m
    <3>1. m \in Nat
      BY <1>0
    <3>2. QED
      BY <3>1
  <2>2. IsStream(f[n]) /\ IsStream(g[n]) /\ Matches(f[n], g[n])
    BY <1>4, <2>1 DEF Done
  <2>3. PICK l \in Literal : l = goals[m - n]
    BY <1>0, <2>1
  <2>4. PICK s : s = ProveLiteral(l, b, X)
    OBVIOUS
  <2>5. PICK t : t = ProveLiteral(l, e, Y)
    OBVIOUS
  <2>6. Matches(s, t)
    <3>1. Reduced(l.goal, b) = Reduced(l.goal, e)
      BY <1>0, <2>1, <2>3, SharedIs
    <3>2. QED
      BY <2>4, <2>5, <3>1, LiteralMatches
  <2>7. IsStream(s) /\ IsStream(t)
    <3>1. Decides(ProveLiteral(l, b, X), LitHolds(l, b, H))
      BY LiteralDecided DEF MatchedAtoms
    <3>2. Decides(ProveLiteral(l, e, Y), LitHolds(l, e, H))
      BY LiteralDecided DEF MatchedAtoms
    <3>3. QED
      BY <2>4, <2>5, <3>1, <3>2 DEF Decides
  <2>8. f[n + 1] = (IF n = 0 THEN s ELSE Both(s, f[n])) /\ g[n + 1] = (IF n = 0 THEN t ELSE Both(t, g[n]))
    <3>1. n + 1 = 1 <=> n = 0
      OBVIOUS
    <3>2. f[n + 1] = IF n = 0 THEN s ELSE Both(s, f[n])
      BY <1>1, <2>1, <2>3, <2>4, <3>1 DEF m, NestsGoals
    <3>3. g[n + 1] = IF n = 0 THEN t ELSE Both(t, g[n])
      BY <1>2, <2>1, <2>3, <2>5, <3>1 DEF m, NestsGoals
    <3>4. QED
      BY <3>2, <3>3
  <2>9. CASE n = 0
    BY <2>6, <2>7, <2>8, <2>9 DEF Done
  <2>10. CASE n # 0
    <3>1. f[n + 1] = Both(s, f[n]) /\ g[n + 1] = Both(t, g[n])
      BY <2>8, <2>10
    <3>2. IsStream(f[n + 1]) /\ IsStream(g[n + 1])
      BY <2>2, <2>7, <3>1, BothIs
    <3>3. Matches(f[n + 1], g[n + 1])
      BY <2>2, <2>6, <2>7, <3>1, BothMatches
    <3>4. QED
      BY <3>2, <3>3 DEF Done
  <2>11. QED
    BY <2>9, <2>10
<1>5. m \in S
  <2> HIDE DEF S
  <2> QED BY <1>0, <1>3, <1>4, NatInd
<1>6. Done(m)
  BY <1>0, <1>5
<1>7. QED
  BY <1>1, <1>2, <1>6 DEF Done, m, NestsGoals

LEMMA ClauseMatches ==
  ASSUME NEW c \in Clause, Shared(c.body), NEW b \in Backend, NEW e \in Backend, NEW d \in Nat,
         NEW X, NEW Y, NEW H, MatchedAtoms(X, Y, H)
  PROVE  Matches(ProveClause(c, b, d, X), ProveClause(c, e, d, Y))
<1>1. FactClause(c, b) <=> FactClause(c, e)
  <2>1. FactClause(c, b) <=> c.body = <<>> \/ (c.id = NoId /\ c.body = TrueBody)
    BY FactIs
  <2>2. FactClause(c, e) <=> c.body = <<>> \/ (c.id = NoId /\ c.body = TrueBody)
    BY FactIs
  <2>3. QED
    BY <2>1, <2>2
<1>2. CASE FactClause(c, b) \/ ~DepthLeft(d)
  <2>1. ProveClause(c, b, d, X) = ProveClause(c, e, d, Y)
    BY <1>1, <1>2 DEF ProveClause
  <2>2. QED
    BY <2>1, MatchesItself
<1>3. CASE ~FactClause(c, b) /\ DepthLeft(d)
  <2>1. PICK body \in Seq(Literal) : body = c.body
    BY DEF Clause
  <2>2. PICK s : s = ProveGoals(body, b, X)
    OBVIOUS
  <2>3. PICK t : t = ProveGoals(body, e, Y)
    OBVIOUS
  <2>4. Matches(s, t)
    BY <2>1, <2>2, <2>3, GoalsMatch
  <2>5. IsStream(s) /\ IsStream(t)
    <3>1. Decides(ProveGoals(body, b, X), \A i \in DOMAIN body : LitHolds(body[i], b, H))
      BY GoalsDecided DEF MatchedAtoms
    <3>2. Decides(ProveGoals(body, e, Y), \A i \in DOMAIN body : LitHolds(body[i], e, H))
      BY GoalsDecided DEF MatchedAtoms
    <3>3. QED
      BY <2>2, <2>3, <3>1, <3>2 DEF Decides
  <2> DEFINE R(p) == [i \in DOMAIN p |-> RuleNode(c, p[i])]
  <2>6. ProveClause(c, b, d, X) = [s EXCEPT !.proofs = R(s.proofs)]
    BY <1>3, <2>1, <2>2 DEF ProveClause
  <2>7. ProveClause(c, e, d, Y) = [t EXCEPT !.proofs = R(t.proofs)]
    BY <1>1, <1>3, <2>1, <2>3 DEF ProveClause
  <2>8. ASSUME ~s.raised, ~t.raised PROVE Same(R(s.proofs), R(t.proofs))
    <3>1. PICK S, T : s.proofs \in Seq(S) /\ t.proofs \in Seq(T)
      BY <2>5 DEF IsStream
    <3>2. Same(s.proofs, t.proofs)
      BY <2>4, <2>8 DEF Matches
    <3>3. QED
      BY <3>1, <3>2, RelabelledSame
  <2> HIDE DEF R
  <2>9. \A u, p : IsStream(u) => /\ [u EXCEPT !.proofs = p].proofs = p
                                /\ [u EXCEPT !.proofs = p].raised = u.raised
    <3> TAKE u, p
    <3> HAVE IsStream(u)
    <3>1. u = [proofs |-> u.proofs, raised |-> u.raised]
      BY DEF IsStream
    <3>2. QED
      BY <3>1
  <2>10. QED
    BY <2>5, <2>6, <2>7, <2>8, <2>9 DEF Matches
<1>4. QED
  BY <1>2, <1>3

----------------------------------------------------------------------------
(* The clauses of an atom, in whatever order a backend tries them, have as *)
(* many proofs in all.                                                     *)

\* f[i] is the sum of val over the first i clauses of s.
Sums(f, s, val) ==
  /\ f[0] = 0 /\ \A i \in 0..Len(s) : f[i] \in Nat
  /\ \A i \in 1..Len(s) : f[i] = f[i - 1] + val[s[i]]

Totals(n, s, val) == \E f : Sums(f, s, val) /\ f[Len(s)] = n

LEMMA TotalOfNone == ASSUME NEW val PROVE Totals(0, <<>>, val)
<1> DEFINE f == [i \in 0..0 |-> 0]
<1>1. Sums(f, <<>>, val) /\ f[Len(<<>>)] = 0
  BY DEF Sums
<1>2. QED
  <2> HIDE DEF f
  <2> QED BY <1>1 DEF Totals

LEMMA TotalOfInserted ==
  ASSUME NEW s \in Seq(Clause), NEW val \in [Clause -> Nat], NEW k \in 1..(Len(s) + 1),
         NEW c \in Clause, NEW n \in Nat, Totals(n, s, val)
  PROVE  Totals(n + val[c], InsertAt(s, k, c), val)
<1>1. PICK f : Sums(f, s, val) /\ f[Len(s)] = n
  BY DEF Totals
<1>2. PICK m \in Nat : m = Len(s)
  OBVIOUS
<1>3. PICK r \in Seq(Clause) : r = InsertAt(s, k, c) /\ Len(r) = m + 1
               /\ \A i \in 1..(m + 1) : r[i] = IF i < k THEN s[i] ELSE IF i = k THEN c ELSE s[i - 1]
  <2>1. /\ InsertAt(s, k, c) \in Seq(Clause) /\ Len(InsertAt(s, k, c)) = Len(s) + 1
        /\ \A i \in 1..(Len(s) + 1) :
             InsertAt(s, k, c)[i] = IF i < k THEN s[i] ELSE IF i = k THEN c ELSE s[i - 1]
    BY InsertedAt
  <2>2. QED
    BY <1>2, <2>1
<1>4. PICK v \in Nat : v = val[c]
  OBVIOUS
<1> DEFINE g == [i \in 0..(m + 1) |-> IF i < k THEN f[i] ELSE f[i - 1] + v]
<1>5. k \in 1..(m + 1)
  BY <1>2
<1>6. /\ f[0] = 0 /\ \A i \in 0..m : f[i] \in Nat
      /\ \A i \in 1..m : f[i] = f[i - 1] + val[s[i]]
  BY <1>1, <1>2 DEF Sums
<1>7. g[0] = 0 /\ g[m + 1] = n + v
  BY <1>1, <1>2, <1>5, <1>6
<1>8. \A i \in 0..(m + 1) : g[i] \in Nat
  <2> TAKE i \in 0..(m + 1)
  <2>1. CASE i < k
    BY <1>5, <1>6, <2>1
  <2>2. CASE ~(i < k)
    <3>1. i - 1 \in 0..m
      BY <1>5, <2>2
    <3>2. QED
      BY <1>6, <2>2, <3>1
  <2>3. QED
    BY <2>1, <2>2
<1>9. ASSUME NEW i \in 1..(m + 1) PROVE g[i] = g[i - 1] + val[r[i]]
  <2>0. i \in 0..(m + 1) /\ i - 1 \in 0..(m + 1) /\ i - 1 \in 0..m
    OBVIOUS
  <2>1. CASE i < k
    <3>0. i \in 1..m /\ i - 1 < k
      BY <1>5, <2>1
    <3>1. i \in 1..m /\ i - 1 < k /\ r[i] = s[i]
      BY <1>3, <2>1, <3>0
    <3>2. g[i] = f[i] /\ g[i - 1] = f[i - 1]
      BY <2>0, <2>1, <3>1
    <3>3. QED
      BY <1>6, <3>1, <3>2
  <2>2. CASE i = k
    <3>1. r[i] = c
      BY <1>3, <1>5, <2>2
    <3>2. g[i] = f[i - 1] + v /\ g[i - 1] = f[i - 1]
      BY <1>5, <2>0, <2>2
    <3>3. QED
      BY <1>4, <3>1, <3>2
  <2>3. CASE i > k
    <3>0. i - 1 \in 1..m /\ i - 2 \in 0..m /\ ~(i < k) /\ i # k
      BY <1>5, <2>3
    <3>1. i - 1 \in 1..m /\ i - 2 \in 0..m /\ r[i] = s[i - 1]
      BY <1>3, <3>0
    <3>2. g[i] = f[i - 1] + v /\ g[i - 1] = f[i - 2] + v
      BY <1>5, <2>0, <2>3
    <3>3. f[i - 1] = f[i - 2] + val[s[i - 1]]
      <4>1. (i - 1) - 1 = i - 2
        OBVIOUS
      <4>2. QED
        BY <1>6, <3>1, <4>1
    <3>4. s[i - 1] \in Clause
      BY <1>2, <3>1
    <3>5. PICK y \in Nat, z \in Nat : y = f[i - 2] /\ z = val[s[i - 1]]
      BY <1>6, <3>1, <3>4
    <3>6. (y + z) + v = (y + v) + z
      OBVIOUS
    <3>7. g[i] = (y + z) + v /\ g[i - 1] + val[r[i]] = (y + v) + z
      BY <3>1, <3>2, <3>3, <3>5
    <3>8. QED
      BY <3>6, <3>7
  <2>4. QED
    BY <1>5, <2>1, <2>2, <2>3
<1> HIDE DEF g
<1>10. Sums(g, r, val) /\ g[Len(r)] = n + v
  BY <1>3, <1>7, <1>8, <1>9 DEF Sums
<1>11. Totals(n + v, r, val)
  BY <1>10 DEF Totals
<1>12. QED
  BY <1>3, <1>4, <1>11

LEMMA TotalPlaced ==
  ASSUME NEW s \in Seq(Clause), NEW val \in [Clause -> Nat], NEW c \in Clause, NEW b,
         NEW n \in Nat, Totals(n, s, val)
  PROVE  Placed(s, c, b) \in Seq(Clause) /\ Totals(n + val[c], Placed(s, c, b), val)
<1>1. PICK k \in 1..(Len(s) + 1) : Placed(s, c, b) = InsertAt(s, k, c)
  BY PlacedAt
<1>2. InsertAt(s, k, c) \in Seq(Clause)
  BY InsertedAt
<1>3. Totals(n + val[c], InsertAt(s, k, c), val)
  BY TotalOfInserted
<1>4. QED
  BY <1>1, <1>2, <1>3

\* f[n] are the clauses of a among the first n of kb, as b orders them.
Orders(f, kb, b, a) ==
  /\ f[0] = <<>> /\ f[Len(kb)] = Candidates(kb, b, a)
  /\ \A i \in 1..Len(kb) : f[i] = IF kb[i].head = a THEN Placed(f[i - 1], kb[i], b) ELSE f[i - 1]

LEMMA OrderSteps ==
  ASSUME NEW kb \in Seq(Clause), NEW b, NEW a PROVE \E f : Orders(f, kb, b, a)
BY CandidatesSteps DEF Orders

LEMMA OrdersTotal ==
  ASSUME NEW kb \in Seq(Clause), NEW val \in [Clause -> Nat], NEW b, NEW e, NEW a
  PROVE  \E n \in Nat : Totals(n, Candidates(kb, b, a), val) /\ Totals(n, Candidates(kb, e, a), val)
<1>1. PICK f : Orders(f, kb, b, a)
  BY OrderSteps
<1>2. PICK g : Orders(g, kb, e, a)
  BY OrderSteps
<1> DEFINE m == Len(kb)
<1>0. m \in Nat /\ \A i \in 1..m : kb[i] \in Clause
  BY SeqsOf
<1> DEFINE Done(i) == /\ f[i] \in Seq(Clause) /\ g[i] \in Seq(Clause)
                      /\ \E n \in Nat : Totals(n, f[i], val) /\ Totals(n, g[i], val)
           S == {i \in Nat : i <= m => Done(i)}
<1> HIDE DEF Done, m
<1>3. 0 \in S
  <2>1. f[0] = <<>> /\ g[0] = <<>>
    BY <1>1, <1>2 DEF Orders
  <2>2. Totals(0, <<>>, val)
    BY TotalOfNone
  <2>3. Done(0)
    BY <2>1, <2>2 DEF Done
  <2>4. QED
    BY <2>3
<1>4. ASSUME NEW i \in Nat, i \in S PROVE i + 1 \in S
  <2> SUFFICES ASSUME i + 1 <= m PROVE Done(i + 1)
    OBVIOUS
  <2>1. i + 1 \in 1..m /\ (i + 1) - 1 = i /\ i <= m
    <3>1. m \in Nat
      BY <1>0
    <3>2. QED
      BY <3>1
  <2>2. PICK s \in Seq(Clause) : s = f[i]
    BY <1>4, <2>1 DEF Done
  <2>3. PICK t \in Seq(Clause) : t = g[i]
    BY <1>4, <2>1 DEF Done
  <2>4. PICK n \in Nat : Totals(n, s, val) /\ Totals(n, t, val)
    BY <1>4, <2>1, <2>2, <2>3 DEF Done
  <2>5. PICK c \in Clause : c = kb[i + 1]
    BY <1>0, <2>1
  <2>6. f[i + 1] = IF c.head = a THEN Placed(s, c, b) ELSE s
    BY <1>1, <2>1, <2>2, <2>5 DEF Orders, m
  <2>7. g[i + 1] = IF c.head = a THEN Placed(t, c, e) ELSE t
    BY <1>2, <2>1, <2>3, <2>5 DEF Orders, m
  <2>8. Placed(s, c, b) \in Seq(Clause) /\ Totals(n + val[c], Placed(s, c, b), val)
    BY <2>4, TotalPlaced
  <2>9. Placed(t, c, e) \in Seq(Clause) /\ Totals(n + val[c], Placed(t, c, e), val)
    BY <2>4, TotalPlaced
  <2>10. n + val[c] \in Nat
    OBVIOUS
  <2>11. QED
    BY <2>4, <2>6, <2>7, <2>8, <2>9, <2>10 DEF Done
<1>5. m \in S
  <2> HIDE DEF S
  <2> QED BY <1>0, <1>3, <1>4, NatInd
<1>6. Done(m)
  BY <1>0, <1>5
<1>7. QED
  BY <1>1, <1>2, <1>6 DEF Done, Orders, m

\* f[i] is the stream of the first i clauses of cs.
Tries(f, cs, d, below, b, all) ==
  /\ f[0] = Fail /\ f[Len(cs)] = all
  /\ \A i \in 1..Len(cs) : f[i] = Then(f[i - 1], ProveClause(cs[i], b, d, below))

LEMMA TrySteps ==
  ASSUME NEW kb \in Seq(Clause), NEW b, NEW d, NEW below, NEW a, NEW cs \in Seq(Clause),
         cs = Candidates(kb, b, a)
  PROVE  \E f : Tries(f, cs, d, below, b, ProveAtom(kb, b, d, below, a))
BY AtomSteps DEF Tries

LEMMA ClauseStream ==
  ASSUME NEW c \in Clause, NEW b \in Backend, NEW d \in Nat, NEW below, NEW H,
         DecidesAtoms(below, H)
  PROVE  IsStream(ProveClause(c, b, d, below))
BY ClauseDecided DEF Decides

LEMMA ProofsAndError ==
  ASSUME NEW s, NEW p, NEW e, s = [proofs |-> p, raised |-> e]
  PROVE  s.proofs = p /\ s.raised = e
OBVIOUS

\* val counts the proofs of each clause of cs.
CountsEach(val, cs, d, below, b, of, x) ==
  \A i \in DOMAIN cs : val[cs[i]] = Count(ProveClause(cs[i], b, d, below).proofs, of, x)

AllQuiet(cs, d, below, b) == \A i \in DOMAIN cs : ~ProveClause(cs[i], b, d, below).raised

\* all has as many proofs as the clauses of cs have in all.
AddsUp(all, cs, d, below, b) ==
  \A n \in Nat, of \in Counted : \A val, x :
    Totals(n, cs, val) /\ CountsEach(val, cs, d, below, b, of, x) => Count(all.proofs, of, x) = n

\* The streams of the clauses of an atom whose stream does not raise: none
\* raises, and their proofs are as many.
LEMMA AtomCounted ==
  ASSUME NEW cs \in Seq(Clause), NEW b \in Backend, NEW d \in Nat, NEW below, NEW H,
         DecidesAtoms(below, H), NEW all, NEW f, Tries(f, cs, d, below, b, all), ~all.raised
  PROVE  /\ AllQuiet(cs, d, below, b)
         /\ AddsUp(all, cs, d, below, b)
<1> DEFINE m == Len(cs)
           one(i) == ProveClause(cs[i], b, d, below)
<1>0. m \in Nat /\ DOMAIN cs = 1..m /\ \A i \in 1..m : cs[i] \in Clause
  BY SeqsOf
<1>1. /\ f[0] = Fail /\ f[m] = all
      /\ \A i \in 1..m : f[i] = Then(f[i - 1], one(i))
  BY DEF Tries
<1>2. \A i \in 1..m : IsStream(one(i))
  BY <1>0, ClauseStream
<1> HIDE DEF m, one
<1> DEFINE Quiet(i) == IsStream(f[i]) /\ (~f[i].raised => \A h \in 1..i : ~one(h).raised)
           A == {i \in Nat : i <= m => Quiet(i)}
<1> HIDE DEF Quiet
<1>3. 0 \in A
  <2>1. Quiet(0)
    BY <1>1, BasicStreams DEF Quiet
  <2>2. QED
    BY <2>1
<1>4. ASSUME NEW i \in Nat, i \in A PROVE i + 1 \in A
  <2> SUFFICES ASSUME i + 1 <= m PROVE Quiet(i + 1)
    OBVIOUS
  <2>1. i + 1 \in 1..m /\ (i + 1) - 1 = i /\ i <= m /\ \A h \in 1..(i + 1) : h \in 1..i \/ h = i + 1
    <3>1. m \in Nat
      BY <1>0
    <3>2. QED
      BY <3>1
  <2>2. Quiet(i)
    BY <1>4, <2>1
  <2>3. f[i + 1] = Then(f[i], one(i + 1))
    BY <1>1, <2>1
  <2>4. IsStream(f[i]) /\ IsStream(one(i + 1))
    BY <1>2, <2>1, <2>2 DEF Quiet
  <2>5. IsStream(f[i + 1]) /\ (f[i + 1].raised <=> f[i].raised \/ one(i + 1).raised)
    BY <2>3, <2>4, ThenIs
  <2>6. QED
    BY <2>1, <2>2, <2>5 DEF Quiet
<1>5. \A i \in Nat : i \in A
  <2> HIDE DEF A
  <2> QED BY <1>3, <1>4, NatInd
<1>6. \A h \in 1..m : ~one(h).raised
  <2>1. Quiet(m)
    BY <1>0, <1>5
  <2>2. QED
    BY <1>1, <2>1 DEF Quiet
<1>7. ASSUME NEW n \in Nat, NEW val, NEW of \in Counted, NEW x, Totals(n, cs, val),
             \A i \in 1..m : val[cs[i]] = Count(one(i).proofs, of, x)
      PROVE  Count(all.proofs, of, x) = n
  <2>1. PICK g : Sums(g, cs, val) /\ g[m] = n
    BY <1>7 DEF Totals, m
  <2>2. g[0] = 0 /\ \A i \in 1..m : g[i] = g[i - 1] + val[cs[i]]
    BY <2>1 DEF Sums, m
  <2> DEFINE Counts(i) == Count(f[i].proofs, of, x) = g[i] /\ ~f[i].raised
             B == {i \in Nat : i <= m => Counts(i)}
  <2> HIDE DEF Counts
  <2>3. 0 \in B
    <3>1. {i \in DOMAIN <<>> : of = "all" \/ <<>>[i] = x} = {}
      OBVIOUS
    <3>2. Count(<<>>, of, x) = 0
      BY <3>1, FS_EmptySet DEF Count, Counting
    <3>3. f[0].proofs = <<>> /\ ~f[0].raised
      BY <1>1, BasicStreams
    <3>4. Counts(0)
      BY <2>2, <3>2, <3>3 DEF Counts
    <3>5. QED
      BY <3>4
  <2>4. ASSUME NEW i \in Nat, i \in B PROVE i + 1 \in B
    <3> SUFFICES ASSUME i + 1 <= m PROVE Counts(i + 1)
      OBVIOUS
    <3>1. i + 1 \in 1..m /\ (i + 1) - 1 = i /\ i <= m
      <4>1. m \in Nat
        BY <1>0
      <4>2. QED
        BY <4>1
    <3>2. PICK s : s = f[i] /\ IsStream(s) /\ ~s.raised /\ Count(s.proofs, of, x) = g[i]
      BY <1>5, <2>4, <3>1 DEF Counts, Quiet
    <3>3. PICK t : t = one(i + 1) /\ IsStream(t) /\ ~t.raised
      BY <1>2, <1>6, <3>1
    <3>4. f[i + 1] = [proofs |-> s.proofs \o t.proofs, raised |-> t.raised]
      BY <1>1, <3>1, <3>2, <3>3 DEF Then
    <3>5. PICK S, T : s.proofs \in Seq(S) /\ t.proofs \in Seq(T)
      BY <3>2, <3>3 DEF IsStream
    <3>6. s.proofs \in Seq(S \cup T) /\ t.proofs \in Seq(S \cup T)
      BY <3>5
    <3>7. Count(s.proofs \o t.proofs, of, x) = Count(s.proofs, of, x) + Count(t.proofs, of, x)
      BY <3>6, CountConcat
    <3>8. f[i + 1].proofs = s.proofs \o t.proofs /\ f[i + 1].raised = t.raised
      <4>1. PICK p : p = s.proofs \o t.proofs
        OBVIOUS
      <4>2. PICK e : e = t.raised
        OBVIOUS
      <4>3. PICK u : u = f[i + 1]
        OBVIOUS
      <4>4. u = [proofs |-> p, raised |-> e]
        BY <3>4, <4>1, <4>2, <4>3
      <4>5. u.proofs = p /\ u.raised = e
        BY <4>4, ProofsAndError
      <4>6. QED
        BY <4>1, <4>2, <4>3, <4>5
    <3>9. g[i + 1] = g[i] + Count(t.proofs, of, x)
      BY <1>7, <2>2, <3>1, <3>3
    <3>10. QED
      BY <3>2, <3>3, <3>7, <3>8, <3>9 DEF Counts
  <2>5. \A i \in Nat : i \in B
    <3> HIDE DEF B
    <3> QED BY <2>3, <2>4, NatInd
  <2>6. Counts(m)
    BY <1>0, <2>5
  <2>7. QED
    BY <1>1, <2>1, <2>6 DEF Counts
<1>8. AllQuiet(cs, d, below, b)
  BY <1>0, <1>6 DEF one, AllQuiet
<1>9. ASSUME NEW n \in Nat, NEW of \in Counted, NEW val, NEW x, Totals(n, cs, val),
             CountsEach(val, cs, d, below, b, of, x)
      PROVE  Count(all.proofs, of, x) = n
  <2>1. \A i \in 1..m : val[cs[i]] = Count(one(i).proofs, of, x)
    BY <1>0, <1>9 DEF one, CountsEach
  <2>2. QED
    BY <1>7, <1>9, <2>1
<1>10. AddsUp(all, cs, d, below, b)
  BY <1>9 DEF AddsUp
<1>11. QED
  BY <1>8, <1>10

LEMMA AtomMatches ==
  ASSUME NEW kb \in Seq(Clause), SharedBodies(kb), NEW b \in Backend, NEW e \in Backend, NEW d \in Nat,
         NEW X, NEW Y, NEW H, MatchedAtoms(X, Y, H), NEW a \in Atom
  PROVE  Matches(ProveAtom(kb, b, d, X, a), ProveAtom(kb, e, d, Y, a))
<1>1. PICK cs \in Seq(Clause) : cs = Candidates(kb, b, a)
  BY CandidatesAre
<1>2. PICK ds \in Seq(Clause) : ds = Candidates(kb, e, a)
  BY CandidatesAre
<1>3. PICK s : s = ProveAtom(kb, b, d, X, a)
  OBVIOUS
<1>4. PICK t : t = ProveAtom(kb, e, d, Y, a)
  OBVIOUS
<1>5. PICK f : Tries(f, cs, d, X, b, s)
  BY <1>1, <1>3, TrySteps
<1>6. PICK g : Tries(g, ds, d, Y, e, t)
  BY <1>2, <1>4, TrySteps
<1>7. DecidesAtoms(X, H) /\ DecidesAtoms(Y, H)
  BY DEF MatchedAtoms
<1> SUFFICES ASSUME ~s.raised, ~t.raised, NEW of \in Counted, NEW x
             PROVE  Count(s.proofs, of, x) = Count(t.proofs, of, x)
  BY <1>3, <1>4 DEF Matches, Same
<1> DEFINE val == [c \in Clause |-> Count(ProveClause(c, b, d, X).proofs, of, x)]
<1>8. val \in [Clause -> Nat]
  <2> SUFFICES ASSUME NEW c \in Clause PROVE Count(ProveClause(c, b, d, X).proofs, of, x) \in Nat
    OBVIOUS
  <2>1. IsStream(ProveClause(c, b, d, X))
    BY <1>7, ClauseStream
  <2>2. PICK S : ProveClause(c, b, d, X).proofs \in Seq(S)
    BY <2>1 DEF IsStream
  <2>3. QED
    BY <2>2, CountIs
<1>9. \A c \in Clause : val[c] = Count(ProveClause(c, b, d, X).proofs, of, x)
  OBVIOUS
<1> HIDE DEF val
<1>10. PICK n \in Nat : Totals(n, cs, val) /\ Totals(n, ds, val)
  BY <1>1, <1>2, <1>8, OrdersTotal
<1>11. (\A i \in DOMAIN cs : cs[i] \in Clause) /\ (\A i \in DOMAIN ds : ds[i] \in Clause)
  OBVIOUS
<1>12. AllQuiet(cs, d, X, b)
  BY <1>5, <1>7, AtomCounted
<1>13. AllQuiet(ds, d, Y, e)
  BY <1>6, <1>7, AtomCounted
<1>14. ASSUME NEW i \in DOMAIN ds
       PROVE  val[ds[i]] = Count(ProveClause(ds[i], e, d, Y).proofs, of, x)
  <2>1. PICK c \in Clause : c = ds[i]
    BY <1>11
  <2>2. \E h \in DOMAIN cs : cs[h] = c
    <3>1. HasClausesOf(cs, kb, a) /\ HasClausesOf(ds, kb, a)
      BY <1>1, <1>2, CandidatesAre
    <3>2. QED
      BY <2>1, <3>1 DEF HasClausesOf
  <2>3. ~ProveClause(c, b, d, X).raised /\ ~ProveClause(c, e, d, Y).raised
    BY <1>12, <1>13, <2>1, <2>2 DEF AllQuiet
  <2>4. Same(ProveClause(c, b, d, X).proofs, ProveClause(c, e, d, Y).proofs)
    <3>1. HasClausesOf(ds, kb, a)
      BY <1>2, CandidatesAre
    <3>2. Shared(c.body)
      BY <2>1, <3>1 DEF HasClausesOf, SharedBodies
    <3>3. QED
      BY <2>3, <3>2, ClauseMatches DEF Matches
  <2>5. QED
    BY <1>9, <2>1, <2>4 DEF Same
<1>15. Count(s.proofs, of, x) = n
  <2>1. CountsEach(val, cs, d, X, b, of, x)
    BY <1>9, <1>11 DEF CountsEach
  <2>2. AddsUp(s, cs, d, X, b)
    BY <1>5, <1>7, AtomCounted
  <2>3. QED
    BY <1>10, <2>1, <2>2 DEF AddsUp
<1>16. Count(t.proofs, of, x) = n
  <2>1. CountsEach(val, ds, d, Y, e, of, x)
    BY <1>14 DEF CountsEach
  <2>2. AddsUp(t, ds, d, Y, e)
    BY <1>6, <1>7, AtomCounted
  <2>3. QED
    BY <1>10, <2>1, <2>2 DEF AddsUp
<1>17. QED
  BY <1>15, <1>16

----------------------------------------------------------------------------
(* The two backends, level by level.                                       *)

\* f[n] are the streams at depth n - 1.
Levels(f, kb, b, depth) ==
  /\ f[depth + 1] = Streams(kb, b, depth)
  /\ \A a \in Atom : f[0][a] = Fail
  /\ \A n \in 1..(depth + 1), a \in Atom : f[n][a] = ProveAtom(kb, b, n - 1, f[n - 1], a)

LEMMA LevelsOf ==
  ASSUME NEW kb, NEW b, NEW depth \in Nat
  PROVE  \E f : Levels(f, kb, b, depth)
BY LevelSteps DEF Levels

LEMMA StreamsMatch ==
  ASSUME NEW j, IsJob(j), SharedBodies(j.kb), NEW o, o.kb = j.kb,
         NEW b \in Backend, b = j.backend, NEW e \in Backend, e = o.backend
  PROVE  MatchedAtoms(Streams(j.kb, b, j.depth), Streams(j.kb, e, j.depth), Consequences(j))
<1>1. PICK depth \in Nat : depth = j.depth
  BY DEF IsJob
<1>2. PICK kb \in Seq(Clause) : kb = j.kb
  BY DEF IsJob
<1>3. PICK f : Levels(f, kb, b, depth)
  BY LevelsOf
<1>4. PICK h : Levels(h, kb, e, depth)
  BY LevelsOf
<1>5. PICK g : /\ g[0] = {} /\ g[j.depth + 1] = Consequences(j)
               /\ \A n \in 1..(j.depth + 1) : g[n] = Given(j, n - 1, g[n - 1])
  BY <1>1, WithinSteps
<1> DEFINE Done(n) == MatchedAtoms(f[n], h[n], g[n])
           S == {n \in Nat : n <= depth + 1 => Done(n)}
<1> HIDE DEF Done
<1>6. 0 \in S
  <2>1. DecidesAtoms(f[0], g[0]) /\ DecidesAtoms(h[0], g[0])
    BY <1>3, <1>4, <1>5, BasicStreams DEF DecidesAtoms, Decides, Levels
  <2>2. \A a \in Atom : Matches(f[0][a], h[0][a])
    BY <1>3, <1>4, MatchesItself DEF Levels
  <2>3. Done(0)
    BY <2>1, <2>2 DEF MatchedAtoms, Done
  <2>4. QED
    BY <2>3
<1>7. ASSUME NEW n \in Nat, n \in S PROVE n + 1 \in S
  <2> SUFFICES ASSUME n + 1 <= depth + 1 PROVE Done(n + 1)
    OBVIOUS
  <2>1. n + 1 \in 1..(depth + 1) /\ (n + 1) - 1 = n /\ n <= depth + 1
    OBVIOUS
  <2>2. PICK X, Y, H : X = f[n] /\ Y = h[n] /\ H = g[n]
    OBVIOUS
  <2>3. MatchedAtoms(X, Y, H)
    BY <1>7, <2>1, <2>2 DEF Done
  <2>4. DecidesAtoms(X, H) /\ DecidesAtoms(Y, H)
    BY <2>3 DEF MatchedAtoms
  <2>5. g[n + 1] = Given(j, n, H)
    BY <1>1, <1>5, <2>1, <2>2
  <2>6. ASSUME NEW a \in Atom
        PROVE  /\ Decides(f[n + 1][a], a \in g[n + 1]) /\ Decides(h[n + 1][a], a \in g[n + 1])
               /\ Matches(f[n + 1][a], h[n + 1][a])
    <3>1. f[n + 1][a] = ProveAtom(kb, b, n, X, a)
      BY <1>3, <2>1, <2>2 DEF Levels
    <3>2. h[n + 1][a] = ProveAtom(kb, e, n, Y, a)
      BY <1>4, <2>1, <2>2 DEF Levels
    <3>3. Decides(ProveAtom(kb, b, n, X, a), a \in Given(j, n, H))
      <4>1. Decides(ProveAtom(j.kb, b, n, X, a), a \in Given(j, n, H))
        BY <1>2, <2>4, AtomDecided
      <4>2. QED
        BY <1>2, <4>1
    <3>4. Decides(ProveAtom(kb, e, n, Y, a), a \in Given(j, n, H))
      <4>1. Decides(ProveAtom(o.kb, e, n, Y, a), a \in Given(o, n, H))
        BY <1>2, <2>4, AtomDecided
      <4>2. a \in Given(j, n, H) <=> a \in Given(o, n, H)
        BY GivenShared
      <4>3. QED
        BY <1>2, <4>1, <4>2 DEF Decides
    <3>5. Matches(ProveAtom(kb, b, n, X, a), ProveAtom(kb, e, n, Y, a))
      BY <1>2, <2>3, AtomMatches
    <3>6. QED
      BY <2>5, <3>1, <3>2, <3>3, <3>4, <3>5
  <2>7. QED
    BY <2>6 DEF DecidesAtoms, MatchedAtoms, Done
<1>8. Done(depth + 1)
  <2> HIDE DEF S
  <2>1. depth + 1 \in S
    BY <1>6, <1>7, NatInd
  <2>2. QED
    BY <2>1 DEF S
<1>9. QED
  BY <1>1, <1>2, <1>3, <1>4, <1>5, <1>8 DEF Done, Levels

LEMMA QueryGoalsAre ==
  ASSUME NEW j, IsJob(j), ~Misread(j)
  PROVE  QueryGoals(j) = j.goals
<1>1. PICK goals \in Seq(Literal) : goals = j.goals
  BY DEF IsJob
<1>2. QueryGoals(j) = [i \in DOMAIN goals |-> goals[i]]
  BY <1>1 DEF QueryGoals
<1>3. QED
  BY <1>1, <1>2

LEMMA SearchMatches ==
  ASSUME NEW j, IsJob(j), ReadAlike(j), SameOutcomes(j), NEW e \in Backend
  PROVE  /\ IsJob([j EXCEPT !.backend = e])
         /\ Matches(Search(j), Search([j EXCEPT !.backend = e]))
<1>1. PICK o : o = [j EXCEPT !.backend = e]
  OBVIOUS
<1>2. o.kb = j.kb /\ o.goals = j.goals /\ o.depth = j.depth /\ o.backend = e
  BY <1>1 DEF IsJob
<1>3. IsJob(o)
  <2>1. DOMAIN o = DOMAIN j /\ o.cap = j.cap
    BY <1>1
  <2>2. QED
    BY <1>2, <2>1 DEF IsJob
<1>4. PICK b \in Backend : b = j.backend
  BY DEF IsJob
<1>5. PICK goals \in Seq(Literal) : goals = j.goals
  BY DEF IsJob
<1>6. QueryGoals(j) = goals /\ QueryGoals(o) = goals
  <2>1. ~Misread(j) /\ ~Misread(o)
    BY <1>2 DEF Misread, ReadAlike
  <2>2. QED
    BY <1>2, <1>3, <1>5, <2>1, QueryGoalsAre
<1>s. Shared(goals) /\ SharedBodies(j.kb)
  BY <1>5 DEF Clauses, SameOutcomes, Shared, SharedBodies
<1>7. PICK X : X = Streams(j.kb, b, j.depth)
  OBVIOUS
<1>8. PICK Y : Y = Streams(j.kb, e, j.depth)
  OBVIOUS
<1>9. MatchedAtoms(X, Y, Consequences(j))
  BY <1>2, <1>4, <1>7, <1>8, <1>s, StreamsMatch
<1>10. Search(j) = ProveGoals(goals, b, X) /\ Search(o) = ProveGoals(goals, e, Y)
  BY <1>2, <1>4, <1>6, <1>7, <1>8 DEF Search
<1>11. Matches(ProveGoals(goals, b, X), ProveGoals(goals, e, Y))
  BY <1>9, <1>s, GoalsMatch
<1>12. QED
  BY <1>1, <1>3, <1>10, <1>11

----------------------------------------------------------------------------
(* The proofs of a stream, and the proofs there are.                       *)

Holds(s, x) == \E i \in DOMAIN s.proofs : s.proofs[i] = x

LEMMA BasicProofs ==
  /\ \A x : ~Holds(Fail, x) /\ ~Holds(Raise, x)
  /\ \A x, p : Holds(Yield(<<p>>), x) <=> x = p
<1>1. DOMAIN <<>> = {}
  OBVIOUS
<1>2. \A x : ~Holds(Fail, x) /\ ~Holds(Raise, x)
  BY <1>1, BasicStreams DEF Holds
<1>3. ASSUME NEW p, NEW x PROVE Holds(Yield(<<p>>), x) <=> x = p
  <2>1. Yield(<<p>>).proofs = <<p>>
    BY DEF Yield
  <2>2. DOMAIN <<p>> = {1} /\ <<p>>[1] = p
    OBVIOUS
  <2>3. QED
    BY <2>1, <2>2 DEF Holds
<1>4. QED
  BY <1>2, <1>3

LEMMA NoProofs ==
  ASSUME NEW s, IsStream(s)
  PROVE  s.proofs = <<>> <=> \A x : ~Holds(s, x)
<1>1. PICK S : s.proofs \in Seq(S)
  BY DEF IsStream
<1> PICK p \in Seq(S) : p = s.proofs
  BY <1>1
<1>2. p = <<>> <=> \A i : i \notin DOMAIN p
  <2>1. Len(p) \in Nat /\ DOMAIN p = 1..Len(p) /\ (p = <<>> <=> Len(p) = 0)
    BY SeqsOf
  <2>2. Len(p) # 0 => 1 \in 1..Len(p)
    BY <2>1
  <2>3. QED
    BY <2>1, <2>2
<1>3. QED
  BY <1>2 DEF Holds

LEMMA ThenHolds ==
  ASSUME NEW s, NEW t, IsStream(s), IsStream(t), NEW x
  PROVE  Holds(Then(s, t), x) <=> Holds(s, x) \/ (~s.raised /\ Holds(t, x))
<1>1. CASE s.raised
  BY <1>1 DEF Then
<1>2. CASE ~s.raised
  <2>1. PICK S, T : s.proofs \in Seq(S) /\ t.proofs \in Seq(T)
    BY DEF IsStream
  <2>2. PICK p \in Seq(S \cup T) : p = s.proofs
    BY <2>1
  <2>3. PICK q \in Seq(S \cup T) : q = t.proofs
    BY <2>1
  <2>4. Then(s, t).proofs = p \o q
    BY <1>2, <2>2, <2>3 DEF Then
  <2>5. (\E i \in DOMAIN (p \o q) : (p \o q)[i] = x)
          <=> (\E i \in DOMAIN p : p[i] = x) \/ (\E i \in DOMAIN q : q[i] = x)
    <3>1. \A i \in DOMAIN p : i \in DOMAIN (p \o q) /\ (p \o q)[i] = p[i]
      OBVIOUS
    <3>2. \A i \in DOMAIN q : i + Len(p) \in DOMAIN (p \o q) /\ (p \o q)[i + Len(p)] = q[i]
      OBVIOUS
    <3>3. \A i \in DOMAIN (p \o q) :
            \/ i \in DOMAIN p
            \/ i - Len(p) \in DOMAIN q /\ (p \o q)[i] = q[i - Len(p)]
      OBVIOUS
    <3>4. QED
      BY <3>1, <3>2, <3>3
  <2>6. QED
    BY <1>2, <2>2, <2>3, <2>4, <2>5 DEF Holds
<1>3. QED
  BY <1>1, <1>2

\* r has the pairs of p and q.
PairsUp(r, p, q) ==
  /\ \A k \in DOMAIN r : \E i \in DOMAIN p, j \in DOMAIN q : r[k] = AndNode(p[i], q[j])
  /\ \A i \in DOMAIN p, j \in DOMAIN q : \E k \in DOMAIN r : r[k] = AndNode(p[i], q[j])

LEMMA ProductHas ==
  ASSUME NEW p, NEW q, IsList(p), IsList(q)
  PROVE  PairsUp(Product(p, q), p, q)
<1> DEFINE m == Len(p)
           n == Len(q)
           r == Product(p, q)
<1>1. m \in Nat /\ n \in Nat /\ DOMAIN p = 1..m /\ DOMAIN q = 1..n
  BY DEF IsList
<1>2. /\ DOMAIN r = 1..(m * n)
      /\ \A k \in 1..(m * n) : r[k] = AndNode(p[((k - 1) \div n) + 1], q[((k - 1) % n) + 1])
  BY DEF Product
<1> HIDE DEF r, m, n
<1>3. ASSUME NEW k \in 1..(m * n) PROVE \E i \in 1..m, j \in 1..n : r[k] = AndNode(p[i], q[j])
  <2>1. n > 0
    BY <1>1
  <2>2. ((k - 1) \div n) + 1 \in 1..m /\ ((k - 1) % n) + 1 \in 1..n
    BY <1>1, <2>1, Digits
  <2>3. QED
    BY <1>2, <2>2
<1>4. ASSUME NEW i \in 1..m, NEW j \in 1..n PROVE \E k \in 1..(m * n) : r[k] = AndNode(p[i], q[j])
  <2>1. PICK k : k = (i - 1) * n + j
    OBVIOUS
  <2>2. k \in 1..(m * n) /\ ((k - 1) \div n) + 1 = i /\ ((k - 1) % n) + 1 = j
    BY <1>1, <2>1, Composed
  <2>3. r[k] = AndNode(p[i], q[j])
    BY <1>2, <2>2
  <2>4. QED
    BY <2>2, <2>3
<1>5. QED
  <2>1. PairsUp(r, p, q)
    <3>1. DOMAIN r = 1..(m * n) /\ DOMAIN p = 1..m /\ DOMAIN q = 1..n
      BY <1>1, <1>2
    <3>2. \A k \in DOMAIN r : \E i \in DOMAIN p, j \in DOMAIN q : r[k] = AndNode(p[i], q[j])
      <4> TAKE k \in DOMAIN r
      <4>1. PICK i \in 1..m, j \in 1..n : r[k] = AndNode(p[i], q[j])
        BY <1>3, <3>1
      <4>2. QED
        BY <3>1, <4>1
    <3>3. \A i \in DOMAIN p, j \in DOMAIN q : \E k \in DOMAIN r : r[k] = AndNode(p[i], q[j])
      BY <1>4, <3>1, Zenon
    <3>4. QED
      BY <3>2, <3>3 DEF PairsUp
  <2>2. QED
    BY <2>1 DEF r

\* s has proofs in P only, and unless it raises all of them.
Exact(s, P) ==
  /\ IsStream(s)
  /\ \A x : Holds(s, x) => x \in P
  /\ ~s.raised => \A x \in P : Holds(s, x)

LEMMA BothExact ==
  ASSUME NEW s, NEW t, NEW P, NEW Q, Exact(s, P), Exact(t, Q)
  PROVE  Exact(Both(s, t), Pairs(P, Q))
<1>0. IsStream(s) /\ IsStream(t)
  BY DEF Exact
<1>1. /\ IsStream(Both(s, t))
      /\ Both(s, t).raised <=> s.raised \/ (s.proofs # <<>> /\ t.raised)
  BY <1>0, BothIs
<1>2. IsList(s.proofs) /\ IsList(t.proofs)
  BY <1>0, StreamIsList
<1>3. CASE s.proofs = <<>>
  <2>1. Both(s, t) = s
    BY <1>3 DEF Both
  <2>2. \A x : ~Holds(s, x)
    BY <1>0, <1>3, NoProofs
  <2>3. ~s.raised => P = {}
    BY <2>2 DEF Exact
  <2>4. ~s.raised => Pairs(P, Q) = {}
    BY <2>3 DEF Pairs
  <2>5. QED
    BY <1>0, <2>1, <2>2, <2>4 DEF Exact
<1>4. CASE s.proofs # <<>> /\ t.raised
  <2> DEFINE n == Len(t.proofs)
             p == [k \in 1..n |-> AndNode(s.proofs[1], t.proofs[k])]
  <2>1. Both(s, t).proofs = p
    <3>1. Both(s, t) = [t EXCEPT !.proofs = p]
      BY <1>4 DEF Both
    <3>2. t = [proofs |-> t.proofs, raised |-> t.raised]
      BY <1>0 DEF IsStream
    <3> HIDE DEF p
    <3>3. QED
      BY <3>1, <3>2
  <2>2. DOMAIN t.proofs = 1..n
    BY <1>2 DEF IsList
  <2>3. 1 \in DOMAIN s.proofs
    <3>1. PICK S : s.proofs \in Seq(S)
      BY <1>0 DEF IsStream
    <3>2. QED
      BY <1>4, <3>1
  <2>4. s.proofs[1] \in P
    BY <2>3 DEF Exact, Holds
  <2>5. \A k \in 1..n : t.proofs[k] \in Q
    BY <2>2 DEF Exact, Holds
  <2>6. \A x : Holds(Both(s, t), x) => x \in Pairs(P, Q)
    BY <2>1, <2>4, <2>5 DEF Holds, Pairs
  <2>7. QED
    BY <1>1, <1>4, <2>6 DEF Exact
<1>5. CASE s.proofs # <<>> /\ ~t.raised
  <2>1. Both(s, t).proofs = Product(s.proofs, t.proofs)
    <3>1. Both(s, t) = [s EXCEPT !.proofs = Product(s.proofs, t.proofs)]
      BY <1>5 DEF Both, Product
    <3>2. s = [proofs |-> s.proofs, raised |-> s.raised]
      BY <1>0 DEF IsStream
    <3>3. QED
      BY <3>1, <3>2
  <2>2. PICK r : r = Product(s.proofs, t.proofs)
    OBVIOUS
  <2>3. PairsUp(r, s.proofs, t.proofs)
    BY <1>2, <2>2, ProductHas
  <2>4. ASSUME NEW x, Holds(Both(s, t), x) PROVE x \in Pairs(P, Q)
    <3>1. PICK k \in DOMAIN r : r[k] = x
      BY <2>1, <2>2, <2>4 DEF Holds
    <3>2. PICK i \in DOMAIN s.proofs, j \in DOMAIN t.proofs : x = AndNode(s.proofs[i], t.proofs[j])
      BY <2>3, <3>1 DEF PairsUp
    <3>3. Holds(s, s.proofs[i]) /\ Holds(t, t.proofs[j])
      BY DEF Holds
    <3>4. s.proofs[i] \in P /\ t.proofs[j] \in Q
      BY <3>3 DEF Exact
    <3>5. QED
      BY <3>2, <3>4 DEF Pairs
  <2>5. ASSUME ~s.raised, NEW l \in P, NEW u \in Q PROVE Holds(Both(s, t), AndNode(l, u))
    <3>1. Holds(s, l) /\ Holds(t, u)
      BY <1>5, <2>5 DEF Exact
    <3>2. QED
      BY <2>1, <2>2, <2>3, <3>1 DEF Holds, PairsUp
  <2>6. ~s.raised => \A x \in Pairs(P, Q) : Holds(Both(s, t), x)
    BY <2>5 DEF Pairs
  <2>7. QED
    BY <1>1, <1>5, <2>4, <2>6 DEF Exact
<1>6. QED
  BY <1>3, <1>4, <1>5

\* f[n] are the proofs of the last n goals.
NestsBodies(f, goals, b, of) ==
  /\ f[0] = {TrueNode} /\ f[Len(goals)] = BodyProofs(goals, b, of)
  /\ \A i \in 1..Len(goals) :
       LET first == LiteralProofs(goals[Len(goals) + 1 - i], b, of)
       IN  f[i] = IF i = 1 THEN first ELSE Pairs(first, f[i - 1])

LEMMA BodiesSteps ==
  ASSUME NEW goals \in Seq(Literal), NEW b, NEW of
  PROVE  \E f : NestsBodies(f, goals, b, of)
<1>0. Len(goals) \in Nat
  OBVIOUS
<1> PICK x : x = [goals |-> goals, b |-> b, of |-> of]
  OBVIOUS
<1> DEFINE first(i) == LiteralProofs(goals[Len(goals) + 1 - i], b, of)
<1>1. PICK f : RecursUpto(Len(goals), "bodies", x, {TrueNode}, f)
  BY <1>0, Recursion
<1>2. \A i \in 0..Len(goals) :
        Values("bodies", x, {TrueNode}, f, i) =
          CASE i = 0 -> {TrueNode}
            [] i = 1 -> first(i)
            [] OTHER -> Pairs(first(i), f[i - 1])
  <2>1. \A y, i : Step("bodies", x, y, i) = IF i = 1 THEN first(i) ELSE Pairs(first(i), y)
    BY DEF Step
  <2> HIDE DEF first
  <2>2. QED
    BY <2>1 DEF Values
<1>3. f = [i \in 0..Len(goals) |->
             CASE i = 0 -> {TrueNode}
               [] i = 1 -> first(i)
               [] OTHER -> Pairs(first(i), f[i - 1])]
  <2> HIDE DEF first
  <2> QED BY <1>1, <1>2 DEF RecursUpto
<1>4. PICK g : /\ g = [i \in 0..Len(goals) |->
                         CASE i = 0 -> {TrueNode}
                           [] i = 1 -> first(i)
                           [] OTHER -> Pairs(first(i), g[i - 1])]
               /\ g[Len(goals)] = BodyProofs(goals, b, of)
  BY <1>3 DEF BodyProofs
<1> HIDE DEF first
<1>6. g[0] = {TrueNode}
  BY <1>0, <1>4
<1>7. ASSUME NEW i \in 1..Len(goals)
      PROVE  g[i] = IF i = 1 THEN first(i) ELSE Pairs(first(i), g[i - 1])
  <2>1. i \in 0..Len(goals) /\ i # 0
    BY <1>0
  <2>2. QED
    BY <1>4, <2>1
<1>8. QED
  BY <1>4, <1>6, <1>7 DEF first, NestsBodies

\* f[n] are the proofs of each atom at depth n - 1.
NestsProofs(f, j) ==
  /\ Proofs(j) = BodyProofs(j.goals, j.backend, f[j.depth + 1])
  /\ f[0] = NoneYet
  /\ \A n \in 1..(j.depth + 1) : f[n] = LevelProofs(j, n - 1, f[n - 1])

LEMMA ProofsSteps ==
  ASSUME NEW j, j.depth \in Nat
  PROVE  \E f : NestsProofs(f, j)
<1> PICK x : x = [job |-> j]
  OBVIOUS
<1>1. PICK f : RecursUpto(j.depth + 1, "proofs", x, NoneYet, f)
  <2>1. j.depth + 1 \in Nat
    OBVIOUS
  <2>2. QED
    BY <2>1, Recursion
<1>2. f = [n \in 0..(j.depth + 1) |-> IF n = 0 THEN NoneYet ELSE LevelProofs(j, n - 1, f[n - 1])]
  <2>1. \A y, n : Step("proofs", x, y, n) = LevelProofs(j, n - 1, y)
    BY DEF Step
  <2>2. QED
    BY <1>1, <2>1 DEF RecursUpto, Values
<1>3. PICK g : /\ g = [n \in 0..(j.depth + 1) |->
                         IF n = 0 THEN NoneYet ELSE LevelProofs(j, n - 1, g[n - 1])]
               /\ Proofs(j) = BodyProofs(j.goals, j.backend, g[j.depth + 1])
  BY <1>2 DEF Proofs
<1>4. g[0] = NoneYet
  BY <1>3
<1>5. ASSUME NEW n \in 1..(j.depth + 1) PROVE g[n] = LevelProofs(j, n - 1, g[n - 1])
  <2>1. n \in 0..(j.depth + 1) /\ n # 0
    OBVIOUS
  <2>2. QED
    BY <1>3, <2>1
<1>6. QED
  BY <1>3, <1>4, <1>5 DEF NestsProofs

----------------------------------------------------------------------------
(* A prover finds the proofs there are, goal by goal and level by level.   *)

ExactAtoms(streams, of) == \A a \in Atom : Exact(streams[a], of[a])

LEMMA BasicExact ==
  Exact(Fail, {}) /\ Exact(Raise, {}) /\ \A p : Exact(Yield(<<p>>), {p})
BY BasicStreams, BasicProofs DEF Exact

LEMMA LiteralExact ==
  ASSUME NEW l \in Literal, NEW b \in Backend, NEW streams, NEW of, ExactAtoms(streams, of)
  PROVE  Exact(ProveLiteral(l, b, streams), LiteralProofs(l, b, of))
<1>g. PICK g : g = Reduced(l.goal, b)
  OBVIOUS
<1> DEFINE s == CASE g = "true"  -> Yield(<<TrueNode>>)
                  [] g = "false" -> Fail
                  [] g = "error" -> Raise
                  [] OTHER            -> streams[g]
           P == GoalProofs(g, of)
<1>0. /\ l.neg \in BOOLEAN /\ g \in Atom \cup {"true", "false", "error"}
      /\ \A a \in Atom : a # "true" /\ a # "false" /\ a # "error"
  BY <1>g, ReducedIs DEF Literal
<1>1. Exact(s, P)
  <2>1. CASE g = "true"
    <3>1. P = {TrueNode}
      <4>1. GoalProofs("true", of) = {TrueNode}
        BY <1>0 DEF GoalProofs
      <4>2. QED
        BY <2>1, <4>1
    <3>2. s = Yield(<<TrueNode>>)
      BY <2>1
    <3> HIDE DEF s, P
    <3>3. QED
      BY <3>1, <3>2, BasicExact
  <2>2. CASE g = "false"
    <3>1. P = {}
      BY <1>0, <2>2 DEF GoalProofs
    <3>2. s = Fail
      BY <2>2
    <3>3. QED
      BY <3>1, <3>2, BasicExact
  <2>3. CASE g = "error"
    <3>1. P = {}
      BY <1>0, <2>3 DEF GoalProofs
    <3>2. s = Raise
      BY <2>3
    <3>3. QED
      BY <3>1, <3>2, BasicExact
  <2>4. CASE g \in Atom
    <3>1. P = of[g]
      BY <1>0, <2>4 DEF GoalProofs
    <3>2. s = streams[g]
      BY <1>0, <2>4
    <3>3. QED
      BY <2>4, <3>1, <3>2 DEF ExactAtoms
  <2>5. QED
    BY <1>0, <2>1, <2>2, <2>3, <2>4
<1>2. ProveLiteral(l, b, streams) = IF l.neg THEN Negated(l.goal, s) ELSE s
  BY <1>g DEF ProveLiteral
<1>3. LiteralProofs(l, b, of) = IF ~l.neg THEN P ELSE IF P = {} THEN {NegNode(l.goal)} ELSE {}
  BY <1>g DEF LiteralProofs
<1> HIDE DEF s, P
<1>4. CASE ~l.neg
  BY <1>1, <1>2, <1>3, <1>4
<1>5. CASE l.neg
  <2>1. IsStream(s) /\ (s.proofs = <<>> <=> \A x : ~Holds(s, x))
    BY <1>1, NoProofs DEF Exact
  <2>2. CASE s.proofs # <<>>
    <3>1. Negated(l.goal, s) = Fail /\ P # {}
      BY <1>1, <2>1, <2>2 DEF Negated, Exact
    <3>2. ProveLiteral(l, b, streams) = Fail /\ LiteralProofs(l, b, of) = {}
      BY <1>2, <1>3, <1>5, <3>1
    <3>3. QED
      BY <3>2, BasicExact
  <2>3. CASE s.proofs = <<>> /\ s.raised
    <3>1. ProveLiteral(l, b, streams) = Raise
      BY <1>2, <1>5, <2>3 DEF Negated
    <3>2. QED
      BY <3>1, BasicStreams, BasicProofs DEF Exact
  <2>4. CASE s.proofs = <<>> /\ ~s.raised
    <3>1. Negated(l.goal, s) = Yield(<<NegNode(l.goal)>>) /\ P = {}
      BY <1>1, <2>1, <2>4 DEF Negated, Exact
    <3>2. ProveLiteral(l, b, streams) = Yield(<<NegNode(l.goal)>>)
          /\ LiteralProofs(l, b, of) = {NegNode(l.goal)}
      BY <1>2, <1>3, <1>5, <3>1
    <3>3. QED
      BY <3>2, BasicExact
  <2>5. QED
    BY <2>2, <2>3, <2>4
<1>6. QED
  BY <1>4, <1>5

LEMMA GoalsExact ==
  ASSUME NEW goals \in Seq(Literal), NEW b \in Backend, NEW streams, NEW of, ExactAtoms(streams, of)
  PROVE  Exact(ProveGoals(goals, b, streams), BodyProofs(goals, b, of))
<1>1. PICK f : NestsGoals(f, goals, b, streams)
  BY GoalsSteps
<1>2. PICK g : NestsBodies(g, goals, b, of)
  BY BodiesSteps
<1> DEFINE m == Len(goals)
<1>0. m \in Nat /\ DOMAIN goals = 1..m /\ \A i \in 1..m : goals[i] \in Literal
  BY SeqsOf
<1> DEFINE Done(n) == Exact(f[n], g[n])
           S == {n \in Nat : n <= m => Done(n)}
<1> HIDE DEF Done, m
<1>3. 0 \in S
  <2>1. f[0] = Yield(<<TrueNode>>) /\ g[0] = {TrueNode}
    BY <1>1, <1>2 DEF NestsGoals, NestsBodies
  <2>2. Done(0)
    BY <2>1, BasicExact DEF Done
  <2>3. QED
    BY <2>2
<1>4. ASSUME NEW n \in Nat, n \in S PROVE n + 1 \in S
  <2> SUFFICES ASSUME n + 1 <= m PROVE Done(n + 1)
    OBVIOUS
  <2>1. m - n \in 1..m /\ n + 1 \in 1..m /\ m + 1 - (n + 1) = m - n /\ (n + 1) - 1 = n /\ n <= m
    <3>1. m \in Nat
      BY <1>0
    <3>2. QED
      BY <3>1
  <2>2. Exact(f[n], g[n])
    BY <1>4, <2>1 DEF Done
  <2>3. PICK l \in Literal : l = goals[m - n]
    BY <1>0, <2>1
  <2>4. PICK s, P : s = ProveLiteral(l, b, streams) /\ P = LiteralProofs(l, b, of)
    OBVIOUS
  <2>5. Exact(s, P)
    BY <2>4, LiteralExact
  <2>6. n + 1 = 1 <=> n = 0
    OBVIOUS
  <2>7. f[n + 1] = IF n = 0 THEN s ELSE Both(s, f[n])
    BY <1>1, <2>1, <2>3, <2>4, <2>6 DEF m, NestsGoals
  <2>8. g[n + 1] = IF n = 0 THEN P ELSE Pairs(P, g[n])
    BY <1>2, <2>1, <2>3, <2>4, <2>6 DEF m, NestsBodies
  <2>9. CASE n = 0
    BY <2>5, <2>7, <2>8, <2>9 DEF Done
  <2>10. CASE n # 0
    <3>1. PICK t, Q : t = f[n] /\ Q = g[n]
      OBVIOUS
    <3>2. Exact(Both(s, t), Pairs(P, Q))
      BY <2>2, <2>5, <3>1, BothExact
    <3>3. QED
      BY <2>7, <2>8, <2>10, <3>1, <3>2 DEF Done
  <2>11. QED
    BY <2>9, <2>10
<1>5. m \in S
  <2> HIDE DEF S
  <2> QED BY <1>0, <1>3, <1>4, NatInd
<1>6. Done(m)
  BY <1>0, <1>5
<1>7. QED
  BY <1>1, <1>2, <1>6 DEF Done, m, NestsGoals, NestsBodies

LEMMA ClauseExact ==
  ASSUME NEW c \in Clause, NEW b \in Backend, NEW d \in Nat, NEW below, NEW of,
         ExactAtoms(below, of)
  PROVE  Exact(ProveClause(c, b, d, below), ClauseProofs(c, b, d, of))
<1> DEFINE cited(P) == {Node("rule", c.head, c.body, c.id, <<p>>) : p \in P}
<1>0. FactClause(c, b) <=> c.body = <<>> \/ (c.id = NoId /\ c.body = TrueBody)
  BY FactIs
<1>1. CASE FactClause(c, b)
  <2>1. ClauseProofs(c, b, d, of) = {FactNode(c.head)}
    BY <1>0, <1>1 DEF ClauseProofs
  <2>2. ProveClause(c, b, d, below) = Yield(<<FactNode(c.head)>>)
    BY <1>1 DEF ProveClause
  <2>3. QED
    BY <2>1, <2>2, BasicExact
<1>2. CASE ~FactClause(c, b) /\ ~(d > 0)
  <2>1. ClauseProofs(c, b, d, of) = cited({})
    BY <1>0, <1>2 DEF ClauseProofs
  <2>2. cited({}) = {}
    OBVIOUS
  <2>3. ProveClause(c, b, d, below) = Fail
    BY <1>2 DEF ProveClause, DepthLeft
  <2> HIDE DEF cited
  <2>4. QED
    BY <2>1, <2>2, <2>3, BasicExact
<1>3. CASE ~FactClause(c, b) /\ d > 0
  <2>1. PICK body \in Seq(Literal) : body = c.body
    BY DEF Clause
  <2>2. PICK s, P : s = ProveGoals(body, b, below) /\ P = BodyProofs(body, b, of)
    OBVIOUS
  <2>3. Exact(s, P)
    BY <2>2, GoalsExact
  <2>4. PICK t : t = [s EXCEPT !.proofs = [i \in DOMAIN @ |-> RuleNode(c, @[i])]]
    OBVIOUS
  <2>5. ProveClause(c, b, d, below) = t
    BY <1>3, <2>1, <2>2, <2>4 DEF ProveClause, DepthLeft
  <2>6. ClauseProofs(c, b, d, of) = cited(P)
    BY <1>0, <1>3, <2>1, <2>2 DEF ClauseProofs
  <2>7. IsStream(s)
    BY <2>3 DEF Exact
  <2>8. IsStream(t) /\ t.raised = s.raised
    BY <2>4, <2>7, RelabelledStream
  <2>9. t.proofs = [i \in DOMAIN s.proofs |-> RuleNode(c, s.proofs[i])]
    <3>1. s = [proofs |-> s.proofs, raised |-> s.raised]
      BY <2>7 DEF IsStream
    <3>2. QED
      BY <2>4, <3>1
  <2>10. ASSUME NEW x PROVE Holds(t, x) <=> \E p : Holds(s, p) /\ x = RuleNode(c, p)
    BY <2>9 DEF Holds
  <2>11. \A p : RuleNode(c, p) = Node("rule", c.head, c.body, c.id, <<p>>)
    BY DEF RuleNode
  <2>12. \A x : x \in cited(P) <=> \E p \in P : x = RuleNode(c, p)
    BY <2>11
  <2> HIDE DEF cited
  <2>13. \A x : Holds(t, x) => x \in cited(P)
    BY <2>3, <2>10, <2>12 DEF Exact
  <2>14. ~t.raised => \A x \in cited(P) : Holds(t, x)
    BY <2>3, <2>8, <2>10, <2>12 DEF Exact
  <2>15. QED
    BY <2>5, <2>6, <2>8, <2>13, <2>14 DEF Exact
<1>4. QED
  BY <1>1, <1>2, <1>3

LEMMA ThenExact ==
  ASSUME NEW s, NEW t, NEW P, NEW Q, Exact(s, P), Exact(t, Q)
  PROVE  Exact(Then(s, t), P \cup Q)
<1>1. IsStream(s) /\ IsStream(t)
  BY DEF Exact
<1>2. IsStream(Then(s, t)) /\ (Then(s, t).raised <=> s.raised \/ t.raised)
  BY <1>1, ThenIs
<1>3. \A x : Holds(Then(s, t), x) <=> Holds(s, x) \/ (~s.raised /\ Holds(t, x))
  BY <1>1, ThenHolds
<1>4. \A x : Holds(Then(s, t), x) => x \in P \cup Q
  BY <1>3 DEF Exact
<1>5. ~Then(s, t).raised => \A x \in P \cup Q : Holds(Then(s, t), x)
  BY <1>2, <1>3 DEF Exact
<1>6. QED
  BY <1>2, <1>4, <1>5 DEF Exact

LEMMA AtomExact ==
  ASSUME NEW j, j.kb \in Seq(Clause), NEW b \in Backend, b = j.backend, NEW d \in Nat,
         NEW below, NEW of, ExactAtoms(below, of), NEW a
  PROVE  Exact(ProveAtom(j.kb, b, d, below, a), AtomProofs(j, d, of, a))
<1> PICK kb \in Seq(Clause) : kb = j.kb
  OBVIOUS
<1>1. PICK cs : cs = Candidates(kb, b, a)
  OBVIOUS
<1>2. cs \in Seq(Clause) /\ HasClausesOf(cs, kb, a)
  BY <1>1, CandidatesAre
<1> DEFINE m == Len(cs)
<1>3. m \in Nat /\ DOMAIN cs = 1..m /\ \A i \in 1..m : cs[i] \in Clause
  BY <1>2, SeqsOf
<1>4. PICK f : /\ f[0] = Fail /\ f[Len(cs)] = ProveAtom(kb, b, d, below, a)
               /\ \A i \in 1..Len(cs) : f[i] = Then(f[i - 1], ProveClause(cs[i], b, d, below))
  BY <1>1, <1>2, AtomSteps
<1> DEFINE Some(n) == UNION {ClauseProofs(cs[i], b, d, of) : i \in 1..n}
           Done(n) == Exact(f[n], Some(n))
           S == {n \in Nat : n <= m => Done(n)}
<1> HIDE DEF m, Done
<1>5. 0 \in S
  <2>1. Some(0) = {}
    OBVIOUS
  <2> HIDE DEF Some
  <2>2. Done(0)
    BY <1>4, <2>1, BasicExact DEF Done
  <2>3. QED
    BY <2>2
<1>6. ASSUME NEW n \in Nat, n \in S PROVE n + 1 \in S
  <2> SUFFICES ASSUME n + 1 <= m PROVE Done(n + 1)
    OBVIOUS
  <2>1. n + 1 \in 1..m /\ (n + 1) - 1 = n /\ n <= m
    <3>1. m \in Nat
      BY <1>3
    <3>2. QED
      BY <3>1
  <2>2. PICK t, Q : t = ProveClause(cs[n + 1], b, d, below) /\ Q = ClauseProofs(cs[n + 1], b, d, of)
    OBVIOUS
  <2>3. Exact(t, Q)
    <3>1. PICK c \in Clause : c = cs[n + 1]
      BY <1>3, <2>1
    <3>2. Exact(ProveClause(c, b, d, below), ClauseProofs(c, b, d, of))
      BY ClauseExact
    <3>3. QED
      BY <2>2, <3>1, <3>2
  <2>4. Some(n + 1) = Some(n) \cup Q
    <3>1. \A i : i \in 1..(n + 1) <=> i \in 1..n \/ i = n + 1
      OBVIOUS
    <3>2. QED
      BY <2>2, <3>1
  <2> HIDE DEF Some
  <2>5. Exact(f[n], Some(n))
    BY <1>6, <2>1 DEF Done
  <2>6. f[n + 1] = Then(f[n], t)
    BY <1>4, <2>1, <2>2 DEF m
  <2>7. PICK s, P : s = f[n] /\ P = Some(n)
    OBVIOUS
  <2>8. Exact(Then(s, t), P \cup Q)
    BY <2>3, <2>5, <2>7, ThenExact
  <2>9. QED
    BY <2>4, <2>6, <2>7, <2>8 DEF Done
<1>7. Done(m)
  <2> HIDE DEF S
  <2>1. m \in S
    BY <1>3, <1>5, <1>6, NatInd
  <2>2. QED
    BY <1>3, <2>1 DEF S
<1>8. Some(m) = AtomProofs(j, d, of, a)
  <2>1. \A c : (\E i \in 1..m : cs[i] = c) <=> c \in {c1 \in Clauses(j) : c1.head = a}
    BY <1>2, <1>3 DEF HasClausesOf, Clauses
  <2>2. \A x : x \in Some(m) <=> \E i \in 1..m : x \in ClauseProofs(cs[i], b, d, of)
    OBVIOUS
  <2>3. \A x : x \in AtomProofs(j, d, of, a)
                 <=> \E c \in {c1 \in Clauses(j) : c1.head = a} : x \in ClauseProofs(c, b, d, of)
    BY DEF AtomProofs
  <2>4. \A x : x \in AtomProofs(j, d, of, a) => x \in Some(m)
    <3> TAKE x
    <3>1. SUFFICES ASSUME x \in AtomProofs(j, d, of, a) PROVE x \in Some(m)
      OBVIOUS
    <3>2. PICK c \in {c1 \in Clauses(j) : c1.head = a} : x \in ClauseProofs(c, b, d, of)
      BY <2>3, <3>1
    <3>3. PICK i \in 1..m : cs[i] = c
      BY <2>1
    <3>4. QED
      BY <2>2, <3>2, <3>3
  <2>5. \A x : x \in Some(m) => x \in AtomProofs(j, d, of, a)
    <3> TAKE x
    <3>1. SUFFICES ASSUME x \in Some(m) PROVE x \in AtomProofs(j, d, of, a)
      OBVIOUS
    <3>2. PICK i \in 1..m : x \in ClauseProofs(cs[i], b, d, of)
      BY <2>2, <3>1
    <3>3. cs[i] \in {c1 \in Clauses(j) : c1.head = a}
      BY <2>1
    <3>4. QED
      BY <2>3, <3>2, <3>3
  <2> HIDE DEF Some
  <2>6. QED
    BY <2>4, <2>5
<1> HIDE DEF Some
<1>9. QED
  BY <1>4, <1>7, <1>8 DEF Done, m

LEMMA StreamsExact ==
  ASSUME NEW j, IsJob(j), NEW b \in Backend, b = j.backend
  PROVE  \E of : ExactAtoms(Streams(j.kb, b, j.depth), of) /\ Proofs(j) = BodyProofs(j.goals, b, of)
<1>1. PICK depth \in Nat : depth = j.depth
  BY DEF IsJob
<1>2. PICK kb \in Seq(Clause) : kb = j.kb
  BY DEF IsJob
<1>3. PICK f : Levels(f, kb, b, depth)
  BY LevelsOf
<1>4. PICK g : NestsProofs(g, j)
  BY <1>1, ProofsSteps
<1> DEFINE Done(n) == ExactAtoms(f[n], g[n])
           S == {n \in Nat : n <= depth + 1 => Done(n)}
<1> HIDE DEF Done
<1>5. 0 \in S
  <2>1. ASSUME NEW a \in Atom PROVE Exact(f[0][a], g[0][a])
    <3>1. f[0][a] = Fail
      BY <1>3 DEF Levels
    <3>2. g[0][a] = {}
      BY <1>4 DEF NestsProofs, NoneYet
    <3>3. QED
      BY <3>1, <3>2, BasicExact
  <2>2. Done(0)
    BY <2>1 DEF ExactAtoms, Done
  <2>3. QED
    BY <2>2
<1>6. ASSUME NEW n \in Nat, n \in S PROVE n + 1 \in S
  <2> SUFFICES ASSUME n + 1 <= depth + 1 PROVE Done(n + 1)
    OBVIOUS
  <2>1. n + 1 \in 1..(depth + 1) /\ (n + 1) - 1 = n /\ n <= depth + 1
    OBVIOUS
  <2>2. PICK below, of : below = f[n] /\ of = g[n]
    OBVIOUS
  <2>3. ExactAtoms(below, of)
    BY <1>6, <2>1, <2>2 DEF Done
  <2>4. ASSUME NEW a \in Atom PROVE Exact(f[n + 1][a], g[n + 1][a])
    <3>1. f[n + 1][a] = ProveAtom(kb, b, n, below, a)
      BY <1>3, <2>1, <2>2 DEF Levels
    <3>2. g[n + 1][a] = AtomProofs(j, n, of, a)
      <4>1. g[n + 1] = LevelProofs(j, n, of)
        BY <1>1, <1>4, <2>1, <2>2 DEF NestsProofs
      <4>2. QED
        BY <4>1 DEF LevelProofs
    <3>3. Exact(ProveAtom(j.kb, b, n, below, a), AtomProofs(j, n, of, a))
      BY <1>2, <2>3, AtomExact
    <3>4. QED
      BY <1>2, <3>1, <3>2, <3>3
  <2>5. QED
    BY <2>4 DEF ExactAtoms, Done
<1>7. Done(depth + 1)
  <2> HIDE DEF S
  <2>1. depth + 1 \in S
    BY <1>5, <1>6, NatInd
  <2>2. QED
    BY <2>1 DEF S
<1>8. QED
  BY <1>1, <1>2, <1>3, <1>4, <1>7 DEF Done, Levels, NestsProofs

\* A query searched as it is has the proofs there are; one that Prolog misreads
\* has none.
LEMMA SearchExact ==
  ASSUME NEW j, IsJob(j)
  PROVE  /\ ~Misread(j) => Exact(Search(j), Proofs(j))
         /\ \A x : Holds(Search(j), x) => x \in Proofs(j)
<1>1. PICK goals \in Seq(Literal) : goals = j.goals
  BY DEF IsJob
<1>2. PICK b \in Backend : b = j.backend
  BY DEF IsJob
<1>3. CASE ~Misread(j)
  <2>1. QueryGoals(j) = goals
    BY <1>1, <1>3, QueryGoalsAre
  <2>2. PICK streams : streams = Streams(j.kb, b, j.depth)
    OBVIOUS
  <2>3. PICK of : ExactAtoms(streams, of) /\ Proofs(j) = BodyProofs(goals, b, of)
    BY <1>1, <1>2, <2>2, StreamsExact
  <2>4. Search(j) = ProveGoals(goals, b, streams)
    BY <1>2, <2>1, <2>2 DEF Search
  <2>5. Exact(ProveGoals(goals, b, streams), BodyProofs(goals, b, of))
    BY <2>3, GoalsExact
  <2>6. QED
    BY <2>3, <2>4, <2>5 DEF Exact
<1>4. CASE Misread(j)
  <2>1. PICK qs : qs = QueryGoals(j)
    OBVIOUS
  <2>2. PICK streams, H : streams = Streams(j.kb, b, j.depth) /\ H = Consequences(j)
    OBVIOUS
  <2> PICK none : none = [neg |-> FALSE, goal |-> "false"]
    OBVIOUS
  <2>3. PICK i \in DOMAIN goals : goals[i].neg \/ Operates(goals)
    <3>1. CASE Negates(goals)
      BY <3>1 DEF Negates
    <3>2. CASE Operates(goals)
      <4>1. 1 \in DOMAIN goals
        BY <3>2 DEF Operates
      <4>2. QED
        BY <3>2, <4>1
    <3>3. QED
      BY <1>1, <1>4, <3>1, <3>2 DEF Misread, ReadAlike
  <2>4. qs = [k \in DOMAIN goals |-> IF goals[k].neg \/ Operates(goals) THEN none ELSE goals[k]]
    BY <1>1, <1>4, <2>1 DEF QueryGoals
  <2>5. qs \in Seq(Literal) /\ i \in DOMAIN qs /\ qs[i] = none
    <3>1. Len(goals) \in Nat /\ DOMAIN goals = 1..Len(goals) /\ \A k \in 1..Len(goals) : goals[k] \in Literal
      OBVIOUS
    <3>2. none \in Literal
      BY DEF Literal
    <3>3. qs \in Seq(Literal)
      BY <2>4, <3>1, <3>2
    <3>4. i \in DOMAIN qs /\ qs[i] = none
      BY <2>3, <2>4
    <3>5. QED
      BY <3>3, <3>4
  <2>6. DecidesAtoms(streams, H)
    BY <1>2, <2>2, StreamsDecided
  <2>7. Decides(ProveGoals(qs, b, streams), \A k \in DOMAIN qs : LitHolds(qs[k], b, H))
    BY <2>5, <2>6, GoalsDecided
  <2>8. ~LitHolds(qs[i], b, H)
    <3>1. "false" \notin Atom
      BY InferenceAssumption
    <3>2. none.neg = FALSE /\ none.goal = "false"
      OBVIOUS
    <3>3. "false" # "true"
      OBVIOUS
    <3>4. ~LitHolds(none, b, H)
      BY <3>1, <3>2, <3>3, InferenceAssumption DEF GoalHolds, LitHolds, Reduced
    <3>5. QED
      BY <2>5, <3>4
  <2>9. ProveGoals(qs, b, streams).proofs = <<>> /\ IsStream(ProveGoals(qs, b, streams))
    BY <2>5, <2>7, <2>8 DEF Decides
  <2>10. Search(j) = ProveGoals(qs, b, streams)
    BY <1>2, <2>1, <2>2 DEF Search
  <2>11. \A x : ~Holds(Search(j), x)
    BY <2>9, <2>10, NoProofs
  <2>12. QED
    BY <1>4, <2>11
<1>5. QED
  BY <1>3, <1>4

\* The whole search, when it ends below the cap.
LEMMA CompleteSearch ==
  ASSUME Progress, Complete
  PROVE  found = Search(job).proofs /\ ~Search(job).raised
<1> PICK s : s = Search(job)
  OBVIOUS
<1>0. job.cap \in Nat /\ \E S : s.proofs \in Seq(S)
  BY SearchOfJob DEF Progress
<1>1. PICK S : s.proofs \in Seq(S)
  BY <1>0
<1>2. PICK k \in 0..Len(s.proofs) : Taken(k, s.proofs, s.raised)
  BY DEF Progress, Complete
<1>3. found = SubSeq(s.proofs, 1, Least(k, job.cap)) /\ Len(found) < job.cap
      /\ ((k = Len(s.proofs) /\ ~s.raised) \/ k = job.cap)
  BY <1>2 DEF Taken, Complete
<1>4. Len(s.proofs) \in Nat /\ k \in Nat /\ k <= Len(s.proofs)
  BY <1>1, <1>2
<1>5. k < job.cap
  <2> SUFFICES ASSUME ~(k < job.cap) PROVE FALSE
    OBVIOUS
  <2>1. Least(k, job.cap) = job.cap /\ job.cap \in 0..Len(s.proofs)
    BY <1>0, <1>4 DEF Least
  <2>2. Len(SubSeq(s.proofs, 1, job.cap)) = job.cap
    BY <1>0, <1>1, <2>1
  <2>3. QED
    BY <1>0, <1>3, <2>1, <2>2
<1>6. Least(k, job.cap) = k /\ k = Len(s.proofs) /\ ~s.raised
  BY <1>0, <1>3, <1>4, <1>5 DEF Least
<1>7. SubSeq(s.proofs, 1, Len(s.proofs)) = s.proofs
  BY <1>1
<1>8. QED
  BY <1>3, <1>6, <1>7

LEMMA FoundHolds ==
  ASSUME Progress, NEW i \in DOMAIN found
  PROVE  Holds(Search(job), found[i])
<1> PICK s : s = Search(job)
  OBVIOUS
<1>0. job.cap \in Nat /\ \E S : s.proofs \in Seq(S)
  BY SearchOfJob DEF Progress
<1>1. PICK S : s.proofs \in Seq(S)
  BY <1>0
<1>2. found # <<>> /\ status # "error"
  <2>1. DOMAIN <<>> = {}
    OBVIOUS
  <2>2. QED
    BY <2>1 DEF Progress
<1>3. PICK k \in 0..Len(s.proofs) : Taken(k, s.proofs, s.raised)
  BY <1>2 DEF Progress
<1>4. found = SubSeq(s.proofs, 1, Least(k, job.cap))
  BY <1>2, <1>3 DEF Taken
<1>5. PICK n \in 0..Len(s.proofs) : n = Least(k, job.cap)
  BY <1>0, <1>1 DEF Least
<1>6. i \in DOMAIN s.proofs /\ found[i] = s.proofs[i]
  BY <1>1, <1>4, <1>5
<1>7. QED
  BY <1>6 DEF Holds

----------------------------------------------------------------------------
(* Theorems.                                                               *)

LEMMA ProgressTypes == Progress => TypeOK
<1> SUFFICES ASSUME Progress PROVE TypeOK
  OBVIOUS
<1> PICK P : P = Search(job).proofs
  OBVIOUS
<1> PICK raised : raised = Search(job).raised
  OBVIOUS
<1>1. /\ job \in Jobs /\ status \in {"searching", "ok", "error"} /\ (status = "error" => found = <<>>)
      /\ \/ \E k \in 0..Len(P) : Taken(k, P, raised)
         \/ pending = Raise /\ found = <<>>
  BY DEF Progress
<1>2. job.cap \in Nat /\ raised \in BOOLEAN /\ \E S : P \in Seq(S)
  BY <1>1, SearchOfJob
<1>3. PICK S : P \in Seq(S)
  BY <1>2
<1>4. Len(<<>>) = 0 /\ 0 <= job.cap
  BY <1>2
<1>5. CASE pending = Raise /\ found = <<>>
  BY <1>1, <1>4, <1>5 DEF Raise, TypeOK
<1>6. ASSUME NEW k \in 0..Len(P), Taken(k, P, raised) PROVE TypeOK
  <2>1. pending = [proofs |-> SubSeq(P, k + 1, Len(P)), raised |-> raised]
    BY <1>6 DEF Taken
  <2>2. DOMAIN pending = {"proofs", "raised"} /\ pending.raised \in BOOLEAN
    BY <1>2, <2>1
  <2>3. Len(found) <= job.cap
    <3>1. CASE status = "error"
      BY <1>1, <1>4, <3>1
    <3>2. CASE status # "error"
      <4>1. found = SubSeq(P, 1, Least(k, job.cap))
        BY <1>6, <3>2 DEF Taken
      <4>2. PICK n \in 0..Len(P) : n = Least(k, job.cap) /\ n <= job.cap
        BY <1>2, <1>3 DEF Least
      <4>3. Len(found) = n
        BY <1>3, <4>1, <4>2, AfterTaking
      <4>4. QED
        BY <4>2, <4>3
    <3>3. QED
      BY <3>1, <3>2
  <2>4. QED
    BY <1>1, <2>2, <2>3 DEF TypeOK
<1>7. QED
  BY <1>1, <1>5, <1>6

\* The states of a solve have the types of the code's, for any knowledge base,
\* goals, bounds and backend: at most max_solutions solutions are kept
\* (_Solver.solve and _query_snippet), none after an error.
THEOREM SolverTypes == Spec => []TypeOK
<1>1. QED
  BY ProgressInit, ProgressStep, ProgressTypes, PTL DEF Spec

\* The cap only truncates (_Solver.solve breaks off, the Prolog snippet searches
\* on): a solve that ends well has the first max_solutions proofs of its
\* search, or all of them.
THEOREM CapTruncates == Spec => []CapOnlyTruncates
<1>1. Progress => CapOnlyTruncates
  BY WellEnded DEF CapOnlyTruncates, Least
<1>2. QED
  BY <1>1, ProgressInit, ProgressStep, PTL DEF Spec

\* Without negation a query is answered iff it follows by at most max_depth
\* nested rules (_prove_predicate and prove/3), however its clauses are
\* ordered and whichever backend runs it, with the operations' outcomes on that
\* backend: the depth bound costs no answer it should not, and an arithmetic
\* error hides none behind a proof.  Left out are queries that Prolog misreads.
THEOREM AnswersFollow == Spec => []AnsweredIffItFollows
<1>1. Progress => AnsweredIffItFollows
  <2> SUFFICES ASSUME Progress, status = "ok", Definite(job), ~Misread(job)
               PROVE  found # <<>> <=> GoalsHold(job.goals, job.backend, LAMBDA a : a \in Consequences(job))
    BY DEF AnsweredIffItFollows
  <2>2. job \in Jobs /\ (Search(job).raised => Search(job).proofs # <<>>)
        /\ (found # <<>> <=> Search(job).proofs # <<>>)
    BY WellEnded
  <2>3. IsJob(job)
    BY <2>2, InferenceAssumption
  <2>4. Decides(Search(job), Follows(job))
    BY <2>3, SearchDecided
  <2>5. QED
    BY <2>2, <2>4 DEF Decides, Follows
<1>2. QED
  BY <1>1, ProgressInit, ProgressStep, PTL DEF Spec

\* With negation as failure in rules, over a knowledge base without recursion
\* and a depth that does not bind, a query is answered iff it holds in the
\* completion (_prove_goals's NOT, prove(\+ A)): `not` succeeds on nothing that
\* is provable, and fails on nothing that is not.
THEOREM NegationIsFalsity == Spec => []NegationMeansFalse
<1>1. Progress => NegationMeansFalse
  <2> SUFFICES ASSUME Progress, ~Misread(job),
                      status = "ok", NonRecursive(job)
               PROVE  found # <<>> <=> GoalsHold(job.goals, job.backend, LAMBDA a : a \in Model(job))
    BY DEF NegationMeansFalse, AnsweredIffItHolds
  <2>1. job \in Jobs /\ (Search(job).raised => Search(job).proofs # <<>>)
        /\ (found # <<>> <=> Search(job).proofs # <<>>)
    BY WellEnded
  <2>2. IsJob(job)
    BY <2>1, InferenceAssumption
  <2>3. Decides(Search(job), Follows(job))
    BY <2>2, SearchDecided
  <2>4. Model(job) = Consequences(job)
    BY <2>2, ModelIsConsequences
  <2>5. QED
    BY <2>1, <2>3, <2>4 DEF Decides, Follows
<1>2. QED
  BY <1>1, ProgressInit, ProgressStep, PTL DEF Spec

\* The native solver and the meta-interpreter agree (ir_engine.py:3) where the
\* operations of the knowledge base and of the query have one outcome on both,
\* which leaves `=` out (is_arith_goal): a query without negated goals, and not
\* of one operation, that one backend answers to the end has, on the other, the
\* same proofs, each as often, in whatever order it tries the clauses and at
\* whatever depth, unless the other meets an error.
THEOREM BackendsFindTheSame == Spec => []BackendsAgree
<1>1. Progress => BackendsAgree
  <2> SUFFICES ASSUME Progress, Complete, ReadAlike(job), SameOutcomes(job),
                      ~OnOtherBackend.raised
               PROVE  Permuted(found, OnOtherBackend.proofs)
    BY DEF BackendsAgree
  <2>1. PICK e : e = CHOOSE b \in Backend : b # job.backend
    OBVIOUS
  <2>2. PICK s : s = Search(job)
    OBVIOUS
  <2>3. PICK t : t = OnOtherBackend
    OBVIOUS
  <2>4. job \in Jobs /\ IsJob(job) /\ job.backend \in Backend /\ job.cap \in Nat
    <3>1. job \in Jobs
      BY DEF Progress
    <3>2. QED
      BY <3>1, SearchOfJob
  <2>5. e \in Backend
    <3>1. \E b \in Backend : b # job.backend
      BY DEF Backend
    <3>2. QED
      BY <2>1, <3>1
  <2>6. PICK o : o = [job EXCEPT !.backend = e]
    OBVIOUS
  <2>7. t = Search(o)
    BY <2>1, <2>3, <2>6 DEF OnOtherBackend
  <2>8. Matches(s, t) /\ IsJob(o)
    BY <2>2, <2>4, <2>5, <2>6, <2>7, SearchMatches
  <2>9. IsStream(s) /\ IsStream(t)
    BY <2>2, <2>4, <2>7, <2>8, SearchIsStream
  <2>10. PICK S, T : s.proofs \in Seq(S) /\ t.proofs \in Seq(T)
    BY <2>9 DEF IsStream
  <2>11. found = s.proofs /\ ~s.raised
    BY <2>2, CompleteSearch
  <2>12. Same(s.proofs, t.proofs)
    BY <2>3, <2>8, <2>11 DEF Matches
  <2>13. Permuted(s.proofs, t.proofs)
    BY <2>10, <2>12, SameIsPermuted
  <2>14. QED
    BY <2>3, <2>11, <2>13
<1>2. QED
  BY <1>1, ProgressInit, ProgressStep, PTL DEF Spec

\* Every solution carries a proof of the query, and a solve that is over below
\* its cap has found every proof there is of at most max_depth nested rules
\* (_prove_goals, _prove_predicate and prove/3 against the proofs of the rules
\* themselves): none is made up, cited under another id or too deep, none is
\* lost to the order of the clauses, and `not` succeeds on what has none only.
THEOREM SolutionsAreProofs == Spec => []ProofsAreProofs
<1>1. Progress => ProofsAreProofs
  <2> SUFFICES ASSUME Progress PROVE ProofsAreProofs
    OBVIOUS
  <2>1. IsJob(job)
    BY SearchOfJob DEF Progress
  <2>2. /\ ~Misread(job) => Exact(Search(job), Proofs(job))
        /\ \A x : Holds(Search(job), x) => x \in Proofs(job)
    BY <2>1, SearchExact
  <2>3. \A i \in DOMAIN found : found[i] \in Proofs(job)
    BY <2>2, FoundHolds
  <2>4. ToSet(found) \subseteq Proofs(job)
    BY <2>3 DEF ToSet
  <2>5. ASSUME Complete, ~Misread(job), NEW x \in Proofs(job)
        PROVE  x \in ToSet(found)
    <3>1. found = Search(job).proofs /\ ~Search(job).raised
      BY <2>5, CompleteSearch
    <3>2. Holds(Search(job), x)
      BY <2>2, <2>5, <3>1 DEF Exact
    <3>3. QED
      BY <3>1, <3>2 DEF Holds, ToSet
  <2>6. QED
    BY <2>4, <2>5 DEF ProofsAreProofs
<1>2. QED
  BY <1>1, ProgressInit, ProgressStep, PTL DEF Spec
=============================================================================
