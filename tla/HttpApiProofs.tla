--------------------------- MODULE HttpApiProofs ---------------------------
(***************************************************************************)
(* The request loop, for any clients, requests and bounds: it stays well   *)
(* typed, its counters agree, clients that stay are answered, failures are *)
(* reported once, and nothing is left running.                             *)
(***************************************************************************)
EXTENDS HttpApi, FiniteSetTheorems, WellFoundedInduction, TLAPS

\* What the handler a step belongs to says of the path of the request.
StepsMatchPaths ==
  /\ pc \in {"body", "tool"} => req[serving].path \in Tools
  /\ pc \in {"ping", "stats"} => req[serving].path = "health"
  /\ pc = "scrape" => req[serving].path = "metrics"
  /\ pc \in {"body", "ping"} => Admitted(req[serving]) /\ Routed(req[serving])

\* A live process is a launch not yet reported as a failure.
LaunchesCoverReports ==
  Value(http, <<"health", 503>>) + (IF engine \in {"up", "wedged"} THEN 1 ELSE 0)
    <= launches

EndsByStop == pc \in {"closing", "closed"} => stopping

----------------------------------------------------------------------------
(* Sums.  Total and Cumulative are folds, each over the elements in an     *)
(* order of its own; both are the sum of the values.                       *)

LEMMA NatMin ==
  ASSUME NEW T \in SUBSET Nat, T # {}
  PROVE  \E x \in T : \A y \in T : x <= y
<1> DEFINE R == OpToRel(<, Nat)
<1>1. IsWellFoundedOn(R, Nat)
  BY NatLessThanWellFounded
<1>2. \A x, y \in Nat : x < y => <<x, y>> \in R
  BY DEF OpToRel
<1> HIDE DEF R
<1>3. PICK x \in T : \A y \in T : ~(<<y, x>> \in R)
  BY <1>1, WFMin
<1>4. \A y \in T : ~(y < x)
  BY <1>2, <1>3
<1>5. QED
  BY <1>3, <1>4

LEMMA NatInd ==
  ASSUME NEW S, 0 \in S, \A n \in Nat : n \in S => n + 1 \in S
  PROVE  \A n \in Nat : n \in S
<1> SUFFICES ASSUME NEW m \in Nat, m \notin S PROVE FALSE
  OBVIOUS
<1>1. PICK x \in Nat \ S : \A y \in Nat \ S : x <= y
  BY NatMin
<1>2. x - 1 \in Nat /\ x - 1 \in S
  BY <1>1
<1>3. QED
  BY <1>1, <1>2

\* A fold of + over the values f takes on D, in the order that pick gives.
Folds(D, f, pick, sum) ==
  /\ sum[{}] = 0
  /\ \A s \in SUBSET D : s # {} =>
       LET x == pick[s]
       IN  sum[s] = f[x] + sum[s \ {x}] \/ sum[s] = sum[s \ {x}] + f[x]

Picks(D, pick) == \A s \in SUBSET D : s # {} => pick[s] \in s

\* What such a fold computes, whatever the order.
Sums(D, f, sum) ==
  /\ sum[{}] = 0
  /\ \A s \in SUBSET D : sum[s] \in Nat /\ \A x \in s : sum[s] = f[x] + sum[s \ {x}]

Counts(D, f) == IsFiniteSet(D) /\ \A x \in D : f[x] \in Nat

LEMMA FewerElements ==
  ASSUME NEW D, IsFiniteSet(D), NEW s \in SUBSET D, NEW x \in s
  PROVE  /\ IsFiniteSet(s) /\ s \ {x} \in SUBSET D /\ Cardinality(s) \in Nat
         /\ Cardinality(s \ {x}) \in Nat /\ Cardinality(s) = Cardinality(s \ {x}) + 1
<1>1. IsFiniteSet(s)
  BY FS_Subset
<1>2. /\ Cardinality(s) \in Nat /\ IsFiniteSet(s \ {x})
      /\ Cardinality(s \ {x}) = Cardinality(s) - 1
  BY <1>1, FS_CardinalityType, FS_RemoveElement
<1>3. QED
  BY <1>1, <1>2, FS_CardinalityType

FoldOf(D, f, pick, sum) ==
  sum = [s \in SUBSET D |-> IF s = {} THEN 0 ELSE f[pick[s]] + sum[s \ {pick[s]}]]

LEMMA FoldExists ==
  ASSUME NEW D, IsFiniteSet(D), NEW f, NEW pick, Picks(D, pick)
  PROVE  \E sum : FoldOf(D, f, pick, sum)
<1> DEFINE Small(n) == {s \in SUBSET D : Cardinality(s) <= n}
           Step(s, sum) == IF s = {} THEN 0 ELSE f[pick[s]] + sum[s \ {pick[s]}]
           Upto == {n \in Nat : \E sum : sum = [s \in Small(n) |-> Step(s, sum)]}
<1>0. \A s \in SUBSET D : Cardinality(s) \in Nat /\ (Cardinality(s) = 0 => s = {})
  BY FS_Subset, FS_EmptySet, FS_CardinalityType
<1>1. 0 \in Upto
  <2> DEFINE g == [s \in Small(0) |-> 0]
  <2>1. \A s \in Small(0) : s = {}
    BY <1>0
  <2>2. g = [s \in Small(0) |-> Step(s, g)]
    BY <2>1
  <2>3. QED
    BY <2>2
<1>2. ASSUME NEW n \in Nat, n \in Upto PROVE n + 1 \in Upto
  <2>1. PICK g : g = [s \in Small(n) |-> Step(s, g)]
    BY <1>2
  <2> DEFINE h == [s \in Small(n + 1) |-> Step(s, g)]
  <2>2. \A s \in Small(n + 1) : s # {} => s \ {pick[s]} \in Small(n)
    <3> TAKE s \in Small(n + 1)
    <3> HAVE s # {}
    <3>1. pick[s] \in s /\ s \in SUBSET D
      BY DEF Picks
    <3>2. QED
      BY <3>1, FewerElements
  <2>3. \A s \in Small(n) : s \in Small(n + 1) /\ h[s] = g[s]
    <3> TAKE s \in Small(n)
    <3>1. s \in Small(n + 1)
      BY <1>0
    <3>2. g[s] = Step(s, g)
      BY <2>1
    <3> HIDE DEF Small, Step
    <3>3. QED
      BY <3>1, <3>2
  <2>4. \A s \in Small(n + 1) : Step(s, g) = Step(s, h)
    <3> HIDE DEF h, Small
    <3> QED BY <2>2, <2>3
  <2>5. h = [s \in Small(n + 1) |-> Step(s, h)]
    <3>1. \A s \in Small(n + 1) : h[s] = Step(s, h)
      <4> HIDE DEF Small, Step
      <4> QED BY <2>4
    <3>2. h = [s \in Small(n + 1) |-> h[s]]
      OBVIOUS
    <3> HIDE DEF h, Small, Step
    <3>3. QED
      BY <3>1, <3>2
  <2>6. \E sum : sum = [s \in Small(n + 1) |-> Step(s, sum)]
    <3> HIDE DEF h
    <3> QED BY <2>5
  <2>7. n + 1 \in Nat
    OBVIOUS
  <2> HIDE DEF Small, Step
  <2>8. QED
    BY <2>6, <2>7
<1>3. Cardinality(D) \in Nat /\ Small(Cardinality(D)) = SUBSET D
  BY FS_CardinalityType, FS_Subset
<1>4. Cardinality(D) \in Upto
  <2> HIDE DEF Upto
  <2> QED BY <1>1, <1>2, <1>3, NatInd
<1>5. PICK sum : sum = [s \in Small(Cardinality(D)) |-> Step(s, sum)]
  BY <1>4
<1>6. sum = [s \in SUBSET D |-> Step(s, sum)]
  <2> HIDE DEF Small
  <2> QED BY <1>3, <1>5
<1>7. QED
  BY <1>6 DEF FoldOf

LEMMA FoldSums ==
  ASSUME NEW D, NEW f, Counts(D, f), NEW pick, Picks(D, pick), NEW sum, Folds(D, f, pick, sum)
  PROVE  Sums(D, f, sum)
<1>0. IsFiniteSet(D) /\ \A x \in D : f[x] \in Nat
  BY DEF Counts
<1>1. sum[{}] = 0
  BY DEF Folds
<1>2. \A s \in SUBSET D : s # {} =>
        LET x == pick[s]
        IN  x \in s /\ (sum[s] = f[x] + sum[s \ {x}] \/ sum[s] = sum[s \ {x}] + f[x])
  BY DEF Folds, Picks
<1> DEFINE Fine(s) == sum[s] \in Nat /\ \A x \in s : sum[s] = f[x] + sum[s \ {x}]
           Ns == {n \in Nat : \A s \in SUBSET D : Cardinality(s) <= n => Fine(s)}
<1>3. 0 \in Ns
  <2>1. \A s \in SUBSET D : Cardinality(s) <= 0 => s = {}
    BY <1>0, FS_Subset, FS_EmptySet, FS_CardinalityType
  <2>2. QED
    BY <1>1, <2>1
<1>4. ASSUME NEW n \in Nat, n \in Ns PROVE n + 1 \in Ns
  <2> SUFFICES ASSUME NEW s \in SUBSET D, Cardinality(s) <= n + 1, s # {} PROVE Fine(s)
    BY <1>1
  <2> DEFINE c == pick[s]
  <2>0. c \in s /\ (sum[s] = f[c] + sum[s \ {c}] \/ sum[s] = sum[s \ {c}] + f[c])
    BY <1>2
  <2> HIDE DEF c
  <2>3. \A x \in s : s \ {x} \in SUBSET D /\ Cardinality(s \ {x}) <= n
    <3> TAKE x \in s
    <3>1. Cardinality(s \ {x}) \in Nat /\ Cardinality(s) = Cardinality(s \ {x}) + 1
      BY <1>0, FewerElements
    <3>2. QED
      BY <3>1
  <2>4. \A x \in s : Fine(s \ {x})
    BY <1>4, <2>3
  <2>5. \A x \in s : f[x] \in Nat /\ sum[s \ {x}] \in Nat
    BY <1>0, <2>4
  <2>2. c \in s /\ sum[s] = f[c] + sum[s \ {c}]
    <3>1. f[c] \in Nat /\ sum[s \ {c}] \in Nat
      BY <2>0, <2>5
    <3>2. f[c] + sum[s \ {c}] = sum[s \ {c}] + f[c]
      BY <3>1
    <3>3. QED
      BY <2>0, <3>2
  <2>6. sum[s] \in Nat
    BY <2>2, <2>5
  <2>7. ASSUME NEW x \in s PROVE sum[s] = f[x] + sum[s \ {x}]
    <3>1. CASE x = c
      BY <2>2, <3>1
    <3>2. CASE x # c
      <4> DEFINE u == s \ {c, x}
      <4>1. /\ x \in s \ {c} /\ (s \ {c}) \ {x} = u
            /\ c \in s \ {x} /\ (s \ {x}) \ {c} = u
        BY <2>2, <3>2
      <4>2. sum[s \ {c}] = f[x] + sum[u] /\ sum[s \ {x}] = f[c] + sum[u]
        BY <2>2, <2>4, <4>1
      <4>3. sum[u] \in Nat
        <5>1. s \ {c} \in SUBSET D /\ Cardinality(s \ {c}) <= n
          BY <2>2, <2>3
        <5>2. u \in SUBSET D /\ Cardinality(u) \in Nat /\ Cardinality(s \ {c}) = Cardinality(u) + 1
          <6> DEFINE t == s \ {c}
          <6>1. t \in SUBSET D /\ x \in t /\ t \ {x} = u
            BY <4>1, <5>1
          <6> HIDE DEF t, u
          <6>2. u \in SUBSET D /\ Cardinality(u) \in Nat /\ Cardinality(t) = Cardinality(u) + 1
            BY <1>0, <6>1, FewerElements
          <6>3. QED
            BY <6>2 DEF t
        <5>3. QED
          BY <1>4, <5>1, <5>2
      <4> HIDE DEF u
      <4>4. f[c] \in Nat /\ f[x] \in Nat
        BY <2>2, <2>5
      <4>5. sum[s] = f[c] + (f[x] + sum[u])
        BY <2>2, <4>2
      <4>6. QED
        BY <4>2, <4>3, <4>4, <4>5
    <3>3. QED
      BY <3>1, <3>2
  <2>8. QED
    BY <2>6, <2>7
<1>5. ASSUME NEW s \in SUBSET D PROVE Fine(s)
  <2>1. \A n \in Nat : n \in Ns
    <3> HIDE DEF Ns
    <3> QED BY <1>3, <1>4, NatInd
  <2>2. Cardinality(s) \in Nat
    BY <1>0, FS_Subset, FS_CardinalityType
  <2>3. QED
    BY <2>1, <2>2
<1>6. QED
  BY <1>1, <1>5 DEF Sums

LEMMA SumsAgree ==
  ASSUME NEW D, NEW f, NEW s1, Sums(D, f, s1), NEW E, NEW g, NEW s2, Sums(E, g, s2),
         NEW T, IsFiniteSet(T), T \subseteq D, T \subseteq E, \A x \in T : f[x] = g[x]
  PROVE  s1[T] = s2[T]
<1> DEFINE Ns == {n \in Nat : \A s \in SUBSET T : Cardinality(s) = n => s1[s] = s2[s]}
<1>1. 0 \in Ns
  <2>1. \A s \in SUBSET T : Cardinality(s) = 0 => s = {}
    BY FS_Subset, FS_EmptySet
  <2>2. QED
    BY <2>1 DEF Sums
<1>2. ASSUME NEW n \in Nat, n \in Ns PROVE n + 1 \in Ns
  <2> SUFFICES ASSUME NEW s \in SUBSET T, Cardinality(s) = n + 1 PROVE s1[s] = s2[s]
    OBVIOUS
  <2>1. s # {}
    BY FS_EmptySet
  <2>2. PICK x \in s : TRUE
    BY <2>1
  <2>3. /\ s \ {x} \in SUBSET T /\ Cardinality(s \ {x}) \in Nat
        /\ Cardinality(s) = Cardinality(s \ {x}) + 1
    BY FewerElements
  <2>4. s1[s \ {x}] = s2[s \ {x}]
    BY <1>2, <2>3
  <2>5. s1[s] = f[x] + s1[s \ {x}] /\ s2[s] = g[x] + s2[s \ {x}]
    BY DEF Sums
  <2>6. QED
    BY <2>4, <2>5
<1>3. QED
  <2>1. \A n \in Nat : n \in Ns
    <3> HIDE DEF Ns
    <3> QED BY <1>1, <1>2, NatInd
  <2>2. Cardinality(T) \in Nat
    BY FS_CardinalityType
  <2>3. QED
    BY <2>1, <2>2

LEMMA TotalIs ==
  ASSUME NEW f, Counts(DOMAIN f, f)
  PROVE  \E sum : Sums(DOMAIN f, f, sum) /\ Total(f) = sum[DOMAIN f]
<1> DEFINE D == DOMAIN f
           pick == [s \in SUBSET D |-> CHOOSE x \in s : TRUE]
<1>1. Picks(D, pick)
  BY DEF Picks
<1>2. PICK sum : FoldOf(D, f, pick, sum)
  <2>1. IsFiniteSet(D)
    BY DEF Counts
  <2> HIDE DEF D, pick
  <2>2. QED
    BY <1>1, <2>1, FoldExists
<1>3. sum = [s \in SUBSET D |->
               IF s = {} THEN 0
               ELSE LET x == CHOOSE x \in s : TRUE IN f[x] + sum[s \ {x}]]
  BY <1>2 DEF FoldOf
<1>4. \E iter : /\ iter = [s \in SUBSET D |->
                             IF s = {} THEN 0
                             ELSE LET x == CHOOSE x \in s : TRUE IN f[x] + iter[s \ {x}]]
                /\ iter[D] = Total(f)
  BY <1>3 DEF Total, FoldFunction, FoldFunctionOnSet, MapThenFoldSet
<1>5. PICK iter : /\ iter = [s \in SUBSET D |->
                               IF s = {} THEN 0
                               ELSE LET x == CHOOSE x \in s : TRUE IN f[x] + iter[s \ {x}]]
                  /\ iter[D] = Total(f)
  BY <1>4
<1>6. Folds(D, f, pick, iter)
  BY <1>5 DEF Folds
<1>7. QED
  BY <1>1, <1>5, <1>6, FoldSums

\* A total grows by what one of its values grows by.
LEMMA TotalGrows ==
  ASSUME NEW f, Counts(DOMAIN f, f), NEW g, Counts(DOMAIN g, g), NEW k, NEW n \in Nat,
         DOMAIN g = DOMAIN f \cup {k}, \A x \in DOMAIN f : x # k => g[x] = f[x],
         g[k] = (IF k \in DOMAIN f THEN f[k] ELSE 0) + n
  PROVE  Total(g) = Total(f) + n /\ Total(f) \in Nat
<1>1. PICK s1 : Sums(DOMAIN f, f, s1) /\ Total(f) = s1[DOMAIN f]
  BY TotalIs
<1>2. PICK s2 : Sums(DOMAIN g, g, s2) /\ Total(g) = s2[DOMAIN g]
  BY TotalIs
<1> DEFINE rest == DOMAIN f \ {k}
<1>3. /\ IsFiniteSet(rest) /\ rest \subseteq DOMAIN f /\ rest \subseteq DOMAIN g
      /\ rest = DOMAIN g \ {k} /\ k \in DOMAIN g /\ \A x \in rest : f[x] = g[x]
  BY FS_RemoveElement DEF Counts
<1> HIDE DEF rest
<1>4. s1[rest] = s2[rest]
  BY <1>1, <1>2, <1>3, SumsAgree
<1>5. s2[DOMAIN g] = g[k] + s2[rest]
  BY <1>2, <1>3 DEF Sums
<1>6. s1[DOMAIN f] = (IF k \in DOMAIN f THEN f[k] ELSE 0) + s1[rest]
  <2>1. CASE k \in DOMAIN f
    BY <1>1, <2>1 DEF Sums, rest
  <2>2. CASE k \notin DOMAIN f
    <3>1. rest = DOMAIN f
      BY <2>2 DEF rest
    <3>2. s1[rest] \in Nat
      BY <1>1, <3>1 DEF Sums
    <3>3. QED
      BY <2>2, <3>1, <3>2
  <2>3. QED
    BY <2>1, <2>2
<1>7. s1[rest] \in Nat /\ (k \in DOMAIN f => f[k] \in Nat) /\ s1[DOMAIN f] \in Nat
  BY <1>1, <1>3 DEF Sums, Counts
<1>8. QED
  BY <1>1, <1>2, <1>4, <1>5, <1>6, <1>7

LEMMA MaxIsIn ==
  ASSUME NEW n \in Nat, NEW u \in SUBSET (1..n), u # {}
  PROVE  Max(u) \in u /\ \A x \in u : x <= Max(u)
<1> DEFINE T == {n - x : x \in u}
<1>1. T \in SUBSET Nat /\ T # {}
  <2>1. \A x \in u : n - x \in Nat
    OBVIOUS
  <2>2. QED
    BY <2>1
<1>2. PICK d \in T : \A y \in T : d <= y
  BY <1>1, NatMin
<1>3. PICK m \in u : d = n - m
  BY <1>2
<1>4. \A x \in u : m >= x
  <2> TAKE x \in u
  <2>1. n - m <= n - x
    BY <1>2, <1>3
  <2>2. QED
    BY <2>1
<1>5. QED
  BY <1>4 DEF Max

LEMMA CumulativeIs ==
  ASSUME NEW counts \in [1..Buckets -> Nat], NEW b \in 0..Buckets
  PROVE  \E sum : Sums(1..b, counts, sum) /\ Cumulative(counts, b) = sum[1..b]
<1> DEFINE part == SubSeq(counts, 1, b)
           D == DOMAIN part
           pick == [s \in SUBSET D |-> Max(s)]
<1>0. Buckets \in Nat /\ b \in Nat
  BY MetricsAssumption
<1>1. D = 1..b /\ \A i \in D : part[i] = counts[i] /\ part[i] \in Nat
  BY <1>0
<1> HIDE DEF part
<1>2. Counts(D, part)
  BY <1>0, <1>1, FS_Interval DEF Counts
<1>3. Picks(D, pick)
  BY <1>0, <1>1, MaxIsIn DEF Picks
<1>4. PICK sum : FoldOf(D, part, pick, sum)
  <2>1. IsFiniteSet(D)
    BY <1>2 DEF Counts
  <2> HIDE DEF D, pick
  <2>2. QED
    BY <1>3, <2>1, FoldExists
<1>5. Sums(D, part, sum)
  <2>1. Folds(D, part, pick, sum)
    BY <1>4 DEF Folds, FoldOf
  <2> HIDE DEF D, pick
  <2>2. QED
    BY <1>2, <1>3, <2>1, FoldSums
<1>6. sum = [s \in SUBSET D |-> IF s = {} THEN 0
                                ELSE LET x == Max(s) IN sum[s \ {x}] + part[x]]
  <2>1. ASSUME NEW s \in SUBSET D, s # {}
        PROVE  part[Max(s)] + sum[s \ {Max(s)}] = sum[s \ {Max(s)}] + part[Max(s)]
    <3>1. Max(s) \in s /\ part[Max(s)] \in Nat /\ sum[s \ {Max(s)}] \in Nat
      BY <1>1, <1>3, <1>5, <2>1 DEF Picks, Sums
    <3>2. QED
      BY <3>1
  <2>2. sum = [s \in SUBSET D |-> IF s = {} THEN 0
                                  ELSE part[Max(s)] + sum[s \ {Max(s)}]]
    BY <1>4 DEF FoldOf
  <2>3. QED
    BY <2>1, <2>2
<1>7. \E iter : /\ iter = [s \in SUBSET D |->
                             IF s = {} THEN 0
                             ELSE LET x == Max(s) IN iter[s \ {x}] + part[x]]
                /\ iter[D] = FoldLeft(+, 0, part)
  BY <1>6 DEF FoldLeft, MapThenFoldSet
<1>8. PICK iter : /\ iter = [s \in SUBSET D |->
                               IF s = {} THEN 0
                               ELSE LET x == Max(s) IN iter[s \ {x}] + part[x]]
                  /\ iter[D] = FoldLeft(+, 0, part)
  BY <1>7
<1>9. Folds(D, part, pick, iter)
  BY <1>8 DEF Folds
<1>10. Sums(D, part, iter)
  <2> HIDE DEF D, pick
  <2> QED BY <1>2, <1>3, <1>9, FoldSums
<1>11. Sums(1..b, counts, iter)
  <2>1. \A s \in SUBSET (1..b) : \A x \in s : part[x] = counts[x]
    BY <1>1
  <2> HIDE DEF D
  <2>2. Sums(1..b, part, iter)
    BY <1>1, <1>10
  <2>3. QED
    BY <2>1, <2>2 DEF Sums
<1>12. QED
  BY <1>1, <1>8, <1>11 DEF Cumulative, part

\* One more bucket adds its count to the running total.
LEMMA CumulativeSteps ==
  ASSUME NEW counts \in [1..Buckets -> Nat], NEW b \in 0..Buckets
  PROVE  /\ Cumulative(counts, b) \in Nat
         /\ b = 0 => Cumulative(counts, b) = 0
         /\ b > 0 => Cumulative(counts, b) = Cumulative(counts, b - 1) + counts[b]
<1>0. Buckets \in Nat /\ b \in Nat
  BY MetricsAssumption
<1>1. PICK s1 : Sums(1..b, counts, s1) /\ Cumulative(counts, b) = s1[1..b]
  BY CumulativeIs
<1>2. s1[1..b] \in Nat
  BY <1>1 DEF Sums
<1>3. CASE b = 0
  <2>1. 1..b = {}
    BY <1>3
  <2>2. QED
    BY <1>1, <1>2, <1>3, <2>1 DEF Sums
<1>4. CASE b > 0
  <2>1. b - 1 \in 0..Buckets /\ b \in 1..b /\ (1..b) \ {b} = 1..(b - 1)
    BY <1>0, <1>4
  <2>2. PICK s2 : Sums(1..(b - 1), counts, s2) /\ Cumulative(counts, b - 1) = s2[1..(b - 1)]
    BY <2>1, CumulativeIs
  <2>3. s1[1..(b - 1)] = s2[1..(b - 1)]
    <3>1. IsFiniteSet(1..(b - 1)) /\ 1..(b - 1) \subseteq 1..b
      BY <1>0, <2>1, FS_Interval
    <3>2. QED
      BY <1>1, <2>2, <3>1, SumsAgree
  <2>4. s1[1..b] = counts[b] + s1[1..(b - 1)] /\ s2[1..(b - 1)] \in Nat /\ counts[b] \in Nat
    <3>1. b \in 1..Buckets
      BY <1>0, <1>4
    <3>2. s1[1..b] = counts[b] + s1[(1..b) \ {b}]
      BY <1>1, <2>1 DEF Sums
    <3>3. s2[1..(b - 1)] \in Nat
      BY <2>2 DEF Sums
    <3>4. QED
      BY <2>1, <3>1, <3>2, <3>3
  <2>5. QED
    BY <1>1, <1>2, <1>4, <2>2, <2>3, <2>4
<1>5. QED
  BY <1>0, <1>3, <1>4

----------------------------------------------------------------------------
(* Counters and backlogs.                                                  *)

LEMMA IncCounts ==
  ASSUME NEW L, NEW c, IsCounter(c, L), NEW l \in L, NEW n \in Nat
  PROVE  /\ IsCounter(Inc(c, l, n), L)
         /\ Value(Inc(c, l, n), l) = Value(c, l) + n
         /\ \A k : k # l => Value(Inc(c, l, n), k) = Value(c, k)
<1>1. Value(c, l) \in Nat
  BY DEF IsCounter, Value
<1>2. QED
  BY <1>1 DEF IsCounter, Inc, Put, Value

LEMMA ValueIsNat ==
  ASSUME NEW L, NEW c, IsCounter(c, L), NEW l
  PROVE  Value(c, l) \in Nat
BY DEF IsCounter, Value

LEMMA ToSetAppend ==
  ASSUME NEW S, NEW s \in Seq(S), NEW x \in S
  PROVE  ToSet(Append(s, x)) = ToSet(s) \cup {x}
<1>1. /\ Len(s) \in Nat /\ DOMAIN Append(s, x) = 1..Len(s) + 1
      /\ \A i \in 1..Len(s) : Append(s, x)[i] = s[i]
      /\ Append(s, x)[Len(s) + 1] = x
  OBVIOUS
<1>2. ASSUME NEW y \in ToSet(Append(s, x)) PROVE y \in ToSet(s) \cup {x}
  <2>1. PICK i \in 1..Len(s) + 1 : y = Append(s, x)[i]
    BY <1>1 DEF ToSet
  <2>2. i \in 1..Len(s) \/ i = Len(s) + 1
    BY <1>1
  <2>3. QED
    BY <1>1, <2>1, <2>2 DEF ToSet
<1>3. ASSUME NEW y \in ToSet(s) \cup {x} PROVE y \in ToSet(Append(s, x))
  <2>1. Len(s) + 1 \in 1..Len(s) + 1 /\ \A i \in 1..Len(s) : i \in 1..Len(s) + 1
    BY <1>1
  <2>2. QED
    BY <1>1, <2>1 DEF ToSet
<1>4. QED
  BY <1>2, <1>3

LEMMA ToSetTail ==
  ASSUME NEW S, NEW s \in Seq(S), s # <<>>
  PROVE  ToSet(s) = ToSet(Tail(s)) \cup {Head(s)}
<1>1. /\ Len(s) \in Nat \ {0} /\ Head(s) = s[1]
      /\ DOMAIN Tail(s) = 1..Len(s) - 1
      /\ \A i \in 1..Len(s) - 1 : Tail(s)[i] = s[i + 1]
  OBVIOUS
<1>2. ASSUME NEW x \in ToSet(s) PROVE x \in ToSet(Tail(s)) \cup {Head(s)}
  <2>1. PICK i \in 1..Len(s) : x = s[i]
    BY DEF ToSet
  <2>2. CASE i = 1
    BY <1>1, <2>1, <2>2
  <2>3. CASE i # 1
    <3>1. i - 1 \in 1..Len(s) - 1 /\ Tail(s)[i - 1] = x
      BY <1>1, <2>1, <2>3
    <3>2. QED
      BY <1>1, <3>1 DEF ToSet
  <2>4. QED
    BY <2>2, <2>3
<1>3. ASSUME NEW x \in ToSet(Tail(s)) \cup {Head(s)} PROVE x \in ToSet(s)
  BY <1>1 DEF ToSet
<1>4. QED
  BY <1>2, <1>3

LEMMA RecordCounts ==
  ASSUME TypeOK, NEW p \in Paths, NEW s \in Statuses, Record(p, s)
  PROVE  /\ IsCounter(http', Keys)
         /\ Value(http', <<p, s>>) = Value(http, <<p, s>>) + 1
         /\ \A k : k # <<p, s>> => Value(http', k) = Value(http, k)
<1>1. <<p, s>> \in Keys /\ IsCounter(http, Keys) /\ 1 \in Nat
  BY DEF Keys, TypeOK
<1>2. QED
  BY <1>1, IncCounts DEF Record

----------------------------------------------------------------------------
(* Typing.                                                                 *)

Typed == TypeOK /\ StepsMatchPaths

LEMMA TypedInit == Init => Typed
<1> SUFFICES ASSUME Init PROVE Typed
  OBVIOUS
<1> USE ApiAssumption
<1>1. IsCounter(NoSeries, Keys) /\ IsCounter(NoSeries, Tools)
  BY DEF IsCounter, NoSeries
<1>2. NoRequest \in RequestType
  BY DEF NoRequest, RequestType, Paths, Bodies
<1>3. pc \in {"listen", "exited"} /\ kbFile \in KbFiles
      /\ backend \in {"prolog", "native", "invalid"}
  BY ApiAssumption DEF Init
<1>4. StepsMatchPaths
  BY <1>3 DEF StepsMatchPaths
<1>5. TypeOK
  <2>1. /\ IsCounter(http, Keys) /\ IsCounter(solutions, Tools)
        /\ IsCounter(toolCalls, Tools)
    BY <1>1 DEF Init
  <2>2. /\ req \in [Client -> RequestType] /\ sent \in [Client -> {"nothing", "head", "all"}]
        /\ got \in [Client -> Statuses \cup {0}] /\ backlog \in Seq(Client)
    BY <1>2 DEF Init
  <2>3. pc \in Steps /\ status \in Statuses
    BY <1>3 DEF Init, Steps, Statuses
  <2>4. QED
    BY <1>3, <2>1, <2>2, <2>3 DEF Init, TypeOK
<1>6. QED
  BY <1>4, <1>5 DEF Typed

LEMMA ServingTyped ==
  ASSUME TypeOK, pc \notin {"listen", "closing", "closed", "exited"}
  PROVE  /\ serving \in Client /\ req[serving] \in RequestType
         /\ req[serving].path \in Paths
BY DEF TypeOK, RequestType

LEMMA TypedClients ==
  ASSUME Typed, NEW c \in Client,
         \/ \E r \in UNION Range(Offers) : Connect(c, r)
         \/ Send(c) \/ Leave(c) \/ Read(c)
  PROVE  Typed'
<1> USE DEF Typed, TypeOK, StepsMatchPaths, serverVars, metricVars, tallyVars, engineVars
<1>1. ASSUME NEW r \in UNION Range(Offers), Connect(c, r) PROVE Typed'
  <2>1. r \in RequestType
    BY <1>1, ApiAssumption DEF Connect
  <2>2. backlog' \in Seq(Client) /\ c # serving
    BY <1>1 DEF Connect, Unconnected
  <2>3. QED
    BY <1>1, <2>1, <2>2 DEF Connect, IsCounter
<1>2. CASE Send(c)
  BY <1>2 DEF Send, IsCounter
<1>3. CASE Leave(c)
  BY <1>3 DEF Leave, IsCounter
<1>4. CASE Read(c)
  BY <1>4 DEF Read, Steps, clientVars, IsCounter
<1>5. QED
  BY <1>1, <1>2, <1>3, <1>4

LEMMA TypedEnvironment ==
  ASSUME Typed, EngineFails \/ Terminate PROVE Typed'
<1> USE DEF Typed, TypeOK, StepsMatchPaths, serverVars, clientVars, metricVars, tallyVars
<1>1. CASE EngineFails
  BY <1>1 DEF EngineFails, IsCounter
<1>2. CASE Terminate
  BY <1>2 DEF Terminate, Resumes, ClosesEngine, IsCounter
<1>3. QED
  BY <1>1, <1>2

\* The three ways a step of the serving thread goes on.
LEMMA RespondTyped ==
  ASSUME Typed, NEW s \in Statuses, NEW step \in {"write", "write in try"},
         Respond(s, step), pc \notin {"listen", "closing", "closed", "exited"},
         IsCounter(solutions', Tools), IsCounter(toolCalls', Tools),
         authFailures' \in Nat, engine' \in {"cold", "none", "up", "wedged"},
         launches' \in Nat, recounted' \in Nat, got' = got,
         UNCHANGED <<backlog, req, sent, gone, made, left, dispatched, raised>>
  PROVE  Typed'
<1>1. TypeOK /\ serving \in Client /\ req[serving].path \in Paths
  BY ServingTyped DEF Typed
<1>2. IsCounter(http', Keys)
  BY <1>1, RecordCounts DEF Respond
<1>3. /\ UNCHANGED <<kbFile, backend, stopping, serving>>
      /\ pc' = step /\ status' = s
  BY DEF Respond, Goes
<1>4. StepsMatchPaths'
  BY <1>3 DEF StepsMatchPaths
<1>5. TypeOK'
  BY <1>1, <1>2, <1>3 DEF TypeOK, Steps
<1>6. QED
  BY <1>4, <1>5 DEF Typed

LEMMA GoesTyped ==
  ASSUME Typed,
         NEW step \in {"route", "ping", "scrape", "body", "tool", "stats", "blocked"},
         Goes(step), pc \notin {"listen", "closing", "closed", "exited"},
         step \in {"body", "tool"} => req[serving].path \in Tools,
         step \in {"ping", "stats"} => req[serving].path = "health",
         step = "scrape" => req[serving].path = "metrics",
         step \in {"body", "ping"} => Admitted(req[serving]) /\ Routed(req[serving]),
         engine' \in {"cold", "none", "up", "wedged"}, launches' \in Nat,
         dispatched' \in Nat,
         UNCHANGED <<serving, status, http, latency, backlog, req, sent, gone, got, made,
                     left, solutions, authFailures, toolCalls, raised, recounted>>
  PROVE  Typed'
<1>1. StepsMatchPaths'
  BY DEF StepsMatchPaths, Goes
<1>2. TypeOK'
  BY DEF Typed, TypeOK, Steps, Goes
<1>3. QED
  BY <1>1, <1>2 DEF Typed

LEMMA DisconnectTyped ==
  ASSUME Typed, Disconnect, pc \notin {"listen", "closing", "closed", "exited"},
         raised' \in Nat, recounted' = recounted, got' \in [Client -> Statuses \cup {0}],
         UNCHANGED <<backlog, req, sent, gone, made, left, http, latency, solutions,
                     authFailures, toolCalls, dispatched, engine, launches>>
  PROVE  Typed'
<1>1. StepsMatchPaths'
  BY DEF Disconnect, Goes, StepsMatchPaths
<1>2. TypeOK'
  BY DEF Disconnect, Goes, Typed, TypeOK, Steps
<1>3. QED
  BY <1>1, <1>2 DEF Typed

LEMMA TypedServer ==
  ASSUME Typed, Server PROVE Typed'
<1> USE DEF clientVars, metricVars, tallyVars, engineVars
<1>1. /\ IsCounter(solutions, Tools) /\ IsCounter(toolCalls, Tools)
      /\ authFailures \in Nat /\ launches \in Nat /\ dispatched \in Nat /\ raised \in Nat
      /\ recounted \in Nat
      /\ engine \in {"cold", "none", "up", "wedged"}
      /\ got \in [Client -> Statuses \cup {0}] /\ backlog \in Seq(Client)
  BY DEF Typed, TypeOK
<1>2. CASE Accept
  <2>1. Head(backlog) \in Client /\ Tail(backlog) \in Seq(Client)
    BY <1>1, <1>2 DEF Accept
  <2>2. StepsMatchPaths'
    BY <1>2 DEF Accept, Goes, StepsMatchPaths
  <2>3. TypeOK'
    BY <1>2, <2>1, ApiAssumption DEF Accept, Goes, Typed, TypeOK, Steps
  <2>4. QED
    BY <2>2, <2>3 DEF Typed
<1>3. CASE ReadHead
  <2>1. CASE Disconnect
    <3>1. UNCHANGED <<backlog, req, sent, gone, got, made, left, http, latency, solutions,
                      authFailures, toolCalls, dispatched, raised, recounted, engine,
                      launches>>
      BY <1>3, <2>1 DEF ReadHead, Disconnect, Goes
    <3>2. QED
      BY <1>1, <1>3, <2>1, <3>1, DisconnectTyped DEF ReadHead
  <2>2. CASE Goes("route")
    <3>1. UNCHANGED <<serving, status, http, latency, backlog, req, sent, gone, got, made,
                      left, solutions, authFailures, toolCalls, raised, recounted, engine,
                      launches>>
          /\ dispatched' = dispatched + 1
      BY <1>3, <2>2 DEF ReadHead, Disconnect, Goes
    <3>2. QED
      BY <1>1, <1>3, <2>2, <3>1, GoesTyped DEF ReadHead
  <2>3. QED
    BY <1>3, <2>1, <2>2 DEF ReadHead
<1>4. CASE Route
  <2>1. /\ pc = "route"
        /\ UNCHANGED <<backlog, req, sent, gone, got, made, left, dispatched, recounted,
                       solutions, toolCalls, engine, launches>>
    BY <1>4 DEF Route
  <2>2. CASE (Respond(401, "write") \/ Respond(404, "write")) /\ UNCHANGED raised
    <3>1. authFailures' \in Nat
      BY <1>1, <1>4 DEF Route
    <3>2. /\ IsCounter(solutions', Tools) /\ IsCounter(toolCalls', Tools)
          /\ launches' \in Nat /\ engine' \in {"cold", "none", "up", "wedged"}
          /\ recounted' \in Nat
      BY <1>1, <2>1
    <3>3. 401 \in Statuses /\ 404 \in Statuses
      BY DEF Statuses
    <3>4. QED
      BY <2>1, <2>2, <3>1, <3>2, <3>3, RespondTyped
  <2>3. CASE Raise /\ UNCHANGED authFailures
    BY <1>1, <2>1, <2>3, DisconnectTyped DEF Raise
  <2>4. CASE /\ Admitted(req[serving]) /\ Routed(req[serving])
             /\ UNCHANGED <<serving, status, http, latency, authFailures, raised>>
             /\ Goes(CASE req[serving].path = "health"  -> "ping"
                       [] req[serving].path = "metrics" -> "scrape"
                       [] OTHER                         -> "body")
    <3>1. PICK step \in {"ping", "scrape", "body"} :
            /\ Goes(step)
            /\ step = "body" => req[serving].path \in Tools
            /\ step = "ping" => req[serving].path = "health"
            /\ step = "scrape" => req[serving].path = "metrics"
      BY <2>4 DEF Routed, Goes
    <3>2. QED
      BY <1>1, <2>1, <2>4, <3>1, GoesTyped
  <2>5. QED
    BY <1>4, <2>2, <2>3, <2>4 DEF Route
<1>5. CASE ReadBody
  <2>1. /\ pc = "body" /\ req[serving].path \in Tools
        /\ UNCHANGED <<backlog, req, sent, gone, got, made, left, solutions, authFailures,
                       toolCalls, dispatched, recounted, engine, launches>>
    BY <1>5 DEF ReadBody, Typed, StepsMatchPaths
  <2>2. CASE Respond(400, "write") /\ UNCHANGED raised
    <3>1. /\ IsCounter(solutions', Tools) /\ IsCounter(toolCalls', Tools)
          /\ launches' \in Nat /\ engine' \in {"cold", "none", "up", "wedged"}
          /\ authFailures' \in Nat /\ recounted' \in Nat /\ 400 \in Statuses
      BY <1>1, <2>1 DEF Statuses
    <3>2. QED
      BY <2>1, <2>2, <3>1, RespondTyped
  <2>3. CASE Goes("tool") /\ UNCHANGED <<serving, status, http, latency, raised>>
    BY <1>1, <2>1, <2>3, GoesTyped
  <2>4. CASE Raise
    BY <1>1, <2>1, <2>4, DisconnectTyped DEF Raise
  <2>5. QED
    BY <1>5, <2>2, <2>3, <2>4 DEF ReadBody
<1>6. CASE CallTool
  <2> DEFINE r == req[serving]
  <2>1. /\ pc = "tool" /\ r.path \in Tools
        /\ UNCHANGED <<backlog, req, sent, gone, got, made, left, authFailures,
                       dispatched, raised, recounted>>
    BY <1>6 DEF CallTool, Typed, StepsMatchPaths
  <2>2. PICK after \in EngineAfter(r.path), inner \in InnerReasons(r.path) :
          /\ engine' = after[1] /\ launches' = launches + after[2]
          /\ \/ /\ Respond(500, "write")
                /\ toolCalls' = Inc(toolCalls, "reason", inner)
                /\ UNCHANGED solutions
             \/ /\ Respond(200, "write in try")
                /\ toolCalls' = CallsAfter(r.path, inner)
                /\ \E n \in 0..(IF r.path \in Reasoning /\ backend # "invalid"
                             THEN MaxFound ELSE 0) :
                     solutions' = Inc(solutions, r.path, n)
    BY <1>6 DEF CallTool
  <2>3. inner \in Nat /\ "reason" \in Tools
    BY DEF InnerReasons, Tools, Reasoning
  <2>4. after \in {"cold", "none", "up", "wedged"} \X {0, 1}
    BY <1>1 DEF EngineAfter
  <2>5. engine' \in {"cold", "none", "up", "wedged"} /\ launches' \in Nat
    <3>1. after[1] \in {"cold", "none", "up", "wedged"} /\ after[2] \in {0, 1}
      BY <2>4
    <3>2. QED
      <4>1. engine' = after[1] /\ launches' = launches + after[2]
        BY <2>2
      <4>2. launches \in Nat
        BY <1>1
      <4>3. QED
        BY <3>1, <4>1, <4>2
  <2>6. CASE Respond(500, "write") /\ toolCalls' = Inc(toolCalls, "reason", inner)
             /\ UNCHANGED solutions
    <3>1. IsCounter(toolCalls', Tools)
      BY <1>1, <2>3, <2>6, IncCounts
    <3>2. QED
      BY <1>1, <2>1, <2>5, <2>6, <3>1, RespondTyped, ZenonT(40) DEF Statuses
  <2>7. ASSUME Respond(200, "write in try"), toolCalls' = CallsAfter(r.path, inner),
               NEW n \in 0..(IF r.path \in Reasoning /\ backend # "invalid"
                             THEN MaxFound ELSE 0),
               solutions' = Inc(solutions, r.path, n)
        PROVE  Typed'
    <3>1. n \in Nat
      <4> DEFINE most == IF r.path \in Reasoning /\ backend # "invalid" THEN MaxFound ELSE 0
      <4>1. most \in Nat
        BY ApiAssumption
      <4>2. n \in 0..most
        BY <2>7
      <4> HIDE DEF most
      <4>3. QED
        BY <4>1, <4>2
    <3>2. IsCounter(solutions', Tools)
      BY <1>1, <2>1, <2>7, <3>1, IncCounts
    <3>3. IsCounter(toolCalls', Tools)
      BY <1>1, <2>1, <2>3, <2>7, IncCounts DEF CallsAfter
    <3>4. QED
      BY <1>1, <2>1, <2>5, <2>7, <3>2, <3>3, RespondTyped, ZenonT(40) DEF Statuses
  <2>8. QED
    BY <2>2, <2>6, <2>7
<1>7. CASE Ping
  <2>1. /\ pc = "ping" /\ req[serving].path = "health"
        /\ UNCHANGED <<backlog, req, sent, gone, got, made, left, solutions, authFailures,
                       toolCalls, dispatched, recounted>>
    BY <1>7 DEF Ping, Typed, StepsMatchPaths
  <2>2. engine' \in {"cold", "none", "up", "wedged"} /\ launches' \in Nat
    BY <1>1, <1>7 DEF Ping, Relaunch, Dropped
  <2>3. CASE Respond(503, "write") /\ UNCHANGED raised
    <3>1. 503 \in Statuses
      BY DEF Statuses
    <3>2. /\ IsCounter(solutions', Tools) /\ IsCounter(toolCalls', Tools)
          /\ authFailures' \in Nat /\ recounted' \in Nat
      BY <1>1, <2>1
    <3>3. pc \notin {"listen", "closing", "closed", "exited"}
      BY <2>1
    <3>4. QED
      BY <2>1, <2>2, <2>3, <3>1, <3>2, <3>3, RespondTyped
  <2>4. CASE Goes("stats") /\ UNCHANGED <<serving, status, http, latency, raised>>
    BY <1>1, <2>1, <2>2, <2>4, GoesTyped
  <2>5. CASE Raise /\ UNCHANGED engineVars
    BY <1>1, <2>1, <2>5, DisconnectTyped DEF Raise
  <2>6. QED
    BY <1>7, <2>3, <2>4, <2>5 DEF Ping
<1>8. CASE Stats
  <2>1. /\ pc = "stats" /\ Respond(200, "write")
        /\ UNCHANGED <<backlog, req, sent, gone, got, made, left, solutions, authFailures,
                       toolCalls, dispatched, raised, recounted>>
    BY <1>8 DEF Stats
  <2>2. engine' \in {"cold", "none", "up", "wedged"} /\ launches' \in Nat
    BY <1>1, <1>8 DEF Stats, Relaunch, Dropped
  <2>3. QED
    BY <1>1, <2>1, <2>2, RespondTyped, ZenonT(40) DEF Statuses
<1>9. CASE Scrape
  <2>1. /\ pc = "scrape" /\ Respond(200, "write")
        /\ UNCHANGED <<backlog, req, sent, gone, got, made, left, solutions, authFailures,
                       toolCalls, dispatched, raised, recounted, engine, launches>>
    BY <1>9 DEF Scrape
  <2>2. /\ IsCounter(solutions', Tools) /\ IsCounter(toolCalls', Tools)
        /\ launches' \in Nat /\ engine' \in {"cold", "none", "up", "wedged"}
        /\ authFailures' \in Nat /\ recounted' \in Nat /\ 200 \in Statuses
    BY <1>1, <2>1 DEF Statuses
  <2>3. QED
    BY <2>1, <2>2, RespondTyped
<1>10. CASE Write \/ WriteRest
  <2>1. /\ pc \in {"write", "write in try", "blocked", "unblocked"}
        /\ UNCHANGED <<backlog, req, sent, gone, made, left, solutions, authFailures,
                       toolCalls, dispatched, raised, engine, launches>>
    BY <1>10 DEF Write, WriteRest
  <2>2. /\ pc \notin {"listen", "closing", "closed", "exited"}
        /\ serving \in Client /\ status \in Statuses
    <3>1. pc \notin {"listen", "closing", "closed", "exited"}
      BY <2>1
    <3>2. QED
      BY <3>1, ServingTyped DEF Typed, TypeOK
  <2>3. CASE Finish
    <3>1. got' \in [Client -> Statuses \cup {0}]
      BY <1>1, <2>2, <2>3 DEF Finish
    <3>2. raised' \in Nat /\ Disconnect /\ UNCHANGED <<http, latency, recounted>>
      BY <1>1, <2>1, <2>3 DEF Finish
    <3>3. QED
      BY <2>1, <2>2, <3>1, <3>2, DisconnectTyped
  <2>4. CASE Disconnect /\ UNCHANGED <<http, latency, got, recounted>>
    BY <1>1, <2>1, <2>2, <2>4, DisconnectTyped
  <2>5. CASE Goes("blocked") /\ UNCHANGED <<serving, status, http, latency, got, recounted>>
    BY <1>1, <2>1, <2>2, <2>5, GoesTyped
  <2>6. CASE Respond(500, OutOfTry) /\ recounted' = recounted + 1 /\ UNCHANGED got
    <3>1. 500 \in Statuses /\ Respond(500, "write")
      BY <2>6 DEF Statuses, OutOfTry
    <3>2. /\ IsCounter(solutions', Tools) /\ IsCounter(toolCalls', Tools)
          /\ launches' \in Nat /\ engine' \in {"cold", "none", "up", "wedged"}
          /\ authFailures' \in Nat
      BY <1>1, <2>1
    <3>3. recounted' \in Nat /\ got' = got
      BY <1>1, <2>6
    <3>4. QED
      BY <2>1, <2>2, <3>1, <3>2, <3>3, RespondTyped
  <2>7. QED
    BY <1>10, <2>3, <2>4, <2>5, <2>6 DEF Write, WriteRest
<1>11. CASE StopServing
  <2>1. StepsMatchPaths'
    BY <1>11 DEF StopServing, Goes, StepsMatchPaths
  <2>2. TypeOK'
    BY <1>11 DEF StopServing, Goes, Typed, TypeOK, Steps
  <2>3. QED
    BY <2>1, <2>2 DEF Typed
<1>12. CASE CloseDown
  <2>1. StepsMatchPaths'
    BY <1>12 DEF CloseDown, Goes, StepsMatchPaths
  <2>2. TypeOK'
    BY <1>12 DEF CloseDown, ClosesEngine, Goes, Typed, TypeOK, Steps
  <2>3. QED
    BY <2>1, <2>2 DEF Typed
<1>13. QED
  BY <1>2, <1>3, <1>4, <1>5, <1>6, <1>7, <1>8, <1>9, <1>10, <1>11, <1>12 DEF Server

LEMMA TypedStep == Typed /\ [Next]_vars => Typed'
<1> SUFFICES ASSUME Typed, [Next]_vars PROVE Typed'
  OBVIOUS
<1>1. CASE UNCHANGED vars
  <2>1. UNCHANGED <<kbFile, backend, pc, serving, status, backlog, req, sent, gone, stopping, engine,
                    http, solutions, authFailures, toolCalls, got, made, dispatched,
                    raised, recounted, left, launches>>
    BY <1>1 DEF vars, serverVars, clientVars, metricVars, tallyVars, engineVars
  <2>2. StepsMatchPaths'
    BY <2>1 DEF Typed, StepsMatchPaths
  <2>3. TypeOK'
    BY <2>1 DEF Typed, TypeOK
  <2>4. QED
    BY <2>2, <2>3 DEF Typed
<1>2. CASE Next
  BY <1>2, TypedClients, TypedEnvironment, TypedServer DEF Next
<1>3. QED
  BY <1>1, <1>2

\* What a response changes among the series of requests.
LEMMA RespondCounts ==
  ASSUME Typed, pc \notin {"listen", "closing", "closed", "exited"},
         NEW s \in Statuses, NEW step, Respond(s, step)
  PROVE  LET k == <<req[serving].path, s>>
         IN  /\ Value(http', k) = Value(http, k) + 1
             /\ \A l : l # k => Value(http', l) = Value(http, l)
<1>1. TypeOK /\ req[serving].path \in Paths
  BY ServingTyped DEF Typed
<1>2. QED
  BY <1>1, RecordCounts DEF Respond

----------------------------------------------------------------------------
(* The counters agree.                                                     *)

\* A response that is no answer 200 to a tool leaves the relation as it is.
LEMMA OtherRespond ==
  ASSUME Typed, OkMeansRan, pc \notin {"listen", "closing", "closed", "exited"},
         NEW s \in Statuses, NEW step, Respond(s, step),
         s # 200 \/ req[serving].path \notin Tools,
         UNCHANGED <<toolCalls, solutions>>
  PROVE  OkMeansRan'
<1>1. \A t \in Tools : <<t, 200>> # <<req[serving].path, s>>
  OBVIOUS
<1>2. \A t \in Tools : Value(http', <<t, 200>>) = Value(http, <<t, 200>>)
  BY <1>1, RespondCounts, ZenonT(30)
<1>3. QED
  BY <1>2, ZenonT(40) DEF OkMeansRan

LEMMA OkAfterTool ==
  ASSUME Typed, OkMeansRan, CallTool PROVE OkMeansRan'
<1> DEFINE p == req[serving].path
           calls(t) == Value(toolCalls, t)
           oks(t) == Value(http, <<t, 200>>)
           found(t) == Value(solutions, t)
<1>1. /\ IsCounter(toolCalls, Tools) /\ IsCounter(solutions, Tools)
      /\ IsCounter(http, Keys)
      /\ pc = "tool" /\ p \in Tools /\ MaxFound \in Nat /\ "reason" \in Tools
  BY ApiAssumption DEF Typed, TypeOK, StepsMatchPaths, CallTool, Tools, Reasoning
<1>2. \A t : calls(t) \in Nat /\ oks(t) \in Nat /\ found(t) \in Nat
  BY <1>1, ValueIsNat
<1>3. PICK inner \in InnerReasons(p) :
        \/ /\ Respond(500, "write")
           /\ toolCalls' = Inc(toolCalls, "reason", inner)
           /\ UNCHANGED solutions
        \/ /\ Respond(200, "write in try")
           /\ toolCalls' = CallsAfter(p, inner)
           /\ \E n \in 0..(IF p \in Reasoning /\ backend # "invalid"
                           THEN MaxFound ELSE 0) :
                solutions' = Inc(solutions, p, n)
  BY DEF CallTool
<1>4. inner \in Nat
  BY DEF InnerReasons
<1>5. 200 \in Statuses /\ 500 \in Statuses
  BY DEF Statuses
<1>6. CASE /\ Respond(500, "write")
           /\ toolCalls' = Inc(toolCalls, "reason", inner) /\ UNCHANGED solutions
  <2>1. \A t \in Tools : Value(http', <<t, 200>>) = oks(t)
    <3>1. \A t \in Tools : <<t, 200>> # <<p, 500>>
      OBVIOUS
    <3>2. \A l : l # <<p, 500>> => Value(http', l) = Value(http, l)
      BY <1>1, <1>5, <1>6, RespondCounts
    <3>3. QED
      BY <3>1, <3>2
  <2>2. /\ Value(toolCalls', "reason") = calls("reason") + inner
        /\ \A t : t # "reason" => Value(toolCalls', t) = calls(t)
    BY <1>1, <1>4, <1>6, IncCounts
  <2>3. \A t \in Tools : Value(solutions', t) = found(t)
    BY <1>6
  <2>4. ASSUME NEW t \in Tools
        PROVE  /\ Value(toolCalls', t) >= Value(http', <<t, 200>>)
               /\ t # "reason" => Value(toolCalls', t) = Value(http', <<t, 200>>)
               /\ Value(solutions', t) <= MaxFound * Value(http', <<t, 200>>)
    <3>1. /\ calls(t) >= oks(t) /\ (t # "reason" => calls(t) = oks(t))
          /\ found(t) <= MaxFound * oks(t)
      BY DEF OkMeansRan
    <3>2. calls(t) \in Nat /\ oks(t) \in Nat
      BY <1>2
    <3>3. Value(toolCalls', t) = calls(t) + (IF t = "reason" THEN inner ELSE 0)
      <4>1. CASE t = "reason"
        BY <2>2, <4>1
      <4>2. CASE t # "reason"
        <5>1. Value(toolCalls', t) = calls(t)
          BY <2>2, <4>2
        <5> HIDE DEF calls
        <5>2. QED
          BY <3>2, <4>2, <5>1
      <4>3. QED
        BY <4>1, <4>2
    <3> HIDE DEF calls, oks, found
    <3>4. QED
      BY <1>4, <2>1, <2>3, <3>1, <3>2, <3>3
  <2>5. QED
    BY <2>4 DEF OkMeansRan
<1>7. ASSUME Respond(200, "write in try"), toolCalls' = CallsAfter(p, inner),
             NEW n \in 0..(IF p \in Reasoning /\ backend # "invalid"
                           THEN MaxFound ELSE 0),
             solutions' = Inc(solutions, p, n)
      PROVE  OkMeansRan'
  <2>1. Value(http', <<p, 200>>) = oks(p) + 1
    BY <1>1, <1>5, <1>7, RespondCounts
  <2>2. \A t \in Tools : t # p => Value(http', <<t, 200>>) = oks(t)
    <3>1. \A t \in Tools : t # p => <<t, 200>> # <<p, 200>>
      OBVIOUS
    <3>2. QED
      BY <1>1, <1>5, <1>7, <3>1, RespondCounts
  <2>3. n \in Nat /\ n <= MaxFound
    <3> DEFINE most == IF p \in Reasoning /\ backend # "invalid" THEN MaxFound ELSE 0
    <3>1. most \in Nat /\ most <= MaxFound
      BY <1>1
    <3>2. n \in 0..most
      BY <1>7
    <3> HIDE DEF most
    <3>3. QED
      BY <1>1, <3>1, <3>2
  <2>4. Value(solutions', p) = found(p) + n /\ \A t : t # p => Value(solutions', t) = found(t)
    <3>1. IsCounter(solutions, Tools) /\ p \in Tools /\ n \in Nat
      BY <1>1, <2>3
    <3>2. solutions' = Inc(solutions, p, n)
      BY <1>7
    <3> HIDE DEF p
    <3>3. QED
      BY <3>1, <3>2, IncCounts
  <2> DEFINE c == Inc(toolCalls, "reason", inner)
  <2>5. /\ IsCounter(c, Tools)
        /\ Value(c, "reason") = calls("reason") + inner
        /\ \A t : t # "reason" => Value(c, t) = calls(t)
    BY <1>1, <1>4, IncCounts
  <2>6. toolCalls' = Inc(c, p, 1)
    BY <1>7 DEF CallsAfter
  <2> HIDE DEF c
  <2>7. Value(toolCalls', p) = Value(c, p) + 1
        /\ \A t : t # p => Value(toolCalls', t) = Value(c, t)
    BY <1>1, <2>5, <2>6, IncCounts
  <2>8. ASSUME NEW t \in Tools
        PROVE  /\ Value(toolCalls', t) >= Value(http', <<t, 200>>)
               /\ t # "reason" => Value(toolCalls', t) = Value(http', <<t, 200>>)
               /\ Value(solutions', t) <= MaxFound * Value(http', <<t, 200>>)
    <3>1. /\ calls(t) >= oks(t) /\ (t # "reason" => calls(t) = oks(t))
          /\ found(t) <= MaxFound * oks(t)
      BY DEF OkMeansRan
    <3>2. calls(t) \in Nat /\ oks(t) \in Nat /\ found(t) \in Nat
      BY <1>2
    <3>3. CASE t # p
      <4>1. /\ Value(http', <<t, 200>>) = oks(t) /\ Value(solutions', t) = found(t)
            /\ Value(toolCalls', t) = calls(t) + (IF t = "reason" THEN inner ELSE 0)
        BY <1>2, <2>2, <2>4, <2>5, <2>7, <3>3
      <4>2. QED
        BY <1>4, <3>1, <3>2, <4>1
    <3>4. CASE t = p
      <4>1. /\ Value(http', <<t, 200>>) = oks(t) + 1 /\ Value(solutions', t) = found(t) + n
            /\ Value(toolCalls', t) = calls(t) + (IF t = "reason" THEN inner ELSE 0) + 1
        BY <1>2, <2>1, <2>4, <2>5, <2>7, <3>4
      <4>2. MaxFound * (oks(t) + 1) = MaxFound * oks(t) + MaxFound
        BY <1>1, <3>2
      <4> HIDE DEF calls, oks, found
      <4>3. MaxFound * oks(t) \in Nat
        BY <1>1, <3>2
      <4>4. Value(solutions', t) <= MaxFound * Value(http', <<t, 200>>)
        BY <1>1, <2>3, <3>1, <3>2, <4>1, <4>2, <4>3
      <4>5. QED
        BY <1>4, <3>1, <3>2, <4>1, <4>4
    <3>5. QED
      BY <3>3, <3>4
  <2>9. QED
    BY <2>8 DEF OkMeansRan
<1>8. QED
  BY <1>3, <1>6, <1>7

LEMMA OkStep == Typed /\ OkMeansRan /\ [Next]_vars => OkMeansRan'
<1> SUFFICES ASSUME Typed, OkMeansRan, [Next]_vars PROVE OkMeansRan'
  OBVIOUS
<1> USE DEF metricVars
<1>1. ASSUME UNCHANGED <<http, toolCalls, solutions>> PROVE OkMeansRan'
  BY <1>1 DEF OkMeansRan
<1>2. 200 \in Statuses /\ 400 \in Statuses /\ 401 \in Statuses /\ 404 \in Statuses
      /\ 500 \in Statuses /\ 503 \in Statuses /\ "health" \notin Tools
      /\ "metrics" \notin Tools
  BY DEF Statuses, Tools, Reasoning
<1>3. CASE UNCHANGED vars
  BY <1>1, <1>3 DEF vars
<1>4. CASE \/ \E c \in Client : Send(c) \/ Leave(c) \/ Read(c)
                                \/ \E r \in UNION Range(Offers) : Connect(c, r)
           \/ EngineFails \/ Terminate
  BY <1>1, <1>4 DEF Send, Leave, Read, Connect, EngineFails, Terminate
<1>5. CASE Accept \/ ReadHead \/ StopServing \/ CloseDown
  BY <1>1, <1>5 DEF Accept, ReadHead, StopServing, CloseDown
<1>6. CASE Route
  <2>1. pc = "route" /\ UNCHANGED <<toolCalls, solutions>>
    BY <1>6 DEF Route
  <2>2. UNCHANGED http \/ Respond(401, "write") \/ Respond(404, "write")
    BY <1>6 DEF Route, Raise
  <2>3. QED
    BY <1>1, <1>2, <2>1, <2>2, OtherRespond
<1>7. CASE ReadBody
  <2>1. pc = "body" /\ UNCHANGED <<toolCalls, solutions>>
    BY <1>7 DEF ReadBody
  <2>2. UNCHANGED http \/ Respond(400, "write")
    BY <1>7 DEF ReadBody, Raise
  <2>3. QED
    BY <1>1, <1>2, <2>1, <2>2, OtherRespond
<1>8. CASE CallTool
  BY <1>8, OkAfterTool
<1>9. CASE Ping
  <2>1. pc = "ping" /\ UNCHANGED <<toolCalls, solutions>>
    BY <1>9 DEF Ping
  <2>2. UNCHANGED http \/ Respond(503, "write")
    BY <1>9 DEF Ping, Raise
  <2>3. QED
    BY <1>1, <1>2, <2>1, <2>2, OtherRespond
<1>10. CASE Stats \/ Scrape
  <2>1. /\ pc \in {"stats", "scrape"} /\ Respond(200, "write")
        /\ UNCHANGED <<toolCalls, solutions>>
    BY <1>10 DEF Stats, Scrape
  <2>2. req[serving].path \notin Tools
    BY <1>2, <2>1 DEF Typed, StepsMatchPaths
  <2>3. QED
    BY <1>2, <2>1, <2>2, OtherRespond
<1>11. CASE Write \/ WriteRest
  <2>1. /\ pc \in {"write", "write in try", "blocked", "unblocked"}
        /\ UNCHANGED <<toolCalls, solutions>>
    BY <1>11 DEF Write, WriteRest
  <2>2. UNCHANGED http \/ Respond(500, OutOfTry)
    BY <1>11 DEF Write, WriteRest, Finish
  <2>3. pc \notin {"listen", "closing", "closed", "exited"}
    BY <2>1
  <2>4. CASE Respond(500, OutOfTry)
    <3>1. 500 # 200
      OBVIOUS
    <3>2. 500 \in Statuses
      BY DEF Statuses
    <3>3. UNCHANGED <<toolCalls, solutions>>
      BY <2>1
    <3>4. Respond(500, "write")
      BY <2>4 DEF OutOfTry
    <3>5. QED
      BY <1>2, <2>3, <3>1, <3>2, <3>3, <3>4, OtherRespond
  <2>5. QED
    BY <1>1, <2>1, <2>2, <2>4
<1>12. QED
  BY <1>3, <1>4, <1>5, <1>6, <1>7, <1>8, <1>9, <1>10, <1>11 DEF Next, Server

----------------------------------------------------------------------------
(* Failures are reported once, clients that stay are answered, and nothing *)
(* is left running.                                                        *)

LEMMA OtherStatus ==
  ASSUME Typed, pc \notin {"listen", "closing", "closed", "exited"},
         NEW s \in Statuses, NEW step, Respond(s, step), s # 503
  PROVE  Value(http', <<"health", 503>>) = Value(http, <<"health", 503>>)
<1>1. <<"health", 503>> # <<req[serving].path, s>>
  OBVIOUS
<1>2. QED
  BY <1>1, RespondCounts, ZenonT(40)

LEMMA ReportsStep ==
  Typed /\ LaunchesCoverReports /\ [Next]_vars => LaunchesCoverReports'
<1> SUFFICES ASSUME Typed, LaunchesCoverReports, [Next]_vars PROVE LaunchesCoverReports'
  OBVIOUS
<1> DEFINE reports == Value(http, <<"health", 503>>)
<1>1. /\ IsCounter(http, Keys) /\ launches \in Nat /\ reports \in Nat
      /\ engine \in {"cold", "none", "up", "wedged"}
  BY ValueIsNat DEF Typed, TypeOK
<1>2. 200 \in Statuses /\ 400 \in Statuses /\ 401 \in Statuses /\ 404 \in Statuses
      /\ 500 \in Statuses /\ 503 \in Statuses
  BY DEF Statuses
<1>3. ASSUME UNCHANGED <<engine, launches>>, reports' = reports
      PROVE  LaunchesCoverReports'
  BY <1>3 DEF LaunchesCoverReports
<1>4. CASE UNCHANGED vars
  BY <1>3, <1>4 DEF vars, metricVars, engineVars
<1>5. CASE \/ \E c \in Client : Send(c) \/ Leave(c) \/ Read(c)
                                \/ \E r \in UNION Range(Offers) : Connect(c, r)
           \/ Accept \/ ReadHead \/ StopServing
  BY <1>3, <1>5
     DEF Send, Leave, Read, Connect, Accept, ReadHead, StopServing, metricVars, engineVars
<1>6. CASE EngineFails
  BY <1>1, <1>6 DEF EngineFails, LaunchesCoverReports, metricVars
<1>7. CASE Terminate \/ CloseDown
  BY <1>1, <1>7
     DEF Terminate, CloseDown, ClosesEngine, LaunchesCoverReports, metricVars
<1>8. CASE Route \/ ReadBody \/ Scrape \/ Write \/ WriteRest
  <2>1. /\ UNCHANGED <<engine, launches>>
        /\ pc \notin {"listen", "closing", "closed", "exited"}
    BY <1>8 DEF Route, ReadBody, Scrape, Write, WriteRest, engineVars
  <2>2. \/ UNCHANGED http
        \/ Respond(401, "write") \/ Respond(404, "write") \/ Respond(400, "write")
        \/ Respond(200, "write") \/ Respond(500, "write")
    BY <1>8 DEF Route, ReadBody, Scrape, Write, WriteRest, Finish, Raise, OutOfTry
  <2>3. 401 # 503 /\ 404 # 503 /\ 400 # 503 /\ 200 # 503 /\ 500 # 503
    OBVIOUS
  <2>4. reports' = reports
    BY <1>2, <2>1, <2>2, <2>3, OtherStatus
  <2>5. QED
    BY <1>3, <2>1, <2>4
<1>9. CASE CallTool
  <2>1. pc = "tool" /\ (Respond(500, "write") \/ Respond(200, "write in try"))
    BY <1>9 DEF CallTool
  <2>2. reports' = reports
    <3>1. 500 # 503 /\ 200 # 503
      OBVIOUS
    <3>2. pc \notin {"listen", "closing", "closed", "exited"}
      BY <2>1
    <3>3. CASE Respond(500, "write")
      BY <1>2, <3>1, <3>2, <3>3, OtherStatus
    <3>4. CASE Respond(200, "write in try")
      <4>1. 200 \in Statuses /\ 200 # 503
        BY <1>2, <3>1
      <4>2. PICK step : step = "write in try"
        OBVIOUS
      <4>3. Respond(200, step)
        BY <3>4, <4>2
      <4>4. QED
        BY <3>2, <4>1, <4>3, OtherStatus
    <3>5. QED
      BY <2>1, <3>3, <3>4
  <2>3. PICK after \in EngineAfter(req[serving].path) :
          engine' = after[1] /\ launches' = launches + after[2]
    BY <1>9 DEF CallTool
  <2>4. \/ engine' = engine /\ launches' = launches
        \/ engine' = "up" /\ launches' = launches + 1
        \/ engine' = "none" /\ launches' \in {launches, launches + 1}
    BY <1>1, <2>3 DEF EngineAfter
  <2> HIDE DEF reports
  <2>5. reports + (IF engine' \in {"up", "wedged"} THEN 1 ELSE 0) <= launches'
    BY <1>1, <2>4 DEF LaunchesCoverReports, reports
  <2>6. QED
    BY <2>2, <2>5 DEF LaunchesCoverReports, reports
<1>10. CASE Ping
  <2>1. pc = "ping" /\ req[serving].path = "health"
    BY <1>10 DEF Ping, Typed, StepsMatchPaths
  <2>2. CASE UNCHANGED http
    <3>1. \/ UNCHANGED <<engine, launches>>
          \/ engine' = "up" /\ launches' = launches + 1
          \/ Respond(503, "write")
      BY <1>10 DEF Ping, Relaunch, engineVars
    <3>2. CASE UNCHANGED <<engine, launches>>
      BY <1>3, <2>2, <3>2
    <3>3. CASE engine' = "up" /\ launches' = launches + 1
      BY <1>1, <2>2, <3>3 DEF LaunchesCoverReports
    <3>4. CASE Respond(503, "write")
      <4>1. reports' = reports + 1
        BY <1>2, <2>1, <3>4, RespondCounts
      <4>2. QED
        BY <1>1, <2>2, <4>1
    <3>5. QED
      BY <3>1, <3>2, <3>3, <3>4
  <2>3. CASE Respond(503, "write")
    <3>1. reports' = reports + 1
      BY <1>2, <2>1, <2>3, RespondCounts
    <3>2. \/ engine \in {"up", "wedged"} /\ engine' = "none" /\ launches' = launches
          \/ engine' = "none" /\ launches' = launches + 1
          \/ pc' \in {"stats", "listen"}
      BY <1>10 DEF Ping, Relaunch, Raise, Disconnect, Dropped, Goes
    <3>3. pc' \notin {"stats", "listen"}
      BY <2>3 DEF Respond, Goes
    <3> HIDE DEF reports
    <3>4. reports + 1 + (IF engine' \in {"up", "wedged"} THEN 1 ELSE 0) <= launches'
      BY <1>1, <3>2, <3>3 DEF LaunchesCoverReports, reports
    <3>5. QED
      BY <3>1, <3>4 DEF LaunchesCoverReports, reports
  <2>4. QED
    BY <1>10, <2>2, <2>3 DEF Ping, Raise
<1>11. CASE Stats
  <2>1. /\ pc = "stats" /\ Respond(200, "write")
        /\ \/ UNCHANGED <<engine, launches>>
           \/ engine = "wedged" /\ engine' = "none" /\ UNCHANGED launches
           \/ engine' \in {"up", "none"} /\ launches' = launches + 1
    BY <1>11 DEF Stats, Relaunch, engineVars, Dropped
  <2>2. reports' = reports
    <3>1. 200 # 503
      OBVIOUS
    <3>2. QED
      BY <1>2, <2>1, <3>1, OtherStatus
  <2> HIDE DEF reports
  <2>3. reports + (IF engine' \in {"up", "wedged"} THEN 1 ELSE 0) <= launches'
    BY <1>1, <2>1 DEF LaunchesCoverReports, reports
  <2>4. QED
    BY <2>2, <2>3 DEF LaunchesCoverReports, reports
<1>12. QED
  BY <1>4, <1>5, <1>6, <1>7, <1>8, <1>9, <1>10, <1>11 DEF Next, Server

LEMMA ClosingStep ==
  Typed /\ EndsByStop /\ ClosedClean /\ [Next]_vars => EndsByStop' /\ ClosedClean'
<1> SUFFICES ASSUME Typed, EndsByStop, ClosedClean, [Next]_vars
             PROVE  EndsByStop' /\ ClosedClean'
  OBVIOUS
<1> USE DEF EndsByStop, ClosedClean
<1>1. CASE UNCHANGED vars
  BY <1>1 DEF vars, serverVars, engineVars
<1>2. CASE \E c \in Client : Send(c) \/ Leave(c) \/ Read(c)
                             \/ \E r \in UNION Range(Offers) : Connect(c, r)
  BY <1>2 DEF Send, Leave, Read, Connect, serverVars, engineVars
<1>3. CASE EngineFails
  BY <1>3 DEF EngineFails, serverVars
<1>4. CASE Terminate
  BY <1>4 DEF Terminate, Resumes
<1>5. CASE StopServing
  BY <1>5 DEF StopServing, Goes
<1>6. CASE CloseDown
  <2>1. pc = "closing" /\ pc' = "closed" /\ stopping' = stopping /\ serving' = serving
        /\ engine' = "cold"
    BY <1>6 DEF CloseDown, Goes, ClosesEngine
  <2>2. serving = NoClient
    BY <2>1 DEF Typed, TypeOK
  <2>3. QED
    BY <2>1, <2>2
<1>7. CASE Accept \/ ReadHead \/ Route \/ ReadBody \/ CallTool \/ Ping \/ Stats \/ Scrape
           \/ Write \/ WriteRest
  <2>1. pc' \notin {"closing", "closed"}
    BY <1>7, ZenonT(40) DEF Accept, ReadHead, Route, ReadBody, CallTool, Ping, Stats, Scrape,
                Write, WriteRest, Finish, Raise, Respond, Disconnect, Goes, OutOfTry
  <2>2. QED
    BY <2>1
<1>8. QED
  BY <1>1, <1>2, <1>3, <1>4, <1>5, <1>6, <1>7 DEF Next, Server

----------------------------------------------------------------------------
(* Who stays is answered.                                                  *)

\* What a connection is owed, of a client whose request reached a handler that
\* does not raise on it.
Owed(c) == c \notin gone /\ sent[c] # "nothing" /\ req[c].method # "PUT" /\ ~Stumbles(req[c])

LEMMA StayersWait ==
  ASSUME Typed, StayersAreAnswered,
         UNCHANGED <<backend, backlog, serving, req, sent, gone, got>>
  PROVE  StayersAreAnswered'
BY DEF StayersAreAnswered, Unconnected, Stumbles

\* The connection being served ends, and nothing else happens to a client.
LEMMA StayersDisconnect ==
  ASSUME Typed, StayersAreAnswered, serving \in Client, serving' = NoClient,
         UNCHANGED <<backend, backlog, req, sent, gone>>,
         \A c \in Client : c # serving => got'[c] = got[c],
         ~Owed(serving) \/ got'[serving] # 0
  PROVE  StayersAreAnswered'
<1> SUFFICES ASSUME NEW c \in Client, Unconnected(c)', Owed(c) PROVE got'[c] # 0
  BY DEF StayersAreAnswered, Owed, Stumbles
<1>1. CASE c = serving
  BY <1>1
<1>2. CASE c # serving
  BY <1>2 DEF StayersAreAnswered, Unconnected, Owed, Stumbles
<1>3. QED
  BY <1>1, <1>2

LEMMA StayersStep ==
  Typed /\ StayersAreAnswered /\ [Next]_vars => StayersAreAnswered'
<1> SUFFICES ASSUME Typed, StayersAreAnswered, [Next]_vars PROVE StayersAreAnswered'
  OBVIOUS
<1>1. /\ backlog \in Seq(Client) /\ got \in [Client -> Statuses \cup {0}]
      /\ req \in [Client -> RequestType] /\ sent \in [Client -> {"nothing", "head", "all"}]
      /\ serving \in Client \cup {NoClient} /\ NoClient \notin Client
      /\ status # 0
  BY ApiAssumption DEF Typed, TypeOK, Statuses
<1>2. CASE UNCHANGED vars
  BY <1>2, StayersWait DEF vars, serverVars, clientVars
<1>13. CASE \E c \in Client : Read(c)
  BY <1>13, StayersWait DEF Read, clientVars
<1>3. CASE \E c \in Client : Send(c)
  <2>1. PICK c \in Client : Send(c)
    BY <1>3
  <2>2. ~Unconnected(c) /\ UNCHANGED <<backend, backlog, serving, req, gone, got>>
        /\ \A d \in Client : d # c => sent'[d] = sent[d]
    BY <1>1, <2>1 DEF Send, serverVars
  <2>3. QED
    BY <2>2 DEF StayersAreAnswered, Unconnected, Stumbles
<1>4. CASE \E c \in Client : Leave(c)
  <2>1. gone \subseteq gone' /\ UNCHANGED <<backend, backlog, serving, req, sent, got>>
    BY <1>4 DEF Leave, serverVars
  <2>2. QED
    BY <2>1 DEF StayersAreAnswered, Unconnected, Stumbles
<1>5. CASE \E c \in Client : \E r \in UNION Range(Offers) : Connect(c, r)
  <2>1. PICK c \in Client, r \in UNION Range(Offers) : Connect(c, r)
    BY <1>5
  <2>2. /\ backlog' = Append(backlog, c) /\ serving' = serving /\ backend' = backend
        /\ gone' = gone \ {c}
        /\ req' = [req EXCEPT ![c] = r]
        /\ sent' = [sent EXCEPT ![c] = "nothing"] /\ got' = [got EXCEPT ![c] = 0]
    BY <2>1 DEF Connect, serverVars
  <2>3. ToSet(backlog') = ToSet(backlog) \cup {c}
    BY <1>1, <2>2, ToSetAppend
  <2>4. ASSUME NEW d \in Client, d # c
        PROVE  /\ req'[d] = req[d] /\ sent'[d] = sent[d] /\ got'[d] = got[d]
               /\ d \in gone' <=> d \in gone
               /\ d \in ToSet(backlog') <=> d \in ToSet(backlog)
    BY <1>1, <2>2, <2>3, <2>4
  <2>5. c \in ToSet(backlog')
    BY <2>3
  <2>6. QED
    BY <2>2, <2>4, <2>5 DEF StayersAreAnswered, Unconnected, Stumbles
<1>6. CASE EngineFails \/ Terminate
  BY <1>6, StayersWait DEF EngineFails, Terminate, serverVars, clientVars
<1>7. CASE Accept
  <2>1. /\ backlog # <<>> /\ backlog' = Tail(backlog) /\ serving' = Head(backlog)
        /\ UNCHANGED <<backend, req, sent, gone, got>> /\ pc = "listen"
    BY <1>7 DEF Accept, Goes
  <2>2. ToSet(backlog) = ToSet(backlog') \cup {serving'}
    BY <1>1, <2>1, ToSetTail
  <2>3. serving = NoClient
    BY <2>1 DEF Typed, TypeOK
  <2>4. QED
    BY <1>1, <2>1, <2>2, <2>3 DEF StayersAreAnswered, Unconnected, Stumbles
<1>8. CASE ReadHead
  <2>1. pc = "read" /\ UNCHANGED <<backend, backlog, req, sent, gone, got>>
    BY <1>8 DEF ReadHead, Disconnect, Goes, clientVars
  <2>2. CASE UNCHANGED serving
    BY <2>1, <2>2, StayersWait
  <2>3. CASE (sent[serving] = "nothing" \/ req[serving].method = "PUT") /\ Disconnect
    <3>1. serving \in Client
      BY <2>1 DEF Typed, TypeOK
    <3>2. ~Owed(serving) /\ serving' = NoClient
      BY <2>3 DEF Owed, Disconnect
    <3>3. QED
      BY <2>1, <3>1, <3>2, StayersDisconnect
  <2>4. QED
    BY <1>8, <2>2, <2>3 DEF ReadHead
<1>9. CASE CallTool \/ Stats \/ Scrape \/ CloseDown
  <2>1. UNCHANGED <<backend, backlog, serving, req, sent, gone, got>>
    BY <1>9 DEF CallTool, Stats, Scrape, CloseDown, Respond, Goes, clientVars
  <2>2. QED
    BY <2>1, StayersWait
<1>10. CASE Route \/ ReadBody \/ Ping
  <2>1. /\ pc \in {"route", "body", "ping"}
        /\ UNCHANGED <<backend, backlog, req, sent, gone, got>>
    BY <1>10 DEF Route, ReadBody, Ping, Raise, Disconnect, Respond, Goes, clientVars
  <2>2. CASE UNCHANGED serving
    BY <2>1, <2>2, StayersWait
  <2>3. CASE Raise /\ Stumbles(req[serving])
    <3>1. serving \in Client
      BY <2>1 DEF Typed, TypeOK
    <3>2. ~Owed(serving) /\ serving' = NoClient
      BY <2>3 DEF Owed, Raise, Disconnect
    <3>3. QED
      BY <2>1, <3>1, <3>2, StayersDisconnect
  <2>4. CASE ~UNCHANGED serving
    <3>1. CASE Route
      <4>1. Raise /\ ~Admitted(req[serving]) /\ req[serving].key = "garbled"
        BY <2>4, <3>1 DEF Route, Respond
      <4>2. Stumbles(req[serving])
        BY <4>1 DEF Stumbles, Admitted
      <4>3. QED
        BY <2>3, <4>1, <4>2
    <3>2. CASE ReadBody
      <4>1. Raise /\ BodyStatus(req[serving], sent[serving] # "all") = 0 /\ pc = "body"
        BY <2>4, <3>2 DEF ReadBody, Respond
      <4>2. req[serving].body = "stumbles"
        <5>1. 400 # 0 /\ 200 # 0
          OBVIOUS
        <5>2. QED
          BY <4>1, <5>1 DEF BodyStatus
      <4>3. Stumbles(req[serving])
        BY <4>1, <4>2 DEF Stumbles, Typed, StepsMatchPaths
      <4>4. QED
        BY <2>3, <4>1, <4>3
    <3>3. CASE Ping
      <4>1. Raise /\ backend = "invalid" /\ pc = "ping"
        BY <2>4, <3>3 DEF Ping, Respond
      <4>2. Stumbles(req[serving])
        BY <4>1 DEF Stumbles, Typed, StepsMatchPaths
      <4>3. QED
        BY <2>3, <4>1, <4>2
    <3>4. QED
      BY <1>10, <3>1, <3>2, <3>3
  <2>5. QED
    BY <2>2, <2>4
<1>11. CASE Write \/ WriteRest
  <2>1. /\ pc \in {"write", "write in try", "blocked", "unblocked"}
        /\ UNCHANGED <<backend, backlog, req, sent, gone>>
    BY <1>11 DEF Write, WriteRest, Finish, Disconnect, Respond, Goes
  <2>0. serving \in Client
    <3>1. pc \notin {"listen", "closing", "closed", "exited"}
      BY <2>1
    <3>2. QED
      BY <3>1 DEF Typed, TypeOK
  <2>2. CASE Finish
    <3>1. serving' = NoClient /\ \A c \in Client : c # serving => got'[c] = got[c]
      BY <1>1, <2>2 DEF Finish, Disconnect
    <3>2. ~Owed(serving) \/ got'[serving] # 0
      BY <1>1, <2>0, <2>2 DEF Finish, Owed
    <3>3. QED
      BY <2>0, <2>1, <3>1, <3>2, StayersDisconnect
  <2>3. CASE serving \in gone /\ got' = got /\ Disconnect
    <3>1. serving' = NoClient /\ ~Owed(serving)
      BY <2>3 DEF Disconnect, Owed
    <3>2. QED
      BY <2>0, <2>1, <2>3, <3>1, StayersDisconnect
  <2>4. CASE got' = got /\ UNCHANGED serving
    BY <2>1, <2>4, StayersWait
  <2>5. QED
    BY <1>11, <2>2, <2>3, <2>4 DEF Write, WriteRest, Respond
<1>12. CASE StopServing
  <2>1. /\ pc = "listen" /\ backlog' = <<>> /\ UNCHANGED <<backend, serving, req, gone, got>>
        /\ sent' = [c \in Client |-> IF c \in ToSet(backlog) THEN "nothing" ELSE sent[c]]
    BY <1>12 DEF StopServing, Goes
  <2>2. ASSUME NEW c \in Client, sent'[c] # "nothing"
        PROVE  sent'[c] = sent[c] /\ c \notin ToSet(backlog)
    BY <2>1, <2>2
  <2>3. QED
    BY <2>1, <2>2 DEF StayersAreAnswered, Unconnected, Stumbles
<1>14. QED
  BY <1>2, <1>3, <1>4, <1>5, <1>6, <1>7, <1>8, <1>9, <1>10, <1>11, <1>12, <1>13
  DEF Next, Server

----------------------------------------------------------------------------
(* A page of metrics adds up: each response is observed once.              *)

ByStatus(p) == [s \in Statuses |-> Value(http, <<p, s>>)]

Fits(o, n) ==
  /\ o.counts \in [1..Buckets -> Nat] /\ o.count \in Nat
  /\ Cumulative(o.counts, Buckets) <= o.count /\ o.count = n

PageFits == \A p \in Paths : Fits(Observations(latency, p), Total(ByStatus(p)))

\* Every step records one response or none.
LEMMA StepRecords ==
  ASSUME Typed, [Next]_vars
  PROVE  \/ UNCHANGED <<http, latency>>
         \/ \E s \in Statuses, p \in Paths : Record(p, s)
<1>1. CASE UNCHANGED vars
  BY <1>1 DEF vars, metricVars
<1>2. CASE \E c \in Client : Send(c) \/ Leave(c) \/ Read(c)
                             \/ \E r \in UNION Range(Offers) : Connect(c, r)
  BY <1>2 DEF Send, Leave, Read, Connect, metricVars
<1>3. CASE EngineFails \/ Terminate \/ StopServing \/ CloseDown \/ Accept \/ ReadHead
  BY <1>3 DEF EngineFails, Terminate, StopServing, CloseDown, Accept, ReadHead, metricVars
<1>4. ASSUME NEW s \in Statuses, NEW step, Respond(s, step),
             pc \notin {"listen", "closing", "closed", "exited"}
      PROVE  \E t \in Statuses, p \in Paths : Record(p, t)
  BY <1>4, ServingTyped DEF Typed, Respond
<1>5. {200, 400, 401, 404, 500, 503} \subseteq Statuses
  BY DEF Statuses
<1>6. CASE Route
  BY <1>4, <1>5, <1>6 DEF Route, Raise
<1>7. CASE ReadBody
  BY <1>4, <1>5, <1>7 DEF ReadBody, Raise
<1>8. CASE CallTool
  <2>1. pc = "tool" /\ (Respond(500, "write") \/ Respond(200, "write in try"))
    BY <1>8 DEF CallTool
  <2>2. PICK s \in {500, 200}, step \in {"write", "write in try"} : Respond(s, step)
    BY <2>1
  <2>3. s \in Statuses /\ pc \notin {"listen", "closing", "closed", "exited"}
    BY <2>1, <2>2, ZenonT(30) DEF Statuses
  <2>4. QED
    BY <1>4, <2>2, <2>3
<1>9. CASE Ping \/ Stats \/ Scrape
  BY <1>4, <1>5, <1>9 DEF Ping, Raise, Stats, Scrape
<1>10. CASE Write \/ WriteRest
  <2>1. pc \in {"write", "write in try", "blocked", "unblocked"}
        /\ (Respond(500, OutOfTry) \/ UNCHANGED <<http, latency>>)
    BY <1>10 DEF Write, WriteRest, Finish
  <2>2. 500 \in Statuses /\ pc \notin {"listen", "closing", "closed", "exited"}
    BY <2>1, ZenonT(30) DEF Statuses
  <2>3. QED
    BY <1>4, <2>1, <2>2
<1>11. QED
  BY <1>1, <1>2, <1>3, <1>6, <1>7, <1>8, <1>9, <1>10 DEF Next, Server

\* A value counts from its bucket on.
LEMMA CumulativeGrows ==
  ASSUME NEW old \in [1..Buckets -> Nat], NEW v \in Nat \ {0},
         NEW new \in [1..Buckets -> Nat],
         \A b \in 1..Buckets : new[b] = old[b] + (IF v = b THEN 1 ELSE 0)
  PROVE  \A b \in 0..Buckets :
           Cumulative(new, b) = Cumulative(old, b) + (IF v <= b THEN 1 ELSE 0)
<1>0. Buckets \in Nat
  BY MetricsAssumption
<1> DEFINE S == {b \in Nat : b <= Buckets =>
                   Cumulative(new, b) = Cumulative(old, b) + (IF v <= b THEN 1 ELSE 0)}
<1>2. 0 \in S
  <2>1. 0 \in 0..Buckets
    BY <1>0
  <2>2. Cumulative(new, 0) = 0 /\ Cumulative(old, 0) = 0
    BY <2>1, CumulativeSteps
  <2>3. QED
    BY <2>2
<1>3. ASSUME NEW b \in Nat, b \in S PROVE b + 1 \in S
  <2> SUFFICES ASSUME b + 1 <= Buckets
               PROVE  Cumulative(new, b + 1)
                        = Cumulative(old, b + 1) + (IF v <= b + 1 THEN 1 ELSE 0)
    OBVIOUS
  <2>1. b + 1 \in 0..Buckets /\ b + 1 > 0 /\ (b + 1) - 1 = b /\ b + 1 \in 1..Buckets
        /\ b \in 0..Buckets
    BY <1>0
  <2>2. Cumulative(new, b + 1) = Cumulative(new, b) + new[b + 1]
        /\ Cumulative(old, b + 1) = Cumulative(old, b) + old[b + 1]
    BY <2>1, CumulativeSteps
  <2>3. Cumulative(new, b) = Cumulative(old, b) + (IF v <= b THEN 1 ELSE 0)
    BY <1>3, <2>1
  <2>4. new[b + 1] = old[b + 1] + (IF v = b + 1 THEN 1 ELSE 0) /\ old[b + 1] \in Nat
        /\ Cumulative(old, b) \in Nat
    BY <2>1, CumulativeSteps
  <2>5. QED
    BY <2>2, <2>3, <2>4
<1>4. QED
  <2> HIDE DEF S
  <2>1. \A b \in Nat : b \in S
    BY <1>2, <1>3, NatInd
  <2>2. QED
    BY <1>0, <2>1 DEF S

LEMMA StatusesFinite == IsFiniteSet(Statuses)
<1>1. \A t \in Statuses : t \in 0..600
  BY DEF Statuses
<1>2. 0 \in Int /\ 600 \in Int
  OBVIOUS
<1>3. IsFiniteSet(0..600)
  BY <1>2, FS_Interval, ZenonT(30)
<1>4. QED
  BY <1>1, <1>3, FS_Subset

LEMMA PageStep ==
  ASSUME Typed, PageFits, [Next]_vars
  PROVE  PageFits'
<1>1. CASE UNCHANGED <<http, latency>>
  BY <1>1 DEF PageFits, ByStatus
<1>2. ASSUME NEW s \in Statuses, NEW p \in Paths, Record(p, s) PROVE PageFits'
  <2>1. IsCounter(http, Keys) /\ <<p, s>> \in Keys
    BY DEF Typed, TypeOK, Keys
  <2>2. /\ IsCounter(http', Keys)
        /\ Value(http', <<p, s>>) = Value(http, <<p, s>>) + 1
        /\ \A k : k # <<p, s>> => Value(http', k) = Value(http, k)
    BY <1>2, <2>1, IncCounts DEF Record
  <2>3. latency' = Observe(latency, p, Took[p])
    BY <1>2 DEF Record
  <2> SUFFICES ASSUME NEW q \in Paths
               PROVE  Fits(Observations(latency', q), Total(ByStatus(q)'))
    BY DEF PageFits
  <2>4. Fits(Observations(latency, q), Total(ByStatus(q)))
    BY DEF PageFits
  <2>5. CASE q # p
    <3>1. Observations(latency', q) = Observations(latency, q)
      BY <2>3, <2>5 DEF Observe, Put, Observations
    <3>2. ByStatus(q)' = ByStatus(q)
      BY <2>2, <2>5 DEF ByStatus
    <3>3. QED
      BY <2>4, <3>1, <3>2
  <2>6. CASE q = p
    <3> DEFINE o == Observations(latency, p)
    <3>0. PICK new : new = [b \in 1..Buckets |-> o.counts[b] + (IF Took[p] = b THEN 1 ELSE 0)]
      OBVIOUS
    <3>1. Observations(latency', p) = [counts |-> new, count |-> o.count + 1]
      BY <2>3, <3>0 DEF Observe, Put, Observations
    <3>2. Took[p] \in Nat \ {0} /\ Buckets \in Nat /\ Buckets \in 0..Buckets
      BY ApiAssumption, MetricsAssumption
    <3>3. /\ o.counts \in [1..Buckets -> Nat] /\ o.count \in Nat
          /\ Cumulative(o.counts, Buckets) <= o.count /\ o.count = Total(ByStatus(p))
      BY <2>4, <2>6 DEF Fits
    <3> HIDE DEF o
    <3>4. /\ new \in [1..Buckets -> Nat]
          /\ Cumulative(new, Buckets) <= Cumulative(o.counts, Buckets) + 1
      <4>0. PICK old \in [1..Buckets -> Nat] : old = o.counts
        BY <3>3
      <4>6. PICK v \in Nat \ {0} : v = Took[p]
        BY <3>2
      <4>7. new = [b \in 1..Buckets |-> old[b] + (IF v = b THEN 1 ELSE 0)]
        BY <3>0, <4>0, <4>6
      <4>1. new \in [1..Buckets -> Nat]
        BY <4>7
      <4>2. \A b \in 0..Buckets :
              Cumulative(new, b) = Cumulative(old, b) + (IF v <= b THEN 1 ELSE 0)
        <5>1. \A b \in 1..Buckets : new[b] = old[b] + (IF v = b THEN 1 ELSE 0)
          BY <4>7
        <5>2. QED
          BY <4>1, <5>1, CumulativeGrows
      <4>3. Cumulative(old, Buckets) \in Nat
        BY <3>2, CumulativeSteps
      <4>5. Cumulative(new, Buckets) <= Cumulative(old, Buckets) + 1
        BY <3>2, <4>2, <4>3
      <4>4. QED
        BY <4>0, <4>1, <4>5
    <3>5. Total(ByStatus(p)') = Total(ByStatus(p)) + 1
      <4> DEFINE f == ByStatus(p)
                 g == ByStatus(p)'
      <4>2. /\ DOMAIN f = Statuses /\ DOMAIN g = Statuses
            /\ \A t \in Statuses : f[t] = Value(http, <<p, t>>) /\ g[t] = Value(http', <<p, t>>)
        BY DEF ByStatus
      <4>3. \A t \in Statuses : f[t] \in Nat /\ g[t] \in Nat
        BY <2>1, <2>2, <4>2, ValueIsNat
      <4>4. \A t \in Statuses : t # s => g[t] = f[t]
        BY <2>2, <4>2
      <4>5. g[s] = f[s] + 1
        BY <2>2, <4>2
      <4> HIDE DEF f, g
      <4>6. Counts(DOMAIN f, f) /\ Counts(DOMAIN g, g) /\ DOMAIN g = DOMAIN f \cup {s}
        BY <4>2, <4>3, StatusesFinite DEF Counts
      <4>7. Total(g) = Total(f) + 1
        BY <4>2, <4>4, <4>5, <4>6, TotalGrows
      <4>8. QED
        BY <4>7 DEF f, g
    <3>6. Cumulative(o.counts, Buckets) \in Nat /\ Cumulative(new, Buckets) \in Nat
      BY <3>2, <3>3, <3>4, CumulativeSteps
    <3>7. Fits([counts |-> new, count |-> o.count + 1], Total(ByStatus(p)'))
      BY <3>3, <3>4, <3>5, <3>6 DEF Fits
    <3>8. QED
      BY <2>6, <3>1, <3>7
  <2>7. QED
    BY <2>5, <2>6
<1>3. QED
  BY <1>1, <1>2, StepRecords

----------------------------------------------------------------------------
(* Each request is counted once: what is due, and who may make it twice.   *)

Busy == {"route", "body", "tool", "ping", "stats", "scrape"}

\* A response the handler has yet to count.
Due == IF pc \in Busy THEN 1 ELSE 0

\* Clients that left whose connection may still be counted a second time; the
\* answer being written from outside the try block cannot be.
Departing == {c \in gone : ~Unconnected(c)} \ (IF pc = "write" THEN {serving} ELSE {})

Lined ==
  /\ serving \notin ToSet(backlog)
  /\ \A i, j \in DOMAIN backlog : backlog[i] = backlog[j] => i = j
  /\ IsFiniteSet(gone) /\ IsFiniteSet(DOMAIN http)

Tallied ==
  /\ Total(http) + Due = dispatched - raised + recounted
  /\ recounted + Cardinality(Departing) <= left

LEMMA LinedStep ==
  ASSUME Typed, Lined, [Next]_vars
  PROVE  Lined'
<1>0. backlog \in Seq(Client) /\ NoClient \notin Client /\ Len(backlog) \in Nat
      /\ DOMAIN backlog = 1..Len(backlog)
  BY ApiAssumption DEF Typed, TypeOK
<1>1. ToSet(backlog) \subseteq Client
  BY <1>0 DEF ToSet
<1>2. IsFiniteSet(DOMAIN http')
  <2>1. CASE UNCHANGED <<http, latency>>
    BY <2>1 DEF Lined
  <2>2. ASSUME NEW s \in Statuses, NEW p \in Paths, Record(p, s)
        PROVE  IsFiniteSet(DOMAIN http')
    <3>1. DOMAIN http' = DOMAIN http \cup {<<p, s>>}
      BY <2>2 DEF Record, Inc, Put
    <3>2. QED
      BY <3>1, FS_AddElement DEF Lined
  <2>3. QED
    BY <2>1, <2>2, StepRecords
<1>3. CASE UNCHANGED <<backlog, gone>> /\ serving' \in {serving, NoClient}
  <2>1. ToSet(backlog') = ToSet(backlog)
    BY <1>3
  <2>2. QED
    BY <1>0, <1>1, <1>2, <1>3, <2>1 DEF Lined
<1>4. CASE UNCHANGED vars
  BY <1>3, <1>4 DEF vars, serverVars, clientVars
<1>5. ASSUME NEW c \in Client, NEW r \in UNION Range(Offers), Connect(c, r) PROVE Lined'
  <2>1. /\ c \notin ToSet(backlog) /\ c # serving /\ backlog' = Append(backlog, c)
        /\ gone' = gone \ {c} /\ serving' = serving
    BY <1>5 DEF Connect, Unconnected, serverVars
  <2>2. ToSet(backlog') = ToSet(backlog) \cup {c}
    BY <1>0, <2>1, ToSetAppend
  <2>3. /\ DOMAIN backlog' = 1..Len(backlog) + 1 /\ backlog'[Len(backlog) + 1] = c
        /\ \A i \in 1..Len(backlog) : backlog'[i] = backlog[i] /\ backlog[i] # c
    <3>1. \A i \in 1..Len(backlog) : backlog[i] \in ToSet(backlog)
      BY <1>0 DEF ToSet
    <3>2. QED
      BY <1>0, <2>1, <3>1
  <2>4. \A i, j \in DOMAIN backlog' : backlog'[i] = backlog'[j] => i = j
    <3> TAKE i, j \in DOMAIN backlog'
    <3>1. (i \in 1..Len(backlog) \/ i = Len(backlog) + 1)
          /\ (j \in 1..Len(backlog) \/ j = Len(backlog) + 1)
      BY <1>0, <2>3
    <3>2. QED
      BY <1>0, <2>3, <3>1 DEF Lined
  <2>5. IsFiniteSet(gone')
    BY <2>1, FS_RemoveElement DEF Lined
  <2>6. QED
    BY <1>2, <2>1, <2>2, <2>4, <2>5 DEF Lined
<1>6. ASSUME NEW c \in Client, Leave(c) PROVE Lined'
  <2>1. UNCHANGED <<backlog, serving>> /\ gone' = gone \cup {c}
    BY <1>6 DEF Leave, serverVars
  <2>2. IsFiniteSet(gone')
    BY <2>1, FS_AddElement DEF Lined
  <2>3. ToSet(backlog') = ToSet(backlog)
    BY <2>1
  <2>4. QED
    BY <1>2, <2>1, <2>2, <2>3 DEF Lined
<1>7. CASE Accept
  <2>1. /\ backlog # <<>> /\ backlog' = Tail(backlog) /\ serving' = Head(backlog)
        /\ gone' = gone
    BY <1>7 DEF Accept
  <2>2. /\ DOMAIN backlog' = 1..Len(backlog) - 1 /\ serving' = backlog[1]
        /\ \A i \in 1..Len(backlog) - 1 : backlog'[i] = backlog[i + 1]
        /\ \A i \in 1..Len(backlog) - 1 : i + 1 \in 1..Len(backlog) /\ i + 1 # 1
        /\ 1 \in 1..Len(backlog)
    BY <1>0, <2>1
  <2>3. \A i \in DOMAIN backlog' : backlog'[i] # serving'
    BY <1>0, <2>2 DEF Lined
  <2>4. serving' \notin ToSet(backlog')
    BY <2>3 DEF ToSet
  <2>5. \A i, j \in DOMAIN backlog' : backlog'[i] = backlog'[j] => i = j
    <3> TAKE i, j \in DOMAIN backlog'
    <3>1. i + 1 = j + 1 => i = j
      BY <1>0, <2>2
    <3>2. QED
      BY <1>0, <2>2, <3>1 DEF Lined
  <2>6. QED
    BY <1>2, <2>1, <2>4, <2>5 DEF Lined
<1>8. CASE StopServing
  <2>1. backlog' = <<>> /\ gone' = gone
    BY <1>8 DEF StopServing
  <2>2. ToSet(backlog') = {} /\ DOMAIN backlog' = {}
    BY <2>1 DEF ToSet
  <2>3. QED
    BY <1>2, <2>1, <2>2 DEF Lined
<1>9. CASE \/ \E c \in Client : Send(c) \/ Read(c)
           \/ EngineFails \/ Terminate
           \/ CallTool \/ Stats \/ Scrape \/ CloseDown
  <2>1. UNCHANGED <<backlog, gone, serving>>
    BY <1>9 DEF Send, Read, EngineFails, Terminate, CallTool, Stats, Scrape,
                CloseDown, Respond, clientVars, serverVars
  <2>2. QED
    BY <1>3, <2>1
<1>10. CASE ReadHead \/ Route \/ ReadBody \/ Ping \/ Write \/ WriteRest
  <2>1. UNCHANGED <<backlog, gone>> /\ serving' \in {serving, NoClient}
    BY <1>10 DEF ReadHead, Route, ReadBody, Ping, Write, WriteRest, Finish, Raise, Respond,
                 Disconnect, clientVars
  <2>2. QED
    BY <1>3, <2>1
<1>11. QED
  BY <1>4, <1>5, <1>6, <1>7, <1>8, <1>9, <1>10 DEF Next, Server

LEMMA TotalSteps ==
  ASSUME Typed, Lined
  PROVE  /\ Total(http) \in Nat
         /\ \A s \in Statuses, p \in Paths : Record(p, s) => Total(http') = Total(http) + 1
<1>1. IsCounter(http, Keys) /\ TypeOK
  BY DEF Typed, TypeOK
<1>2. Counts(DOMAIN http, http)
  BY <1>1 DEF IsCounter, Counts, Lined
<1>3. Total(http) \in Nat
  <2>1. PICK sum : Sums(DOMAIN http, http, sum) /\ Total(http) = sum[DOMAIN http]
    BY <1>2, TotalIs
  <2>2. QED
    BY <2>1 DEF Sums
<1>4. ASSUME NEW s \in Statuses, NEW p \in Paths, Record(p, s)
      PROVE  Total(http') = Total(http) + 1
  <2> DEFINE k == <<p, s>>
  <2>1. DOMAIN http' = DOMAIN http \cup {k} /\ \A x \in DOMAIN http : x # k => http'[x] = http[x]
    BY <1>4 DEF Record, Inc, Put
  <2>2. http'[k] = (IF k \in DOMAIN http THEN http[k] ELSE 0) + 1
    BY <1>4 DEF Record, Inc, Put, Value
  <2>3. IsCounter(http', Keys) /\ IsFiniteSet(DOMAIN http')
    BY <1>1, <1>4, <2>1, RecordCounts, FS_AddElement DEF Lined
  <2>4. Counts(DOMAIN http', http')
    BY <2>3 DEF IsCounter, Counts
  <2> HIDE DEF k
  <2>5. QED
    BY <1>2, <2>1, <2>2, <2>4, TotalGrows
<1>5. QED
  BY <1>3, <1>4

Records == \E s \in Statuses, p \in Paths : Record(p, s)

\* A step takes a request up, counts it, gives it up, or leaves it where it is;
\* only the failed answer of a tool is counted with nothing due.
LEMMA DueSteps ==
  ASSUME Typed, [Next]_vars
  PROVE  \/ UNCHANGED <<http, dispatched, raised, recounted>> /\ Due' = Due
         \/ /\ UNCHANGED <<http, raised, recounted>> /\ dispatched' = dispatched + 1
            /\ Due = 0 /\ Due' = 1
         \/ UNCHANGED <<dispatched, raised, recounted>> /\ Records /\ Due = 1 /\ Due' = 0
         \/ /\ UNCHANGED <<http, dispatched, recounted>> /\ raised' = raised + 1
            /\ Due = 1 /\ Due' = 0
         \/ /\ UNCHANGED <<dispatched, raised>> /\ recounted' = recounted + 1
            /\ Records /\ Due = 0 /\ Due' = 0
            /\ pc = "write in try" /\ pc' = "write" /\ UNCHANGED <<serving, backlog, gone>>
            /\ serving \in gone
<1>0. /\ 200 \in Statuses /\ 400 \in Statuses /\ 401 \in Statuses
      /\ 404 \in Statuses /\ 500 \in Statuses /\ 503 \in Statuses
      /\ "write" \notin Busy /\ "write in try" \notin Busy
  BY DEF Statuses, Busy
<1>1. ASSUME NEW s \in Statuses, NEW step, Respond(s, step),
             pc \notin {"listen", "closing", "closed", "exited"}
      PROVE  Records
  BY <1>1, ServingTyped DEF Typed, Respond, Records
<1>2. ASSUME NEW s \in Statuses, NEW step, step \notin Busy, Respond(s, step), pc \in Busy
      PROVE  Records /\ Due = 1 /\ Due' = 0
  <2>1. pc' = step
    BY <1>2 DEF Respond, Goes
  <2>2. pc \notin {"listen", "closing", "closed", "exited"} /\ pc' \notin Busy
    BY <1>2, <2>1 DEF Busy
  <2>3. Records
    BY <1>1, <1>2, <2>2
  <2>4. QED
    BY <1>2, <2>2, <2>3 DEF Due
<1>3. CASE UNCHANGED vars
  BY <1>3 DEF vars, serverVars, metricVars, tallyVars, Due
<1>4. CASE \E c \in Client : Send(c) \/ Leave(c) \/ Read(c)
                             \/ \E r \in UNION Range(Offers) : Connect(c, r)
  BY <1>4 DEF Send, Leave, Read, Connect, serverVars, metricVars, tallyVars, Due, Busy
<1>5. CASE EngineFails \/ Terminate
  BY <1>5 DEF EngineFails, Terminate, Resumes, serverVars, metricVars, tallyVars, Due
<1>6. CASE Accept \/ StopServing \/ CloseDown
  BY <1>6 DEF Accept, StopServing, CloseDown, Goes, metricVars, tallyVars, Due, Busy
<1>7. CASE ReadHead
  <2>1. pc = "read" /\ UNCHANGED <<http, raised, recounted>>
    BY <1>7 DEF ReadHead, metricVars
  <2>2. CASE Disconnect /\ UNCHANGED dispatched
    BY <2>1, <2>2 DEF Disconnect, Goes, Due, Busy
  <2>3. CASE Goes("route") /\ dispatched' = dispatched + 1
    BY <2>1, <2>3 DEF Goes, Due, Busy
  <2>4. QED
    BY <1>7, <2>2, <2>3 DEF ReadHead
<1>8. CASE Route
  <2>1. pc = "route" /\ pc \in Busy /\ UNCHANGED <<dispatched, recounted>>
    BY <1>8 DEF Route, Busy
  <2>2. CASE (Respond(401, "write") \/ Respond(404, "write")) /\ UNCHANGED raised
    <3>1. Records /\ Due = 1 /\ Due' = 0
      BY <1>0, <1>2, <2>1, <2>2
    <3>2. QED
      BY <2>1, <2>2, <3>1
  <2>3. CASE /\ Goes(CASE req[serving].path = "health"  -> "ping"
                       [] req[serving].path = "metrics" -> "scrape"
                       [] OTHER                         -> "body")
             /\ UNCHANGED <<http, raised>>
    <3>1. pc' \in Busy
      BY <2>3 DEF Goes, Busy
    <3>2. QED
      BY <2>1, <2>3, <3>1 DEF Due
  <2>4. CASE Raise
    BY <2>1, <2>4 DEF Raise, Disconnect, Goes, Due, Busy
  <2>5. QED
    BY <1>8, <2>2, <2>3, <2>4 DEF Route
<1>9. CASE ReadBody
  <2>1. pc = "body" /\ pc \in Busy /\ UNCHANGED <<dispatched, recounted>>
    BY <1>9 DEF ReadBody, Busy
  <2>2. CASE Respond(400, "write") /\ UNCHANGED raised
    <3>1. Records /\ Due = 1 /\ Due' = 0
      BY <1>0, <1>2, <2>1, <2>2
    <3>2. QED
      BY <2>1, <2>2, <3>1
  <2>3. CASE Raise
    BY <2>1, <2>3 DEF Raise, Disconnect, Goes, Due, Busy
  <2>4. CASE Goes("tool") /\ UNCHANGED <<http, raised>>
    BY <2>1, <2>4 DEF Goes, Due, Busy
  <2>5. QED
    BY <1>9, <2>2, <2>3, <2>4 DEF ReadBody
<1>10. CASE CallTool
  <2>1. pc \in Busy /\ (Respond(500, "write") \/ Respond(200, "write in try"))
        /\ UNCHANGED <<dispatched, raised, recounted>>
    BY <1>10 DEF CallTool, Busy, tallyVars
  <2>2. Records /\ Due = 1 /\ Due' = 0
    BY <1>0, <1>2, <2>1
  <2>3. QED
    BY <2>1, <2>2
<1>11. CASE Ping
  <2>1. pc = "ping" /\ pc \in Busy /\ UNCHANGED <<dispatched, recounted>>
    BY <1>11 DEF Ping, Busy
  <2>2. CASE Respond(503, "write") /\ UNCHANGED raised
    <3>1. Records /\ Due = 1 /\ Due' = 0
      BY <1>0, <1>2, <2>1, <2>2
    <3>2. QED
      BY <2>1, <2>2, <3>1
  <2>3. CASE Goes("stats") /\ UNCHANGED <<http, raised>>
    BY <2>1, <2>3 DEF Goes, Due, Busy
  <2>4. CASE Raise
    BY <2>1, <2>4 DEF Raise, Disconnect, Goes, Due, Busy
  <2>5. QED
    BY <1>11, <2>2, <2>3, <2>4 DEF Ping
<1>12. CASE Stats \/ Scrape
  <2>1. pc \in Busy /\ Respond(200, "write") /\ UNCHANGED <<dispatched, raised, recounted>>
    BY <1>12 DEF Stats, Scrape, Busy, tallyVars
  <2>2. Records /\ Due = 1 /\ Due' = 0
    BY <1>0, <1>2, <2>1
  <2>3. QED
    BY <2>1, <2>2
<1>13. CASE Write \/ WriteRest
  <2>1. /\ pc \in {"write", "write in try", "blocked", "unblocked"}
        /\ UNCHANGED <<dispatched, raised, backlog, gone>>
    BY <1>13 DEF Write, WriteRest
  <2>2. CASE (Disconnect \/ Goes("blocked")) /\ UNCHANGED <<http, recounted>>
    BY <2>1, <2>2 DEF Disconnect, Goes, Due, Busy
  <2>3. CASE /\ pc = "write in try" /\ serving \in gone /\ Respond(500, OutOfTry)
             /\ recounted' = recounted + 1
    <3>1. Records
      <4>1. pc \notin {"listen", "closing", "closed", "exited"}
        BY <2>3
      <4>2. QED
        BY <1>0, <1>1, <2>3, <4>1
    <3>2. pc' = "write" /\ serving' = serving
      BY <2>3 DEF Respond, Goes, OutOfTry
    <3>3. QED
      BY <2>1, <2>3, <3>1, <3>2 DEF Due, Busy
  <2>4. QED
    BY <1>13, <2>2, <2>3 DEF Write, WriteRest, Finish
<1>14. QED
  BY <1>3, <1>4, <1>5, <1>6, <1>7, <1>8, <1>9, <1>10, <1>11, <1>12, <1>13
  DEF Next, Server

\* Nobody is departing who was not, unless a client leaves.
LEMMA DepartSteps ==
  ASSUME Typed, Lined, [Next]_vars
  PROVE  \/ Departing' \subseteq Departing /\ left' = left
         \/ /\ \E c \in Client : Departing' \subseteq Departing \cup {c}
            /\ left' = left + 1 /\ UNCHANGED <<http, dispatched, raised, pc>>
<1>0. /\ backlog \in Seq(Client) /\ NoClient \notin Client /\ gone \subseteq Client
      /\ (pc = "listen" => serving = NoClient)
  BY ApiAssumption DEF Typed, TypeOK
<1>1. CASE UNCHANGED vars
  BY <1>1 DEF vars, serverVars, clientVars, Departing, Unconnected
<1>2. ASSUME NEW c \in Client, NEW r \in UNION Range(Offers), Connect(c, r)
      PROVE  Departing' \subseteq Departing /\ left' = left
  <2>1. /\ backlog' = Append(backlog, c) /\ gone' = gone \ {c}
        /\ UNCHANGED <<serving, pc, left>>
    BY <1>2 DEF Connect, serverVars
  <2>2. ToSet(backlog') = ToSet(backlog) \cup {c}
    BY <1>0, <2>1, ToSetAppend
  <2>3. QED
    BY <2>1, <2>2 DEF Departing, Unconnected
<1>3. ASSUME NEW c \in Client, Leave(c)
      PROVE  /\ Departing' \subseteq Departing \cup {c} /\ left' = left + 1
             /\ UNCHANGED <<http, dispatched, raised, pc>>
  <2>1. /\ UNCHANGED <<backlog, serving, pc, http, dispatched, raised>>
        /\ gone' = gone \cup {c} /\ left' = left + 1
    BY <1>3 DEF Leave, serverVars, metricVars, tallyVars
  <2>2. ToSet(backlog') = ToSet(backlog)
    BY <2>1
  <2>3. QED
    BY <2>1, <2>2 DEF Departing, Unconnected
<1>4. CASE \/ \E c \in Client : Send(c)
           \/ EngineFails \/ Terminate
  <2>1. UNCHANGED <<backlog, gone, serving, pc, left>>
    BY <1>4 DEF Send, EngineFails, Terminate, Resumes, clientVars, serverVars
  <2>2. QED
    BY <2>1 DEF Departing, Unconnected
<1>5. CASE Accept
  <2>1. /\ backlog # <<>> /\ backlog' = Tail(backlog) /\ serving' = Head(backlog)
        /\ UNCHANGED <<gone, left>> /\ pc = "listen" /\ pc' = "read"
    BY <1>5 DEF Accept, Goes
  <2>2. ToSet(backlog) = ToSet(backlog') \cup {serving'}
    BY <1>0, <2>1, ToSetTail
  <2>3. QED
    BY <2>1, <2>2 DEF Departing, Unconnected
<1>6. CASE StopServing
  <2>1. /\ ToSet(backlog') = {} /\ UNCHANGED <<serving, gone, left>> /\ pc = "listen"
    BY <1>6 DEF StopServing, ToSet
  <2>2. QED
    BY <2>1 DEF Departing, Unconnected
<1>7. ASSUME UNCHANGED <<backlog, gone, left>>, pc # "write",
             serving' \in {serving, NoClient}
      PROVE  Departing' \subseteq Departing /\ left' = left
  <2>1. ToSet(backlog') = ToSet(backlog)
    BY <1>7
  <2>2. QED
    BY <1>0, <1>7, <2>1 DEF Departing, Unconnected
<1>11. CASE \E c \in Client : Read(c)
  BY <1>7, <1>11 DEF Read, clientVars
<1>8. CASE Route \/ CallTool \/ Ping \/ Stats \/ Scrape \/ CloseDown \/ ReadHead \/ ReadBody
  <2>1. UNCHANGED <<backlog, gone, left>> /\ serving' \in {serving, NoClient}
    BY <1>8 DEF Route, CallTool, Ping, Stats, Scrape, CloseDown, ReadHead, ReadBody, Raise,
                Respond, Disconnect, clientVars
  <2>2. pc # "write"
    BY <1>8 DEF Route, CallTool, Ping, Stats, Scrape, CloseDown, ReadHead, ReadBody
  <2>3. QED
    BY <1>7, <2>1, <2>2
<1>9. CASE Write \/ WriteRest
  <2>1. UNCHANGED <<backlog, gone, left>>
    BY <1>9 DEF Write, WriteRest
  <2>2. \/ Disconnect
        \/ pc = "write in try" /\ Respond(500, OutOfTry)
        \/ serving \notin gone /\ Goes("blocked") /\ UNCHANGED serving
    BY <1>9 DEF Write, WriteRest, Finish
  <2>3. CASE Disconnect
    <3>1. serving' = NoClient /\ ToSet(backlog') = ToSet(backlog)
      BY <2>1, <2>3 DEF Disconnect
    <3>2. serving \notin ToSet(backlog)
      BY DEF Lined
    <3>3. QED
      BY <1>0, <2>1, <3>1, <3>2 DEF Departing, Unconnected
  <2>4. CASE pc = "write in try" /\ Respond(500, OutOfTry)
    BY <1>7, <2>1, <2>4 DEF Respond
  <2>5. CASE serving \notin gone /\ Goes("blocked") /\ UNCHANGED serving
    <3>1. ToSet(backlog') = ToSet(backlog)
      BY <2>1
    <3>2. QED
      BY <2>1, <2>5, <3>1 DEF Departing, Unconnected
  <2>6. QED
    BY <2>2, <2>3, <2>4, <2>5
<1>10. QED
  BY <1>1, <1>2, <1>3, <1>4, <1>5, <1>6, <1>8, <1>9, <1>11 DEF Next, Server

LEMMA TalliedStep ==
  ASSUME Typed, Lined, Tallied, [Next]_vars
  PROVE  Tallied'
<1> DEFINE n == Cardinality(Departing)
           m == Cardinality(Departing')
<1>1. IsFiniteSet(Departing) /\ n \in Nat
  BY FS_Subset, FS_CardinalityType DEF Lined, Departing
<1>2. /\ Total(http) \in Nat /\ dispatched \in Nat /\ raised \in Nat /\ left \in Nat
      /\ recounted \in Nat /\ Due \in {0, 1} /\ Due' \in {0, 1}
  BY TotalSteps DEF Typed, TypeOK, Due
<1>3. Records => Total(http') = Total(http) + 1
  BY TotalSteps DEF Records
<1>4. UNCHANGED http => Total(http') = Total(http)
  BY DEF Total
<1>5. /\ m \in Nat
      /\ \/ m <= n /\ left' = left
         \/ m <= n + 1 /\ left' = left + 1
  <2>1. CASE Departing' \subseteq Departing /\ left' = left
    <3>1. m \in Nat /\ m <= n
      BY <1>1, <2>1, FS_Subset, FS_CardinalityType
    <3> HIDE DEF n, m
    <3>2. QED
      BY <2>1, <3>1
  <2>2. ASSUME NEW c \in Client, Departing' \subseteq Departing \cup {c}, left' = left + 1
        PROVE  m \in Nat /\ m <= n + 1 /\ left' = left + 1
    <3>1. IsFiniteSet(Departing \cup {c}) /\ Cardinality(Departing \cup {c}) <= n + 1
          /\ Cardinality(Departing \cup {c}) \in Nat
      BY <1>1, FS_AddElement, FS_CardinalityType
    <3>2. m \in Nat /\ m <= Cardinality(Departing \cup {c})
      BY <2>2, <3>1, FS_Subset, FS_CardinalityType
    <3> HIDE DEF n, m
    <3>3. QED
      BY <1>1, <2>2, <3>1, <3>2
  <2>3. QED
    BY <2>1, <2>2, DepartSteps
<1>6. ASSUME pc = "write in try", pc' = "write", UNCHANGED <<serving, backlog, gone>>,
             serving \in gone
      PROVE  m = n - 1 /\ left' = left
  <2>1. serving \in Departing
    BY <1>6 DEF Departing, Unconnected
  <2>2. Departing' = Departing \ {serving}
    BY <1>6 DEF Departing, Unconnected
  <2>3. m = n - 1
    BY <1>1, <2>1, <2>2, FS_RemoveElement
  <2>4. pc' # pc
    BY <1>6
  <2>5. QED
    BY <2>3, <2>4, DepartSteps
<1>7. /\ Total(http) + Due = dispatched - raised + recounted
      /\ recounted + n <= left
  BY DEF Tallied
<1> HIDE DEF n, m
<1>8. /\ Total(http') + Due' = dispatched' - raised' + recounted'
      /\ recounted' + m <= left'
  <2>1. CASE UNCHANGED <<http, dispatched, raised, recounted>> /\ Due' = Due
    BY <1>1, <1>2, <1>4, <1>5, <1>7, <2>1
  <2>2. CASE /\ UNCHANGED <<http, raised, recounted>> /\ dispatched' = dispatched + 1
             /\ Due = 0 /\ Due' = 1
    BY <1>1, <1>2, <1>4, <1>5, <1>7, <2>2
  <2>3. CASE UNCHANGED <<dispatched, raised, recounted>> /\ Records /\ Due = 1 /\ Due' = 0
    BY <1>1, <1>2, <1>3, <1>5, <1>7, <2>3
  <2>4. CASE /\ UNCHANGED <<http, dispatched, recounted>> /\ raised' = raised + 1
             /\ Due = 1 /\ Due' = 0
    BY <1>1, <1>2, <1>4, <1>5, <1>7, <2>4
  <2>5. CASE /\ UNCHANGED <<dispatched, raised>> /\ recounted' = recounted + 1
             /\ Records /\ Due = 0 /\ Due' = 0
             /\ pc = "write in try" /\ pc' = "write" /\ UNCHANGED <<serving, backlog, gone>>
             /\ serving \in gone
    <3>1. m = n - 1 /\ left' = left
      BY <1>6, <2>5
    <3>2. Total(http') = Total(http) + 1
      BY <1>3, <2>5
    <3>3. /\ dispatched' = dispatched /\ raised' = raised /\ recounted' = recounted + 1
          /\ Due = 0 /\ Due' = 0
      BY <2>5
    <3>4. QED
      BY <1>1, <1>2, <1>7, <3>1, <3>2, <3>3
  <2>6. QED
    BY <2>1, <2>2, <2>3, <2>4, <2>5, DueSteps
<1>9. QED
  BY <1>8 DEF Tallied, m

\* A sum of zeros.
LEMMA ZeroSum ==
  ASSUME NEW D, IsFiniteSet(D), NEW f, NEW sum, Sums(D, f, sum), \A x \in D : f[x] = 0
  PROVE  sum[D] = 0
<1> DEFINE g == [x \in D |-> 0]
           zero == [s \in SUBSET D |-> 0]
<1>1. Sums(D, g, zero)
  BY DEF Sums
<1>2. zero[D] = 0 /\ D \subseteq D /\ \A x \in D : f[x] = g[x]
  OBVIOUS
<1> HIDE DEF g, zero
<1>3. sum[D] = zero[D]
  BY <1>1, <1>2, SumsAgree
<1>4. QED
  BY <1>2, <1>3

\* Nothing has been observed or counted at first.
LEMMA PagesStart ==
  ASSUME Init
  PROVE  PageFits /\ Lined /\ Tallied
<1>0. Buckets \in Nat /\ NoClient \notin Client
  BY MetricsAssumption, ApiAssumption
<1>1. /\ http = NoSeries /\ latency = NoSeries /\ gone = {} /\ backlog = <<>>
      /\ serving = NoClient /\ dispatched = 0 /\ raised = 0 /\ left = 0
      /\ recounted = 0
      /\ pc \in {"listen", "exited"}
  BY DEF Init
<1>2. ASSUME NEW f, IsFiniteSet(DOMAIN f), \A x \in DOMAIN f : f[x] = 0
      PROVE  Total(f) = 0
  <2>1. Counts(DOMAIN f, f)
    BY <1>2 DEF Counts
  <2>2. PICK sum : Sums(DOMAIN f, f, sum) /\ Total(f) = sum[DOMAIN f]
    BY <2>1, TotalIs
  <2>3. QED
    BY <1>2, <2>2, ZeroSum
<1>3. PageFits
  <2> DEFINE zeros == [b \in 1..Buckets |-> 0]
  <2>1. \A p \in Paths : Observations(latency, p) = [counts |-> zeros, count |-> 0]
    BY <1>1 DEF Observations, NoSeries, Unobserved
  <2>2. zeros \in [1..Buckets -> Nat]
    OBVIOUS
  <2>3. \A b \in 1..Buckets : zeros[b] = 0
    OBVIOUS
  <2> HIDE DEF zeros
  <2>4. Cumulative(zeros, Buckets) = 0
    <3>1. Buckets \in 0..Buckets /\ IsFiniteSet(1..Buckets)
      BY <1>0, FS_Interval
    <3>2. PICK sum : Sums(1..Buckets, zeros, sum)
                     /\ Cumulative(zeros, Buckets) = sum[1..Buckets]
      BY <2>2, <3>1, CumulativeIs
    <3>3. QED
      BY <2>3, <3>1, <3>2, ZeroSum
  <2>5. ASSUME NEW p \in Paths PROVE Total(ByStatus(p)) = 0
    <3> DEFINE f == ByStatus(p)
    <3>1. DOMAIN f = Statuses /\ \A s \in Statuses : f[s] = 0
      BY <1>1 DEF ByStatus, Value, NoSeries
    <3> HIDE DEF f
    <3>2. Total(f) = 0
      BY <1>2, <3>1, StatusesFinite
    <3>3. QED
      BY <3>2 DEF f
  <2>6. \A p \in Paths : Fits([counts |-> zeros, count |-> 0], Total(ByStatus(p)))
    BY <2>2, <2>4, <2>5 DEF Fits
  <2>7. QED
    BY <2>1, <2>6 DEF PageFits
<1>4. DOMAIN http = {} /\ IsFiniteSet({}) /\ Cardinality({}) = 0
  BY <1>1, FS_EmptySet DEF NoSeries
<1>5. Lined
  <2>1. ToSet(backlog) = {} /\ DOMAIN backlog = {}
    BY <1>1 DEF ToSet
  <2>2. QED
    BY <1>1, <1>4, <2>1 DEF Lined
<1>6. Tallied
  <2>1. Total(http) = 0
    BY <1>2, <1>4
  <2>2. Due = 0 /\ Departing = {}
    BY <1>1 DEF Due, Busy, Departing
  <2>3. QED
    BY <1>1, <1>4, <2>1, <2>2 DEF Tallied
<1>7. QED
  BY <1>3, <1>5, <1>6

----------------------------------------------------------------------------
LEMMA ApiStarts ==
  Init => /\ Typed /\ OkMeansRan /\ LaunchesCoverReports
          /\ EndsByStop /\ ClosedClean /\ StayersAreAnswered
          /\ PageFits /\ Lined /\ Tallied
<1> SUFFICES ASSUME Init
             PROVE  /\ Typed /\ OkMeansRan /\ LaunchesCoverReports
                    /\ EndsByStop /\ ClosedClean /\ StayersAreAnswered
                    /\ PageFits /\ Lined /\ Tallied
  OBVIOUS
<1>1. Typed
  BY TypedInit
<1>2. http = NoSeries /\ toolCalls = NoSeries /\ solutions = NoSeries /\ launches = 0
      /\ engine = "cold" /\ pc \notin {"closing", "closed"}
      /\ \A c \in Client : sent[c] = "nothing"
  BY DEF Init
<1>3. \A l : Value(NoSeries, l) = 0
  BY DEF Value, NoSeries
<1>4. OkMeansRan
  BY <1>2, <1>3, ApiAssumption DEF OkMeansRan
<1>5. LaunchesCoverReports
  BY <1>2, <1>3 DEF LaunchesCoverReports
<1>6. QED
  BY <1>1, <1>2, <1>4, <1>5, PagesStart DEF EndsByStop, ClosedClean, StayersAreAnswered

LEMMA ApiInvariant ==
  Spec => [](/\ Typed /\ OkMeansRan /\ LaunchesCoverReports
             /\ EndsByStop /\ ClosedClean /\ StayersAreAnswered
             /\ PageFits /\ Lined /\ Tallied)
<1> DEFINE I == /\ Typed /\ OkMeansRan /\ LaunchesCoverReports
                /\ EndsByStop /\ ClosedClean /\ StayersAreAnswered
                /\ PageFits /\ Lined /\ Tallied
<1>1. Init => I
  BY ApiStarts
<1>2. I /\ [Next]_vars => I'
  BY TypedStep, OkStep, ReportsStep, ClosingStep, StayersStep, PageStep, LinedStep, TalliedStep
<1>3. QED
  BY <1>1, <1>2, PTL DEF Spec

\* The server's state keeps its types; a connection is being served exactly
\* between Accept and the end of its handler.
THEOREM ApiTyped == Spec => []TypeOK
<1>1. Typed => TypeOK
  BY DEF Typed
<1>2. QED
  BY <1>1, ApiInvariant, PTL

\* Whatever the requests and whoever leaves, a tool is counted by _count_call
\* exactly once for each answer 200 that _record_http counts on its path.
THEOREM ApiCountersAgree == Spec => []OkMeansRan
BY ApiInvariant, PTL

\* _handle_health answers 503 no more often than an engine was launched: a
\* failure, once reported, is not reported again unless another launch is tried.
THEOREM ApiReportsOnce == Spec => []FailureReportedOnce
<1>1. Typed /\ LaunchesCoverReports => FailureReportedOnce
  <2> SUFFICES ASSUME Typed, LaunchesCoverReports PROVE FailureReportedOnce
    OBVIOUS
  <2>1. Value(http, <<"health", 503>>) \in Nat /\ launches \in Nat
    BY ValueIsNat DEF Typed, TypeOK
  <2>2. QED
    BY <2>1 DEF LaunchesCoverReports, FailureReportedOnce
<1>2. QED
  BY <1>1, ApiInvariant, PTL

\* The end of main(), reached only after a signal, leaves no engine and no
\* request behind.
THEOREM ApiClosesClean == Spec => []ClosedClean
BY ApiInvariant, PTL

\* A client that stays is answered: no failure of an engine, no other client and
\* no signal makes a handler end its connection without an answer; only its own
\* request can, where _authenticated or _read_body raises on it, or where it is a
\* probe and resolve_backend raises.
THEOREM ApiAnswers == Spec => []StayersAreAnswered
BY ApiInvariant, PTL

\* Whoever leaves while being answered, between two connections _record_http has
\* counted each request dispatched to a handler exactly once, except those whose
\* handling raised, which it has not counted, and those whose tool's answer failed
\* at its headers, which it has counted twice: no more than clients that left.
THEOREM ApiCountsOnce == Spec => []CountedOnce
<1>1. Typed /\ Lined /\ Tallied => CountedOnce
  <2> SUFFICES ASSUME Typed, Lined, Tallied PROVE CountedOnce
    OBVIOUS
  <2>1. pc = "listen" => Due = 0
    BY DEF Due, Busy
  <2>2. Cardinality(Departing) \in Nat
    BY FS_Subset, FS_CardinalityType DEF Lined, Departing
  <2>3. /\ Total(http) \in Nat /\ dispatched \in Nat /\ raised \in Nat
        /\ recounted \in Nat /\ left \in Nat
    BY TotalSteps DEF Typed, TypeOK
  <2>4. QED
    BY <2>1, <2>2, <2>3 DEF Tallied, CountedOnce
<1>2. QED
  BY <1>1, ApiInvariant, PTL

\* Whenever _handle_metrics renders a page, the buckets of each path rise to the
\* number of its requests, whatever their status and however long they took.
THEOREM ApiPagesAddUp == Spec => []PageAddsUp
<1>1. PageFits => PageAddsUp
  <2> SUFFICES ASSUME PageFits, NEW p \in Paths
               PROVE  LET page == Rendered(Observations(latency, p))
                      IN  /\ \A b \in 1..Buckets : page[b] <= page[b + 1]
                          /\ page[Buckets + 1] = Total(ByStatus(p))
    BY DEF PageAddsUp, ByStatus
  <2>1. PICK o : o = Observations(latency, p)
    OBVIOUS
  <2>2. Fits(o, Total(ByStatus(p)))
    BY <2>1 DEF PageFits
  <2>3. PICK counts \in [1..Buckets -> Nat] : counts = o.counts
    BY <2>2 DEF Fits
  <2> DEFINE page == Rendered(o)
  <2>4. Buckets \in Nat \ {0}
    BY MetricsAssumption
  <2>5. /\ \A b \in 1..Buckets : page[b] = Cumulative(counts, b)
        /\ page[Buckets + 1] = o.count
    BY <2>3, <2>4 DEF Rendered
  <2> HIDE DEF page
  <2>6. ASSUME NEW b \in 1..Buckets PROVE page[b] <= page[b + 1]
    <3>1. CASE b = Buckets
      BY <2>2, <2>3, <2>5, <3>1 DEF Fits
    <3>2. CASE b < Buckets
      <4>1. b + 1 \in 1..Buckets /\ b + 1 \in 0..Buckets /\ b + 1 > 0 /\ (b + 1) - 1 = b
            /\ b \in 0..Buckets
        BY <2>4, <3>2
      <4>2. Cumulative(counts, b + 1) = Cumulative(counts, b) + counts[b + 1]
            /\ Cumulative(counts, b) \in Nat
        BY <4>1, CumulativeSteps
      <4>3. counts[b + 1] \in Nat
        BY <4>1
      <4>4. QED
        BY <2>5, <4>1, <4>2, <4>3
    <3>3. QED
      BY <2>4, <3>1, <3>2
  <2>7. QED
    BY <2>1, <2>2, <2>5, <2>6 DEF page, Fits
<1>2. QED
  BY <1>1, ApiInvariant, PTL
============================================================================
