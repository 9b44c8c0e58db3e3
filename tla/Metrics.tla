------------------------------ MODULE Metrics ------------------------------
(***************************************************************************)
(* euclid_mcp/metrics.py.  A family maps the label values of its series to *)
(* a number, or to the observations of a histogram.                        *)
(***************************************************************************)
EXTENDS Integers, Sequences, SequencesExt

CONSTANT Buckets   \* upper bounds of a histogram: 1..Buckets

ASSUME MetricsAssumption == Buckets \in Nat \ {0}

----------------------------------------------------------------------------
NoSeries == [l \in {} |-> 0]

\* A family with the series of l set to v.
Put(family, l, v) == [k \in DOMAIN family \cup {l} |-> IF k = l THEN v ELSE family[k]]

IsCounter(c, Labels) == DOMAIN c \subseteq Labels /\ \A l \in DOMAIN c : c[l] \in Nat

\* Counter.value and Counter.inc.
Value(c, l) == IF l \in DOMAIN c THEN c[l] ELSE 0

Inc(c, l, amount) == Put(c, l, Value(c, l) + amount)

----------------------------------------------------------------------------
Unobserved == [counts |-> [b \in 1..Buckets |-> 0], count |-> 0]

Observations(h, l) == IF l \in DOMAIN h THEN h[l] ELSE Unobserved

\* Defect: a value counts in every bucket it does not exceed.
ObserveInEveryBucket(h, l, value) ==
  LET o == Observations(h, l)
  IN  Put(h, l, [counts |-> [b \in 1..Buckets |->
                               o.counts[b] + (IF value <= b THEN 1 ELSE 0)],
                 count  |-> o.count + 1])

\* Histogram.observe: a value counts in the first bucket it does not exceed, if
\* there is one.
Observe(h, l, value) ==
  LET o == Observations(h, l)
  IN  Put(h, l, [counts |-> [b \in 1..Buckets |->
                               o.counts[b] + (IF value = b THEN 1 ELSE 0)],
                 count  |-> o.count + 1])

\* Histogram.render: a running total per bucket, then +Inf.
Cumulative(counts, b) == FoldLeft(+, 0, SubSeq(counts, 1, b))

Rendered(o) ==
  [b \in 1..Buckets + 1 |-> IF b <= Buckets THEN Cumulative(o.counts, b) ELSE o.count]
============================================================================
