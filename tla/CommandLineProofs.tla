-------------------------- MODULE CommandLineProofs --------------------------
(***************************************************************************)
(* The command line and the shell, for any lines typed, files and options. *)
(* What the shell promises of later input rests on what reading one more   *)
(* line does to the statements read before it (ReadAppend, ReadLineAdds);  *)
(* Read is a fold, whose values the first section finds by induction.  The *)
(* last sections compare it with the documented grammar.                   *)
(***************************************************************************)
EXTENDS CommandLine, FiniteSetTheorems, SequenceTheorems, WellFoundedInduction, TLAPS

----------------------------------------------------------------------------
(* Induction, and the values of a fold over lines.                         *)

LEMMA NatMin ==
  ASSUME NEW T \in SUBSET Nat, T # {}
  PROVE  \E x \in T : \A y \in T : x <= y
<1> DEFINE R == OpToRel(<, Nat)
<1>1. IsWellFoundedOn(R, Nat)
  BY NatLessThanWellFounded
<1>2. \A x, y \in Nat : x < y => <<x, y>> \in R
  BY DEF OpToRel
<1> HIDE DEF R
<1>3. PICK x \in T : \A y \in T : ~(<<y, x>> \in R)
  BY <1>1, WFMin
<1>4. \A y \in T : ~(y < x)
  BY <1>2, <1>3
<1>5. QED
  BY <1>3, <1>4

LEMMA NatInd ==
  ASSUME NEW S, 0 \in S, \A n \in Nat : n \in S => n + 1 \in S
  PROVE  \A n \in Nat : n \in S
<1> SUFFICES ASSUME NEW m \in Nat, m \notin S PROVE FALSE
  OBVIOUS
<1>1. PICK x \in Nat \ S : \A y \in Nat \ S : x <= y
  BY NatMin
<1>2. x - 1 \in Nat /\ x - 1 \in S
  BY <1>1
<1>3. QED
  BY <1>1, <1>2

LEMMA MaxIsIn ==
  ASSUME NEW n \in Nat, NEW u \in SUBSET (1..n), u # {}
  PROVE  Max(u) \in u /\ \A x \in u : x <= Max(u)
<1> DEFINE T == {n - x : x \in u}
<1>1. T \in SUBSET Nat /\ T # {}
  <2>1. \A x \in u : n - x \in Nat
    OBVIOUS
  <2>2. QED
    BY <2>1
<1>2. PICK d \in T : \A y \in T : d <= y
  BY <1>1, NatMin
<1>3. PICK m \in u : d = n - m
  BY <1>2
<1>4. \A x \in u : m >= x
  <2> TAKE x \in u
  <2>1. n - m <= n - x
    BY <1>2, <1>3
  <2>2. QED
    BY <2>1
<1>5. QED
  BY <1>4 DEF Max

LEMMA MaxIs ==
  ASSUME NEW n \in Nat, NEW u \in SUBSET (1..n), NEW m \in u, \A x \in u : x <= m
  PROVE  Max(u) = m
<1>1. Max(u) \in u /\ m <= Max(u)
  BY MaxIsIn
<1>2. \A x, y \in 1..n : x <= y /\ y <= x => x = y
  OBVIOUS
<1>3. Max(u) <= m /\ Max(u) \in 1..n /\ m \in 1..n
  BY <1>1
<1>4. QED
  BY <1>1, <1>2, <1>3

\* Read, on the sets of line numbers it recurs over.
Reads(text, u, f) ==
  IF u = {} THEN Nothing ELSE ReadLine(f[u \ {Max(u)}], text[Max(u)])

LEMMA ReadsExists ==
  ASSUME NEW text
  PROVE  \A n \in Nat : \E f : f = [u \in SUBSET (1..n) |-> Reads(text, u, f)]
<1> DEFINE Upto == {n \in Nat : \E f : f = [u \in SUBSET (1..n) |-> Reads(text, u, f)]}
<1>1. 0 \in Upto
  <2> DEFINE f == [u \in SUBSET (1..0) |-> Nothing]
  <2>1. f = [u \in SUBSET (1..0) |-> Reads(text, u, f)]
    BY DEF Reads
  <2>2. QED
    BY <2>1
<1>2. ASSUME NEW n \in Nat, n \in Upto PROVE n + 1 \in Upto
  <2>1. PICK f : f = [u \in SUBSET (1..n) |-> Reads(text, u, f)]
    BY <1>2
  <2> DEFINE g == [u \in SUBSET (1..(n + 1)) |->
                     IF n + 1 \in u THEN ReadLine(f[u \ {n + 1}], text[n + 1]) ELSE f[u]]
  <2>2. \A u \in SUBSET (1..n) : g[u] = f[u]
    OBVIOUS
  <2>3. ASSUME NEW u \in SUBSET (1..(n + 1)) PROVE g[u] = Reads(text, u, g)
    <3>1. CASE n + 1 \in u
      <4>1. Max(u) = n + 1
        BY <3>1, MaxIs
      <4>2. u \ {n + 1} \in SUBSET (1..n)
        OBVIOUS
      <4>3. g[u \ {n + 1}] = f[u \ {n + 1}]
        BY <2>2, <4>2
      <4>4. g[u] = ReadLine(f[u \ {n + 1}], text[n + 1])
        BY <3>1
      <4> HIDE DEF g
      <4>5. QED
        BY <3>1, <4>1, <4>3, <4>4 DEF Reads
    <3>2. CASE n + 1 \notin u
      <4>1. u \in SUBSET (1..n) /\ u \ {Max(u)} \in SUBSET (1..n)
        <5>1. \A i \in u : i \in 1..n
          BY <3>2
        <5>2. QED
          BY <5>1
      <4>2. f[u] = Reads(text, u, f)
        BY <2>1, <4>1
      <4>3. g[u] = f[u] /\ g[u \ {Max(u)}] = f[u \ {Max(u)}]
        BY <2>2, <4>1
      <4> HIDE DEF g
      <4>4. QED
        BY <4>2, <4>3 DEF Reads
    <3>3. QED
      BY <3>1, <3>2
  <2>4. g = [u \in SUBSET (1..(n + 1)) |-> Reads(text, u, g)]
    <3>1. \A u \in SUBSET (1..(n + 1)) : g[u] = Reads(text, u, g)
      BY <2>3
    <3>2. DOMAIN g = SUBSET (1..(n + 1)) /\ g = [u \in DOMAIN g |-> g[u]]
      OBVIOUS
    <3> HIDE DEF g
    <3>3. QED
      BY <3>1, <3>2
  <2>5. \E f1 : f1 = [u \in SUBSET (1..(n + 1)) |-> Reads(text, u, f1)]
    <3> HIDE DEF g
    <3> QED BY <2>4
  <2>6. QED
    BY <2>5
<1>3. QED
  <2> HIDE DEF Upto
  <2>1. \A n \in Nat : n \in Upto
    BY <1>1, <1>2, NatInd
  <2>2. QED
    BY <2>1 DEF Upto

\* Read takes a text line by line.
LEMMA ReadSteps ==
  ASSUME NEW S, NEW text \in Seq(S)
  PROVE  \E p : /\ p[0] = Nothing /\ p[Len(text)] = Read(text)
                /\ \A i \in 1..Len(text) : p[i] = ReadLine(p[i - 1], text[i])
<1>0. DOMAIN text = 1..Len(text) /\ Len(text) \in Nat
  OBVIOUS
<1>1. PICK f : f = [u \in SUBSET DOMAIN text |-> Reads(text, u, f)]
  <2>1. \E f : f = [u \in SUBSET (1..Len(text)) |-> Reads(text, u, f)]
    BY <1>0, ReadsExists
  <2>2. QED
    BY <1>0, <2>1
<1>2. \E g : /\ g = [u \in SUBSET DOMAIN text |->
                       IF u = {} THEN Nothing ELSE ReadLine(g[u \ {Max(u)}], text[Max(u)])]
             /\ g[DOMAIN text] = Read(text)
  <2>1. f = [u \in SUBSET DOMAIN text |->
               IF u = {} THEN Nothing ELSE ReadLine(f[u \ {Max(u)}], text[Max(u)])]
    BY <1>1 DEF Reads
  <2>2. QED
    BY <2>1 DEF Read, FoldLeft, MapThenFoldSet
<1>3. PICK g : /\ g = [u \in SUBSET DOMAIN text |->
                         IF u = {} THEN Nothing ELSE ReadLine(g[u \ {Max(u)}], text[Max(u)])]
               /\ g[DOMAIN text] = Read(text)
  BY <1>2
<1> DEFINE p == [i \in 0..Len(text) |-> g[1..i]]
<1>5. p[0] = Nothing /\ p[Len(text)] = Read(text)
  <2>1. 1..0 = {} /\ {} \in SUBSET DOMAIN text
    OBVIOUS
  <2>2. g[{}] = Nothing
    BY <1>3, <2>1
  <2>3. QED
    BY <1>0, <1>3, <2>1, <2>2
<1>6. ASSUME NEW i \in 1..Len(text) PROVE p[i] = ReadLine(p[i - 1], text[i])
  <2>1. i \in Nat /\ i \in 1..i /\ (1..i) \in SUBSET DOMAIN text
    BY <1>0
  <2>2. Max(1..i) = i
    <3>1. \A x \in 1..i : x <= i
      OBVIOUS
    <3>2. QED
      BY <2>1, <3>1, MaxIs
  <2>3. (1..i) \ {i} = 1..(i - 1)
    OBVIOUS
  <2>4. g[1..i] = ReadLine(g[1..(i - 1)], text[i])
    BY <1>3, <2>1, <2>2, <2>3
  <2>5. i \in 0..Len(text) /\ i - 1 \in 0..Len(text)
    OBVIOUS
  <2>6. QED
    BY <2>4, <2>5
<1>7. QED
  <2> HIDE DEF p
  <2> QED BY <1>5, <1>6

LEMMA ReadEmpty == Read(<<>>) = Nothing
<1>1. <<>> \in Seq({}) /\ Len(<<>>) = 0
  OBVIOUS
<1>2. QED
  BY <1>1, ReadSteps

LEMMA ReadAppend ==
  ASSUME NEW S, NEW text \in Seq(S), NEW line \in S
  PROVE  Read(Append(text, line)) = ReadLine(Read(text), line)
<1> DEFINE longer == Append(text, line)
           n == Len(text)
<1>1. longer \in Seq(S) /\ Len(longer) = n + 1 /\ n \in Nat
      /\ longer[n + 1] = line /\ \A i \in 1..n : longer[i] = text[i]
  OBVIOUS
<1> HIDE DEF longer
<1>2. PICK p : /\ p[0] = Nothing /\ p[n] = Read(text)
               /\ \A i \in 1..n : p[i] = ReadLine(p[i - 1], text[i])
  BY ReadSteps
<1>3. PICK q : /\ q[0] = Nothing /\ q[n + 1] = Read(longer)
               /\ \A i \in 1..(n + 1) : q[i] = ReadLine(q[i - 1], longer[i])
  BY <1>1, ReadSteps
<1> DEFINE Same == {k \in Nat : k <= n => p[k] = q[k]}
<1>4. 0 \in Same
  BY <1>2, <1>3
<1>5. ASSUME NEW k \in Nat, k \in Same PROVE k + 1 \in Same
  <2> SUFFICES ASSUME k + 1 <= n PROVE p[k + 1] = q[k + 1]
    OBVIOUS
  <2>1. k + 1 \in 1..n /\ k + 1 \in 1..(n + 1) /\ (k + 1) - 1 = k /\ p[k] = q[k]
    BY <1>1, <1>5
  <2>2. p[k + 1] = ReadLine(p[k], text[k + 1]) /\ q[k + 1] = ReadLine(q[k], longer[k + 1])
    BY <1>2, <1>3, <2>1
  <2>3. QED
    BY <1>1, <2>1, <2>2
<1>6. n \in Same
  <2> HIDE DEF Same
  <2> QED BY <1>1, <1>4, <1>5, NatInd
<1>7. q[n + 1] = ReadLine(q[n], line)
  <2>1. n + 1 \in 1..(n + 1) /\ (n + 1) - 1 = n
    BY <1>1
  <2>2. QED
    BY <1>1, <1>3, <2>1
<1>8. QED
  BY <1>1, <1>2, <1>3, <1>6, <1>7 DEF longer

----------------------------------------------------------------------------
(* What a flush does to the session KB.                                    *)

Texts == Seq(Line)

IsSession(s) == s = [lines |-> s.lines, rejected |-> s.rejected]

LEMMA EmptyChecks == Accepts(<<>>)
<1>1. Parse(<<>>) = Nothing
  <2>1. Nothing.open = <<>>
    BY DEF Nothing
  <2>2. QED
    BY <2>1, ReadEmpty DEF Parse, Close
<1>2. Parseable(Nothing)
  BY DEF Parseable, Nothing
<1>3. ~ParseRaises(<<>>)
  BY <1>1 DEF ParseRaises, Nothing, ToSet
<1>4. QED
  BY <1>1, <1>2, <1>3 DEF Accepts, Valid

LEMMA FlushShape ==
  ASSUME NEW s, IsSession(s), NEW held
  PROVE  /\ IsSession(Flush(s, held))
         /\ Accepts(s.lines \o held) =>
              /\ Flush(s, held).lines = s.lines \o held
              /\ Flush(s, held).rejected = s.rejected
         /\ ~Accepts(s.lines \o held) =>
              /\ Flush(s, held).lines = s.lines
              /\ Flush(s, held).rejected = s.rejected \o held
BY DEF Flush, IsSession

\* The session KB s.lines, after a flush, over the one of the state.
Grown(s) ==
  /\ IsSession(s) /\ s.rejected \in Texts
  /\ \E added \in Texts : s.lines = lines \o added
  /\ Accepts(lines) => Accepts(s.lines)

LEMMA FlushGrows ==
  ASSUME lines \in Texts, NEW s, Grown(s), NEW held \in Texts
  PROVE  Grown(Flush(s, held))
<1>1. PICK added \in Texts : s.lines = lines \o added
  BY DEF Grown
<1>2. (lines \o added) \o held = lines \o (added \o held) /\ added \o held \in Texts
  BY DEF Texts
<1>3. s.rejected \o held \in Texts
  BY DEF Grown, Texts
<1>4. CASE Accepts(s.lines \o held)
  <2>1. IsSession(Flush(s, held)) /\ Flush(s, held).lines = s.lines \o held
        /\ Flush(s, held).rejected = s.rejected
    BY <1>4, FlushShape DEF Grown
  <2>2. Flush(s, held).lines = lines \o (added \o held)
    BY <1>1, <1>2, <2>1
  <2>3. QED
    BY <1>2, <1>4, <2>1, <2>2 DEF Grown
<1>5. CASE ~Accepts(s.lines \o held)
  <2>1. IsSession(Flush(s, held)) /\ Flush(s, held).lines = s.lines
        /\ Flush(s, held).rejected = s.rejected \o held
    BY <1>5, FlushShape DEF Grown
  <2>2. QED
    BY <1>3, <2>1 DEF Grown
<1>6. QED
  BY <1>4, <1>5

LEMMA SessionGrown ==
  ASSUME lines \in Texts, rejected \in Texts
  PROVE  Grown(Session)
<1>1. lines = lines \o <<>> /\ <<>> \in Texts
  BY DEF Texts
<1>2. QED
  BY <1>1 DEF Grown, Session, IsSession

LEMMA PendingGrows ==
  ASSUME lines \in Texts, rejected \in Texts, pending \in Texts
  PROVE  Grown(FlushPending)
BY SessionGrown, FlushGrows DEF FlushPending

InputAdds ==
  /\ TypeOK' /\ (SessionChecks => SessionChecks')
  /\ \E added \in Texts : lines' = lines \o added

\* The types of what is not the session KB.
RestTyped ==
  /\ pending' \in Texts /\ typed' \in Texts
  /\ pending' # <<>> => IsRule(pending'[1]) \/ Starts(pending'[1], "and")
  /\ lastQuery' \in Queries \cup {<<>>} /\ inputs' \in 0..MaxInputs
  /\ running' \in BOOLEAN /\ cut' \in BOOLEAN /\ spoilt' \in BOOLEAN

LEMMA BecomeAdds ==
  ASSUME TypeOK, NEW s, Grown(s), Become(s), RestTyped, UNCHANGED spoilt
  PROVE  InputAdds
<1>1. PICK added \in Texts : s.lines = lines \o added
  BY DEF Grown
<1>2. lines \in Texts /\ lines' = lines \o added /\ rejected' \in Texts
  BY <1>1 DEF Become, Grown, TypeOK, Texts
<1>3. lines' \in Texts
  BY <1>2 DEF Texts
<1>4. SessionChecks => SessionChecks'
  BY DEF SessionChecks, Become, Grown
<1>5. TypeOK'
  BY <1>2, <1>3 DEF TypeOK, RestTyped, Texts
<1>6. QED
  BY <1>2, <1>4, <1>5 DEF InputAdds

\* Whatever is entered, short of a reset, adds to the session KB.
LEMMA InputGrows ==
  ASSUME TypeOK, Edit \/ Quit \/ (\E q \in Queries : Query(q))
  PROVE  InputAdds
<1>0. /\ lines \in Texts /\ pending \in Texts /\ typed \in Texts /\ rejected \in Texts
      /\ running \in BOOLEAN /\ cut \in BOOLEAN /\ spoilt \in BOOLEAN
      /\ inputs \in 0..MaxInputs /\ lastQuery \in Queries \cup {<<>>}
  BY DEF TypeOK, Texts
<1>1. Grown(FlushPending) /\ Grown(Session)
  BY <1>0, PendingGrows, SessionGrown
<1>2. Enter => inputs' \in 0..MaxInputs
  BY <1>0, ReplAssumption DEF Enter
<1>3. ASSUME NEW l \in TypedLines, HoldMore(l)
      PROVE  InputAdds
  <2>1. Become(Session) /\ UNCHANGED spoilt
    BY <1>3 DEF HoldMore, Become, Session
  <2>2. l \in Line /\ pending' = Append(pending, l) /\ typed' = Append(typed, l)
    BY <1>3, ReplAssumption DEF HoldMore
  <2>3. pending = <<>> => Starts(l, "and")
    BY <1>3 DEF HoldMore, JoinsHeld, HeldOpen
  <2>4. pending' \in Texts /\ (pending = <<>> => pending'[1] = l)
        /\ (pending # <<>> => pending'[1] = pending[1])
    BY <1>0, <2>2 DEF Texts
  <2>5. typed' \in Texts
    BY <1>0, <2>2 DEF Texts
  <2>6. pending' # <<>> => IsRule(pending'[1]) \/ Starts(pending'[1], "and")
    BY <2>3, <2>4 DEF TypeOK
  <2>7. RestTyped
    BY <1>0, <1>2, <1>3, <2>4, <2>5, <2>6 DEF HoldMore, RestTyped
  <2>8. QED
    BY <1>1, <2>1, <2>7, BecomeAdds
<1>4. ASSUME NEW l \in TypedLines, BeginRule(l) \/ AddLine(l)
      PROVE  InputAdds
  <2>1. l \in Line /\ <<l>> \in Texts /\ Append(typed, l) \in Texts /\ <<>> \in Texts
    BY <1>0, ReplAssumption DEF Texts
  <2>2. typed' = Append(typed, l) /\ UNCHANGED <<lastQuery, running, cut, spoilt>> /\ Enter
    BY <1>4 DEF BeginRule, AddLine
  <2>3. Grown(Flush(FlushPending, <<l>>))
    BY <1>0, <1>1, <2>1, FlushGrows
  <2>4. CASE BeginRule(l)
    <3>1. Become(FlushPending) /\ pending' = <<l>> /\ IsRule(l)
      BY <2>4 DEF BeginRule
    <3>2. RestTyped
      BY <1>0, <1>2, <2>1, <2>2, <3>1 DEF RestTyped
    <3>3. QED
      BY <1>1, <2>2, <3>1, <3>2, BecomeAdds
  <2>5. CASE AddLine(l)
    <3>1. Become(Flush(FlushPending, <<l>>)) /\ pending' = <<>>
      BY <2>5 DEF AddLine
    <3>2. RestTyped
      BY <1>0, <1>2, <2>1, <2>2, <3>1 DEF RestTyped
    <3>3. QED
      BY <2>2, <2>3, <3>1, <3>2, BecomeAdds
  <2>6. QED
    BY <1>4, <2>4, <2>5
<1>5. ASSUME FlushOnly \/ Quit \/ (\E q \in Queries : Query(q))
      PROVE  InputAdds
  <2>1. /\ Become(FlushPending) /\ pending' = <<>> /\ UNCHANGED <<typed, spoilt>>
        /\ Enter \/ UNCHANGED inputs
    BY <1>5 DEF FlushOnly, Quit, Query
  <2>2. running' \in BOOLEAN /\ cut' \in BOOLEAN /\ lastQuery' \in Queries \cup {<<>>}
    BY <1>0, <1>5 DEF FlushOnly, Quit, Query
  <2>3. RestTyped
    BY <1>0, <1>2, <2>1, <2>2 DEF RestTyped, Texts
  <2>4. QED
    BY <1>1, <2>1, <2>3, BecomeAdds
<1>6. ASSUME NEW f \in Files, Load(f)
      PROVE  InputAdds
  <2>1. f \in Texts /\ IsSession(FlushPending)
    BY <1>1, ReplAssumption DEF Texts, Grown
  <2>2. /\ lines' = FlushPending.lines \o f /\ rejected' = FlushPending.rejected
        /\ pending' = <<>> /\ UNCHANGED <<lastQuery, running, typed>> /\ Enter
        /\ cut' = TRUE /\ spoilt' = (spoilt \/ ~Accepts(lines'))
    BY <1>6, <2>1 DEF Load, Become, IsSession
  <2>3. PICK added \in Texts : FlushPending.lines = lines \o added
    BY <1>1 DEF Grown
  <2>4. (lines \o added) \o f = lines \o (added \o f) /\ added \o f \in Texts
    BY <1>0, <2>1, SMTT(30) DEF Texts
  <2>5. lines' = lines \o (added \o f)
    BY <2>2, <2>3, <2>4
  <2>6. lines' \in Texts /\ rejected' \in Texts
    BY <1>0, <1>1, <2>2, <2>4, <2>5 DEF Texts, Grown
  <2>7. spoilt' \in BOOLEAN /\ SessionChecks'
    BY <2>2 DEF SessionChecks
  <2>8. RestTyped
    BY <1>0, <1>2, <2>2, <2>7 DEF RestTyped, Texts
  <2>9. QED
    BY <2>4, <2>5, <2>6, <2>7, <2>8 DEF InputAdds, TypeOK, RestTyped, Texts
<1>7. QED
  BY <1>3, <1>4, <1>5, <1>6 DEF Edit

----------------------------------------------------------------------------
(* The session KB, the exit code and the queries of a shell.               *)

LEMMA PrefixGrows ==
  ASSUME NEW S, NEW a \in Seq(S), NEW b \in Seq(S), NEW c \in Seq(S), IsPrefix(a, b)
  PROVE  IsPrefix(a, b \o c)
<1>1. Len(a) <= Len(b) /\ SubSeq(a, 1, Len(a)) = SubSeq(b, 1, Len(a))
  BY DEF IsPrefix
<1>2. SubSeq(b \o c, 1, Len(a)) = SubSeq(b, 1, Len(a))
  <2>1. \A i \in 1..Len(a) : (b \o c)[i] = b[i]
    BY <1>1
  <2>2. QED
    BY <1>1, <2>1
<1>3. Len(a) <= Len(b \o c)
  BY <1>1
<1>4. QED
  BY <1>1, <1>2, <1>3 DEF IsPrefix

LEMMA PrefixOfItself ==
  ASSUME NEW S, NEW a \in Seq(S)
  PROVE  IsPrefix(a, a) /\ IsPrefix(<<>>, a)
BY DEF IsPrefix

CliInv ==
  /\ TypeOK /\ SessionChecks
  /\ phase = "start" => call = NoCall /\ lines = <<>>
  /\ named \in Texts /\ (phase = "shell" => IsPrefix(named, lines))
  /\ ExitTellsOutcome /\ QueriesKeepNamedKb

LEMMA KnowledgeIsText ==
  ASSUME NEW o \in Commands, ~FileMissing(o)
  PROVE  Knowledge(o) \in Texts
<1>1. Options(o) = o.before \/ Options(o) = o.after
  BY DEF Options
<1>2. TextOption(Options(o).text)
  BY <1>1, CommandLineAssumption
<1>3. QED
  BY <1>2, CommandLineAssumption DEF FileMissing, Knowledge, TextOption, Texts

LEMMA ToolTellsOutcome ==
  ASSUME NEW tool, NEW text, NEW query, NEW c \in Calls(tool, text, query)
  PROVE  /\ c.failed \in BOOLEAN
         /\ ~c.failed => /\ c.over # <<>> /\ ~ParseRaises(c.over)
                         /\ c.tool = "check" => Valid(c.over)
<1>1. PICK f \in BOOLEAN :
        /\ c = [tool |-> tool, over |-> Resolved(text), failed |-> f]
        /\ IF tool = "check" THEN ~f => Valid(Resolved(text)) /\ Resolved(text) # <<>>
           ELSE MustFail(Resolved(text), query) => f
  BY DEF Calls
<1>2. CASE tool = "check"
  BY <1>1, <1>2 DEF Valid
<1>3. CASE tool # "check"
  BY <1>1, <1>3 DEF MustFail
<1>4. QED
  BY <1>2, <1>3

LEMMA CliInvariant == Spec => []CliInv
<1>1. Init => CliInv
  <2> SUFFICES ASSUME Init PROVE CliInv
    OBVIOUS
  <2>1. /\ lines = <<>> /\ pending = <<>> /\ lastQuery = <<>> /\ running = TRUE
        /\ typed = <<>> /\ rejected = <<>> /\ cut = FALSE /\ spoilt = FALSE /\ inputs = 0
        /\ phase = "start" /\ call = NoCall /\ named = <<>>
    BY DEF Init, FreshSession
  <2>2. TypeOK /\ named \in Texts
    <3>1. <<>> \in Texts /\ inputs \in 0..MaxInputs
      BY <2>1, ReplAssumption DEF Texts
    <3>2. QED
      BY <2>1, <3>1 DEF TypeOK, Texts
  <2>3. SessionChecks
    BY <2>1, EmptyChecks DEF SessionChecks
  <2>4. QED
    BY <2>1, <2>2, <2>3 DEF CliInv, ExitTellsOutcome, QueriesKeepNamedKb
<1>2. CliInv /\ [Next]_allVars => CliInv'
  <2> SUFFICES ASSUME CliInv, [Next]_allVars PROVE CliInv'
    OBVIOUS
  <2>0. UNCHANGED vars => TypeOK' /\ SessionChecks'
    BY DEF CliInv, vars, TypeOK, SessionChecks
  <2>1. ASSUME NEW o \in Commands, Refuse(o) PROVE CliInv'
    <3>1. phase' = "ended" /\ exit' = 2 /\ UNCHANGED <<call, named, vars>> /\ call = NoCall
      BY <2>1 DEF Refuse, End, CliInv
    <3>2. QED
      BY <2>0, <3>1 DEF CliInv, ExitTellsOutcome, QueriesKeepNamedKb, NoCall
  <2>2. ASSUME NEW o \in Commands, RunTool(o) PROVE CliInv'
    <3>1. PICK c \in Calls(o.tool, Knowledge(o), o.query) :
            call' = c /\ phase' = "ended" /\ exit' = IF c.failed THEN 1 ELSE 0
      BY <2>2 DEF RunTool, End, ExitOf
    <3>2. UNCHANGED <<vars, named>>
      BY <2>2 DEF RunTool
    <3>3. ExitTellsOutcome'
      BY <3>1, ToolTellsOutcome DEF ExitTellsOutcome
    <3>4. QED
      BY <2>0, <3>1, <3>2, <3>3 DEF CliInv, QueriesKeepNamedKb
  <2>3. ASSUME NEW o \in Commands, StartShell(o) PROVE CliInv'
    <3>1. /\ phase' = "shell" /\ named' = Knowledge(o) /\ lines' = Knowledge(o)
          /\ spoilt' = ~Accepts(lines') /\ cut' = (lines' # <<>>) /\ call' = call
          /\ UNCHANGED <<pending, lastQuery, running, typed, rejected, inputs>>
          /\ call = NoCall
      BY <2>3 DEF StartShell, CliInv
    <3>2. Knowledge(o) \in Texts
      BY <2>3, KnowledgeIsText DEF StartShell
    <3>3. TypeOK' /\ SessionChecks'
      BY <3>1, <3>2 DEF CliInv, TypeOK, SessionChecks, Texts
    <3>4. IsPrefix(named', lines')
      BY <3>1, <3>2, PrefixOfItself DEF Texts
    <3>5. QED
      BY <3>1, <3>2, <3>3, <3>4 DEF CliInv, ExitTellsOutcome, QueriesKeepNamedKb
  <2>4. ASSUME phase = "shell", Edit \/ Quit \/ (\E q \in Queries : Query(q)), named' = named
        PROVE  TypeOK' /\ SessionChecks' /\ named' \in Texts /\ IsPrefix(named, lines')
    <3>1. PICK added \in Texts : lines' = lines \o added
      BY <2>4, InputGrows DEF CliInv, InputAdds
    <3>2. IsPrefix(named, lines')
      BY <2>4, <3>1, PrefixGrows DEF CliInv, TypeOK, Texts
    <3>3. QED
      BY <2>4, <3>2, InputGrows DEF CliInv, InputAdds
  <2>5. CASE Work
    BY <2>4, <2>5 DEF Work, CliInv, ExitTellsOutcome, QueriesKeepNamedKb
  <2>6. CASE Restart
    <3>1. /\ lines' = <<>> /\ pending' = <<>> /\ lastQuery' = <<>> /\ typed' = <<>>
          /\ rejected' = <<>> /\ cut' = FALSE /\ spoilt' = FALSE /\ running' = running
          /\ inputs' = inputs + 1 /\ inputs < MaxInputs /\ named' = <<>> /\ call' = NoCall
          /\ phase' = "shell"
      BY <2>6 DEF Restart, Reset, Enter
    <3>2. TypeOK' /\ named' \in Texts
      <4>1. <<>> \in Texts /\ inputs' \in 0..MaxInputs
        BY <3>1, ReplAssumption DEF Texts, CliInv, TypeOK
      <4>2. running' \in BOOLEAN
        BY <3>1 DEF CliInv, TypeOK
      <4>3. QED
        BY <3>1, <4>1, <4>2 DEF TypeOK, Texts
    <3>3. SessionChecks' /\ IsPrefix(named', lines')
      BY <3>1, EmptyChecks, PrefixOfItself DEF SessionChecks, IsPrefix
    <3>4. QED
      BY <3>1, <3>2, <3>3 DEF CliInv, ExitTellsOutcome, QueriesKeepNamedKb
  <2>7. ASSUME NEW q \in Queries, Ask(q) PROVE CliInv'
    <3>1. /\ phase = "shell" /\ phase' = "shell" /\ Query(q) /\ named' = named
          /\ call' \in Calls("reason", lines', q)
      BY <2>7 DEF Ask
    <3>2. TypeOK' /\ SessionChecks' /\ named' \in Texts /\ IsPrefix(named, lines')
      BY <2>4, <3>1
    <3>3. call'.over = Resolved(lines')
      BY <3>1 DEF Calls
    <3>4. named # <<>> => lines' # <<>>
      BY <3>2 DEF IsPrefix, CliInv, Texts
    <3>5. QED
      BY <3>1, <3>2, <3>3, <3>4 DEF CliInv, ExitTellsOutcome, QueriesKeepNamedKb, Resolved
  <2>8. CASE Leave
    <3>1. phase = "shell" /\ Quit /\ named' = named /\ phase' = "ended" /\ exit' = 0
          /\ call' = NoCall
      BY <2>8 DEF Leave, End
    <3>2. TypeOK' /\ SessionChecks' /\ named' \in Texts
      BY <2>4, <3>1
    <3>3. QED
      BY <3>1, <3>2 DEF CliInv, ExitTellsOutcome, QueriesKeepNamedKb, NoCall
  <2>9. CASE UNCHANGED allVars
    BY <2>0, <2>9 DEF allVars, vars, CliInv, ExitTellsOutcome, QueriesKeepNamedKb
  <2>10. QED
    BY <2>1, <2>2, <2>3, <2>5, <2>6, <2>7, <2>8, <2>9 DEF Next
<1>3. QED
  BY <1>1, <1>2, PTL DEF Spec

\* _flush rolls back: the session KB of a shell checks, whatever is typed, until
\* a file or a text of the options that does not check is loaded.
THEOREM ShellKeepsCheckedKb == Spec => []SessionChecks
<1>1. CliInv => SessionChecks
  BY DEF CliInv
<1>2. QED
  BY <1>1, CliInvariant, PTL

\* The exit code of every command tells what became of its call.
THEOREM ExitCodesTell == Spec => []ExitTellsOutcome
<1>1. CliInv => ExitTellsOutcome
  BY DEF CliInv
<1>2. QED
  BY <1>1, CliInvariant, PTL

\* A query of a shell runs over a text that begins with the KB the shell was
\* started over.
THEOREM ShellKeepsNamedKb == Spec => []QueriesKeepNamedKb
<1>1. CliInv => QueriesKeepNamedKb
  BY DEF CliInv
<1>2. QED
  BY <1>1, CliInvariant, PTL

----------------------------------------------------------------------------
(* What one more line does to the statements read before it.               *)

IsSeq(s) == \E S : s \in Seq(S)

\* What a reader of lines is: a record, with sequences of facts and rules.
IsReading(p) ==
  /\ p = [facts |-> p.facts, rules |-> p.rules, query |-> p.query,
          open |-> p.open, bad |-> p.bad]
  /\ IsSeq(p.facts) /\ IsSeq(p.rules)

\* Every statement of p is still one of q.
Adds(p, q) ==
  IsReading(q) /\ IsPrefix(p.facts, q.facts) /\ IsPrefix(p.rules, q.rules)

LEMMA AppendAdds ==
  ASSUME NEW s, IsSeq(s), NEW e
  PROVE  IsSeq(Append(s, e)) /\ IsPrefix(s, Append(s, e)) /\ IsPrefix(s, s)
<1>1. PICK S : s \in Seq(S)
  BY DEF IsSeq
<1>2. s \in Seq(S \cup {e}) /\ Append(s, e) \in Seq(S \cup {e}) /\ Len(s) \in Nat
      /\ Len(Append(s, e)) = Len(s) + 1 /\ \A i \in 1..Len(s) : Append(s, e)[i] = s[i]
  BY <1>1
<1>3. SubSeq(s, 1, Len(s)) = SubSeq(Append(s, e), 1, Len(s))
  BY <1>2
<1>4. QED
  BY <1>2, <1>3 DEF IsSeq, IsPrefix

LEMMA PrefixTransitive ==
  ASSUME NEW a, NEW b, NEW c, IsSeq(a), IsSeq(b), IsSeq(c), IsPrefix(a, b), IsPrefix(b, c)
  PROVE  IsPrefix(a, c)
<1>1. PICK A, B, C : a \in Seq(A) /\ b \in Seq(B) /\ c \in Seq(C)
  BY DEF IsSeq
<1> DEFINE S == A \cup B \cup C
<1>2. a \in Seq(S) /\ b \in Seq(S) /\ c \in Seq(S) /\ Len(a) \in Nat /\ Len(b) \in Nat
  BY <1>1
<1>3. /\ Len(a) <= Len(b) /\ SubSeq(a, 1, Len(a)) = SubSeq(b, 1, Len(a))
      /\ Len(b) <= Len(c) /\ SubSeq(b, 1, Len(b)) = SubSeq(c, 1, Len(b))
  BY DEF IsPrefix
<1> HIDE DEF S
<1>4. \A i \in 1..Len(b) : b[i] = c[i]
  <2> TAKE i \in 1..Len(b)
  <2>1. SubSeq(b, 1, Len(b))[i] = b[i] /\ SubSeq(c, 1, Len(b))[i] = c[i]
    BY <1>2, <1>3
  <2>2. QED
    BY <1>3, <2>1
<1>5. SubSeq(b, 1, Len(a)) = SubSeq(c, 1, Len(a))
  BY <1>2, <1>3, <1>4
<1>6. QED
  BY <1>2, <1>3, <1>5 DEF IsPrefix

LEMMA AddsTransitive ==
  ASSUME NEW p, NEW q, NEW r, IsReading(p), Adds(p, q), Adds(q, r)
  PROVE  Adds(p, r)
BY PrefixTransitive DEF Adds, IsReading

\* Closing the rule being read adds it.
LEMMA CloseAdds ==
  ASSUME NEW p, IsReading(p)
  PROVE  Adds(p, Close(p))
<1>1. CASE p.open = <<>>
  BY <1>1, AppendAdds DEF Close, Adds, IsReading
<1>2. CASE p.open # <<>>
  <2>1. PICK rule : Close(p) = [p EXCEPT !.open = <<>>, !.rules = Append(@, rule)]
    BY <1>2 DEF Close
  <2>2. Close(p) = [facts |-> p.facts, rules |-> Append(p.rules, rule), query |-> p.query,
                    open |-> <<>>, bad |-> p.bad]
    BY <2>1 DEF IsReading
  <2>3. QED
    BY <2>2, AppendAdds DEF Adds, IsReading
<1>3. QED
  BY <1>1, <1>2

\* A line that starts a statement takes none away.
LEMMA BeginAdds ==
  ASSUME NEW p, IsReading(p), NEW l, NEW id
  PROVE  Adds(p, Begin(p, l, id))
<1>1. \E facts \in {p.facts, Append(p.facts, l)} : \E query, open, bad :
        Begin(p, l, id) = [facts |-> facts, rules |-> p.rules, query |-> query,
                           open |-> open, bad |-> bad]
  <2>0. p = [facts |-> p.facts, rules |-> p.rules, query |-> p.query,
             open |-> p.open, bad |-> p.bad]
    BY DEF IsReading
  <2>1. CASE Starts(l, "?")
    BY <2>0, <2>1 DEF Begin
  <2>2. CASE ~Starts(l, "?") /\ IsRule(l)
    <3>1. PICK open : Begin(p, l, id) = [p EXCEPT !.open = open]
      BY <2>2 DEF Begin
    <3>2. QED
      BY <2>0, <3>1
  <2>3. CASE ~Starts(l, "?") /\ ~IsRule(l) /\ Starts(l, "and")
    BY <2>0, <2>3 DEF Begin
  <2>4. CASE ~Starts(l, "?") /\ ~IsRule(l) /\ ~Starts(l, "and")
    BY <2>0, <2>4 DEF Begin
  <2>5. QED
    BY <2>1, <2>2, <2>3, <2>4
<1>2. PICK facts \in {p.facts, Append(p.facts, l)} : \E query, open, bad :
        Begin(p, l, id) = [facts |-> facts, rules |-> p.rules, query |-> query,
                           open |-> open, bad |-> bad]
  BY <1>1
<1>3. IsSeq(facts) /\ IsPrefix(p.facts, facts) /\ IsPrefix(p.rules, p.rules)
  BY AppendAdds DEF IsReading
<1>4. QED
  BY <1>2, <1>3 DEF Adds, IsReading

\* A line with words that does not continue the rule being read closes it.
LEMMA ReadLineCloses ==
  ASSUME NEW p, IsReading(p), NEW line, Words(line) # <<>>, ~Continues(p, Words(line))
  PROVE  Adds(Close(p), ReadLine(p, line))
<1>1. ReadLine(p, line) = Begin(Close(p), Words(line), IdOn(line))
  BY DEF ReadLine
<1>2. QED
  BY <1>1, CloseAdds, BeginAdds DEF Adds

\* No line takes a statement away.
LEMMA ReadLineAdds ==
  ASSUME NEW p, IsReading(p), NEW line
  PROVE  Adds(p, ReadLine(p, line))
<1>1. CASE Words(line) = <<>>
  BY <1>1, AppendAdds DEF ReadLine, Adds, IsReading
<1>2. CASE Words(line) # <<>> /\ Continues(p, Words(line))
  <2>1. PICK open : ReadLine(p, line) = [p EXCEPT !.open = open]
    <3>1. ReadLine(p, line) =
            [p EXCEPT !.open[1].body = @ \o Words(line),
                      !.open[1].id = IF IdOn(line) = <<>> THEN @ ELSE IdOn(line)]
      BY <1>2 DEF ReadLine
    <3>2. QED
      BY <3>1 DEF IsReading
  <2>2. ReadLine(p, line) = [facts |-> p.facts, rules |-> p.rules, query |-> p.query,
                             open |-> open, bad |-> p.bad]
    BY <2>1 DEF IsReading
  <2>3. QED
    BY <2>2, AppendAdds DEF Adds, IsReading
<1>3. CASE Words(line) # <<>> /\ ~Continues(p, Words(line))
  BY <1>3, CloseAdds, ReadLineCloses, AddsTransitive
<1>4. QED
  BY <1>1, <1>2, <1>3

\* Lines that follow a finished last rule, and do not open with "and", change
\* none of the statements.
LEMMA LaterLinesAdd ==
  ASSUME NEW text \in Texts, NEW added \in Texts, NEW longer, longer = text \o added,
         Read(text).open # <<>> => ~Wants(Read(text).open[1]),
         ~ \E i \in (Len(text) + 1)..Len(longer) :
             /\ Starts(Words(longer[i]), "and")
             /\ \A j \in (Len(text) + 1)..(i - 1) : Words(longer[j]) = <<>>
  PROVE  Adds(Parse(text), Parse(longer))
<1> DEFINE n == Len(text)
           r(k) == Read(SubSeq(longer, 1, k))
           p == Read(text)
<1>1. /\ longer \in Texts /\ n \in Nat /\ Len(longer) \in Nat /\ n <= Len(longer)
      /\ SubSeq(longer, 1, n) = text /\ SubSeq(longer, 1, Len(longer)) = longer
  BY DEF Texts
<1>2. \A k \in 0..(Len(longer) - 1) : r(k + 1) = ReadLine(r(k), longer[k + 1])
  <2> TAKE k \in 0..(Len(longer) - 1)
  <2>1. /\ SubSeq(longer, 1, k) \in Texts /\ longer[k + 1] \in Line
        /\ SubSeq(longer, 1, k + 1) = Append(SubSeq(longer, 1, k), longer[k + 1])
    BY <1>1, SMTT(30) DEF Texts
  <2>2. QED
    BY <2>1, ReadAppend DEF Texts
<1>3. r(0) = Nothing /\ IsReading(Nothing)
  <2>1. SubSeq(longer, 1, 0) = <<>>
    BY <1>1 DEF Texts
  <2>2. IsSeq(<<>>)
    <3>1. <<>> \in Seq({})
      OBVIOUS
    <3>2. QED
      BY <3>1 DEF IsSeq
  <2>3. QED
    BY <2>1, <2>2, ReadEmpty DEF IsReading, Nothing
<1>4. \A k \in Nat : k <= Len(longer) => IsReading(r(k))
  <2> DEFINE Fine == {k \in Nat : k <= Len(longer) => IsReading(r(k))}
  <2>1. 0 \in Fine
    BY <1>3
  <2>2. ASSUME NEW k \in Nat, k \in Fine PROVE k + 1 \in Fine
    <3> SUFFICES ASSUME k + 1 <= Len(longer) PROVE IsReading(r(k + 1))
      OBVIOUS
    <3>1. k \in 0..(Len(longer) - 1) /\ IsReading(r(k))
      BY <1>1, <2>2
    <3>2. r(k + 1) = ReadLine(r(k), longer[k + 1])
      BY <1>2, <3>1
    <3> HIDE DEF r
    <3>3. QED
      BY <3>1, <3>2, ReadLineAdds DEF Adds
  <2>3. \A k \in Nat : k \in Fine
    <3> HIDE DEF Fine
    <3> QED BY <2>1, <2>2, NatInd
  <2>4. QED
    BY <2>3
<1>5. r(n) = p /\ r(Len(longer)) = Read(longer) /\ IsReading(p)
  BY <1>1, <1>4
\* Either only blanks and comments have been read, or all of Close(p) is there.
<1> DEFINE Later == {d \in Nat : n + d <= Len(longer) =>
                       \/ r(n + d) = p /\ \A j \in (n + 1)..(n + d) : Words(longer[j]) = <<>>
                       \/ Adds(Close(p), r(n + d))}
<1>6. 0 \in Later
  BY <1>1, <1>5
<1>7. ASSUME NEW d \in Nat, d \in Later PROVE d + 1 \in Later
  <2> SUFFICES ASSUME n + (d + 1) <= Len(longer) PROVE d + 1 \in Later
    OBVIOUS
  <2>1. /\ n + d \in 0..(Len(longer) - 1) /\ n + (d + 1) = (n + d) + 1
        /\ (n + d) + 1 \in (n + 1)..Len(longer) /\ n + d <= Len(longer) /\ n + d \in Nat
        /\ ((n + d) + 1) - 1 = n + d
    BY <1>1
  <2>2. r((n + d) + 1) = ReadLine(r(n + d), longer[(n + d) + 1])
    BY <1>2, <2>1
  <2>3. IsReading(r(n + d))
    BY <1>4, <2>1
  <2> HIDE DEF r
  <2>4. CASE Adds(Close(p), r(n + d))
    <3>1. Adds(r(n + d), r((n + d) + 1))
      BY <2>2, <2>3, ReadLineAdds
    <3>2. IsReading(Close(p))
      BY <1>5, CloseAdds DEF Adds
    <3>3. Adds(Close(p), r((n + d) + 1))
      BY <2>4, <3>1, <3>2, AddsTransitive
    <3>4. QED
      BY <2>1, <3>3
  <2>5. CASE r(n + d) = p /\ \A j \in (n + 1)..(n + d) : Words(longer[j]) = <<>>
    <3> DEFINE line == longer[(n + d) + 1]
    <3>1. ~Starts(Words(line), "and")
      BY <2>1, <2>5
    <3>2. CASE Words(line) = <<>>
      <4>1. r((n + d) + 1) = p
        BY <2>2, <2>5, <3>2 DEF ReadLine
      <4>2. \A j \in (n + 1)..((n + d) + 1) : Words(longer[j]) = <<>>
        BY <2>1, <2>5, <3>2, SMTT(30)
      <4>3. QED
        BY <2>1, <4>1, <4>2
    <3>3. CASE Words(line) # <<>>
      <4>1. ~Continues(p, Words(line))
        BY <3>1 DEF Continues
      <4>2. Adds(Close(p), r((n + d) + 1))
        BY <1>5, <2>2, <2>5, <3>3, <4>1, ReadLineCloses
      <4>3. QED
        BY <2>1, <4>2
    <3>4. QED
      BY <3>2, <3>3
  <2>6. QED
    BY <1>7, <2>1, <2>4, <2>5
<1>8. Len(longer) - n \in Later /\ n + (Len(longer) - n) = Len(longer) /\ Len(longer) - n \in Nat
  <2> HIDE DEF Later
  <2>1. Len(longer) - n \in Nat /\ n + (Len(longer) - n) = Len(longer)
    BY <1>1
  <2>2. QED
    BY <2>1, <1>6, <1>7, NatInd
<1>9. Read(longer) = p \/ Adds(Close(p), Read(longer))
  BY <1>5, <1>8
<1>10. IsReading(Read(longer)) /\ IsReading(Close(p))
  BY <1>1, <1>4, <1>5, CloseAdds DEF Adds
<1>11. CASE Read(longer) = p
  BY <1>10, <1>11, AppendAdds DEF Parse, Adds, IsReading
<1>12. CASE Adds(Close(p), Read(longer))
  BY <1>10, <1>12, CloseAdds, AddsTransitive DEF Parse
<1>13. QED
  BY <1>9, <1>11, <1>12

\* Later input changes and takes away no statement of the session KB, short of
\* a reset, a line that opens with "and" and an unfinished last rule.
THEOREM LaterInputOnlyAdds == Spec => InputOnlyAdds
<1>1. CliInv /\ [Next]_allVars =>
        [lines' # <<>> /\ ~AddsContinuation /\ ~EndsOpen => StatementsStay]_vars
  <2> SUFFICES ASSUME CliInv, [Next]_allVars, lines' # <<>>, ~AddsContinuation, ~EndsOpen,
                      ~UNCHANGED vars
               PROVE  StatementsStay
    OBVIOUS
  <2>1. \E added \in Texts : lines' = lines \o added
    <3>1. CASE \E o \in Commands : StartShell(o)
      <4>1. PICK o \in Commands : StartShell(o)
        BY <3>1
      <4>2. lines = <<>> /\ lines' = Knowledge(o) /\ Knowledge(o) \in Texts
        BY <4>1, KnowledgeIsText DEF StartShell, CliInv
      <4>3. Knowledge(o) = <<>> \o Knowledge(o)
        BY <4>2 DEF Texts
      <4>4. QED
        BY <4>2, <4>3
    <3>2. CASE Edit \/ Quit \/ (\E q \in Queries : Query(q))
      BY <3>2, InputGrows DEF CliInv, InputAdds
    <3>3. ~Restart
      BY DEF Restart, Reset
    <3>4. ~(\E o \in Commands : Refuse(o) \/ RunTool(o)) /\ ~UNCHANGED allVars
      BY DEF Refuse, RunTool, allVars
    <3>5. QED
      BY <3>1, <3>2, <3>3, <3>4 DEF Next, Work, Ask, Leave
  <2>2. PICK added \in Texts : lines' = lines \o added
    BY <2>1
  <2>3. lines \in Texts
    BY DEF CliInv, TypeOK, Texts
  <2>4. Read(lines).open # <<>> => ~Wants(Read(lines).open[1])
    BY DEF EndsOpen
  <2>5. Adds(Parse(lines), Parse(lines'))
    BY <2>2, <2>3, <2>4, LaterLinesAdd DEF AddsContinuation
  <2>6. QED
    BY <2>5 DEF Adds, StatementsStay
<1>2. QED
  BY <1>1, CliInvariant, PTL DEF Spec, InputOnlyAdds

----------------------------------------------------------------------------
(* The shape of what is read.                                              *)

Rule == [head : Seq(Word), body : Seq(Word), id : Seq(Id)]

Reading ==
  [facts : Seq(Seq(Word)), rules : Seq(Rule), query : Seq(Word),
   open : {<<>>} \cup {<<r>> : r \in Rule}, bad : BOOLEAN]

LEMMA LineWords ==
  ASSUME NEW line \in Line
  PROVE  /\ Words(line) \in Seq(Word) /\ IdOn(line) \in Seq(Id)
         /\ Words(line) # <<>> => Len(line) >= 1 /\ Words(line)[1] = line[1]
         /\ Len(Words(line)) <= Len(line)
         /\ \A i \in 1..Len(Words(line)) : Words(line)[i] = line[i]
<1>1. line \in Seq(Word) /\ Len(line) \in Nat
  BY DEF Line
<1>2. CASE EndsInId(line)
  <2>1. line # <<>> /\ Last(line) \in Id
    BY <1>2 DEF EndsInId
  <2>2. Words(line) = SubSeq(line, 1, Len(line) - 1) /\ IdOn(line) = <<Last(line)>>
    BY <1>2 DEF Words, IdOn, Front
  <2>3. QED
    BY <1>1, <2>1, <2>2
<1>3. CASE ~EndsInId(line)
  <2>1. Words(line) = line /\ IdOn(line) = <<>>
    BY <1>3 DEF Words, IdOn
  <2>2. QED
    BY <1>1, <2>1
<1>4. QED
  BY <1>2, <1>3

\* Where a line is split into a head and a body.
LEMMA FirstIfIs ==
  ASSUME NEW l \in Seq(Word), IsRule(l)
  PROVE  /\ FirstIf(l) \in 2..Len(l) /\ l[FirstIf(l)] = "if"
<1>1. Ifs(l) \in SUBSET Nat /\ Ifs(l) # {}
  BY DEF Ifs, IsRule
<1>2. PICK x \in Ifs(l) : \A y \in Ifs(l) : x <= y
  BY <1>1, NatMin
<1>3. FirstIf(l) \in Ifs(l)
  BY <1>2 DEF FirstIf
<1>4. QED
  BY <1>3 DEF Ifs

LEMMA CloseTyped ==
  ASSUME NEW p \in Reading
  PROVE  /\ Close(p) \in Reading /\ Close(p).open = <<>>
         /\ Close(p).facts = p.facts /\ Close(p).query = p.query /\ Close(p).bad = p.bad
         /\ p.open = <<>> => Close(p).rules = p.rules
         /\ p.open # <<>> => Close(p).rules = Append(p.rules, p.open[1])
<1>1. p.open # <<>> => p.open[1] \in Rule
  BY DEF Reading
<1>2. CASE p.open = <<>>
  BY <1>2 DEF Close
<1>3. CASE p.open # <<>>
  <2>1. Close(p) = [p EXCEPT !.rules = Append(@, p.open[1]), !.open = <<>>]
    BY <1>3 DEF Close
  <2>2. Append(p.rules, p.open[1]) \in Seq(Rule)
    BY <1>1, <1>3 DEF Reading
  <2>3. QED
    BY <1>3, <2>1, <2>2 DEF Reading
<1>4. QED
  BY <1>2, <1>3

\* What a line that starts a statement adds.
LEMMA BeginShape ==
  ASSUME NEW p \in Reading, NEW l \in Seq(Word), l # <<>>, NEW id \in Seq(Id), p.open = <<>>
  PROVE  /\ Begin(p, l, id) \in Reading
         /\ Begin(p, l, id).rules = p.rules /\ (p.bad => Begin(p, l, id).bad)
         /\ ~Starts(l, "?") => Begin(p, l, id).query = p.query
         /\ Begin(p, l, id).facts \in {p.facts, Append(p.facts, l)}
         /\ Starts(l, "?") \/ IsRule(l) => Begin(p, l, id).facts = p.facts
         /\ ~Starts(l, "?") /\ ~IsRule(l) =>
              Begin(p, l, id).bad \/ Begin(p, l, id).facts = Append(p.facts, l)
         /\ Starts(l, "?") \/ ~IsRule(l) => Begin(p, l, id).open = <<>>
         /\ ~Starts(l, "?") /\ IsRule(l) =>
              Begin(p, l, id).open = <<[head |-> SubSeq(l, 1, FirstIf(l) - 1),
                                        body |-> SubSeq(l, FirstIf(l) + 1, Len(l)),
                                        id   |-> id]>>
<1> DEFINE q == Begin(p, l, id)
<1>1. CASE Starts(l, "?")
  <2>1. q = [p EXCEPT !.query = Tail(l), !.bad = @ \/ id # <<>>]
    BY <1>1 DEF Begin, Starts
  <2>2. Tail(l) \in Seq(Word)
    OBVIOUS
  <2> HIDE DEF q
  <2>3. q.query = Tail(l) /\ q.bad = (p.bad \/ id # <<>>) /\ q.facts = p.facts
        /\ q.rules = p.rules /\ q.open = p.open /\ q \in Reading
    BY <2>1, <2>2 DEF Reading
  <2>4. QED
    BY <1>1, <2>3 DEF q
<1>2. CASE ~Starts(l, "?") /\ IsRule(l)
  <2> DEFINE r == [head |-> SubSeq(l, 1, FirstIf(l) - 1),
                   body |-> SubSeq(l, FirstIf(l) + 1, Len(l)), id |-> id]
  <2>1. q = [p EXCEPT !.open = <<r>>]
    BY <1>2 DEF Begin
  <2>2. r \in Rule
    BY <1>2, FirstIfIs DEF Rule
  <2> HIDE DEF q, r
  <2>3. q.query = p.query /\ q.bad = p.bad /\ q.facts = p.facts
        /\ q.rules = p.rules /\ q.open = <<r>> /\ q \in Reading
    BY <2>1, <2>2 DEF Reading
  <2>4. QED
    BY <1>2, <2>3 DEF q, r
<1>3. CASE ~Starts(l, "?") /\ ~IsRule(l) /\ Starts(l, "and")
  <2>1. q = [p EXCEPT !.bad = TRUE]
    BY <1>3 DEF Begin
  <2> HIDE DEF q
  <2>2. q.query = p.query /\ q.bad = TRUE /\ q.facts = p.facts
        /\ q.rules = p.rules /\ q.open = p.open /\ q \in Reading
    BY <2>1 DEF Reading
  <2>3. QED
    BY <1>3, <2>2 DEF q
<1>4. CASE ~Starts(l, "?") /\ ~IsRule(l) /\ ~Starts(l, "and")
  <2>1. q = [p EXCEPT !.facts = Append(@, l), !.bad = @ \/ id # <<>>]
    BY <1>4 DEF Begin
  <2>2. Append(p.facts, l) \in Seq(Seq(Word))
    BY DEF Reading
  <2> HIDE DEF q
  <2>3. q.query = p.query /\ q.bad = (p.bad \/ id # <<>>) /\ q.facts = Append(p.facts, l)
        /\ q.rules = p.rules /\ q.open = p.open /\ q \in Reading
    BY <2>1, <2>2 DEF Reading
  <2>4. QED
    BY <1>4, <2>3 DEF q
<1>5. QED
  BY <1>1, <1>2, <1>3, <1>4

\* What a line that continues a rule adds.
LEMMA ContinueShape ==
  ASSUME NEW p \in Reading, NEW line \in Line, Words(line) # <<>>,
         Continues(p, Words(line))
  PROVE  \E id \in Seq(Id) :
           LET r == [head |-> p.open[1].head, body |-> p.open[1].body \o Words(line), id |-> id]
           IN  ReadLine(p, line) = [p EXCEPT !.open = <<r>>] /\ r \in Rule
<1>1. PICK s \in Rule : p.open = <<s>>
  BY DEF Continues, Reading
<1> DEFINE id == IF IdOn(line) = <<>> THEN s.id ELSE IdOn(line)
           r == [head |-> s.head, body |-> s.body \o Words(line), id |-> id]
<1>2. ReadLine(p, line) =
        [p EXCEPT !.open[1].body = @ \o Words(line),
                  !.open[1].id = IF IdOn(line) = <<>> THEN @ ELSE IdOn(line)]
  BY DEF ReadLine
<1>3. id \in Seq(Id) /\ r \in Rule
  BY LineWords DEF Rule
<1>4. [p.open EXCEPT ![1].body = @ \o Words(line),
                     ![1].id = IF IdOn(line) = <<>> THEN @ ELSE IdOn(line)] = <<r>>
  <2>1. s = [head |-> s.head, body |-> s.body, id |-> s.id]
    BY DEF Rule
  <2> DEFINE b == s.body \o Words(line)
  <2>2. s.body \o Words(line) = b
    OBVIOUS
  <2> HIDE DEF id, b
  <2>3. [s EXCEPT !.body = b] = [head |-> s.head, body |-> b, id |-> s.id]
    BY <2>1
  <2>4. [[head |-> s.head, body |-> b, id |-> s.id] EXCEPT !.id = id]
          = [head |-> s.head, body |-> b, id |-> id]
    OBVIOUS
  <2>5. \A x, y : [<<x>> EXCEPT ![1] = y] = <<y>> /\ <<x>>[1] = x
    OBVIOUS
  <2>6. [p.open EXCEPT ![1] = [p.open[1] EXCEPT !.body = b]] = <<[s EXCEPT !.body = b]>>
    BY <1>1, <2>5
  <2>7. [p.open EXCEPT ![1].body = @ \o Words(line), ![1].id = id]
          = <<[[s EXCEPT !.body = b] EXCEPT !.id = id]>>
    <3> DEFINE grown == [p.open EXCEPT ![1] = [p.open[1] EXCEPT !.body = b]]
    <3>1. grown = <<[s EXCEPT !.body = b]>>
      BY <2>6
    <3> HIDE DEF grown
    <3>2. [grown EXCEPT ![1] = [grown[1] EXCEPT !.id = id]]
            = <<[[s EXCEPT !.body = b] EXCEPT !.id = id]>>
      BY <2>5, <3>1
    <3>3. QED
      <4>1. p.open[1].body \o Words(line) = b
        BY <1>1, <2>2
      <4>2. QED
        BY <3>2, <4>1 DEF grown
  <2>8. [p.open EXCEPT ![1].body = @ \o Words(line), ![1].id = id]
          = [p.open EXCEPT ![1].body = @ \o Words(line),
                           ![1].id = IF IdOn(line) = <<>> THEN @ ELSE IdOn(line)]
    BY <1>1, <2>2, <2>3, <2>5, <2>6 DEF id
  <2>9. QED
    BY <2>2, <2>3, <2>4, <2>7, <2>8
<1>5. ReadLine(p, line) = [p EXCEPT !.open = <<r>>]
  BY <1>2, <1>4 DEF Reading
<1>6. p.open[1] = s
  BY <1>1
<1> HIDE DEF id
<1>7. QED
  BY <1>3, <1>5, <1>6

LEMMA StartShape ==
  ASSUME NEW p \in Reading, NEW line \in Line, Words(line) # <<>>,
         ~Continues(p, Words(line))
  PROVE  LET l == Words(line)
             q == ReadLine(p, line)
         IN  /\ q \in Reading /\ q.rules = Close(p).rules /\ (p.bad => q.bad)
             /\ ~Starts(l, "?") => q.query = p.query
             /\ q.facts \in {p.facts, Append(p.facts, l)}
             /\ Starts(l, "?") \/ IsRule(l) => q.facts = p.facts
             /\ ~Starts(l, "?") /\ ~IsRule(l) => q.bad \/ q.facts = Append(p.facts, l)
             /\ Starts(l, "?") \/ ~IsRule(l) => q.open = <<>>
             /\ ~Starts(l, "?") /\ IsRule(l) =>
                  q.open = <<[head |-> SubSeq(l, 1, FirstIf(l) - 1),
                              body |-> SubSeq(l, FirstIf(l) + 1, Len(l)),
                              id   |-> IdOn(line)]>>
<1> DEFINE l == Words(line)
           c == Close(p)
           id == IdOn(line)
<1>1. ReadLine(p, line) = Begin(c, l, id)
  BY DEF ReadLine
<1>2. /\ c \in Reading /\ c.open = <<>> /\ c.facts = p.facts /\ c.query = p.query
      /\ c.bad = p.bad
  BY CloseTyped
<1>3. l \in Seq(Word) /\ l # <<>> /\ id \in Seq(Id)
  BY LineWords
<1> HIDE DEF c, l, id
<1>4. QED
  BY <1>1, <1>2, <1>3, BeginShape DEF l, c, id

LEMMA ReadLineTyped ==
  ASSUME NEW p \in Reading, NEW line \in Line
  PROVE  ReadLine(p, line) \in Reading
<1>1. CASE Words(line) = <<>>
  BY <1>1 DEF ReadLine
<1>2. CASE Words(line) # <<>> /\ Continues(p, Words(line))
  <2>1. PICK r \in Rule : ReadLine(p, line) = [p EXCEPT !.open = <<r>>]
    BY <1>2, ContinueShape
  <2>2. QED
    BY <2>1 DEF Reading
<1>3. CASE Words(line) # <<>> /\ ~Continues(p, Words(line))
  BY <1>3, StartShape
<1>4. QED
  BY <1>1, <1>2, <1>3

\* Induction over texts.
LEMMA TextInd ==
  ASSUME NEW S, <<>> \in S,
         \A t \in Texts, l \in Line : t \in S => Append(t, l) \in S
  PROVE  Texts \subseteq S
<1> DEFINE Ns == {n \in Nat : \A t \in Texts : Len(t) = n => t \in S}
<1>1. 0 \in Ns
  <2>1. \A t \in Texts : Len(t) = 0 => t = <<>>
    BY DEF Texts
  <2>2. QED
    BY <2>1
<1>2. ASSUME NEW n \in Nat, n \in Ns PROVE n + 1 \in Ns
  <2> SUFFICES ASSUME NEW t \in Texts, Len(t) = n + 1 PROVE t \in S
    OBVIOUS
  <2> DEFINE u == SubSeq(t, 1, n)
             l == t[n + 1]
  <2>1. u \in Texts /\ Len(u) = n /\ l \in Line /\ t = Append(u, l)
    BY DEF Texts
  <2> HIDE DEF u, l
  <2>2. QED
    BY <1>2, <2>1
<1>3. \A n \in Nat : n \in Ns
  <2> HIDE DEF Ns
  <2> QED BY <1>1, <1>2, NatInd
<1>4. \A t \in Texts : Len(t) \in Nat
  BY DEF Texts
<1>5. QED
  BY <1>3, <1>4

LEMMA ReadTyped ==
  ASSUME NEW text \in Texts
  PROVE  Read(text) \in Reading
<1> DEFINE S == {t \in Texts : Read(t) \in Reading}
<1>1. <<>> \in S
  <2>1. Nothing \in Reading
    BY DEF Nothing, Reading
  <2>2. QED
    BY <2>1, ReadEmpty DEF Texts
<1>2. ASSUME NEW t \in Texts, NEW l \in Line, t \in S PROVE Append(t, l) \in S
  <2>1. Read(Append(t, l)) = ReadLine(Read(t), l) /\ Append(t, l) \in Texts
    BY ReadAppend DEF Texts
  <2>2. QED
    BY <1>2, <2>1, ReadLineTyped
<1>3. Texts \subseteq S
  <2> HIDE DEF S
  <2> QED BY <1>1, <1>2, TextInd
<1>4. QED
  BY <1>3

\* The last rule read so far wants no more lines.
Settled(p) == p.open # <<>> => ~Wants(p.open[1])
Finished(text) == Settled(Read(text))

LEMMA LastOfWords ==
  ASSUME NEW b \in Seq(Word), NEW w \in Seq(Word), w # <<>>
  PROVE  b \o w # <<>> /\ Last(b \o w) = Last(w)
<1>1. /\ Len(b) \in Nat /\ Len(w) \in Nat /\ Len(w) >= 1 /\ Len(b \o w) = Len(b) + Len(w)
      /\ (b \o w)[Len(b) + Len(w)] = w[Len(w)]
  OBVIOUS
<1>2. b \o w # <<>>
  BY <1>1
<1>3. QED
  BY <1>1, <1>2 DEF Last

\* A line that ends with no continuation word finishes what is read.
LEMMA EndSettles ==
  ASSUME NEW p \in Reading, NEW line \in Line, Words(line) # <<>>,
         Last(Words(line)) \notin {"and", "if"} \cup EndsInAnd
  PROVE  Settled(ReadLine(p, line))
<1> DEFINE l == Words(line)
<1>0. l \in Seq(Word)
  BY LineWords
<1>1. CASE Continues(p, l)
  <2>1. PICK id \in Seq(Id) :
           LET r == [head |-> p.open[1].head, body |-> p.open[1].body \o l, id |-> id]
           IN  ReadLine(p, line) = [p EXCEPT !.open = <<r>>] /\ r \in Rule
    BY <1>1, ContinueShape
  <2>2. ReadLine(p, line).open[1].body = p.open[1].body \o l
    BY <2>1, SMTT(30) DEF Reading
  <2>3. p.open[1].body \in Seq(Word)
    BY <1>1 DEF Continues, Reading, Rule
  <2> HIDE DEF l
  <2>4. p.open[1].body \o l # <<>> /\ Last(p.open[1].body \o l) = Last(l)
    BY <1>0, <2>3, LastOfWords DEF l
  <2>5. QED
    BY <2>2, <2>4 DEF Settled, Wants, l
<1>2. CASE ~Continues(p, l)
  <2>2. CASE Starts(l, "?") \/ ~IsRule(l)
    <3>1. ReadLine(p, line).open = <<>>
      BY <1>2, <2>2, StartShape
    <3>2. QED
      BY <3>1 DEF Settled
  <2>3. CASE ~Starts(l, "?") /\ IsRule(l)
    <3> DEFINE k == FirstIf(l)
    <3>1. ReadLine(p, line).open[1].body = SubSeq(l, k + 1, Len(l))
      <4>1. ReadLine(p, line).open =
              <<[head |-> SubSeq(l, 1, k - 1), body |-> SubSeq(l, k + 1, Len(l)),
                 id |-> IdOn(line)]>>
        BY <1>2, <2>3, StartShape
      <4>2. QED
        BY <4>1
    <3>2. k \in 2..Len(l) /\ l[k] = "if"
      BY <1>0, <2>3, FirstIfIs
    <3>3. k # Len(l)
      BY <3>2 DEF Last
    <3>4. SubSeq(l, k + 1, Len(l)) # <<>> /\ Last(SubSeq(l, k + 1, Len(l))) = Last(l)
      <4> DEFINE body == SubSeq(l, k + 1, Len(l))
      <4> HIDE DEF k, l
      <4>1. /\ Len(l) \in Nat /\ k \in 2..(Len(l) - 1) /\ l \in Seq(Word)
        BY <1>0, <3>2, <3>3
      <4>2. body \in Seq(Word) /\ Len(body) = Len(l) - k /\ body[Len(l) - k] = l[Len(l)]
        BY <4>1
      <4> HIDE DEF body
      <4>3. body # <<>> /\ Last(body) = Last(l)
        BY <4>1, <4>2 DEF Last
      <4>4. QED
        BY <4>3 DEF body
    <3>5. QED
      BY <3>1, <3>4 DEF Settled, Wants
  <2>4. QED
    BY <2>2, <2>3
<1>3. QED
  BY <1>1, <1>2

\* A line that is no rule leaves what is settled settled, unless it opens with
\* "and".
LEMMA PlainLineSettles ==
  ASSUME NEW p \in Reading, Settled(p), NEW line \in Line, ~IsRule(line),
         ~Starts(line, "and")
  PROVE  Settled(ReadLine(p, line))
<1> DEFINE l == Words(line)
<1>1. CASE l = <<>>
  BY <1>1 DEF ReadLine
<1>2. CASE l # <<>>
  <2>1. ~Starts(l, "and")
    BY <1>2, LineWords DEF Starts, Line
  <2>2. ~IsRule(l)
    <3>1. \A i \in Ifs(l) : i \in Ifs(line)
      BY LineWords DEF Ifs, Line
    <3>2. QED
      BY <3>1 DEF IsRule
  <2>3. ~Continues(p, l)
    BY <2>1 DEF Continues, Settled
  <2>4. ReadLine(p, line).open = <<>>
    BY <1>2, <2>2, <2>3, StartShape
  <2>5. QED
    BY <2>4 DEF Settled
<1>3. QED
  BY <1>1, <1>2

----------------------------------------------------------------------------
(* What checks with more lines after it, checks without them.              *)

SplitAt(words, split, i) == words[i] = "and" /\ i > 1 /\ i < Len(words) /\ ~split[i - 1]

LEMMA SplitsExist ==
  ASSUME NEW words
  PROVE  \A n \in Nat : \E f : f = [i \in 1..n |-> SplitAt(words, f, i)]
<1> DEFINE Upto == {n \in Nat : \E f : f = [i \in 1..n |-> SplitAt(words, f, i)]}
<1>1. 0 \in Upto
  <2> DEFINE f == [i \in 1..0 |-> FALSE]
  <2>1. f = [i \in 1..0 |-> SplitAt(words, f, i)]
    OBVIOUS
  <2>2. QED
    BY <2>1
<1>2. ASSUME NEW n \in Nat, n \in Upto PROVE n + 1 \in Upto
  <2>1. PICK f : f = [i \in 1..n |-> SplitAt(words, f, i)]
    BY <1>2
  <2> DEFINE g == [i \in 1..(n + 1) |-> SplitAt(words, f, i)]
  <2>2. \A i \in 1..n : g[i] = f[i]
    <3> TAKE i \in 1..n
    <3>1. f[i] = SplitAt(words, f, i)
      BY <2>1
    <3>2. i \in 1..(n + 1)
      OBVIOUS
    <3>3. QED
      BY <3>1, <3>2
  <2>3. \A i \in 1..(n + 1) : SplitAt(words, f, i) = SplitAt(words, g, i)
    <3> TAKE i \in 1..(n + 1)
    <3>1. CASE i > 1
      <4>1. i - 1 \in 1..n
        BY <3>1
      <4>2. QED
        BY <2>2, <4>1 DEF SplitAt
    <3>2. CASE ~(i > 1)
      BY <3>2 DEF SplitAt
    <3>3. QED
      BY <3>1, <3>2
  <2>4. g = [i \in 1..(n + 1) |-> SplitAt(words, g, i)]
    BY <2>3
  <2>5. \E f1 : f1 = [i \in 1..(n + 1) |-> SplitAt(words, f1, i)]
    <3> HIDE DEF g
    <3> QED BY <2>4
  <2>6. QED
    BY <2>5
<1>3. QED
  <2> HIDE DEF Upto
  <2>1. \A n \in Nat : n \in Upto
    BY <1>1, <1>2, NatInd
  <2>2. QED
    BY <2>1 DEF Upto

LEMMA SplitsIs ==
  ASSUME NEW words \in Seq(Word)
  PROVE  /\ Splits(words) \subseteq 1..Len(words)
         /\ \A i \in 1..Len(words) :
              i \in Splits(words) <=>
                words[i] = "and" /\ i > 1 /\ i < Len(words) /\ i - 1 \notin Splits(words)
<1>0. DOMAIN words = 1..Len(words) /\ Len(words) \in Nat
  OBVIOUS
<1>1. PICK f : f = [i \in 1..Len(words) |-> SplitAt(words, f, i)]
  BY <1>0, SplitsExist
<1>2. f = [i \in DOMAIN words |-> words[i] = "and" /\ i > 1 /\ i < Len(words) /\ ~f[i - 1]]
  BY <1>0, <1>1 DEF SplitAt
<1>3. PICK g : /\ g = [i \in DOMAIN words |->
                         words[i] = "and" /\ i > 1 /\ i < Len(words) /\ ~g[i - 1]]
               /\ Splits(words) = {i \in DOMAIN words : g[i]}
  BY <1>2 DEF Splits
<1>4. ASSUME NEW i \in 1..Len(words)
      PROVE  i \in Splits(words) <=>
               words[i] = "and" /\ i > 1 /\ i < Len(words) /\ i - 1 \notin Splits(words)
  <2>1. g[i] <=> words[i] = "and" /\ i > 1 /\ i < Len(words) /\ ~g[i - 1]
    BY <1>0, <1>3
  <2>2. i > 1 => i - 1 \in DOMAIN words
    BY <1>0
  <2>3. QED
    BY <1>0, <1>3, <2>1, <2>2
<1>5. QED
  BY <1>0, <1>3, <1>4

\* A body is split as its beginning is, unless that one ends with "and".
LEMMA SplitsOfPrefix ==
  ASSUME NEW b \in Seq(Word), NEW more \in Seq(Word), b # <<>>, Last(b) # "and"
  PROVE  \A i \in 1..Len(b) : i \in Splits(b) <=> i \in Splits(b \o more)
<1> DEFINE w == b \o more
           n == Len(b)
<1>1. /\ w \in Seq(Word) /\ n \in Nat \ {0} /\ Len(w) \in Nat /\ n <= Len(w)
      /\ \A i \in 1..n : w[i] = b[i] /\ i \in 1..Len(w)
      /\ b[n] # "and"
  <2>1. b[n] # "and" /\ n # 0
    BY DEF Last
  <2>2. QED
    BY <2>1
<1> HIDE DEF w
<1> DEFINE Same == {i \in Nat : i \in 1..n => (i \in Splits(b) <=> i \in Splits(w))}
<1>2. 0 \in Same
  OBVIOUS
<1>3. ASSUME NEW i \in Nat, i \in Same PROVE i + 1 \in Same
  <2> SUFFICES ASSUME i + 1 \in 1..n PROVE i + 1 \in Splits(b) <=> i + 1 \in Splits(w)
    OBVIOUS
  <2>1. i + 1 \in Splits(b) <=>
          b[i + 1] = "and" /\ i + 1 > 1 /\ i + 1 < n /\ i \notin Splits(b)
    <3>1. (i + 1) - 1 = i
      OBVIOUS
    <3>2. QED
      BY <3>1, SplitsIs
  <2>2. i + 1 \in Splits(w) <=>
          w[i + 1] = "and" /\ i + 1 > 1 /\ i + 1 < Len(w) /\ i \notin Splits(w)
    <3>1. (i + 1) - 1 = i /\ i + 1 \in 1..Len(w)
      BY <1>1
    <3>2. QED
      BY <1>1, <3>1, SplitsIs
  <2>3. CASE i + 1 = n
    BY <1>1, <2>1, <2>2, <2>3
  <2>4. CASE i + 1 < n
    <3>1. i + 1 < Len(w) /\ w[i + 1] = b[i + 1]
      BY <1>1, <2>4
    <3>2. i + 1 > 1 => (i \in Splits(b) <=> i \in Splits(w))
      BY <1>3, <2>4
    <3>3. QED
      BY <2>1, <2>2, <2>4, <3>1, <3>2
  <2>5. QED
    BY <1>1, <2>3, <2>4
<1>4. \A i \in Nat : i \in Same
  <2> HIDE DEF Same
  <2> QED BY <1>2, <1>3, NatInd
<1>5. QED
  BY <1>1, <1>4 DEF w

LEMMA BodyOfPrefix ==
  ASSUME NEW b \in Seq(Word), NEW more \in Seq(Word), b # <<>>, Last(b) # "and",
         IsBody(b \o more)
  PROVE  IsBody(b)
<1> DEFINE w == b \o more
           n == Len(b)
<1>1. /\ n \in Nat \ {0} /\ Len(w) \in Nat /\ n <= Len(w) /\ DOMAIN b = 1..n
      /\ DOMAIN w = 1..Len(w) /\ \A i \in 1..n : w[i] = b[i]
  <2>1. n # 0
    OBVIOUS
  <2>2. w \in Seq(Word)
    OBVIOUS
  <2>3. QED
    BY <2>1, <2>2
<1>2. \A i \in 1..n : i \in Splits(b) <=> i \in Splits(w)
  BY SplitsOfPrefix
<1>3. /\ \A i \in DOMAIN w : w[i] \in Atoms
      /\ \A i \in 1..(Len(w) - 1) :
           \/ i \in Splits(w) \/ i + 1 \in Splits(w)
           \/ w[i] = "and" /\ i - 1 \in Splits(w)
  BY DEF IsBody
<1>4. Splits(w) \subseteq 1..Len(w)
  <2>1. w \in Seq(Word)
    OBVIOUS
  <2> HIDE DEF w
  <2>2. QED
    BY <2>1, SplitsIs
<1> HIDE DEF w
<1>5. \A i \in DOMAIN b : b[i] \in Atoms
  BY <1>1, <1>3
<1>6. ASSUME NEW i \in 1..(n - 1)
      PROVE  \/ i \in Splits(b) \/ i + 1 \in Splits(b)
             \/ b[i] = "and" /\ i - 1 \in Splits(b)
  <2>1. /\ i \in 1..(Len(w) - 1) /\ i \in 1..n /\ i + 1 \in 1..n
        /\ i - 1 \in 1..Len(w) => i - 1 \in 1..n
    BY <1>1
  <2>2. \/ i \in Splits(w) \/ i + 1 \in Splits(w)
        \/ w[i] = "and" /\ i - 1 \in Splits(w)
    BY <1>3, <2>1
  <2>3. QED
    BY <1>1, <1>2, <1>4, <2>1, <2>2
<1>7. QED
  BY <1>5, <1>6 DEF IsBody

\* Lines without a query, and what they make of the statements of p: those that
\* are finished stay, and the body of the one being read may only grow.
Plain == {l \in Line : ~Starts(l, "?")}

Prolongs(r, s) == s.head = r.head /\ \E more \in Seq(Word) : s.body = r.body \o more

Extends(p, q) ==
  /\ p.bad => q.bad
  /\ q.query = p.query
  /\ Len(p.facts) <= Len(q.facts) /\ \A i \in 1..Len(p.facts) : q.facts[i] = p.facts[i]
  /\ Len(p.rules) <= Len(q.rules) /\ \A i \in 1..Len(p.rules) : q.rules[i] = p.rules[i]
  /\ p.open # <<>> =>
       \/ q.open # <<>> /\ Len(q.rules) = Len(p.rules) /\ Prolongs(p.open[1], q.open[1])
       \/ Len(p.rules) < Len(q.rules) /\ Prolongs(p.open[1], q.rules[Len(p.rules) + 1])

LEMMA ProlongsItself ==
  ASSUME NEW r \in Rule
  PROVE  Prolongs(r, r)
<1>1. r.body = r.body \o <<>> /\ <<>> \in Seq(Word)
  BY DEF Rule
<1>2. QED
  BY <1>1 DEF Prolongs

LEMMA ExtendsItself ==
  ASSUME NEW p \in Reading
  PROVE  Extends(p, p)
<1>1. p.open # <<>> => p.open[1] \in Rule
  BY DEF Reading
<1>2. Len(p.facts) \in Nat /\ Len(p.rules) \in Nat
  BY DEF Reading
<1>3. QED
  BY <1>1, <1>2, ProlongsItself DEF Extends

\* A rule that is closed is one statement more.
LEMMA ClosingExtends ==
  ASSUME NEW p \in Reading, NEW q \in Reading, Extends(p, q)
  PROVE  Extends(p, Close(q))
<1>1. /\ Close(q).facts = q.facts /\ Close(q).query = q.query /\ Close(q).bad = q.bad
      /\ q.open = <<>> => Close(q).rules = q.rules
      /\ q.open # <<>> => Close(q).rules = Append(q.rules, q.open[1])
  BY CloseTyped
<1>2. CASE q.open = <<>>
  BY <1>1, <1>2 DEF Extends
<1>3. CASE q.open # <<>>
  <2> DEFINE n == Len(q.rules)
             rules == Append(q.rules, q.open[1])
  <2>1. /\ n \in Nat /\ Len(p.rules) \in Nat /\ Len(rules) = n + 1
        /\ rules[n + 1] = q.open[1] /\ \A i \in 1..n : rules[i] = q.rules[i]
    BY DEF Reading
  <2> HIDE DEF n, rules
  <2>2. Close(q).rules = rules /\ Len(p.rules) <= n
        /\ \A i \in 1..Len(p.rules) : q.rules[i] = p.rules[i]
    BY <1>1, <1>3 DEF Extends, n, rules
  <2>3. Len(p.rules) <= Len(rules) /\ \A i \in 1..Len(p.rules) : rules[i] = p.rules[i]
    BY <2>1, <2>2
  <2>4. p.open # <<>> =>
          Len(p.rules) < Len(rules) /\ Prolongs(p.open[1], rules[Len(p.rules) + 1])
    <3> SUFFICES ASSUME p.open # <<>>
                 PROVE  Len(p.rules) < Len(rules)
                        /\ Prolongs(p.open[1], rules[Len(p.rules) + 1])
      OBVIOUS
    <3>1. CASE n = Len(p.rules) /\ Prolongs(p.open[1], q.open[1])
      BY <2>1, <3>1
    <3>2. CASE Len(p.rules) < n /\ Prolongs(p.open[1], q.rules[Len(p.rules) + 1])
      <4>1. Len(p.rules) + 1 \in 1..n
        BY <2>1, <3>2
      <4>2. QED
        BY <2>1, <3>2, <4>1
    <3>3. QED
      BY <3>1, <3>2 DEF Extends, n
  <2>5. QED
    BY <1>1, <2>2, <2>3, <2>4 DEF Extends
<1>4. QED
  BY <1>2, <1>3

LEMMA ReadLineExtends ==
  ASSUME NEW p \in Reading, NEW q \in Reading, Extends(p, q), NEW line \in Plain
  PROVE  Extends(p, ReadLine(q, line))
<1>0. line \in Line /\ ~Starts(Words(line), "?")
  BY LineWords DEF Plain, Starts, Line
<1>1. CASE Words(line) = <<>>
  BY <1>1 DEF ReadLine
<1>2. CASE Words(line) # <<>> /\ Continues(q, Words(line))
  <2> DEFINE w == Words(line)
  <2>1. PICK id \in Seq(Id) :
           LET r == [head |-> q.open[1].head, body |-> q.open[1].body \o w, id |-> id]
           IN  ReadLine(q, line) = [q EXCEPT !.open = <<r>>] /\ r \in Rule
    BY <1>0, <1>2, ContinueShape
  <2> DEFINE r == [head |-> q.open[1].head, body |-> q.open[1].body \o w, id |-> id]
  <2>2. /\ ReadLine(q, line).facts = q.facts /\ ReadLine(q, line).rules = q.rules
        /\ ReadLine(q, line).query = q.query /\ ReadLine(q, line).bad = q.bad
        /\ ReadLine(q, line).open = <<r>>
    BY <2>1 DEF Reading
  <2>3. q.open # <<>> /\ q.open[1] \in Rule /\ w \in Seq(Word)
    BY <1>0, <1>2, LineWords DEF Continues, Reading
  <2>4. \A s \in Rule : Prolongs(s, q.open[1]) => Prolongs(s, r)
    <3> TAKE s \in Rule
    <3> HAVE Prolongs(s, q.open[1])
    <3>1. PICK more \in Seq(Word) : q.open[1].body = s.body \o more
      BY DEF Prolongs
    <3>2. more \o w \in Seq(Word) /\ s.body \in Seq(Word)
      BY <2>3 DEF Rule
    <3> HIDE DEF w
    <3>3. (s.body \o more) \o w = s.body \o (more \o w)
      <4>1. \A a, b, d \in Seq(Word) : (a \o b) \o d = a \o (b \o d)
        OBVIOUS
      <4>2. QED
        BY <2>3, <3>2, <4>1
    <3>4. QED
      BY <3>1, <3>2, <3>3 DEF Prolongs
  <2> HIDE DEF r
  <2>5. p.open # <<>> => p.open[1] \in Rule
    BY DEF Reading
  <2>6. <<r>> # <<>> /\ <<r>>[1] = r
    OBVIOUS
  <2>7. QED
    BY <2>2, <2>4, <2>5, <2>6 DEF Extends
<1>3. CASE Words(line) # <<>> /\ ~Continues(q, Words(line))
  <2> DEFINE c == Close(q)
             s == ReadLine(q, line)
  <2>1. /\ s.rules = c.rules /\ (q.bad => s.bad) /\ s.query = q.query
        /\ s.facts \in {q.facts, Append(q.facts, Words(line))}
    BY <1>0, <1>3, StartShape
  <2>2. Extends(p, c) /\ c.open = <<>>
    BY ClosingExtends, CloseTyped
  <2>3. Len(p.facts) <= Len(s.facts) /\ \A i \in 1..Len(p.facts) : s.facts[i] = p.facts[i]
    <3>1. Len(p.facts) <= Len(q.facts) /\ \A i \in 1..Len(p.facts) : q.facts[i] = p.facts[i]
      BY DEF Extends
    <3>2. Len(p.facts) \in Nat /\ Len(q.facts) \in Nat
      BY DEF Reading
    <3>3. \A e : Len(Append(q.facts, e)) = Len(q.facts) + 1
                 /\ \A i \in 1..Len(q.facts) : Append(q.facts, e)[i] = q.facts[i]
      BY DEF Reading
    <3>4. QED
      BY <2>1, <3>1, <3>2, <3>3, SMTT(30)
  <2> HIDE DEF c, s
  <2>4. QED
    BY <2>1, <2>2, <2>3 DEF Extends, s
<1>4. QED
  BY <1>1, <1>2, <1>3

LEMMA ReadExtends ==
  ASSUME NEW text \in Texts, NEW added \in Seq(Plain)
  PROVE  Extends(Read(text), Read(text \o added))
<1> DEFINE S == {a \in Texts : a \in Seq(Plain) => Extends(Read(text), Read(text \o a))}
<1>1. <<>> \in S
  <2>1. text \o <<>> = text /\ <<>> \in Texts
    BY DEF Texts
  <2>2. QED
    BY <2>1, ReadTyped, ExtendsItself
<1>2. ASSUME NEW a \in Texts, NEW l \in Line, a \in S PROVE Append(a, l) \in S
  <2> SUFFICES ASSUME Append(a, l) \in Seq(Plain)
               PROVE  Extends(Read(text), Read(text \o Append(a, l)))
    BY DEF Texts
  <2>1. a \in Seq(Plain) /\ l \in Plain
    <3>1. /\ Append(a, l)[Len(a) + 1] = l /\ Len(Append(a, l)) = Len(a) + 1 /\ Len(a) \in Nat
          /\ \A i \in 1..Len(a) : Append(a, l)[i] = a[i]
      BY DEF Texts
    <3>2. \A i \in 1..(Len(a) + 1) : Append(a, l)[i] \in Plain
      BY <3>1
    <3>3. l \in Plain /\ \A i \in 1..Len(a) : a[i] \in Plain
      BY <3>1, <3>2
    <3>4. a = [i \in 1..Len(a) |-> a[i]]
      BY DEF Texts
    <3>5. QED
      BY <3>1, <3>3, <3>4
  <2>2. text \o Append(a, l) = Append(text \o a, l) /\ text \o a \in Texts
    BY DEF Texts
  <2>3. Read(text \o Append(a, l)) = ReadLine(Read(text \o a), l)
    BY <2>2, ReadAppend DEF Texts
  <2>4. Extends(Read(text), Read(text \o a))
    BY <1>2, <2>1
  <2>5. QED
    BY <2>1, <2>2, <2>3, <2>4, ReadTyped, ReadLineExtends
<1>3. Texts \subseteq S
  <2> HIDE DEF S
  <2> QED BY <1>1, <1>2, TextInd
<1>4. added \in Texts
  BY DEF Texts, Plain
<1>5. QED
  BY <1>3, <1>4

\* The statements of a text that more lines follow.
LEMMA StatementsOfPrefix ==
  ASSUME NEW text \in Texts, NEW added \in Seq(Plain), Finished(text)
  PROVE  LET p == Parse(text)
             q == Parse(text \o added)
         IN  /\ p \in Reading /\ q \in Reading /\ (p.bad => q.bad) /\ q.query = p.query
             /\ \A i \in DOMAIN p.facts : i \in DOMAIN q.facts /\ q.facts[i] = p.facts[i]
             /\ \A i \in DOMAIN p.rules :
                  /\ i \in DOMAIN q.rules /\ q.rules[i].head = p.rules[i].head
                  /\ \/ q.rules[i].body = p.rules[i].body
                     \/ /\ p.rules[i].body # <<>> /\ Last(p.rules[i].body) # "and"
                        /\ \E more \in Seq(Word) : q.rules[i].body = p.rules[i].body \o more
<1> DEFINE p == Read(text)
           q == Read(text \o added)
           c == Close(p)
           d == Close(q)
<1>1. text \o added \in Texts
  BY DEF Texts, Plain
<1>2. p \in Reading /\ q \in Reading /\ Extends(p, q)
  BY <1>1, ReadTyped, ReadExtends
<1>3. Settled(p)
  BY DEF Finished
<1> HIDE DEF p, q
<1>4. Extends(p, d)
  BY <1>2, ClosingExtends
<1>5. /\ c \in Reading /\ d \in Reading /\ d.open = <<>>
      /\ c.facts = p.facts /\ c.query = p.query /\ c.bad = p.bad
      /\ p.open = <<>> => c.rules = p.rules
      /\ p.open # <<>> => c.rules = Append(p.rules, p.open[1])
  BY <1>2, CloseTyped
<1> HIDE DEF c, d
<1>6. /\ Len(p.rules) \in Nat /\ DOMAIN p.rules = 1..Len(p.rules)
      /\ Len(d.rules) \in Nat /\ DOMAIN d.rules = 1..Len(d.rules)
      /\ Len(p.facts) \in Nat /\ DOMAIN p.facts = 1..Len(p.facts)
      /\ Len(d.facts) \in Nat /\ DOMAIN d.facts = 1..Len(d.facts)
  BY <1>2, <1>5 DEF Reading
<1>7. \A i \in DOMAIN c.facts : i \in DOMAIN d.facts /\ d.facts[i] = c.facts[i]
  BY <1>4, <1>5, <1>6 DEF Extends
<1>8. \A i \in 1..Len(p.rules) : i \in DOMAIN d.rules /\ d.rules[i] = p.rules[i]
  BY <1>4, <1>6 DEF Extends
<1>9. ASSUME NEW i \in DOMAIN c.rules
      PROVE  /\ i \in DOMAIN d.rules /\ d.rules[i].head = c.rules[i].head
             /\ \/ d.rules[i].body = c.rules[i].body
                \/ /\ c.rules[i].body # <<>> /\ Last(c.rules[i].body) # "and"
                   /\ \E more \in Seq(Word) : d.rules[i].body = c.rules[i].body \o more
  <2>1. CASE p.open = <<>>
    BY <1>5, <1>6, <1>8, <2>1
  <2>2. CASE p.open # <<>>
    <3> DEFINE n == Len(p.rules)
    <3>1. /\ DOMAIN c.rules = 1..(n + 1) /\ c.rules[n + 1] = p.open[1]
          /\ \A k \in 1..n : c.rules[k] = p.rules[k]
      <4>1. p.rules \in Seq(Rule)
        BY <1>2 DEF Reading
      <4>2. c.rules = Append(p.rules, p.open[1])
        BY <1>5, <2>2
      <4>3. \A r, e : r \in Seq(Rule) =>
              /\ DOMAIN Append(r, e) = 1..(Len(r) + 1) /\ Append(r, e)[Len(r) + 1] = e
              /\ \A k \in 1..Len(r) : Append(r, e)[k] = r[k]
        OBVIOUS
      <4>4. QED
        BY <4>1, <4>2, <4>3
    <3>2. n < Len(d.rules) /\ Prolongs(p.open[1], d.rules[n + 1])
      BY <1>4, <1>5, <2>2 DEF Extends
    <3>3. p.open[1].body # <<>> /\ Last(p.open[1].body) # "and"
      BY <1>3, <2>2 DEF Settled, Wants
    <3>4. CASE i \in 1..n
      BY <1>8, <3>1, <3>4
    <3>5. CASE i = n + 1
      <4>1. i \in DOMAIN d.rules
        BY <1>6, <3>2, <3>5
      <4>2. QED
        BY <3>1, <3>2, <3>3, <3>5, <4>1 DEF Prolongs
    <3>6. i \in 1..n \/ i = n + 1
      <4> HIDE DEF n
      <4>1. n \in Nat /\ i \in 1..(n + 1)
        BY <1>6, <3>1 DEF n
      <4>2. QED
        BY <4>1
    <3>7. QED
      BY <3>4, <3>5, <3>6
  <2>3. QED
    BY <2>1, <2>2
<1>10. (c.bad => d.bad) /\ d.query = c.query
  BY <1>4, <1>5 DEF Extends
<1>11. QED
  BY <1>5, <1>7, <1>9, <1>10 DEF Parse, c, d, p, q

\* A text whose last rule is finished checks if it does with more lines after it.
LEMMA PrefixChecks ==
  ASSUME NEW text \in Texts, NEW added \in Seq(Plain), Finished(text),
         Accepts(text \o added)
  PROVE  Accepts(text)
<1> DEFINE p == Parse(text)
           q == Parse(text \o added)
           longer == text \o added
<1>1. /\ p \in Reading /\ q \in Reading /\ (p.bad => q.bad) /\ q.query = p.query
      /\ \A i \in DOMAIN p.facts : i \in DOMAIN q.facts /\ q.facts[i] = p.facts[i]
      /\ \A i \in DOMAIN p.rules :
           /\ i \in DOMAIN q.rules /\ q.rules[i].head = p.rules[i].head
           /\ \/ q.rules[i].body = p.rules[i].body
              \/ /\ p.rules[i].body # <<>> /\ Last(p.rules[i].body) # "and"
                 /\ \E more \in Seq(Word) : q.rules[i].body = p.rules[i].body \o more
  BY StatementsOfPrefix
<1>2. ~ParseRaises(longer) /\ Parseable(q)
  BY DEF Accepts, Valid
<1>3. \A i \in DOMAIN text : i \in DOMAIN longer /\ longer[i] = text[i]
  BY DEF Texts, Plain
<1>4. ~ParseRaises(text)
  <2>1. \A i \in DOMAIN text : ToSet(text[i]) \cap Dangerous = {}
    <3>1. \A i \in DOMAIN longer : ToSet(longer[i]) \cap Dangerous = {}
      BY <1>2 DEF ParseRaises
    <3> HIDE DEF longer
    <3>2. QED
      BY <1>3, <3>1
  <2>2. /\ ~q.bad
        /\ \A s \in ToSet(q.facts) \cup {q.rules[i].head : i \in DOMAIN q.rules} :
             ~(Len(s) = 1 /\ s[1] \in Literal)
    BY <1>2 DEF ParseRaises
  <2> HIDE DEF p, q
  <2>3. ToSet(p.facts) \subseteq ToSet(q.facts)
    BY <1>1 DEF ToSet
  <2>4. {p.rules[i].head : i \in DOMAIN p.rules} \subseteq {q.rules[i].head : i \in DOMAIN q.rules}
    BY <1>1
  <2>5. QED
    BY <1>1, <2>1, <2>2, <2>3, <2>4 DEF ParseRaises, p
<1>5. Parseable(p)
  <2> HIDE DEF p, q, longer
  <2>1. \A i \in DOMAIN p.facts : IsTerm(p.facts[i])
    BY <1>1, <1>2 DEF Parseable
  <2>2. ASSUME NEW i \in DOMAIN p.rules
        PROVE  IsTerm(p.rules[i].head) /\ (p.rules[i].body = <<>> \/ IsBody(p.rules[i].body))
    <3>1. /\ i \in DOMAIN q.rules /\ IsTerm(q.rules[i].head)
          /\ q.rules[i].body = <<>> \/ IsBody(q.rules[i].body)
      BY <1>1, <1>2, <2>2 DEF Parseable
    <3>2. IsTerm(p.rules[i].head)
      BY <1>1, <2>2, <3>1
    <3>3. CASE q.rules[i].body = p.rules[i].body
      BY <3>1, <3>2, <3>3
    <3>4. CASE /\ p.rules[i].body # <<>> /\ Last(p.rules[i].body) # "and"
               /\ \E more \in Seq(Word) : q.rules[i].body = p.rules[i].body \o more
      <4>1. PICK more \in Seq(Word) : q.rules[i].body = p.rules[i].body \o more
        BY <3>4
      <4>2. p.rules[i].body \in Seq(Word)
        <5>1. p.rules \in Seq(Rule)
          BY <1>1 DEF Reading
        <5>2. p.rules[i] \in Rule
          BY <2>2, <5>1
        <5>3. QED
          BY <5>2 DEF Rule
      <4>3. q.rules[i].body # <<>>
        BY <3>4, <4>1, <4>2
      <4>4. IsBody(p.rules[i].body \o more)
        BY <3>1, <4>1, <4>3
      <4>5. QED
        BY <3>2, <3>4, <4>2, <4>4, BodyOfPrefix
    <3>5. QED
      BY <1>1, <2>2, <3>3, <3>4
  <2>3. p.query = <<>> \/ IsConjunction(p.query)
    BY <1>1, <1>2 DEF Parseable
  <2>4. QED
    BY <2>1, <2>2, <2>3 DEF Parseable
<1>6. QED
  BY <1>4, <1>5 DEF Accepts, Valid

----------------------------------------------------------------------------
(* Pasting.  As long as no statement is cut in two, the session KB and the *)
(* lines held are all that was typed, until a flush is refused; no text    *)
(* that begins with what was typed by then checks.                         *)

Doomed == \A more \in Seq(Plain) : ~Accepts(typed \o more)

Together ==
  /\ rejected = <<>> /\ typed = lines \o pending /\ Finished(lines)
  /\ pending # <<>> => Words(Last(pending)) # <<>>

PasteInv ==
  /\ PasteSafe /\ (phase = "start" => ~cut)
  /\ phase # "ended" /\ ~cut => Doomed \/ Together

LEMMA DoomedStays ==
  ASSUME typed \in Texts, Doomed, NEW l \in Plain
  PROVE  \A more \in Seq(Plain) : ~Accepts(Append(typed, l) \o more)
<1> TAKE more \in Seq(Plain)
<1>1. <<l>> \o more \in Seq(Plain) /\ Append(typed, l) \o more = typed \o (<<l>> \o more)
  <2>1. typed \in Seq(Line) /\ <<l>> \in Seq(Line) /\ more \in Seq(Line)
    BY DEF Texts, Plain
  <2>2. \A a, b, c \in Seq(Line) : (a \o b) \o c = a \o (b \o c)
    OBVIOUS
  <2>3. Append(typed, l) = typed \o <<l>>
    BY <2>1
  <2>4. QED
    BY <2>1, <2>2, <2>3
<1>2. QED
  BY <1>1 DEF Doomed

LEMMA RefusedIsDoomed ==
  ASSUME NEW text \in Texts, Finished(text), ~Accepts(text)
  PROVE  \A more \in Seq(Plain) : ~Accepts(text \o more)
BY PrefixChecks

LEMMA NoMoreLines ==
  ASSUME typed \in Texts, Doomed
  PROVE  ~Accepts(typed)
<1>1. typed \o <<>> = typed /\ <<>> \in Seq(Plain)
  BY DEF Texts
<1>2. QED
  BY <1>1 DEF Doomed

\* What is held is flushed once it is finished: it joins the session KB, or
\* what was typed does not check.
LEMMA FlushTogether ==
  ASSUME TypeOK, Together, ~HeldOpen
  PROVE  /\ Finished(typed) /\ typed \in Texts
         /\ FlushPending = [lines |-> typed, rejected |-> <<>>] \/ ~Accepts(typed)
<1>1. lines \in Texts /\ pending \in Texts /\ typed \in Texts
  BY DEF TypeOK, Texts
<1>2. CASE pending = <<>>
  <2>1. typed = lines
    BY <1>1, <1>2 DEF Together, Texts
  <2>2. QED
    BY <1>1, <1>2, <2>1 DEF Together, FlushPending, Session
<1>3. CASE pending # <<>>
  <2> DEFINE front == SubSeq(pending, 1, Len(pending) - 1)
             line == Last(pending)
  <2>1. /\ front \in Texts /\ line \in Line /\ pending = Append(front, line)
    BY <1>1, <1>3 DEF Texts, Last
  <2> HIDE DEF front, line
  <2>2. lines \o pending = Append(lines \o front, line) /\ lines \o front \in Texts
    BY <1>1, <2>1 DEF Texts
  <2>3. Read(typed) = ReadLine(Read(lines \o front), line)
    BY <2>1, <2>2, ReadAppend DEF Together, Texts
  <2>4. Words(line) # <<>> /\ Last(Words(line)) \notin {"and", "if"} \cup EndsInAnd
    BY <1>3 DEF Together, HeldOpen, line
  <2>5. Finished(typed)
    BY <2>1, <2>2, <2>3, <2>4, ReadTyped, EndSettles DEF Finished
  <2>6. Accepts(typed) => FlushPending = [lines |-> typed, rejected |-> <<>>]
    BY <1>3 DEF Together, FlushPending, Flush, Session
  <2>7. QED
    BY <1>1, <2>5, <2>6
<1>4. QED
  BY <1>2, <1>3

\* What a line or a command that cuts no statement leaves behind.
Settles(text) ==
  \/ \A more \in Seq(Plain) : ~Accepts(text \o more)
  \/ lines' = text /\ rejected' = <<>> /\ Finished(text)

LEMMA FlushSettles ==
  ASSUME TypeOK, Doomed \/ Together, ~HeldOpen, Become(FlushPending)
  PROVE  Settles(typed)
<1>1. CASE Doomed
  BY <1>1 DEF Doomed, Settles
<1>2. CASE Together
  BY <1>2, FlushTogether, RefusedIsDoomed DEF Settles, Become
<1>3. QED
  BY <1>1, <1>2

LEMMA AddLineSettles ==
  ASSUME TypeOK, Doomed \/ Together, NEW l \in TypedLines, AddLine(l)
  PROVE  Settles(Append(typed, l))
<1>1. l \in Plain /\ l \in Line
  BY ReplAssumption DEF Plain
<1>2. ~HeldOpen /\ ~Starts(l, "and") /\ ~IsRule(l) /\ Become(Flush(FlushPending, <<l>>))
  BY DEF AddLine, JoinsHeld
<1>3. typed \in Texts /\ Append(typed, l) \in Texts
  BY <1>1 DEF TypeOK, Texts
<1>4. CASE Doomed
  BY <1>1, <1>3, <1>4, DoomedStays DEF Settles
<1>5. CASE Together
  <2>1. Finished(typed) /\ (FlushPending = [lines |-> typed, rejected |-> <<>>] \/ ~Accepts(typed))
    BY <1>2, <1>5, FlushTogether
  <2>2. CASE ~Accepts(typed)
    <3>1. Doomed
      BY <1>3, <2>1, <2>2, RefusedIsDoomed DEF Doomed
    <3>2. QED
      BY <1>1, <1>3, <3>1, DoomedStays DEF Settles
  <2>3. CASE FlushPending = [lines |-> typed, rejected |-> <<>>]
    <3>1. Append(typed, l) = typed \o <<l>>
      BY <1>1, <1>3 DEF Texts
    <3>2. Read(Append(typed, l)) = ReadLine(Read(typed), l)
      BY <1>1, <1>3, ReadAppend DEF Texts
    <3>3. Finished(Append(typed, l))
      BY <1>1, <1>2, <1>3, <2>1, <3>2, ReadTyped, PlainLineSettles DEF Finished
    <3>4. CASE Accepts(Append(typed, l))
      BY <1>2, <2>3, <3>1, <3>3, <3>4 DEF Flush, Become, Settles
    <3>5. CASE ~Accepts(Append(typed, l))
      BY <1>3, <3>3, <3>5, RefusedIsDoomed DEF Settles
    <3>6. QED
      BY <3>4, <3>5
  <2>4. QED
    BY <2>1, <2>2, <2>3
<1>6. QED
  BY <1>4, <1>5

\* What was typed is now text; nothing is held.
LEMMA SettledIsTogether ==
  ASSUME NEW text \in Texts, Settles(text), typed' = text, pending' = <<>>
  PROVE  (Doomed \/ Together)' /\ PasteSafe'
<1>1. CASE \A more \in Seq(Plain) : ~Accepts(text \o more)
  <2>1. text \o <<>> = text /\ <<>> \in Seq(Plain)
    BY DEF Texts
  <2>2. ~Accepts(text)
    BY <1>1, <2>1
  <2>3. QED
    BY <1>1, <2>2 DEF Doomed, PasteSafe
<1>2. CASE lines' = text /\ rejected' = <<>> /\ Finished(text)
  <2>1. text \o <<>> = text
    BY DEF Texts
  <2>2. QED
    BY <1>2, <2>1 DEF Together, PasteSafe
<1>3. QED
  BY <1>1, <1>2 DEF Settles

LEMMA NothingTyped == Finished(<<>>) /\ <<>> \o <<>> = <<>>
<1>1. Finished(<<>>)
  BY ReadEmpty DEF Finished, Settled, Nothing
<1>2. <<>> \o <<>> = <<>>
  OBVIOUS
<1>3. QED
  BY <1>1, <1>2

\* An input that cuts no statement.
LEMMA InputPastes ==
  ASSUME TypeOK, Doomed \/ Together, ~cut', Edit \/ (\E q \in Queries : Query(q))
  PROVE  (Doomed \/ Together)' /\ PasteSafe'
<1>0. typed \in Texts /\ lines \in Texts /\ pending \in Texts
  BY DEF TypeOK, Texts
<1>1. ASSUME NEW l \in TypedLines, HoldMore(l) PROVE (Doomed \/ Together)' /\ PasteSafe'
  <2>1. /\ l \in Plain /\ l \in Line /\ typed' = Append(typed, l) /\ pending' = Append(pending, l)
        /\ lines' = lines /\ rejected' = rejected /\ Words(l) # <<>>
    BY <1>1, ReplAssumption DEF HoldMore, Plain
  <2>2. CASE Doomed
    <3>1. Doomed'
      BY <1>0, <2>1, <2>2, DoomedStays DEF Doomed
    <3>2. typed' \o <<>> = typed' /\ <<>> \in Seq(Plain)
      BY <1>0, <2>1 DEF Texts
    <3>3. ~Accepts(typed')
      BY <3>1, <3>2 DEF Doomed
    <3>4. QED
      BY <3>1, <3>3 DEF PasteSafe
  <2>3. CASE Together
    <3>1. Append(lines \o pending, l) = lines \o Append(pending, l)
          /\ pending' # <<>> /\ Last(pending') = l
      <4>1. Append(lines \o pending, l) = lines \o Append(pending, l)
        <5>1. \A a, b \in Seq(Line), e \in Line : Append(a \o b, e) = a \o Append(b, e)
          OBVIOUS
        <5>2. QED
          BY <1>0, <2>1, <5>1 DEF Texts
      <4>2. Len(pending') = Len(pending) + 1 /\ pending'[Len(pending) + 1] = l
            /\ Len(pending) \in Nat
        BY <1>0, <2>1 DEF Texts
      <4>3. pending' # <<>>
        BY <4>2
      <4>4. QED
        BY <4>1, <4>2, <4>3 DEF Last
    <3>2. QED
      BY <2>1, <2>3, <3>1 DEF Together, PasteSafe
  <2>4. QED
    BY <2>2, <2>3
<1>2. ASSUME NEW l \in TypedLines, BeginRule(l) PROVE (Doomed \/ Together)' /\ PasteSafe'
  <2>1. /\ l \in Plain /\ l \in Line /\ typed' = Append(typed, l) /\ pending' = <<l>>
        /\ ~HeldOpen /\ IsRule(l) /\ Become(FlushPending)
    BY <1>2, ReplAssumption DEF BeginRule, JoinsHeld, Plain
  <2>2. CASE \A more \in Seq(Plain) : ~Accepts(typed \o more)
    <3>1. Doomed'
      BY <1>0, <2>1, <2>2, DoomedStays DEF Doomed
    <3>2. typed' \o <<>> = typed' /\ <<>> \in Seq(Plain)
      BY <1>0, <2>1 DEF Texts
    <3>3. ~Accepts(typed')
      BY <3>1, <3>2 DEF Doomed
    <3>4. QED
      BY <3>1, <3>3 DEF PasteSafe
  <2>3. CASE lines' = typed /\ rejected' = <<>> /\ Finished(typed)
    <3>1. Append(typed, l) = typed \o <<l>> /\ Last(<<l>>) = l
      BY <1>0, <2>1 DEF Texts, Last
    <3>2. Words(l) # <<>>
      <4>1. Len(l) >= 2 /\ l \in Seq(Word)
        BY <2>1 DEF IsRule, Ifs, Line
      <4>2. Front(l) # <<>>
        <5>1. Len(Front(l)) = Len(l) - 1 /\ Len(l) \in Nat
          BY <4>1 DEF Front
        <5>2. QED
          BY <4>1, <5>1
      <4>3. QED
        BY <4>1, <4>2 DEF Words
    <3>3. QED
      BY <2>1, <2>3, <3>1, <3>2 DEF Together, PasteSafe
  <2>4. QED
    BY <2>1, <2>2, <2>3, FlushSettles DEF Settles
<1>3. ASSUME NEW l \in TypedLines, AddLine(l) PROVE (Doomed \/ Together)' /\ PasteSafe'
  <2>1. l \in Line /\ typed' = Append(typed, l) /\ pending' = <<>>
    BY <1>3, ReplAssumption DEF AddLine
  <2>2. Append(typed, l) \in Texts
    BY <1>0, <2>1 DEF Texts
  <2>3. QED
    BY <1>3, <2>1, <2>2, AddLineSettles, SettledIsTogether
<1>4. CASE FlushOnly \/ (\E q \in Queries : Query(q))
  <2>1. Become(FlushPending) /\ pending' = <<>> /\ typed' = typed /\ ~HeldOpen
    BY <1>4 DEF FlushOnly, Query
  <2>2. QED
    BY <1>0, <2>1, FlushSettles, SettledIsTogether
<1>5. ~ \E f \in Files : Load(f)
  BY DEF Load
<1>6. QED
  BY <1>1, <1>2, <1>3, <1>4, <1>5 DEF Edit

LEMMA PasteStep ==
  ASSUME CliInv, PasteInv, [Next]_allVars
  PROVE  PasteInv'
<1>1. CASE \E o \in Commands : Refuse(o) \/ RunTool(o)
  <2>1. UNCHANGED vars /\ phase' = "ended"
    BY <1>1 DEF Refuse, RunTool, End
  <2>2. QED
    BY <2>1 DEF vars, PasteInv, PasteSafe
<1>2. CASE \E o \in Commands : StartShell(o)
  <2>1. /\ phase = "start" /\ phase' = "shell" /\ UNCHANGED <<pending, typed, rejected>>
        /\ cut' = (lines' # <<>>)
    BY <1>2 DEF StartShell
  <2>2. ~cut' => lines' = lines
    BY <2>1 DEF CliInv
  <2>3. QED
    BY <2>1, <2>2 DEF PasteInv, PasteSafe, Doomed, Together
<1>3. CASE Work \/ (\E q \in Queries : Ask(q))
  <2>1. phase = "shell" /\ phase' = "shell" /\ (Edit \/ (\E q \in Queries : Query(q)))
    BY <1>3 DEF Work, Ask
  <2>2. cut' \in BOOLEAN /\ (cut => cut')
    <3>1. cut \in BOOLEAN
      BY DEF CliInv, TypeOK
    <3>2. QED
      <4>1. \A l \in TypedLines : HoldMore(l) \/ BeginRule(l) \/ AddLine(l) =>
              cut' \in BOOLEAN /\ (cut => cut')
        <5>1. \A l : HoldMore(l) => cut' = (cut \/ Words(l) = <<>>)
          BY DEF HoldMore
        <5>2. \A l : BeginRule(l) \/ AddLine(l) => cut' = cut
          BY DEF BeginRule, AddLine
        <5>3. QED
          BY <3>1, <5>1, <5>2
      <4>2. FlushOnly \/ (\E f \in Files : Load(f)) \/ (\E q \in Queries : Query(q)) =>
              cut' \in BOOLEAN /\ (cut => cut')
        BY <3>1 DEF FlushOnly, Load, Query
      <4>3. QED
        BY <2>1, <4>1, <4>2 DEF Edit
  <2>3. CASE cut'
    BY <2>1, <2>3 DEF PasteInv, PasteSafe
  <2>4. CASE ~cut'
    BY <2>1, <2>2, <2>4, InputPastes DEF PasteInv, CliInv
  <2>5. QED
    BY <2>3, <2>4
<1>4. CASE Restart
  <2>1. /\ phase' = "shell" /\ lines' = <<>> /\ pending' = <<>> /\ typed' = <<>>
        /\ rejected' = <<>>
    BY <1>4 DEF Restart, Reset
  <2>2. QED
    BY <2>1, NothingTyped DEF PasteInv, PasteSafe, Together
<1>5. CASE Leave
  <2>1. /\ phase = "shell" /\ phase' = "ended" /\ Become(FlushPending) /\ UNCHANGED <<typed, cut>>
    BY <1>5 DEF Leave, Quit, End
  <2>2. typed \in Texts
    BY DEF CliInv, TypeOK, Texts
  <2>3. ASSUME ~cut, Accepts(typed) PROVE rejected' = <<>>
    <3>1. Together
      BY <2>1, <2>2, <2>3, NoMoreLines DEF PasteInv
    <3>2. QED
      BY <2>1, <2>3, <3>1 DEF Together, FlushPending, Flush, Session, Become
  <2>4. QED
    BY <2>1, <2>3 DEF PasteInv, PasteSafe
<1>6. CASE UNCHANGED allVars
  BY <1>6 DEF allVars, vars, PasteInv, PasteSafe, Doomed, Together
<1>7. QED
  BY <1>1, <1>2, <1>3, <1>4, <1>5, <1>6 DEF Next

\* A text pasted into the shell line by line loses no statement, when it checks
\* as a whole and no statement of it is cut in two.
THEOREM PastingLosesNothing == Spec => []PasteSafe
<1>1. Init => PasteInv
  BY NothingTyped DEF Init, FreshSession, PasteInv, PasteSafe, Together
<1>2. CliInv /\ PasteInv /\ [Next]_allVars => PasteInv'
  BY PasteStep
<1>3. PasteInv => PasteSafe
  BY DEF PasteInv
<1>4. QED
  BY <1>1, <1>2, <1>3, CliInvariant, PTL DEF Spec

----------------------------------------------------------------------------
(* Grouping.  The statements the documentation finds in a text, and what   *)
(* one more line does to them.                                             *)

JoinUpto(text, f, i) == IF i = 0 THEN <<>> ELSE JoinLine(f[i - 1], Words(text[i]))

LEMMA JoinsExist ==
  ASSUME NEW text
  PROVE  \A n \in Nat : \E f : f = [i \in 0..n |-> JoinUpto(text, f, i)]
<1> DEFINE Upto == {n \in Nat : \E f : f = [i \in 0..n |-> JoinUpto(text, f, i)]}
<1>1. 0 \in Upto
  <2> DEFINE f == [i \in 0..0 |-> <<>>]
  <2>1. f = [i \in 0..0 |-> JoinUpto(text, f, i)]
    BY DEF JoinUpto
  <2>2. QED
    BY <2>1
<1>2. ASSUME NEW n \in Nat, n \in Upto PROVE n + 1 \in Upto
  <2>1. PICK f : f = [i \in 0..n |-> JoinUpto(text, f, i)]
    BY <1>2
  <2> DEFINE g == [i \in 0..(n + 1) |-> JoinUpto(text, f, i)]
  <2>2. \A i \in 0..n : g[i] = f[i]
    <3> TAKE i \in 0..n
    <3>1. f[i] = JoinUpto(text, f, i)
      BY <2>1
    <3>2. i \in 0..(n + 1)
      OBVIOUS
    <3>3. QED
      BY <3>1, <3>2
  <2>3. \A i \in 0..(n + 1) : JoinUpto(text, f, i) = JoinUpto(text, g, i)
    <3> TAKE i \in 0..(n + 1)
    <3>1. CASE i = 0
      BY <3>1 DEF JoinUpto
    <3>2. CASE i # 0
      <4>1. i - 1 \in 0..n
        BY <3>2
      <4>2. g[i - 1] = f[i - 1]
        BY <2>2, <4>1
      <4> HIDE DEF g
      <4>3. QED
        BY <4>2 DEF JoinUpto
    <3>3. QED
      BY <3>1, <3>2
  <2>4. g = [i \in 0..(n + 1) |-> JoinUpto(text, g, i)]
    BY <2>3
  <2> HIDE DEF g
  <2>5. QED
    BY <2>4
<1>3. QED
  <2> HIDE DEF Upto
  <2>1. \A n \in Nat : n \in Upto
    BY <1>1, <1>2, NatInd
  <2>2. QED
    BY <2>1 DEF Upto

\* The statements of a text are found line by line.
LEMMA StatementsStep ==
  ASSUME NEW text \in Texts
  PROVE  \E f : /\ f[0] = <<>> /\ f[Len(text)] = DocumentedStatements(text)
                /\ \A i \in 1..Len(text) : f[i] = JoinLine(f[i - 1], Words(text[i]))
<1>0. Len(text) \in Nat
  BY DEF Texts
<1>1. PICK f : f = [i \in 0..Len(text) |-> JoinUpto(text, f, i)]
  BY <1>0, JoinsExist
<1>2. f = [i \in 0..Len(text) |->
             IF i = 0 THEN <<>> ELSE JoinLine(f[i - 1], Words(text[i]))]
  BY <1>1 DEF JoinUpto
<1>3. PICK g : /\ g = [i \in 0..Len(text) |->
                         IF i = 0 THEN <<>> ELSE JoinLine(g[i - 1], Words(text[i]))]
               /\ DocumentedStatements(text) = g[Len(text)]
  BY <1>2 DEF DocumentedStatements
<1>4. g[0] = <<>>
  BY <1>0, <1>3
<1>5. \A i \in 1..Len(text) : g[i] = JoinLine(g[i - 1], Words(text[i]))
  <2> TAKE i \in 1..Len(text)
  <2>1. i \in 0..Len(text) /\ i # 0
    BY <1>0
  <2>2. QED
    BY <1>3, <2>1
<1>6. QED
  BY <1>3, <1>4, <1>5

LEMMA StatementsOfNone == DocumentedStatements(<<>>) = <<>>
<1>1. <<>> \in Texts /\ Len(<<>>) = 0
  BY DEF Texts
<1>2. QED
  BY <1>1, StatementsStep

LEMMA StatementsAppend ==
  ASSUME NEW text \in Texts, NEW line \in Line
  PROVE  DocumentedStatements(Append(text, line))
           = JoinLine(DocumentedStatements(text), Words(line))
<1> DEFINE longer == Append(text, line)
           n == Len(text)
<1>1. longer \in Texts /\ Len(longer) = n + 1 /\ n \in Nat
      /\ longer[n + 1] = line /\ \A i \in 1..n : longer[i] = text[i]
  BY DEF Texts
<1> HIDE DEF longer
<1>2. PICK f : /\ f[0] = <<>> /\ f[n] = DocumentedStatements(text)
               /\ \A i \in 1..n : f[i] = JoinLine(f[i - 1], Words(text[i]))
  BY StatementsStep
<1>3. PICK g : /\ g[0] = <<>> /\ g[n + 1] = DocumentedStatements(longer)
               /\ \A i \in 1..(n + 1) : g[i] = JoinLine(g[i - 1], Words(longer[i]))
  BY <1>1, StatementsStep
<1> DEFINE Same == {k \in Nat : k <= n => f[k] = g[k]}
<1>4. 0 \in Same
  BY <1>2, <1>3
<1>5. ASSUME NEW k \in Nat, k \in Same PROVE k + 1 \in Same
  <2> SUFFICES ASSUME k + 1 <= n PROVE f[k + 1] = g[k + 1]
    OBVIOUS
  <2>1. k + 1 \in 1..n /\ k + 1 \in 1..(n + 1) /\ (k + 1) - 1 = k /\ f[k] = g[k]
    BY <1>1, <1>5
  <2>2. f[k + 1] = JoinLine(f[k], Words(text[k + 1]))
        /\ g[k + 1] = JoinLine(g[k], Words(longer[k + 1]))
    BY <1>2, <1>3, <2>1
  <2>3. QED
    BY <1>1, <2>1, <2>2
<1>6. n \in Same
  <2> HIDE DEF Same
  <2> QED BY <1>1, <1>4, <1>5, NatInd
<1>7. g[n + 1] = JoinLine(g[n], Words(line))
  <2>1. n + 1 \in 1..(n + 1) /\ (n + 1) - 1 = n
    BY <1>1
  <2>2. QED
    BY <1>1, <1>3, <2>1
<1>8. QED
  BY <1>1, <1>2, <1>3, <1>6, <1>7 DEF longer

----------------------------------------------------------------------------
(* Listing the statements chosen, as statements are added and prolonged.   *)

\* The place of a statement among those chosen.
PlaceIn(chosen, i) == {j \in chosen : j <= i}

LEMMA Places ==
  ASSUME NEW n \in Nat, NEW chosen \in SUBSET (1..n)
  PROVE  /\ IsFiniteSet(chosen) /\ Cardinality(chosen) \in Nat
         /\ \A i \in chosen : Cardinality(PlaceIn(chosen, i)) \in 1..Cardinality(chosen)
         /\ n \in chosen => /\ PlaceIn(chosen, n) = chosen
                            /\ \A i \in chosen \ {n} :
                                 Cardinality(PlaceIn(chosen, i)) \in 1..(Cardinality(chosen) - 1)
<1>1. IsFiniteSet(1..n)
  BY FS_Interval
<1>2. IsFiniteSet(chosen)
  BY <1>1, FS_Subset
<1>3. Cardinality(chosen) \in Nat
  BY <1>2, FS_CardinalityType
<1>4. ASSUME NEW within \in SUBSET chosen, NEW i \in within
      PROVE  Cardinality(PlaceIn(within, i)) \in 1..Cardinality(within)
  <2> DEFINE place == PlaceIn(within, i)
  <2>0. i \in 1..n
    OBVIOUS
  <2>1. place \subseteq within /\ i \in place
    BY <2>0 DEF PlaceIn
  <2> HIDE DEF place
  <2>2. IsFiniteSet(within)
    BY <1>2, FS_Subset
  <2>3. IsFiniteSet(place) /\ Cardinality(place) <= Cardinality(within)
    BY <2>1, <2>2, FS_Subset
  <2>4. Cardinality(place) \in Nat /\ Cardinality(within) \in Nat
    BY <2>2, <2>3, FS_CardinalityType
  <2>5. Cardinality(place) # 0
    BY <2>1, <2>3, FS_EmptySet
  <2>6. QED
    BY <2>3, <2>4, <2>5 DEF place
<1>5. ASSUME n \in chosen
      PROVE  /\ PlaceIn(chosen, n) = chosen
             /\ \A i \in chosen \ {n} :
                  Cardinality(PlaceIn(chosen, i)) \in 1..(Cardinality(chosen) - 1)
  <2>1. PlaceIn(chosen, n) = chosen
    <3>1. \A j \in chosen : j <= n
      OBVIOUS
    <3>2. QED
      BY <3>1 DEF PlaceIn
  <2>2. ASSUME NEW i \in chosen \ {n}
        PROVE  Cardinality(PlaceIn(chosen, i)) \in 1..(Cardinality(chosen) - 1)
    <3> DEFINE others == chosen \ {n}
    <3>1. PlaceIn(chosen, i) = PlaceIn(others, i)
      <4>1. i \in 1..n /\ i # n
        BY <2>2
      <4>2. ~(n <= i)
        BY <4>1
      <4>3. QED
        BY <4>2 DEF PlaceIn
    <3>2. Cardinality(others) = Cardinality(chosen) - 1
      BY <1>2, <1>5, FS_RemoveElement
    <3>3. QED
      BY <1>4, <2>2, <3>1, <3>2
  <2>3. QED
    BY <2>1, <2>2
<1>6. QED
  BY <1>2, <1>3, <1>4, <1>5

\* One statement more, that is not chosen.
LEMMA ListsWithout ==
  ASSUME NEW s, IsSeq(s), NEW e, NEW found, NEW chosen \in SUBSET (1..Len(s)),
         Lists(found, s, chosen)
  PROVE  Lists(found, Append(s, e), chosen)
<1>1. PICK S : s \in Seq(S)
  BY DEF IsSeq
<1>2. \A i \in 1..Len(s) : Append(s, e)[i] = s[i]
  BY <1>1
<1>3. QED
  BY <1>2 DEF Lists

\* One statement more, that is.
LEMMA ListsWith ==
  ASSUME NEW s, IsSeq(s), NEW e, NEW found, IsSeq(found), NEW chosen \in SUBSET (1..Len(s)),
         Lists(found, s, chosen)
  PROVE  Lists(Append(found, e), Append(s, e), chosen \cup {Len(s) + 1})
<1> DEFINE n == Len(s)
           k == Len(found)
           more == chosen \cup {n + 1}
<1>1. PICK S, F : s \in Seq(S) /\ found \in Seq(F)
  BY DEF IsSeq
<1>2. /\ n \in Nat /\ k \in Nat
      /\ Append(s, e)[n + 1] = e /\ \A i \in 1..n : Append(s, e)[i] = s[i]
      /\ Len(Append(found, e)) = k + 1 /\ Append(found, e)[k + 1] = e
      /\ \A i \in 1..k : Append(found, e)[i] = found[i]
  BY <1>1
<1>3. /\ k = Cardinality(chosen) /\ \A i \in chosen : found[Cardinality(PlaceIn(chosen, i))] = s[i]
  BY DEF Lists, PlaceIn
<1> HIDE DEF n, k
<1>4. chosen \in SUBSET (1..n)
  BY DEF n
<1>5. more \in SUBSET (1..(n + 1)) /\ n + 1 \in more /\ n + 1 \notin chosen /\ n + 1 \in Nat
  BY <1>2, <1>4
<1>6. IsFiniteSet(chosen) /\ \A i \in chosen : Cardinality(PlaceIn(chosen, i)) \in 1..k
  BY <1>2, <1>3, <1>4, Places
<1>7. Cardinality(more) = k + 1
  BY <1>3, <1>5, <1>6, FS_AddElement
<1>8. PlaceIn(more, n + 1) = more
  <2> HIDE DEF more
  <2> QED BY <1>5, Places
<1>9. \A i \in chosen : PlaceIn(more, i) = PlaceIn(chosen, i)
  <2> TAKE i \in chosen
  <2>1. i \in 1..n
    BY <1>4
  <2>2. ~(n + 1 <= i)
    BY <1>2, <2>1
  <2>3. QED
    BY <2>2 DEF PlaceIn
<1>10. ASSUME NEW i \in more
       PROVE  Append(found, e)[Cardinality(PlaceIn(more, i))] = Append(s, e)[i]
  <2>1. CASE i = n + 1
    BY <1>2, <1>7, <1>8, <2>1
  <2>2. CASE i \in chosen
    BY <1>2, <1>3, <1>4, <1>6, <1>9, <2>2
  <2>3. QED
    BY <2>1, <2>2
<1>11. QED
  BY <1>2, <1>7, <1>10 DEF Lists, PlaceIn, n

LEMMA LastReplaced ==
  ASSUME NEW s, IsSeq(s), s # <<>>, NEW e
  PROVE  /\ Len(s) \in Nat \ {0} /\ Len(Append(Front(s), e)) = Len(s)
         /\ Append(Front(s), e)[Len(s)] = e
         /\ Last(s) = s[Len(s)] /\ Last(Append(Front(s), e)) = e
         /\ Append(Front(s), e) # <<>>
         /\ \A i \in 1..(Len(s) - 1) : Append(Front(s), e)[i] = s[i]
<1>1. PICK S : s \in Seq(S)
  BY DEF IsSeq
<1> DEFINE front == Front(s)
           t == Append(front, e)
           m == Len(s) - 1
<1>2. /\ Len(s) \in Nat \ {0} /\ front \in Seq(S) /\ Len(front) = m
      /\ m \in Nat /\ \A i \in 1..m : front[i] = s[i]
  <2>1. Len(s) \in Nat \ {0} /\ m \in Nat
    BY <1>1
  <2>2. front = SubSeq(s, 1, m)
    BY DEF Front
  <2>3. m <= Len(s)
    BY <2>1
  <2> HIDE DEF m, front
  <2>4. SubSeq(s, 1, m) \in Seq(S) /\ Len(SubSeq(s, 1, m)) = m
    BY <1>1, <2>1, <2>3
  <2>5. \A i \in 1..m : SubSeq(s, 1, m)[i] = s[i]
    BY <1>1, <2>1, <2>3
  <2>6. QED
    BY <2>1, <2>2, <2>4, <2>5
<1> HIDE DEF front
<1>3. /\ t \in Seq(S \cup {e}) /\ Len(t) = m + 1 /\ t[m + 1] = e
      /\ \A i \in 1..m : t[i] = front[i]
  BY <1>2
<1>4. m + 1 = Len(s)
  BY <1>2
<1> HIDE DEF t, m
<1>5. t # <<>> /\ Last(t) = e
  BY <1>2, <1>3, <1>4 DEF Last
<1>6. Last(s) = s[Len(s)]
  BY DEF Last
<1>7. QED
  BY <1>2, <1>3, <1>4, <1>5, <1>6 DEF t, front, m

LEMMA LastReplacedIsSeq ==
  ASSUME NEW s, IsSeq(s), s # <<>>, NEW e
  PROVE  IsSeq(Append(Front(s), e))
<1>1. PICK S : s \in Seq(S)
  BY DEF IsSeq
<1>2. Len(s) \in Nat \ {0} /\ \A i \in 1..(Len(s) - 1) : s[i] \in S
  BY <1>1
<1>3. Front(s) \in Seq(S)
  BY <1>1, <1>2 DEF Front
<1>4. Append(Front(s), e) \in Seq(S \cup {e})
  BY <1>3
<1>5. QED
  BY <1>4 DEF IsSeq

\* The last statement becomes longer, and is not chosen.
LEMMA ListsBefore ==
  ASSUME NEW s, IsSeq(s), s # <<>>, NEW e, NEW found,
         NEW chosen \in SUBSET (1..(Len(s) - 1)), Lists(found, s, chosen)
  PROVE  Lists(found, Append(Front(s), e), chosen)
BY LastReplaced DEF Lists

\* The last statement becomes longer, and is the last one chosen.
LEMMA ListsLonger ==
  ASSUME NEW s, IsSeq(s), s # <<>>, NEW e, NEW old, NEW found, IsSeq(found),
         NEW chosen \in SUBSET (1..Len(s)), Len(s) \in chosen,
         Lists(Append(found, old), s, chosen)
  PROVE  Lists(Append(found, e), Append(Front(s), e), chosen)
<1> DEFINE n == Len(s)
           k == Len(found)
           t == Append(Front(s), e)
<1>1. PICK F : found \in Seq(F)
  BY DEF IsSeq
<1>2. /\ k \in Nat /\ Len(Append(found, e)) = k + 1 /\ Append(found, e)[k + 1] = e
      /\ Len(Append(found, old)) = k + 1
      /\ \A i \in 1..k : Append(found, e)[i] = Append(found, old)[i]
  BY <1>1
<1>3. /\ k + 1 = Cardinality(chosen)
      /\ \A i \in chosen : Append(found, old)[Cardinality(PlaceIn(chosen, i))] = s[i]
  BY <1>2 DEF Lists, PlaceIn
<1>4. n \in Nat /\ t[n] = e /\ \A i \in 1..(n - 1) : t[i] = s[i]
  BY LastReplaced
<1> HIDE DEF n, k, t
<1>5. chosen \in SUBSET (1..n) /\ n \in chosen
  BY DEF n
<1>6. /\ PlaceIn(chosen, n) = chosen
      /\ \A i \in chosen \ {n} : Cardinality(PlaceIn(chosen, i)) \in 1..k
  <2>1. \A i \in chosen \ {n} :
          Cardinality(PlaceIn(chosen, i)) \in 1..(Cardinality(chosen) - 1)
    BY <1>4, <1>5, Places
  <2>2. Cardinality(chosen) - 1 = k
    BY <1>2, <1>3
  <2>3. QED
    BY <1>4, <1>5, <2>1, <2>2, Places
<1>7. ASSUME NEW i \in chosen
      PROVE  Append(found, e)[Cardinality(PlaceIn(chosen, i))] = t[i]
  <2>1. CASE i = n
    BY <1>2, <1>3, <1>4, <1>6, <2>1
  <2>2. CASE i # n
    <3>1. i \in 1..(n - 1)
      BY <1>4, <1>5, <2>2
    <3>2. QED
      BY <1>2, <1>3, <1>4, <1>6, <2>2, <3>1
  <2>3. QED
    BY <2>1, <2>2
<1>8. QED
  BY <1>2, <1>3, <1>7 DEF Lists, PlaceIn, t

----------------------------------------------------------------------------
(* The words of a rule, and where it wants more of them.                   *)

\* The first "if" is the least of them.
LEMMA FirstIfLeast ==
  ASSUME NEW l \in Seq(Word), IsRule(l)
  PROVE  /\ FirstIf(l) \in Ifs(l) /\ \A j \in Ifs(l) : FirstIf(l) <= j
         /\ \A k \in Ifs(l) : (\A j \in Ifs(l) : k <= j) => FirstIf(l) = k
<1>1. Ifs(l) \in SUBSET Nat /\ Ifs(l) # {}
  BY DEF Ifs, IsRule
<1>2. PICK x \in Ifs(l) : \A y \in Ifs(l) : x <= y
  BY <1>1, NatMin
<1>3. FirstIf(l) \in Ifs(l) /\ \A j \in Ifs(l) : FirstIf(l) <= j
  BY <1>2 DEF FirstIf
<1>4. \A i, j \in Nat : i <= j /\ j <= i => i = j
  OBVIOUS
<1>5. QED
  BY <1>1, <1>3, <1>4

\* A rule that becomes longer is one, with the same head.
LEMMA RuleGrows ==
  ASSUME NEW s \in Seq(Word), IsRule(s), NEW l \in Seq(Word)
  PROVE  /\ IsRule(s \o l) /\ FirstIf(s \o l) = FirstIf(s)
         /\ Starts(s \o l, "?") <=> Starts(s, "?")
<1> DEFINE t == s \o l
           k == FirstIf(s)
<1>1. /\ t \in Seq(Word) /\ Len(s) \in Nat /\ Len(t) \in Nat /\ Len(s) <= Len(t)
      /\ \A i \in 1..Len(s) : t[i] = s[i]
  OBVIOUS
<1>2. k \in Ifs(s) /\ \A j \in Ifs(s) : k <= j
  BY FirstIfLeast
<1>3. k \in 2..Len(s) /\ s[k] = "if"
  BY <1>2 DEF Ifs
<1> HIDE DEF t, k
<1>4. k \in Ifs(t)
  BY <1>1, <1>3 DEF Ifs
<1>5. ASSUME NEW j \in Ifs(t) PROVE k <= j
  <2>1. j \in 2..Len(t) /\ t[j] = "if"
    BY DEF Ifs
  <2>2. CASE j <= Len(s)
    <3>1. j \in 2..Len(s) /\ s[j] = "if"
      BY <1>1, <2>1, <2>2
    <3>2. QED
      BY <1>2, <3>1 DEF Ifs
  <2>3. CASE j > Len(s)
    BY <1>1, <1>3, <2>1, <2>3
  <2>4. QED
    BY <1>1, <2>1, <2>2, <2>3
<1>6. IsRule(t)
  BY <1>4 DEF IsRule
<1>7. FirstIf(t) = k
  BY <1>1, <1>4, <1>5, <1>6, FirstIfLeast
<1>8. s # <<>> /\ t # <<>> /\ Head(s) = s[1] /\ Head(t) = t[1] /\ t[1] = s[1]
  <2>1. Len(s) >= 2 /\ Len(t) >= 2
    BY <1>1, <1>3
  <2>2. QED
    BY <1>1, <2>1
<1>9. Starts(t, "?") <=> Starts(s, "?")
  BY <1>8 DEF Starts
<1>10. QED
  BY <1>6, <1>7, <1>9 DEF t, k

RuleWords(r) == r.head \o <<"if">> \o r.body

LEMMA RuleWordsAre ==
  ASSUME NEW h \in Seq(Word), NEW b \in Seq(Word)
  PROVE  LET s == h \o <<"if">> \o b
         IN  /\ s \in Seq(Word) /\ Len(h) \in Nat /\ Len(b) \in Nat
             /\ Len(s) = Len(h) + 1 + Len(b) /\ s[Len(h) + 1] = "if"
             /\ \A i \in 1..Len(h) : s[i] = h[i]
             /\ \A i \in 1..Len(b) : s[Len(h) + 1 + i] = b[i]
<1>1. <<"if">> \in Seq(Word)
  BY DEF Word
<1>2. h \o <<"if">> \in Seq(Word)
  BY <1>1
<1> DEFINE g == h \o <<"if">>
<1>3. /\ g \in Seq(Word) /\ Len(g) = Len(h) + 1 /\ g[Len(h) + 1] = "if"
      /\ \A i \in 1..Len(h) : g[i] = h[i]
  BY <1>1, <1>2
<1> HIDE DEF g
<1>4. /\ g \o b \in Seq(Word) /\ Len(g \o b) = Len(g) + Len(b)
      /\ \A i \in 1..Len(g) : (g \o b)[i] = g[i]
      /\ \A i \in 1..Len(b) : (g \o b)[Len(g) + i] = b[i]
  <2>1. g \in Seq(Word)
    BY <1>3
  <2>2. g \o b \in Seq(Word) /\ Len(g \o b) = Len(g) + Len(b)
    BY <2>1
  <2>3. \A i \in 1..Len(g) : (g \o b)[i] = g[i]
    BY <2>1
  <2>4. \A i \in 1..Len(b) : (g \o b)[Len(g) + i] = b[i]
    BY <2>1
  <2>5. QED
    BY <2>2, <2>3, <2>4
<1>5. Len(h) \in Nat /\ Len(b) \in Nat
  OBVIOUS
<1>6. QED
  BY <1>3, <1>4, <1>5 DEF g

\* A rule on one line is its head, its first "if" and its body.
LEMMA RuleSplits ==
  ASSUME NEW l \in Seq(Word), IsRule(l)
  PROVE  LET h == SubSeq(l, 1, FirstIf(l) - 1)
             b == SubSeq(l, FirstIf(l) + 1, Len(l))
         IN  /\ h \in Seq(Word) /\ b \in Seq(Word) /\ h \o <<"if">> \o b = l
             /\ Len(h) + 1 = FirstIf(l) /\ (b # <<>> => Last(b) = Last(l))
<1> DEFINE k == FirstIf(l)
           h == SubSeq(l, 1, k - 1)
           b == SubSeq(l, k + 1, Len(l))
           s == h \o <<"if">> \o b
<1>1. k \in 2..Len(l) /\ l[k] = "if" /\ Len(l) \in Nat
  BY FirstIfIs
<1> HIDE DEF k
<1>2. /\ h \in Seq(Word) /\ Len(h) = k - 1 /\ \A i \in 1..(k - 1) : h[i] = l[i]
  BY <1>1
<1>3. /\ b \in Seq(Word) /\ Len(b) = Len(l) - k /\ \A i \in 1..(Len(l) - k) : b[i] = l[k + i]
  <2>1. k + 1 \in 1..(Len(l) + 1)
    BY <1>1
  <2>2. b \in Seq(Word) /\ Len(b) = Len(l) - k
    BY <1>1, <2>1
  <2>3. \A i \in 1..(Len(l) - k) : b[i] = l[(k + 1) + i - 1] /\ (k + 1) + i - 1 = k + i
    BY <1>1, <2>1
  <2>4. QED
    BY <2>2, <2>3
<1> HIDE DEF h, b
<1>4. /\ s \in Seq(Word) /\ Len(s) = Len(l) /\ s[k] = "if"
      /\ \A i \in 1..(k - 1) : s[i] = h[i]
      /\ \A i \in 1..(Len(l) - k) : s[k + i] = b[i]
  <2>1. Len(h) + 1 = k /\ Len(h) + 1 + Len(b) = Len(l) /\ Len(b) = Len(l) - k
    BY <1>1, <1>2, <1>3
  <2>2. /\ s \in Seq(Word) /\ Len(s) = Len(h) + 1 + Len(b) /\ s[Len(h) + 1] = "if"
        /\ \A i \in 1..Len(h) : s[i] = h[i]
        /\ \A i \in 1..Len(b) : s[Len(h) + 1 + i] = b[i]
    BY <1>2, <1>3, RuleWordsAre
  <2> HIDE DEF s
  <2>3. QED
    BY <1>2, <2>1, <2>2
<1> HIDE DEF s
<1>5. ASSUME NEW i \in 1..Len(l) PROVE s[i] = l[i]
  <2>1. CASE i < k
    <3>1. i \in 1..(k - 1)
      BY <1>1, <2>1
    <3>2. QED
      BY <1>2, <1>4, <3>1
  <2>2. CASE i = k
    BY <1>1, <1>4, <2>2
  <2>3. CASE i > k
    <3>1. i - k \in 1..(Len(l) - k) /\ k + (i - k) = i
      BY <1>1, <2>3
    <3>2. QED
      BY <1>3, <1>4, <3>1
  <2>4. QED
    BY <1>1, <2>1, <2>2, <2>3
<1>6. s = l
  BY <1>4, <1>5, SeqEqual
<1>7. ASSUME b # <<>> PROVE Last(b) = Last(l)
  <2>1. Len(b) # 0
    BY <1>3, <1>7
  <2>2. Len(l) - k \in 1..(Len(l) - k) /\ k + (Len(l) - k) = Len(l)
    BY <1>1, <1>3, <2>1
  <2>3. b[Len(b)] = l[Len(l)]
    BY <1>3, <2>2
  <2>4. QED
    BY <2>3 DEF Last
<1>8. Len(h) + 1 = k
  BY <1>1, <1>2
<1>9. QED
  BY <1>2, <1>3, <1>6, <1>7, <1>8 DEF s, h, b, k

\* The rule r, as read so far, is the statement s.
IsStatement(r, s) ==
  /\ s = RuleWords(r) /\ IsRule(s) /\ FirstIf(s) = Len(r.head) + 1 /\ ~Starts(s, "?")
  /\ r.body # <<>> => Last(r.body) \notin EndsInAnd

\* The parser wants more exactly where the documentation does.
LEMMA WantsAsDocumented ==
  ASSUME NEW r \in Rule, NEW s, IsStatement(r, s), NEW l
  PROVE  Wants(r) \/ Starts(l, "and") <=> ContinuesAbove(s, l)
<1>1. r.head \in Seq(Word) /\ r.body \in Seq(Word)
  BY DEF Rule
<1>2. s = r.head \o <<"if">> \o r.body
  BY DEF IsStatement, RuleWords
<1>3. /\ s \in Seq(Word) /\ Len(r.head) \in Nat /\ Len(r.body) \in Nat
      /\ Len(s) = Len(r.head) + 1 + Len(r.body) /\ s[Len(r.head) + 1] = "if"
      /\ \A i \in 1..Len(r.body) : s[Len(r.head) + 1 + i] = r.body[i]
  BY <1>1, <1>2, RuleWordsAre
<1>4. r.body = <<>> <=> Len(r.body) = 0
  BY <1>1
<1>5. r.body = <<>> <=> FirstIf(s) = Len(s)
  <2>1. FirstIf(s) = Len(r.head) + 1
    BY DEF IsStatement
  <2>2. \A h, b \in Nat : b = 0 <=> h + 1 = h + 1 + b
    OBVIOUS
  <2>3. QED
    BY <1>3, <1>4, <2>1, <2>2
<1>6. CASE r.body = <<>>
  BY <1>5, <1>6 DEF Wants, ContinuesAbove, IsStatement
<1>7. CASE r.body # <<>>
  <2>1. Len(r.body) \in 1..Len(r.body) /\ Len(r.head) + 1 + Len(r.body) = Len(s)
    BY <1>3, <1>4, <1>7
  <2>2. Last(s) = Last(r.body)
    BY <1>3, <2>1 DEF Last
  <2>3. Wants(r) <=> Last(s) = "and"
    BY <1>7, <2>2 DEF Wants, IsStatement
  <2>4. QED
    BY <1>5, <1>7, <2>3 DEF ContinuesAbove, IsStatement
<1>8. QED
  BY <1>6, <1>7

\* A rule that a line is added to.
LEMMA StatementLonger ==
  ASSUME NEW r \in Rule, NEW s, IsStatement(r, s), NEW l \in Seq(Word), l # <<>>,
         Last(l) \notin EndsInAnd, NEW id
  PROVE  IsStatement([head |-> r.head, body |-> r.body \o l, id |-> id], s \o l)
<1>1. r.head \in Seq(Word) /\ r.body \in Seq(Word) /\ <<"if">> \in Seq(Word)
  BY DEF Rule, Word
<1>2. s = r.head \o <<"if">> \o r.body
  BY DEF IsStatement, RuleWords
<1>3. s \in Seq(Word)
  BY <1>1, <1>2, RuleWordsAre
<1>4. (r.head \o <<"if">> \o r.body) \o l = r.head \o <<"if">> \o (r.body \o l)
  <2> DEFINE g == r.head \o <<"if">>
  <2>1. g \in Seq(Word)
    BY <1>1
  <2> HIDE DEF g
  <2>2. (g \o r.body) \o l = g \o (r.body \o l)
    <3>1. \A a, b, c \in Seq(Word) : (a \o b) \o c = a \o (b \o c)
      OBVIOUS
    <3>2. QED
      BY <1>1, <2>1, <3>1
  <2>3. QED
    BY <2>2 DEF g
<1>5. /\ IsRule(s \o l) /\ FirstIf(s \o l) = FirstIf(s)
      /\ Starts(s \o l, "?") <=> Starts(s, "?")
  BY <1>3, RuleGrows DEF IsStatement
<1>6. Last(r.body \o l) = Last(l)
  BY <1>1, LastOfWords
<1>7. QED
  BY <1>2, <1>4, <1>5, <1>6 DEF IsStatement, RuleWords

\* A rule that one line starts.
LEMMA StatementStarts ==
  ASSUME NEW l \in Seq(Word), IsRule(l), ~Starts(l, "?"), Last(l) \notin EndsInAnd, NEW id
  PROVE  IsStatement([head |-> SubSeq(l, 1, FirstIf(l) - 1),
                      body |-> SubSeq(l, FirstIf(l) + 1, Len(l)), id |-> id], l)
BY RuleSplits DEF IsStatement, RuleWords

LEMMA WordsOfRules ==
  ASSUME NEW t \in Seq(Rule)
  PROVE  /\ WordsOf(t) \in Seq({RuleWords(r) : r \in Rule}) /\ Len(WordsOf(t)) = Len(t)
         /\ \A i \in 1..Len(t) : WordsOf(t)[i] = RuleWords(t[i])
<1> DEFINE S == {RuleWords(r) : r \in Rule}
<1>1. WordsOf(t) = [i \in 1..Len(t) |-> RuleWords(t[i])]
  BY DEF WordsOf, RuleWords
<1>2. Len(t) \in Nat /\ \A i \in 1..Len(t) : t[i] \in Rule
  OBVIOUS
<1>3. \A i \in 1..Len(t) : RuleWords(t[i]) \in S
  BY <1>2
<1> HIDE DEF S
<1>4. WordsOf(t) \in Seq(S) /\ Len(WordsOf(t)) = Len(t)
      /\ \A i \in 1..Len(t) : WordsOf(t)[i] = RuleWords(t[i])
  BY <1>1, <1>2, <1>3
<1>5. QED
  BY <1>4 DEF S

LEMMA WordsOfAppend ==
  ASSUME NEW rules \in Seq(Rule), NEW r \in Rule
  PROVE  /\ IsSeq(WordsOf(rules))
         /\ WordsOf(Append(rules, r)) = Append(WordsOf(rules), RuleWords(r))
<1> DEFINE n == Len(rules)
           more == Append(rules, r)
           a == WordsOf(more)
           b == Append(WordsOf(rules), RuleWords(r))
           S == {RuleWords(x) : x \in Rule}
<1>1. /\ n \in Nat /\ Len(more) = n + 1 /\ more[n + 1] = r
      /\ more \in Seq(Rule) /\ \A i \in 1..n : more[i] = rules[i]
  OBVIOUS
<1>2. \A x \in Rule : RuleWords(x) \in S
  OBVIOUS
<1>3. \A t \in Seq(Rule) : /\ WordsOf(t) \in Seq(S) /\ Len(WordsOf(t)) = Len(t)
                           /\ \A i \in 1..Len(t) : WordsOf(t)[i] = RuleWords(t[i])
  BY WordsOfRules
<1> HIDE DEF S, more, n
<1>4. RuleWords(r) \in S
  BY <1>2
<1>5. /\ WordsOf(rules) \in Seq(S) /\ Len(WordsOf(rules)) = n
      /\ \A i \in 1..n : WordsOf(rules)[i] = RuleWords(rules[i])
  BY <1>3 DEF n
<1>6. /\ a \in Seq(S) /\ Len(a) = n + 1 /\ \A i \in 1..(n + 1) : a[i] = RuleWords(more[i])
  BY <1>1, <1>3
<1>7. /\ b \in Seq(S) /\ Len(b) = n + 1 /\ b[n + 1] = RuleWords(r)
      /\ \A i \in 1..n : b[i] = WordsOf(rules)[i]
  BY <1>1, <1>4, <1>5
<1> HIDE DEF a, b
<1>8. \A i \in 1..(n + 1) : a[i] = b[i]
  <2> TAKE i \in 1..(n + 1)
  <2>1. i = n + 1 \/ i \in 1..n
    BY <1>1
  <2>2. QED
    BY <1>1, <1>5, <1>6, <1>7, <2>1
<1>9. a = b
  BY <1>6, <1>7, <1>8, SeqEqual
<1>10. QED
  BY <1>5, <1>9 DEF IsSeq, a, b, more

\* Where the facts and the rules are when a statement is added.
LEMMA ChosenOfMore ==
  ASSUME NEW s \in Seq(Seq(Word)), NEW l \in Seq(Word)
  PROVE  LET n == Len(s) + 1
             t == Append(s, l)
         IN  /\ FactPlaces(s) \in SUBSET (1..Len(s)) /\ RulePlaces(s) \in SUBSET (1..Len(s))
             /\ Starts(l, "?") => FactPlaces(t) = FactPlaces(s) /\ RulePlaces(t) = RulePlaces(s)
             /\ ~Starts(l, "?") /\ IsRule(l) =>
                  FactPlaces(t) = FactPlaces(s) /\ RulePlaces(t) = RulePlaces(s) \cup {n}
             /\ ~Starts(l, "?") /\ ~IsRule(l) =>
                  FactPlaces(t) = FactPlaces(s) \cup {n} /\ RulePlaces(t) = RulePlaces(s)
<1> DEFINE n == Len(s) + 1
           t == Append(s, l)
<1>1. /\ DOMAIN s = 1..Len(s) /\ DOMAIN t = (1..Len(s)) \cup {n} /\ n \notin 1..Len(s)
      /\ t[n] = l /\ \A i \in 1..Len(s) : t[i] = s[i]
  OBVIOUS
<1> HIDE DEF n, t
<1>2. FactPlaces(s) \in SUBSET (1..Len(s)) /\ RulePlaces(s) \in SUBSET (1..Len(s))
  BY <1>1 DEF FactPlaces, RulePlaces
<1>3. \A i : i \in FactPlaces(t) <=>
        i \in FactPlaces(s) \/ (i = n /\ ~IsRule(l) /\ ~Starts(l, "?"))
  BY <1>1 DEF FactPlaces
<1>4. \A i : i \in RulePlaces(t) <=>
        i \in RulePlaces(s) \/ (i = n /\ IsRule(l) /\ ~Starts(l, "?"))
  BY <1>1 DEF RulePlaces
<1>5. QED
  BY <1>2, <1>3, <1>4 DEF n, t

\* When the last of them is a rule, and becomes a longer one.
LEMMA ChosenOfLonger ==
  ASSUME NEW s \in Seq(Seq(Word)), s # <<>>, IsRule(Last(s)), ~Starts(Last(s), "?"),
         NEW e \in Seq(Word), IsRule(e), ~Starts(e, "?")
  PROVE  LET t == Append(Front(s), e)
         IN  /\ FactPlaces(t) = FactPlaces(s) /\ RulePlaces(t) = RulePlaces(s)
             /\ FactPlaces(s) \in SUBSET (1..(Len(s) - 1))
             /\ RulePlaces(s) \in SUBSET (1..Len(s)) /\ Len(s) \in RulePlaces(s)
<1> DEFINE n == Len(s)
           t == Append(Front(s), e)
<1>1. IsSeq(s)
  BY DEF IsSeq
<1>2. /\ n \in Nat \ {0} /\ IsSeq(t) /\ Len(t) = n /\ t[n] = e /\ Last(s) = s[n]
      /\ \A i \in 1..(n - 1) : t[i] = s[i]
  <2> HIDE DEF n, t
  <2>1. n = Len(s) /\ t = Append(Front(s), e)
    BY DEF n, t
  <2>2. IsSeq(t)
    BY <1>1, <2>1, LastReplacedIsSeq
  <2>3. QED
    BY <1>1, <2>1, <2>2, LastReplaced
<1> HIDE DEF t
<1>3. DOMAIN t = 1..n /\ DOMAIN s = 1..n
  <2>1. \A S, q : q \in Seq(S) => DOMAIN q = 1..Len(q)
    OBVIOUS
  <2>2. QED
    BY <1>2, <2>1 DEF IsSeq
<1> HIDE DEF n
<1>4. \A i \in 1..n : i = n \/ i \in 1..(n - 1)
  BY <1>2
<1>5. \A i \in 1..n : /\ IsRule(t[i]) <=> IsRule(s[i])
                      /\ Starts(t[i], "?") <=> Starts(s[i], "?")
  BY <1>2, <1>4
<1>6. FactPlaces(t) = FactPlaces(s)
  BY <1>3, <1>5 DEF FactPlaces
<1>7. RulePlaces(t) = RulePlaces(s)
  BY <1>3, <1>5 DEF RulePlaces
<1>8. FactPlaces(s) \in SUBSET (1..(n - 1))
  BY <1>2, <1>3, <1>4 DEF FactPlaces
<1>9. RulePlaces(s) \in SUBSET (1..n) /\ n \in RulePlaces(s)
  BY <1>2, <1>3 DEF RulePlaces
<1>10. QED
  BY <1>6, <1>7, <1>8, <1>9 DEF n, t

----------------------------------------------------------------------------
(* After every line, the parser and the documentation agree.               *)

\* What the parser has read is the statements the documentation finds.
Grouped(p, s) ==
  /\ Lists(p.facts, s, FactPlaces(s))
  /\ Lists(WordsOf(Close(p).rules), s, RulePlaces(s))
  /\ p.open = <<>> => s = <<>> \/ Starts(Last(s), "?") \/ ~IsRule(Last(s))
  /\ p.open # <<>> => s # <<>> /\ IsStatement(p.open[1], Last(s))

EndsPlain(line) == Words(line) # <<>> => Last(Words(line)) \notin EndsInAnd

LEMMA GroupedAtFirst == Grouped(Nothing, <<>>)
<1>1. Close(Nothing).rules = <<>> /\ Nothing.facts = <<>> /\ Nothing.open = <<>>
  BY DEF Close, Nothing
<1>2. WordsOf(<<>>) = <<>>
  <2>1. <<>> \in Seq(Rule) /\ Len(<<>>) = 0
    OBVIOUS
  <2>2. \A S, t : t \in Seq(S) /\ Len(t) = 0 => t = <<>>
    OBVIOUS
  <2>3. QED
    BY <2>1, <2>2, WordsOfRules
<1>3. FactPlaces(<<>>) = {} /\ RulePlaces(<<>>) = {}
  BY DEF FactPlaces, RulePlaces
<1>4. Lists(<<>>, <<>>, {})
  BY FS_EmptySet DEF Lists
<1>5. QED
  BY <1>1, <1>2, <1>3, <1>4 DEF Grouped

\* A line that continues the rule being read continues the documented one.
LEMMA ContinuesAsDocumented ==
  ASSUME NEW p \in Reading, NEW s \in Seq(Seq(Word)), Grouped(p, s), NEW l
  PROVE  Continues(p, l) <=> s # <<>> /\ ContinuesAbove(Last(s), l)
<1>1. CASE p.open = <<>>
  BY <1>1 DEF Continues, Grouped, ContinuesAbove
<1>2. CASE p.open # <<>>
  <2>1. p.open[1] \in Rule
    BY <1>2 DEF Reading
  <2>2. s # <<>> /\ IsStatement(p.open[1], Last(s))
    BY <1>2 DEF Grouped
  <2>3. QED
    BY <1>2, <2>1, <2>2, WantsAsDocumented DEF Continues
<1>3. QED
  BY <1>1, <1>2

LEMMA GroupedContinued ==
  ASSUME NEW p \in Reading, NEW s \in Seq(Seq(Word)), Grouped(p, s),
         NEW line \in Line, Words(line) # <<>>, Last(Words(line)) \notin EndsInAnd,
         Continues(p, Words(line))
  PROVE  Grouped(ReadLine(p, line), Append(Front(s), Last(s) \o Words(line)))
<1> DEFINE l == Words(line)
           q == ReadLine(p, line)
           old == Last(s)
           e == old \o l
           t == Append(Front(s), e)
           r == p.open[1]
<1>1. p.open # <<>> /\ r \in Rule /\ s # <<>> /\ IsStatement(r, old) /\ IsSeq(s)
  BY DEF Continues, Reading, Grouped, IsSeq
<1>2. l \in Seq(Word) /\ l # <<>> /\ Last(l) \notin EndsInAnd
  BY LineWords
<1>3. old \in Seq(Word) /\ e \in Seq(Word)
  <2>1. old = s[Len(s)] /\ Len(s) \in Nat \ {0}
    BY <1>1, LastReplaced
  <2>2. old \in Seq(Word)
    <3>1. Len(s) \in 1..Len(s)
      BY <2>1
    <3>2. QED
      BY <2>1, <3>1
  <2> HIDE DEF old, l
  <2>3. QED
    BY <1>2, <2>2
<1>4. PICK id \in Seq(Id) :
        LET more == [head |-> r.head, body |-> r.body \o l, id |-> id]
        IN  q = [p EXCEPT !.open = <<more>>] /\ more \in Rule
  BY ContinueShape
<1> DEFINE more == [head |-> r.head, body |-> r.body \o l, id |-> id]
<1>5. /\ q.facts = p.facts /\ q.rules = p.rules /\ q.open = <<more>> /\ more \in Rule
      /\ q \in Reading
  BY <1>4 DEF Reading
<1> HIDE DEF q, l, old
<1>6. IsStatement(more, e)
  BY <1>1, <1>2, StatementLonger
<1> HIDE DEF more
<1>7. /\ IsRule(old) /\ ~Starts(old, "?") /\ old = RuleWords(r)
      /\ IsRule(e) /\ ~Starts(e, "?") /\ e = RuleWords(more)
  BY <1>1, <1>6 DEF IsStatement
<1> HIDE DEF e, r
<1>8. /\ FactPlaces(t) = FactPlaces(s) /\ RulePlaces(t) = RulePlaces(s)
      /\ FactPlaces(s) \in SUBSET (1..(Len(s) - 1))
      /\ RulePlaces(s) \in SUBSET (1..Len(s)) /\ Len(s) \in RulePlaces(s)
  BY <1>1, <1>3, <1>7, ChosenOfLonger DEF old
<1>9. Lists(q.facts, t, FactPlaces(t))
  BY <1>1, <1>5, <1>8, ListsBefore DEF Grouped
<1>10. /\ IsSeq(WordsOf(p.rules)) /\ p.rules \in Seq(Rule)
       /\ WordsOf(Close(p).rules) = Append(WordsOf(p.rules), old)
       /\ WordsOf(Close(q).rules) = Append(WordsOf(p.rules), e)
  <2>1. Close(p).rules = Append(p.rules, r)
    BY <1>1, CloseTyped DEF r
  <2>2. q.open # <<>> /\ q.open[1] = more
    BY <1>5
  <2>3. Close(q).rules = Append(p.rules, more)
    BY <1>5, <2>2, CloseTyped
  <2>4. p.rules \in Seq(Rule)
    BY DEF Reading
  <2>5. QED
    BY <1>1, <1>5, <1>7, <2>1, <2>3, <2>4, WordsOfAppend
<1>11. Lists(WordsOf(Close(q).rules), t, RulePlaces(t))
  <2>1. Lists(Append(WordsOf(p.rules), old), s, RulePlaces(s))
    BY <1>10 DEF Grouped
  <2>2. QED
    BY <1>1, <1>8, <1>10, <2>1, ListsLonger
<1>12. t # <<>> /\ Last(t) = e
  BY <1>1, LastReplaced
<1>13. q.open # <<>> /\ q.open[1] = more
  BY <1>5
<1>14. Grouped(q, t)
  <2> HIDE DEF t
  <2> QED BY <1>6, <1>9, <1>11, <1>12, <1>13 DEF Grouped
<1>15. QED
  BY <1>14 DEF q, t, e, old, l

LEMMA GroupedStarted ==
  ASSUME NEW p \in Reading, NEW s \in Seq(Seq(Word)), Grouped(p, s),
         NEW line \in Line, Words(line) # <<>>, Last(Words(line)) \notin EndsInAnd,
         ~Continues(p, Words(line))
  PROVE  ReadLine(p, line).bad \/ Grouped(ReadLine(p, line), Append(s, Words(line)))
<1> DEFINE l == Words(line)
           q == ReadLine(p, line)
           t == Append(s, l)
           n == Len(s) + 1
           c == Close(p)
           r == [head |-> SubSeq(l, 1, FirstIf(l) - 1),
                 body |-> SubSeq(l, FirstIf(l) + 1, Len(l)), id |-> IdOn(line)]
<1>1. /\ q \in Reading /\ q.rules = c.rules
      /\ Starts(l, "?") \/ IsRule(l) => q.facts = p.facts
      /\ ~Starts(l, "?") /\ ~IsRule(l) => q.bad \/ q.facts = Append(p.facts, l)
      /\ Starts(l, "?") \/ ~IsRule(l) => q.open = <<>>
      /\ ~Starts(l, "?") /\ IsRule(l) => q.open = <<r>>
  BY StartShape
<1>2. l \in Seq(Word) /\ l # <<>> /\ Last(l) \notin EndsInAnd
  BY LineWords
<1>3. IsSeq(s) /\ IsSeq(p.facts) /\ c.rules \in Seq(Rule)
  <2>1. p.facts \in Seq(Seq(Word))
    BY DEF Reading
  <2>2. c.rules \in Seq(Rule)
    <3>1. c \in Reading
      BY CloseTyped
    <3> HIDE DEF c
    <3>2. QED
      BY <3>1 DEF Reading
  <2>3. QED
    BY <2>1, <2>2 DEF IsSeq
<1> HIDE DEF q, l, c, r
<1>4. /\ FactPlaces(s) \in SUBSET (1..Len(s)) /\ RulePlaces(s) \in SUBSET (1..Len(s))
      /\ Starts(l, "?") => FactPlaces(t) = FactPlaces(s) /\ RulePlaces(t) = RulePlaces(s)
      /\ ~Starts(l, "?") /\ IsRule(l) =>
           FactPlaces(t) = FactPlaces(s) /\ RulePlaces(t) = RulePlaces(s) \cup {n}
      /\ ~Starts(l, "?") /\ ~IsRule(l) =>
           FactPlaces(t) = FactPlaces(s) \cup {n} /\ RulePlaces(t) = RulePlaces(s)
  BY <1>2, ChosenOfMore
<1>5. Lists(p.facts, s, FactPlaces(s)) /\ Lists(WordsOf(c.rules), s, RulePlaces(s))
  BY DEF Grouped, c
<1>6. Lists(p.facts, t, FactPlaces(s)) /\ Lists(WordsOf(c.rules), t, RulePlaces(s))
  BY <1>3, <1>4, <1>5, ListsWithout
<1>7. t # <<>> /\ Last(t) = l
  <2>1. t \in Seq(Seq(Word)) /\ Len(t) = n /\ t[n] = l /\ n # 0
    BY <1>2
  <2> HIDE DEF t
  <2>2. QED
    BY <2>1 DEF Last
<1>8. q.open = <<>> => Close(q).rules = c.rules
  BY <1>1, CloseTyped
<1>9. CASE Starts(l, "?")
  <2> HIDE DEF t
  <2> QED BY <1>1, <1>4, <1>6, <1>7, <1>8, <1>9 DEF Grouped, q, t, l
<1>10. CASE ~Starts(l, "?") /\ ~IsRule(l)
  <2>1. Lists(Append(p.facts, l), t, FactPlaces(t))
    BY <1>3, <1>4, <1>5, <1>10, ListsWith
  <2> HIDE DEF t
  <2>2. q.bad \/ Grouped(q, t)
    BY <1>1, <1>4, <1>6, <1>7, <1>8, <1>10, <2>1 DEF Grouped
  <2>3. QED
    BY <2>2 DEF q, t, l
<1>11. CASE ~Starts(l, "?") /\ IsRule(l)
  <2>1. IsStatement(r, l)
    BY <1>2, <1>11, StatementStarts DEF r
  <2>2. q.open = <<r>> /\ q.open # <<>> /\ q.open[1] = r /\ r \in Rule /\ RuleWords(r) = l
    <3>1. q.open = <<r>>
      BY <1>1, <1>11
    <3>2. r \in Rule
      <4>1. \A y : <<y>> # <<>> /\ <<y>>[1] = y
        OBVIOUS
      <4>2. q.open = <<>> \/ \E x \in Rule : q.open = <<x>>
        BY <1>1 DEF Reading
      <4>3. PICK x \in Rule : q.open = <<x>>
        BY <3>1, <4>1, <4>2
      <4>4. QED
        BY <3>1, <4>1, <4>3
    <3>3. QED
      BY <2>1, <3>1, <3>2 DEF IsStatement
  <2>3. Close(q).rules = Append(c.rules, r)
    BY <1>1, <2>2, CloseTyped
  <2>4. IsSeq(WordsOf(c.rules)) /\ WordsOf(Close(q).rules) = Append(WordsOf(c.rules), l)
    BY <1>3, <2>2, <2>3, WordsOfAppend
  <2>5. Lists(WordsOf(Close(q).rules), t, RulePlaces(t))
    BY <1>3, <1>4, <1>5, <1>11, <2>4, ListsWith
  <2> HIDE DEF t
  <2>6. Grouped(q, t)
    BY <1>1, <1>4, <1>6, <1>7, <1>11, <2>1, <2>2, <2>5 DEF Grouped
  <2>7. QED
    BY <2>6 DEF q, t, l
<1>12. QED
  BY <1>9, <1>10, <1>11

\* A line that made the text unreadable is not undone.
LEMMA BadStays ==
  ASSUME NEW p \in Reading, p.bad, NEW line \in Line
  PROVE  ReadLine(p, line).bad
<1>1. CASE Words(line) = <<>>
  BY <1>1 DEF ReadLine
<1>2. CASE Words(line) # <<>> /\ Continues(p, Words(line))
  <2>1. PICK r \in Rule : ReadLine(p, line) = [p EXCEPT !.open = <<r>>]
    BY <1>2, ContinueShape
  <2>2. QED
    BY <2>1 DEF Reading
<1>3. CASE Words(line) # <<>> /\ ~Continues(p, Words(line))
  BY <1>3, StartShape
<1>4. QED
  BY <1>1, <1>2, <1>3

LEMMA JoinTyped ==
  ASSUME NEW s \in Seq(Seq(Word)), NEW l \in Seq(Word)
  PROVE  JoinLine(s, l) \in Seq(Seq(Word))
<1>1. CASE l = <<>>
  BY <1>1 DEF JoinLine
<1>2. CASE l # <<>> /\ s # <<>> /\ ContinuesAbove(Last(s), l)
  <2>1. Len(s) \in Nat \ {0}
    BY <1>2
  <2>2. Last(s) \in Seq(Word)
    <3>1. Len(s) \in 1..Len(s)
      BY <2>1
    <3>2. QED
      BY <3>1 DEF Last
  <2>3. Front(s) \in Seq(Seq(Word))
    <3>1. \A i \in 1..(Len(s) - 1) : s[i] \in Seq(Word)
      OBVIOUS
    <3>2. QED
      BY <2>1, <3>1 DEF Front
  <2>4. Last(s) \o l \in Seq(Word)
    BY <2>2
  <2>5. JoinLine(s, l) = Append(Front(s), Last(s) \o l)
    BY <1>2 DEF JoinLine
  <2>6. QED
    BY <2>3, <2>4, <2>5
<1>3. CASE l # <<>> /\ ~(s # <<>> /\ ContinuesAbove(Last(s), l))
  <2>1. JoinLine(s, l) = Append(s, l)
    BY <1>3 DEF JoinLine
  <2>2. QED
    BY <2>1
<1>4. QED
  BY <1>1, <1>2, <1>3

\* Every line of a text is grouped as the documentation says.
GroupedText(text) ==
  /\ DocumentedStatements(text) \in Seq(Seq(Word))
  /\ EndsPlainly(text) =>
       Read(text).bad \/ Grouped(Read(text), DocumentedStatements(text))

LEMMA GroupedStep ==
  ASSUME NEW text \in Texts, NEW line \in Line, GroupedText(text)
  PROVE  GroupedText(Append(text, line))
<1> DEFINE longer == Append(text, line)
           p == Read(text)
           q == Read(longer)
           s == DocumentedStatements(text)
           l == Words(line)
<1>1. q = ReadLine(p, line) /\ DocumentedStatements(longer) = JoinLine(s, l) /\ p \in Reading
  BY ReadAppend, StatementsAppend, ReadTyped DEF Texts
<1>2. l \in Seq(Word) /\ s \in Seq(Seq(Word)) /\ JoinLine(s, l) \in Seq(Seq(Word))
  BY LineWords, JoinTyped DEF GroupedText
<1>3. EndsPlainly(longer) => EndsPlainly(text) /\ (l # <<>> => Last(l) \notin EndsInAnd)
  <2>1. /\ DOMAIN longer = 1..(Len(text) + 1) /\ longer[Len(text) + 1] = line
        /\ DOMAIN text = 1..Len(text) /\ \A i \in 1..Len(text) : longer[i] = text[i]
        /\ Len(text) \in Nat
    BY DEF Texts
  <2> HIDE DEF longer, l
  <2>2. /\ Len(text) + 1 \in DOMAIN longer
        /\ \A i \in DOMAIN text : i \in DOMAIN longer /\ longer[i] = text[i]
    BY <2>1
  <2>3. QED
    BY <2>1, <2>2 DEF EndsPlainly, l
<1> HIDE DEF longer, p, q, s, l
<1>4. ASSUME EndsPlainly(longer) PROVE q.bad \/ Grouped(q, JoinLine(s, l))
  <2>1. p.bad \/ Grouped(p, s)
    BY <1>3, <1>4 DEF GroupedText, p, s
  <2>2. CASE p.bad
    BY <1>1, <2>2, BadStays
  <2>3. CASE Grouped(p, s) /\ l = <<>>
    BY <1>1, <2>3 DEF ReadLine, JoinLine, l
  <2>4. CASE Grouped(p, s) /\ l # <<>> /\ Continues(p, l)
    <3>1. JoinLine(s, l) = Append(Front(s), Last(s) \o l)
      BY <1>1, <1>2, <2>4, ContinuesAsDocumented DEF JoinLine
    <3>2. Grouped(ReadLine(p, line), Append(Front(s), Last(s) \o l))
      BY <1>1, <1>2, <1>3, <1>4, <2>4, GroupedContinued DEF l
    <3>3. QED
      BY <1>1, <3>1, <3>2
  <2>5. CASE Grouped(p, s) /\ l # <<>> /\ ~Continues(p, l)
    <3>1. JoinLine(s, l) = Append(s, l)
      BY <1>1, <1>2, <2>5, ContinuesAsDocumented DEF JoinLine
    <3>2. ReadLine(p, line).bad \/ Grouped(ReadLine(p, line), Append(s, l))
      BY <1>1, <1>2, <1>3, <1>4, <2>5, GroupedStarted DEF l
    <3>3. QED
      BY <1>1, <3>1, <3>2
  <2>6. QED
    BY <2>1, <2>2, <2>3, <2>4, <2>5
<1>5. QED
  BY <1>1, <1>2, <1>4 DEF GroupedText, longer, q

LEMMA TextsGroup ==
  ASSUME NEW text \in Texts
  PROVE  EndsPlainly(text) => GroupsAsDocumented(text)
<1> DEFINE S == {t \in Texts : GroupedText(t)}
<1>1. <<>> \in S
  <2>1. <<>> \in Texts /\ <<>> \in Seq(Seq(Word))
    BY DEF Texts
  <2>2. QED
    BY <2>1, ReadEmpty, StatementsOfNone, GroupedAtFirst DEF GroupedText
<1>2. ASSUME NEW t \in Texts, NEW l \in Line, t \in S PROVE Append(t, l) \in S
  <2>1. Append(t, l) \in Texts
    BY DEF Texts
  <2>2. QED
    BY <1>2, <2>1, GroupedStep
<1>3. Texts \subseteq S
  <2> HIDE DEF S
  <2> QED BY <1>1, <1>2, TextInd
<1>4. GroupedText(text)
  BY <1>3
<1>5. Parse(text).facts = Read(text).facts /\ Parse(text).bad = Read(text).bad
      /\ Parse(text).rules = Close(Read(text)).rules
  BY ReadTyped, CloseTyped DEF Parse
<1>6. QED
  BY <1>4, <1>5 DEF GroupedText, Grouped, GroupsAsDocumented

\* The parser finds the statements of every session that the documented grammar
\* finds, as long as no line ends with a goal that ends with the letters "and".
THEOREM ShellGroupsLines == Spec => []LinesGroupAsDocumented
<1>1. CliInv => LinesGroupAsDocumented
  <2>1. CliInv => lines \in Texts
    BY DEF CliInv, TypeOK, Texts
  <2>2. QED
    BY <2>1, TextsGroup DEF LinesGroupAsDocumented
<1>2. QED
  BY <1>1, CliInvariant, PTL
=============================================================================
