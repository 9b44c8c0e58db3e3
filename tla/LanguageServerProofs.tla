------------------------ MODULE LanguageServerProofs ------------------------
(***************************************************************************)
(* For any documents, lines and goals: what the server keeps, shows and    *)
(* answers of a document is that of the text the editor holds, and its     *)
(* parser reads that text as the tools' parser does.                       *)
(***************************************************************************)
EXTENDS LanguageServer, FiniteSetTheorems, SequenceTheorems, WellFoundedInduction, TLAPS

Functions ==
  /\ opened \subseteq Docs /\ version \in [Docs -> Nat]
  /\ DOMAIN text = Docs /\ DOMAIN cache = Docs /\ DOMAIN shown = Docs

\* A document that is closed has no version, nor has an entry made of its file.
ClosedAtZero ==
  \A d \in Docs \ opened : version[d] = 0 /\ (cache[d] = <<>> \/ cache[d][1].version = 0)

\* CacheIsCurrent, with the versions editors number from.
OpenIsCached ==
  \A d \in opened :
    version[d] > 0 /\ cache[d] = <<[version |-> version[d], items |-> ParsePositioned(text[d])]>>

IInv == Functions /\ ClosedAtZero /\ OpenIsCached /\ PublishedIsCurrent

\* An entry of another version is not used.
LEMMA EntryOfNewVersion ==
  ASSUME NEW d, NEW t, NEW v, cache[d] = <<>> \/ cache[d][1].version # v
  PROVE  Entry(d, t, v) = [version |-> v, items |-> ParsePositioned(t)]
BY DEF Entry

\* The entry of an open document is.
LEMMA EntryOfOpen ==
  ASSUME OpenIsCached, NEW d \in opened
  PROVE  Entry(d, text[d], version[d]) =
           [version |-> version[d], items |-> ParsePositioned(text[d])]
<1>1. cache[d][1] = [version |-> version[d], items |-> ParsePositioned(text[d])]
  BY DEF OpenIsCached
<1>2. QED
  BY <1>1 DEF Entry

\* Checking text t of a document leaves the server with what belongs to t.
LEMMA DiagnosedIsCurrent ==
  ASSUME IInv, NEW d \in Docs, NEW t, NEW v \in Nat, v > 0,
         opened' = opened \cup {d}, RunDiagnostics(d, t, v),
         Entry(d, t, v) = [version |-> v, items |-> ParsePositioned(t)]
  PROVE  IInv'
<1>1. /\ text' = [text EXCEPT ![d] = t] /\ version' = [version EXCEPT ![d] = v]
      /\ cache' = [cache EXCEPT ![d] = <<[version |-> v, items |-> ParsePositioned(t)]>>]
      /\ shown' = [shown EXCEPT ![d] = Diagnostics(t, ParsePositioned(t))]
  <2>1. Entry(d, t, v).items = ParsePositioned(t)
    OBVIOUS
  <2>2. QED
    BY <2>1 DEF RunDiagnostics
<1>2. /\ text'[d] = t /\ version'[d] = v
      /\ cache'[d] = <<[version |-> v, items |-> ParsePositioned(t)]>>
      /\ shown'[d] = Diagnostics(t, ParsePositioned(t))
  BY <1>1 DEF IInv, Functions
<1>3. \A e \in Docs \ {d} : /\ text'[e] = text[e] /\ version'[e] = version[e]
                            /\ cache'[e] = cache[e] /\ shown'[e] = shown[e]
  BY <1>1 DEF IInv, Functions
<1>4. Functions'
  BY <1>1 DEF IInv, Functions
<1>5. ClosedAtZero'
  BY <1>3 DEF IInv, ClosedAtZero
<1>6. OpenIsCached'
  <2>1. ASSUME NEW e \in opened', e # d
        PROVE  /\ version'[e] > 0
               /\ cache'[e] = <<[version |-> version'[e], items |-> ParsePositioned(text'[e])]>>
    <3>1. e \in opened /\ e \in Docs \ {d}
      BY <2>1 DEF IInv, Functions
    <3>2. QED
      BY <3>1, <1>3 DEF IInv, OpenIsCached
  <2>2. QED
    BY <2>1, <1>2 DEF OpenIsCached
<1>7. PublishedIsCurrent'
  BY <1>2, <1>3 DEF IInv, PublishedIsCurrent
<1>8. QED
  BY <1>4, <1>5, <1>6, <1>7 DEF IInv

\* Looking a document up changes nothing but the entry of a closed one.
LEMMA LookedIsCurrent ==
  ASSUME IInv, NEW d \in Docs, cache' = [cache EXCEPT ![d] = <<Looked(d)>>],
         UNCHANGED <<opened, text, version, shown>>
  PROVE  IInv'
<1>1. \A e \in Docs \ {d} : cache'[e] = cache[e]
  BY DEF IInv, Functions
<1>2. cache'[d] = <<Looked(d)>>
  BY DEF IInv, Functions
<1>3. Functions' /\ PublishedIsCurrent'
  BY DEF IInv, Functions, PublishedIsCurrent
<1>4. ASSUME d \in opened PROVE OpenIsCached'
  <2>1. Looked(d) = [version |-> version[d], items |-> ParsePositioned(text[d])]
    BY <1>4, EntryOfOpen DEF IInv, Looked, Current
  <2>2. QED
    BY <2>1, <1>1, <1>2, <1>4 DEF IInv, Functions, OpenIsCached
<1>5. ASSUME d \notin opened PROVE Looked(d).version = 0
  BY <1>5 DEF IInv, ClosedAtZero, Looked, Entry
<1>6. ASSUME d \notin opened PROVE OpenIsCached'
  BY <1>1, <1>6 DEF IInv, Functions, OpenIsCached
<1>7. ClosedAtZero'
  <2>1. ASSUME d \notin opened PROVE cache'[d][1].version = 0
    BY <2>1, <1>2, <1>5
  <2>2. QED
    BY <2>1, <1>1 DEF IInv, ClosedAtZero
<1>8. QED
  BY <1>3, <1>4, <1>6, <1>7 DEF IInv

LEMMA Initially == ASSUME Init PROVE IInv
<1>1. opened = {}
  BY DEF Init
<1>2. Functions /\ ClosedAtZero
  BY DEF Init, Functions, ClosedAtZero
<1>3. OpenIsCached /\ PublishedIsCurrent
  BY <1>1 DEF Init, OpenIsCached, PublishedIsCurrent
<1>4. QED
  BY <1>2, <1>3 DEF IInv

LEMMA StepKeeps == ASSUME IInv, [Next]_vars PROVE IInv'
<1>1. ASSUME NEW d \in Docs, DidOpen(d) PROVE IInv'
  <2>1. cache[d] = <<>> \/ cache[d][1].version # 1
    BY <1>1 DEF DidOpen, IInv, ClosedAtZero
  <2>2. QED
    BY <1>1, <2>1, EntryOfNewVersion, DiagnosedIsCurrent DEF DidOpen
<1>2. ASSUME NEW d \in Docs, NEW t, DidChange(d, t) PROVE IInv'
  <2>1. version[d] \in Nat /\ d \in opened
    BY <1>2 DEF DidChange, IInv, Functions
  <2>2. cache[d][1] = [version |-> version[d], items |-> ParsePositioned(text[d])]
    BY <2>1 DEF IInv, OpenIsCached
  <2>3. Entry(d, t, version[d] + 1) = [version |-> version[d] + 1, items |-> ParsePositioned(t)]
    BY <2>1, <2>2, EntryOfNewVersion
  <2>4. opened' = opened \cup {d}
    BY <1>2, <2>1 DEF DidChange
  <2>5. QED
    BY <1>2, <2>1, <2>3, <2>4, DiagnosedIsCurrent DEF DidChange
<1>3. ASSUME NEW d \in Docs, DidSave(d) PROVE IInv'
  <2>1. version[d] \in Nat /\ version[d] > 0 /\ d \in opened
    BY <1>3 DEF DidSave, IInv, Functions, OpenIsCached
  <2>2. opened' = opened \cup {d}
    BY <1>3, <2>1 DEF DidSave
  <2>3. Entry(d, text[d], version[d]) =
          [version |-> version[d], items |-> ParsePositioned(text[d])]
    BY <2>1, EntryOfOpen DEF IInv
  <2>4. QED
    BY <1>3, <2>1, <2>2, <2>3, DiagnosedIsCurrent DEF DidSave
<1>4. ASSUME NEW d \in Docs, DidClose(d) PROVE IInv'
  <2>1. /\ opened' = opened \ {d} /\ version'[d] = 0
        /\ cache'[d] = <<>> /\ shown'[d] = NothingShown
    BY <1>4 DEF DidClose, IInv, Functions
  <2>2. \A e \in Docs \ {d} : /\ text'[e] = text[e] /\ version'[e] = version[e]
                              /\ cache'[e] = cache[e] /\ shown'[e] = shown[e]
    BY <1>4 DEF DidClose, IInv, Functions
  <2>3. Functions'
    BY <1>4 DEF DidClose, IInv, Functions
  <2>4. ClosedAtZero'
    BY <2>1, <2>2 DEF IInv, ClosedAtZero
  <2>5. OpenIsCached'
    BY <2>1, <2>2 DEF IInv, Functions, OpenIsCached
  <2>6. PublishedIsCurrent'
    BY <2>1, <2>2 DEF IInv, PublishedIsCurrent
  <2>7. QED
    BY <2>3, <2>4, <2>5, <2>6 DEF IInv
<1>5. ASSUME NEW d \in Docs, NEW i, Hover(d, i) PROVE IInv'
  BY <1>5, LookedIsCurrent DEF Hover
<1>6. ASSUME NEW d \in Docs, NEW begun, Completion(d, begun) PROVE IInv'
  BY <1>6, LookedIsCurrent DEF Completion
<1>7. ASSUME NEW d \in Docs, WriteFile(d) PROVE IInv'
  BY <1>7 DEF WriteFile, IInv, Functions, ClosedAtZero, OpenIsCached, PublishedIsCurrent
<1>8. ASSUME UNCHANGED vars PROVE IInv'
  BY <1>8 DEF vars, IInv, Functions, ClosedAtZero, OpenIsCached, PublishedIsCurrent
<1>9. QED
  BY <1>1, <1>2, <1>3, <1>4, <1>5, <1>6, <1>7, <1>8 DEF Next

\* The items an editor's answers are made of are those of its text, whatever
\* was opened, changed, saved, closed and looked at before (_get_pkb).
THEOREM EditorCacheIsCurrent == Spec => []CacheIsCurrent
<1>1. IInv => CacheIsCurrent
  BY DEF IInv, OpenIsCached, CacheIsCurrent
<1>2. QED
  BY Initially, StepKeeps, <1>1, PTL DEF Spec

\* The diagnostics shown are those of the text shown (_run_diagnostics).
THEOREM EditorShowsItsText == Spec => []PublishedIsCurrent
<1>1. IInv => PublishedIsCurrent
  BY DEF IInv
<1>2. QED
  BY Initially, StepKeeps, <1>1, PTL DEF Spec

----------------------------------------------------------------------------
(* The items of a text, found line by line.                                *)

LEMMA NatMin ==
  ASSUME NEW T \in SUBSET Nat, T # {}
  PROVE  \E x \in T : \A y \in T : x <= y
<1> DEFINE R == OpToRel(<, Nat)
<1>1. IsWellFoundedOn(R, Nat)
  BY NatLessThanWellFounded
<1>2. \A x, y \in Nat : x < y => <<x, y>> \in R
  BY DEF OpToRel
<1> HIDE DEF R
<1>3. PICK x \in T : \A y \in T : ~(<<y, x>> \in R)
  BY <1>1, WFMin
<1>4. \A y \in T : ~(y < x)
  BY <1>2, <1>3
<1>5. QED
  BY <1>3, <1>4

LEMMA NatInd ==
  ASSUME NEW S, 0 \in S, \A n \in Nat : n \in S => n + 1 \in S
  PROVE  \A n \in Nat : n \in S
<1> SUFFICES ASSUME NEW m \in Nat, m \notin S PROVE FALSE
  OBVIOUS
<1>1. PICK x \in Nat \ S : \A y \in Nat \ S : x <= y
  BY NatMin
<1>2. x - 1 \in Nat /\ x - 1 \in S
  BY <1>1
<1>3. QED
  BY <1>1, <1>2

Texts == Seq(Line)

\* What ParsePositioned has found after line i, as it recurs over the lines.
ItemsUpto(lines, items, i) ==
  IF i = 0 THEN <<>> ELSE ItemsWith(items[i - 1], lines[i], i)

LEMMA ItemsExist ==
  ASSUME NEW lines
  PROVE  \A n \in Nat : \E f : f = [i \in 0..n |-> ItemsUpto(lines, f, i)]
<1> DEFINE Upto == {n \in Nat : \E f : f = [i \in 0..n |-> ItemsUpto(lines, f, i)]}
<1>1. 0 \in Upto
  <2> DEFINE f == [i \in 0..0 |-> <<>>]
  <2>1. f = [i \in 0..0 |-> ItemsUpto(lines, f, i)]
    BY DEF ItemsUpto
  <2>2. QED
    BY <2>1
<1>2. ASSUME NEW n \in Nat, n \in Upto PROVE n + 1 \in Upto
  <2>1. PICK f : f = [i \in 0..n |-> ItemsUpto(lines, f, i)]
    BY <1>2
  <2> DEFINE g == [i \in 0..(n + 1) |-> ItemsUpto(lines, f, i)]
  <2>2. \A i \in 0..n : g[i] = f[i]
    <3> TAKE i \in 0..n
    <3>1. f[i] = ItemsUpto(lines, f, i)
      BY <2>1
    <3>2. i \in 0..(n + 1)
      OBVIOUS
    <3>3. QED
      BY <3>1, <3>2
  <2>3. \A i \in 0..(n + 1) : ItemsUpto(lines, f, i) = ItemsUpto(lines, g, i)
    <3> TAKE i \in 0..(n + 1)
    <3>1. CASE i > 0
      <4>1. i - 1 \in 0..n
        BY <3>1
      <4>2. g[i - 1] = f[i - 1]
        BY <2>2, <4>1
      <4> HIDE DEF g
      <4>3. QED
        BY <4>2 DEF ItemsUpto
    <3>2. CASE i = 0
      BY <3>2 DEF ItemsUpto
    <3>3. QED
      BY <3>1, <3>2
  <2>4. g = [i \in 0..(n + 1) |-> ItemsUpto(lines, g, i)]
    BY <2>3
  <2>5. \E f1 : f1 = [i \in 0..(n + 1) |-> ItemsUpto(lines, f1, i)]
    <3> HIDE DEF g
    <3> QED BY <2>4
  <2>6. QED
    BY <2>5
<1>3. QED
  <2> HIDE DEF Upto
  <2>1. \A n \in Nat : n \in Upto
    BY <1>1, <1>2, NatInd
  <2>2. QED
    BY <2>1 DEF Upto

LEMMA ItemsSteps ==
  ASSUME NEW lines \in Texts
  PROVE  \E items : /\ items[0] = <<>> /\ items[Len(lines)] = ParsePositioned(lines)
                    /\ \A i \in 1..Len(lines) :
                         items[i] = ItemsWith(items[i - 1], lines[i], i)
<1>0. Len(lines) \in Nat
  BY DEF Texts
<1>1. PICK f : f = [i \in 0..Len(lines) |-> ItemsUpto(lines, f, i)]
  BY <1>0, ItemsExist
<1>2. f = [i \in 0..Len(lines) |->
             IF i = 0 THEN <<>> ELSE ItemsWith(f[i - 1], lines[i], i)]
  BY <1>1 DEF ItemsUpto
<1>3. PICK g : /\ g = [i \in 0..Len(lines) |->
                         IF i = 0 THEN <<>> ELSE ItemsWith(g[i - 1], lines[i], i)]
               /\ g[Len(lines)] = ParsePositioned(lines)
  BY <1>2 DEF ParsePositioned
<1>4. g[0] = <<>>
  BY <1>0, <1>3
<1>5. ASSUME NEW i \in 1..Len(lines) PROVE g[i] = ItemsWith(g[i - 1], lines[i], i)
  <2>1. i \in 0..Len(lines) /\ i # 0
    BY <1>0
  <2>2. QED
    BY <1>3, <2>1
<1>6. QED
  BY <1>3, <1>4, <1>5

----------------------------------------------------------------------------
(* Each line has its statement.                                            *)

ItemType ==
  [kind : {"fact", "rule", "query"}, head : Seq(Word), body : Seq(Word), id : Seq(Id),
   first : Nat, last : Nat]

\* The items found in the first n lines.
Located(lines, items, n) ==
  /\ items \in Seq(ItemType)
  /\ \A k \in DOMAIN items : 1 <= items[k].first /\ items[k].first <= items[k].last
                             /\ items[k].last <= n
  /\ \A h, k \in DOMAIN items : h < k => items[h].last < items[k].first
  /\ \A i \in 1..n : Words(lines[i]) # <<>> =>
       \E k \in DOMAIN items : items[k].first <= i /\ i <= items[k].last

LEMMA LineWords ==
  ASSUME NEW line \in Line
  PROVE  Words(line) \in Seq(Word) /\ IdOn(line) \in Seq(Id)
<1>1. line \in Seq(Word) /\ Len(line) \in Nat
  BY DEF Line
<1>2. CASE EndsInId(line)
  <2>1. line # <<>> /\ Last(line) \in Id
    BY <1>2 DEF EndsInId
  <2>2. Words(line) = SubSeq(line, 1, Len(line) - 1) /\ IdOn(line) = <<Last(line)>>
    BY <1>2 DEF Words, IdOn, Front
  <2>3. QED
    BY <1>1, <2>1, <2>2
<1>3. CASE ~EndsInId(line)
  BY <1>1, <1>3 DEF Words, IdOn
<1>4. QED
  BY <1>2, <1>3

\* The rule that a line continues takes it in.
LEMMA GrowIs ==
  ASSUME NEW items \in Seq(ItemType), items # <<>>, NEW line \in Line, NEW i \in Nat
  PROVE  LET n == Len(items)
             old == items[n]
             id == IF IdOn(line) = <<>> THEN old.id ELSE IdOn(line)
             new == [kind |-> old.kind, head |-> old.head, body |-> old.body \o Words(line),
                     id |-> id, first |-> old.first, last |-> i]
         IN  /\ Grow(items, line, i) = [items EXCEPT ![n] = new]
             /\ new \in ItemType /\ n \in DOMAIN items
<1> DEFINE n == Len(items)
           id == IF IdOn(line) = <<>> THEN items[n].id ELSE IdOn(line)
<1>0. n \in DOMAIN items /\ DOMAIN items = 1..n /\ n \in Nat
  OBVIOUS
<1>1. PICK old \in ItemType : old = items[n]
  BY <1>0
<1>2. PICK b : b = old.body \o Words(line)
  OBVIOUS
<1>3. PICK d : d = id
  OBVIOUS
<1> DEFINE new == [kind |-> old.kind, head |-> old.head, body |-> b, id |-> d,
                   first |-> old.first, last |-> i]
<1>4. b \in Seq(Word) /\ d \in Seq(Id)
  <2>1. old.body \in Seq(Word) /\ old.id \in Seq(Id)
    BY DEF ItemType
  <2>2. QED
    BY <1>1, <1>2, <1>3, <2>1, LineWords
<1>5. new \in ItemType
  BY <1>4 DEF ItemType
<1>6. \A x, y : [[items EXCEPT ![n] = x] EXCEPT ![n] = y] = [items EXCEPT ![n] = y]
  BY <1>0
<1>7. \A x : [items EXCEPT ![n] = x][n] = x
  BY <1>0
<1>8. old = [kind |-> old.kind, head |-> old.head, body |-> old.body, id |-> old.id,
             first |-> old.first, last |-> old.last]
  BY DEF ItemType
<1>9. [old EXCEPT !.body = b] =
        [kind |-> old.kind, head |-> old.head, body |-> b, id |-> old.id,
         first |-> old.first, last |-> old.last]
  BY <1>8
<1>10. [[old EXCEPT !.body = b] EXCEPT !.last = i] =
        [kind |-> old.kind, head |-> old.head, body |-> b, id |-> old.id,
         first |-> old.first, last |-> i]
  <2>1. [[kind |-> old.kind, head |-> old.head, body |-> b, id |-> old.id,
          first |-> old.first, last |-> old.last] EXCEPT !.last = i] =
          [kind |-> old.kind, head |-> old.head, body |-> b, id |-> old.id,
           first |-> old.first, last |-> i]
    OBVIOUS
  <2>2. QED
    BY <1>9, <2>1, Zenon
<1>11. [[[old EXCEPT !.body = b] EXCEPT !.last = i] EXCEPT !.id = d] = new
  <2>1. [[kind |-> old.kind, head |-> old.head, body |-> b, id |-> old.id,
          first |-> old.first, last |-> i] EXCEPT !.id = d] = new
    OBVIOUS
  <2> HIDE DEF new
  <2>2. QED
    BY <1>10, <2>1, Zenon
<1> DEFINE u == [items EXCEPT ![n] = [items[n] EXCEPT !.body = b]]
           v == [u EXCEPT ![n] = [u[n] EXCEPT !.last = i]]
           w == [v EXCEPT ![n] = [v[n] EXCEPT !.id = d]]
<1>12. u = [items EXCEPT ![n] = [old EXCEPT !.body = b]]
  BY <1>1
<1>13. v = [items EXCEPT ![n] = [[old EXCEPT !.body = b] EXCEPT !.last = i]]
  <2>1. u[n] = [old EXCEPT !.body = b]
    BY <1>7, <1>12
  <2>2. v = [u EXCEPT ![n] = [[old EXCEPT !.body = b] EXCEPT !.last = i]]
    BY <2>1
  <2>3. QED
    BY <1>6, <1>12, <2>2
<1>14. w = [items EXCEPT ![n] = new]
  BY <1>6, <1>7, <1>11, <1>13
<1>15. v[n].id = items[n].id
  BY <1>1, <1>7, <1>10, <1>13
<1>16. Grow(items, line, i) = w
  BY <1>1, <1>2, <1>3, <1>15 DEF Grow
<1> HIDE DEF new, w
<1>17. QED
  BY <1>0, <1>1, <1>2, <1>3, <1>5, <1>14, <1>16 DEF new

LEMMA ItemAtIs ==
  ASSUME NEW l \in Seq(Word), l # <<>>, NEW id \in Seq(Id), NEW i \in Nat
  PROVE  /\ ItemAt(l, id, i) \in ItemType
         /\ ItemAt(l, id, i).first = i /\ ItemAt(l, id, i).last = i
<1>0. <<>> \in Seq(Word) /\ <<>> \in Seq(Id)
  OBVIOUS
<1> DEFINE Kinds == {"fact", "rule", "query"}
<1>5. "fact" \in Kinds /\ "rule" \in Kinds /\ "query" \in Kinds
  OBVIOUS
<1>1. ASSUME NEW kind \in Kinds, NEW h \in Seq(Word), NEW b \in Seq(Word),
             NEW d \in Seq(Id)
      PROVE  Item(kind, h, b, d, i) \in ItemType /\ Item(kind, h, b, d, i).first = i
             /\ Item(kind, h, b, d, i).last = i
  BY DEF Item, ItemType
<1> HIDE DEF Kinds
<1>2. CASE Starts(l, "?")
  <2>1. PICK h \in Seq(Word), b \in Seq(Word), d \in Seq(Id) :
          ItemAt(l, id, i) = Item("query", h, b, d, i)
    <3>1. Tail(l) \in Seq(Word)
      OBVIOUS
    <3>2. ItemAt(l, id, i) = Item("query", <<>>, Tail(l), <<>>, i)
      BY <1>2 DEF ItemAt
    <3>3. QED
      BY <1>0, <3>1, <3>2, Zenon
  <2>2. QED
    BY <1>1, <1>5, <2>1
<1>3. CASE ~Starts(l, "?") /\ IsRule(l)
  <2>1. FirstIf(l) \in 2..Len(l)
    <3>1. Ifs(l) \in SUBSET Nat /\ Ifs(l) # {}
      BY <1>3 DEF Ifs, IsRule
    <3>2. PICK x \in Ifs(l) : \A y \in Ifs(l) : x <= y
      BY <3>1, NatMin
    <3>3. FirstIf(l) \in Ifs(l)
      BY <3>2 DEF FirstIf
    <3>4. QED
      BY <3>3 DEF Ifs
  <2>2. PICK h \in Seq(Word), b \in Seq(Word) : ItemAt(l, id, i) = Item("rule", h, b, id, i)
    <3>1. SubSeq(l, 1, FirstIf(l) - 1) \in Seq(Word)
          /\ SubSeq(l, FirstIf(l) + 1, Len(l)) \in Seq(Word)
      BY <2>1
    <3>2. ItemAt(l, id, i) = Item("rule", SubSeq(l, 1, FirstIf(l) - 1),
                                  SubSeq(l, FirstIf(l) + 1, Len(l)), id, i)
      BY <1>3 DEF ItemAt
    <3>3. QED
      BY <3>1, <3>2
  <2>3. QED
    BY <1>1, <1>5, <2>2
<1>4. CASE ~Starts(l, "?") /\ ~IsRule(l)
  <2>1. PICK h \in Seq(Word), b \in Seq(Word), d \in Seq(Id) :
          ItemAt(l, id, i) = Item("fact", h, b, d, i)
    <3>1. ItemAt(l, id, i) = Item("fact", l, <<>>, <<>>, i)
      BY <1>4 DEF ItemAt
    <3>2. QED
      BY <1>0, <3>1, Zenon
  <2>2. QED
    BY <1>1, <1>5, <2>1
<1>7. QED
  BY <1>2, <1>3, <1>4

LEMMA LocatedStep ==
  ASSUME NEW lines \in Texts, NEW n \in Nat, n < Len(lines),
         NEW items, Located(lines, items, n)
  PROVE  Located(lines, ItemsWith(items, lines[n + 1], n + 1), n + 1)
<1>0. /\ lines[n + 1] \in Line /\ n + 1 \in Nat
      /\ items \in Seq(ItemType)
      /\ \A i \in 1..(n + 1) : i \in 1..n \/ i = n + 1
  BY DEF Texts, Located
<1>1. /\ DOMAIN items = 1..Len(items) /\ Len(items) \in Nat
      /\ \A k \in DOMAIN items : items[k].first \in Nat /\ items[k].last \in Nat
  <2>1. /\ DOMAIN items = 1..Len(items) /\ Len(items) \in Nat
        /\ \A k \in DOMAIN items : items[k] \in ItemType
    BY <1>0
  <2>2. \A x \in ItemType : x.first \in Nat /\ x.last \in Nat
    BY DEF ItemType
  <2>3. QED
    BY <2>1, <2>2
<1> DEFINE line == lines[n + 1]
           m == Len(items)
           s == ItemsWith(items, line, n + 1)
<1>2. CASE Grows(items)
  <2>1. items # <<>> /\ s = Grow(items, line, n + 1)
    BY <1>2 DEF Grows, ItemsWith
  <2>2. PICK new \in ItemType : /\ s = [items EXCEPT ![m] = new]
                                /\ new.first = items[m].first /\ new.last = n + 1
    <3> DEFINE old == items[m]
               id == IF IdOn(line) = <<>> THEN old.id ELSE IdOn(line)
               made == [kind |-> old.kind, head |-> old.head, body |-> old.body \o Words(line),
                        id |-> id, first |-> old.first, last |-> n + 1]
    <3>1. Grow(items, line, n + 1) = [items EXCEPT ![m] = made] /\ made \in ItemType
      BY <1>0, <2>1, GrowIs
    <3>2. made.first = items[m].first /\ made.last = n + 1
      OBVIOUS
    <3> HIDE DEF made
    <3>3. QED
      BY <2>1, <3>1, <3>2
  <2>3. m \in DOMAIN items
    BY <1>0, <2>1
  <2> HIDE DEF s, m
  <2>4. /\ s \in Seq(ItemType) /\ DOMAIN s = DOMAIN items /\ s[m] = new
        /\ \A k \in DOMAIN items : k # m => s[k] = items[k]
    BY <1>0, <2>2, <2>3
  <2>5. \A k \in DOMAIN s : s[k].first = items[k].first
    BY <2>2, <2>4
  <2>6. \A k \in DOMAIN s : s[k].last = IF k = m THEN n + 1 ELSE items[k].last
    BY <2>2, <2>4
  <2>7. \A k \in DOMAIN items : k <= m
    BY <1>1 DEF m
  <2>8. \A k \in DOMAIN s : 1 <= s[k].first /\ s[k].first <= s[k].last /\ s[k].last <= n + 1
    <3> TAKE k \in DOMAIN s
    <3>1. 1 <= items[k].first /\ items[k].first <= items[k].last /\ items[k].last <= n
      BY <2>4 DEF Located
    <3>2. items[k].first \in Nat /\ items[k].last \in Nat
      BY <1>1, <2>4
    <3>3. CASE k = m
      BY <2>5, <2>6, <3>1, <3>2, <3>3
    <3>4. CASE k # m
      BY <2>5, <2>6, <3>1, <3>2, <3>4
    <3>5. QED
      BY <3>3, <3>4
  <2>9. \A h, k \in DOMAIN s : h < k => s[h].last < s[k].first
    <3> SUFFICES ASSUME NEW h \in DOMAIN s, NEW k \in DOMAIN s, h < k
                 PROVE  s[h].last < s[k].first
      OBVIOUS
    <3>1. h # m
      <4>1. k <= m /\ h \in Nat /\ k \in Nat /\ m \in Nat
        BY <1>1, <2>4, <2>7 DEF m
      <4>2. QED
        BY <4>1
    <3>2. items[h].last < items[k].first
      BY <2>4 DEF Located
    <3>3. QED
      BY <2>5, <2>6, <3>1, <3>2
  <2>10. \A i \in 1..(n + 1) : Words(lines[i]) # <<>> =>
           \E k \in DOMAIN s : s[k].first <= i /\ i <= s[k].last
    <3> SUFFICES ASSUME NEW i \in 1..(n + 1), Words(lines[i]) # <<>>
                 PROVE  \E k \in DOMAIN s : s[k].first <= i /\ i <= s[k].last
      OBVIOUS
    <3>1. CASE i \in 1..n
      <4>1. PICK k \in DOMAIN items : items[k].first <= i /\ i <= items[k].last
        BY <3>1 DEF Located
      <4>2. k \in DOMAIN s /\ s[k].first <= i
        BY <2>4, <2>5, <4>1
      <4>3. i <= s[k].last
        BY <2>6, <3>1, <4>1, <4>2
      <4>4. QED
        BY <4>2, <4>3
    <3>2. CASE i = n + 1
      <4>1. m \in DOMAIN s /\ s[m].last = n + 1
        BY <2>3, <2>4, <2>6
      <4>2. s[m].first <= s[m].last
        BY <2>8, <4>1
      <4>3. QED
        BY <3>2, <4>1, <4>2
    <3>3. QED
      BY <1>0, <3>1, <3>2
  <2>11. QED
    BY <2>4, <2>8, <2>9, <2>10 DEF Located, s
<1>3. CASE ~Grows(items) /\ Words(line) = <<>>
  <2>1. s = items
    BY <1>3 DEF ItemsWith
  <2>2. \A k \in DOMAIN items : items[k].last <= n + 1
    <3>1. \A k \in DOMAIN items : items[k].last <= n
      BY DEF Located
    <3>2. QED
      BY <1>1, <3>1
  <2>3. QED
    BY <1>0, <1>3, <2>1, <2>2 DEF Located
<1>4. CASE ~Grows(items) /\ Words(line) # <<>>
  <2> DEFINE new == ItemAt(Words(line), IdOn(line), n + 1)
  <2>1. s = Append(items, new)
    BY <1>4 DEF ItemsWith
  <2>2. new \in ItemType /\ new.first = n + 1 /\ new.last = n + 1
    BY <1>0, <1>4, LineWords, ItemAtIs
  <2> HIDE DEF s, new, line
  <2>3. /\ s \in Seq(ItemType) /\ DOMAIN s = 1..(m + 1) /\ s[m + 1] = new
        /\ \A k \in DOMAIN items : s[k] = items[k] /\ k \in DOMAIN s
        /\ \A k \in DOMAIN s : k \in DOMAIN items \/ k = m + 1
    BY <1>0, <1>1, <2>1, <2>2
  <2>4. \A k \in DOMAIN items :
          1 <= items[k].first /\ items[k].first <= items[k].last /\ items[k].last <= n
    BY DEF Located
  <2>5. \A k \in DOMAIN s : 1 <= s[k].first /\ s[k].first <= s[k].last /\ s[k].last <= n + 1
    <3> TAKE k \in DOMAIN s
    <3>1. CASE k \in DOMAIN items
      BY <1>1, <2>3, <2>4, <3>1
    <3>2. CASE k = m + 1
      BY <2>2, <2>3, <3>2
    <3>3. QED
      BY <2>3, <3>1, <3>2
  <2>6. \A h, k \in DOMAIN s : h < k => s[h].last < s[k].first
    <3> SUFFICES ASSUME NEW h \in DOMAIN s, NEW k \in DOMAIN s, h < k
                 PROVE  s[h].last < s[k].first
      OBVIOUS
    <3>1. h \in DOMAIN items
      BY <1>1, <2>3
    <3>2. CASE k \in DOMAIN items
      BY <2>3, <3>1, <3>2 DEF Located
    <3>3. CASE k = m + 1
      <4>1. s[h].last <= n /\ s[h].last \in Nat
        BY <1>1, <2>3, <2>4, <3>1
      <4>2. s[k].first = n + 1
        BY <2>2, <2>3, <3>3
      <4>3. QED
        BY <4>1, <4>2
    <3>4. QED
      BY <2>3, <3>2, <3>3
  <2>7. \A i \in 1..(n + 1) : Words(lines[i]) # <<>> =>
          \E k \in DOMAIN s : s[k].first <= i /\ i <= s[k].last
    <3> SUFFICES ASSUME NEW i \in 1..(n + 1), Words(lines[i]) # <<>>
                 PROVE  \E k \in DOMAIN s : s[k].first <= i /\ i <= s[k].last
      OBVIOUS
    <3>1. CASE i \in 1..n
      <4>1. PICK k \in DOMAIN items : items[k].first <= i /\ i <= items[k].last
        BY <3>1 DEF Located
      <4>2. QED
        BY <2>3, <4>1
    <3>2. CASE i = n + 1
      <4>1. m + 1 \in DOMAIN s
        BY <1>1, <2>3
      <4>2. QED
        BY <2>2, <2>3, <3>2, <4>1
    <3>3. QED
      BY <1>0, <3>1, <3>2
  <2>8. QED
    BY <2>3, <2>5, <2>6, <2>7 DEF Located, s, line
<1>5. QED
  BY <1>2, <1>3, <1>4

LEMMA ItemsLocated ==
  ASSUME NEW lines \in Texts
  PROVE  Located(lines, ParsePositioned(lines), Len(lines))
<1>0. Len(lines) \in Nat
  BY DEF Texts
<1>1. PICK items : /\ items[0] = <<>> /\ items[Len(lines)] = ParsePositioned(lines)
                   /\ \A i \in 1..Len(lines) : items[i] = ItemsWith(items[i - 1], lines[i], i)
  BY ItemsSteps
<1> DEFINE S == {n \in Nat : n <= Len(lines) => Located(lines, items[n], n)}
<1>2. 0 \in S
  <2>1. <<>> \in Seq(ItemType) /\ DOMAIN <<>> = {} /\ 1..0 = {}
    OBVIOUS
  <2>2. QED
    BY <1>1, <2>1 DEF Located
<1>3. ASSUME NEW n \in Nat, n \in S PROVE n + 1 \in S
  <2> SUFFICES ASSUME n + 1 <= Len(lines) PROVE Located(lines, items[n + 1], n + 1)
    OBVIOUS
  <2>1. n < Len(lines) /\ n <= Len(lines) /\ n + 1 \in 1..Len(lines) /\ (n + 1) - 1 = n
    BY <1>0
  <2>2. Located(lines, items[n], n)
    BY <1>3, <2>1
  <2>3. items[n + 1] = ItemsWith(items[n], lines[n + 1], n + 1)
    BY <1>1, <2>1
  <2>4. QED
    BY <2>1, <2>2, <2>3, LocatedStep
<1>4. QED
  <2> HIDE DEF S
  <2>1. \A n \in Nat : n \in S
    BY <1>2, <1>3, NatInd
  <2>2. QED
    BY <1>0, <1>1, <2>1 DEF S

----------------------------------------------------------------------------
(* LinesAreLocated.                                                        *)

\* The editor's texts and the files are texts of lines.
TextsTyped ==
  opened \subseteq Docs /\ text \in [Docs -> Texts] /\ disk \in [Docs -> Files]

LEMMA EditsAreTexts ==
  ASSUME NEW t \in Texts, NEW u \in Edits(t)
  PROVE  u \in Texts
<1>0. Len(t) \in Nat /\ DOMAIN t = 1..Len(t) /\ t \in Seq(Line) /\ Lines \subseteq Line
  BY ServerAssumption DEF Texts
<1>1. ASSUME NEW i \in 1..(Len(t) + 1), NEW l \in Lines PROVE InsertAt(t, i, l) \in Texts
  <2>1. SubSeq(t, 1, i - 1) \in Seq(Line) /\ SubSeq(t, i, Len(t)) \in Seq(Line)
        /\ <<l>> \in Seq(Line)
    BY <1>0
  <2>2. QED
    BY <2>1 DEF InsertAt, Texts
<1>2. ASSUME NEW i \in DOMAIN t PROVE RemoveAt(t, i) \in Texts
  <2>1. SubSeq(t, 1, i - 1) \in Seq(Line) /\ SubSeq(t, i + 1, Len(t)) \in Seq(Line)
    BY <1>0
  <2>2. QED
    BY <2>1 DEF RemoveAt, Texts
<1>3. QED
  BY <1>1, <1>2 DEF Edits

LEMMA TextsTypedInit == Init => TextsTyped
<1>1. <<>> \in Texts
  BY DEF Texts
<1>2. QED
  BY <1>1 DEF Init, TextsTyped

LEMMA TextsTypedStep == TextsTyped /\ [Next]_vars => TextsTyped'
<1> SUFFICES ASSUME TextsTyped, [Next]_vars PROVE TextsTyped'
  OBVIOUS
<1>0. Files \subseteq Texts /\ <<>> \in Texts
  BY ServerAssumption DEF Texts
<1>1. ASSUME NEW d \in Docs, DidOpen(d) PROVE TextsTyped'
  <2>1. disk[d] \in Texts
    BY <1>0 DEF TextsTyped
  <2>2. QED
    BY <1>1, <2>1 DEF DidOpen, RunDiagnostics, TextsTyped
<1>2. ASSUME NEW d \in Docs, NEW t, DidChange(d, t) PROVE TextsTyped'
  <2>1. t \in Texts
    BY <1>2, EditsAreTexts DEF DidChange, TextsTyped
  <2>2. QED
    BY <1>2, <2>1 DEF DidChange, RunDiagnostics, TextsTyped
<1>3. ASSUME NEW d \in Docs, DidSave(d) PROVE TextsTyped'
  BY <1>3 DEF DidSave, RunDiagnostics, TextsTyped
<1>4. ASSUME NEW d \in Docs, DidClose(d) PROVE TextsTyped'
  BY <1>0, <1>4 DEF DidClose, TextsTyped
<1>5. ASSUME NEW d \in Docs, NEW i, Hover(d, i) PROVE TextsTyped'
  BY <1>5 DEF Hover, TextsTyped
<1>6. ASSUME NEW d \in Docs, NEW begun, Completion(d, begun) PROVE TextsTyped'
  BY <1>6 DEF Completion, TextsTyped
<1>7. ASSUME NEW d \in Docs, WriteFile(d) PROVE TextsTyped'
  BY <1>7 DEF WriteFile, TextsTyped
<1>8. ASSUME UNCHANGED vars PROVE TextsTyped'
  BY <1>8 DEF vars, TextsTyped
<1>9. QED
  BY <1>1, <1>2, <1>3, <1>4, <1>5, <1>6, <1>7, <1>8 DEF Next

LEMMA TextsLocated == TextsTyped => LinesAreLocated
<1> SUFFICES ASSUME TextsTyped, NEW d \in opened
             PROVE  LET items == ParsePositioned(text[d])
                    IN  /\ \A i \in DOMAIN text[d] :
                             Words(text[d][i]) # <<>> => Cardinality(ItemsAt(items, i)) = 1
                        /\ \A k \in DOMAIN items :
                             /\ items[k].first <= items[k].last /\ items[k].last <= Len(text[d])
                             /\ k > 1 => items[k - 1].last < items[k].first
  BY DEF LinesAreLocated
<1>1. PICK items : items = ParsePositioned(text[d])
  OBVIOUS
<1>2. text[d] \in Texts /\ DOMAIN text[d] = 1..Len(text[d])
  BY DEF TextsTyped, Texts
<1>3. Located(text[d], items, Len(text[d]))
  BY <1>1, <1>2, ItemsLocated
<1>4. /\ DOMAIN items = 1..Len(items) /\ Len(items) \in Nat
      /\ \A k \in DOMAIN items : items[k].first \in Nat /\ items[k].last \in Nat
  <2>1. /\ DOMAIN items = 1..Len(items) /\ Len(items) \in Nat
        /\ \A k \in DOMAIN items : items[k] \in ItemType
    BY <1>3 DEF Located
  <2>2. \A x \in ItemType : x.first \in Nat /\ x.last \in Nat
    BY DEF ItemType
  <2>3. QED
    BY <2>1, <2>2
<1>5. ASSUME NEW i \in DOMAIN text[d], Words(text[d][i]) # <<>>
      PROVE  Cardinality(ItemsAt(items, i)) = 1
  <2>1. PICK k \in DOMAIN items : items[k].first <= i /\ i <= items[k].last
    BY <1>2, <1>3, <1>5 DEF Located
  <2>2. ASSUME NEW h \in DOMAIN items, items[h].first <= i, i <= items[h].last, h # k
        PROVE  FALSE
    <3>1. h < k \/ k < h
      BY <1>4, <2>2
    <3>2. items[h].last < items[k].first \/ items[k].last < items[h].first
      BY <1>3, <3>1 DEF Located
    <3>3. i \in Nat
      BY <1>2
    <3>4. QED
      BY <1>4, <2>1, <2>2, <3>2, <3>3
  <2>3. ItemsAt(items, i) = {k}
    BY <2>1, <2>2 DEF ItemsAt
  <2>4. QED
    BY <2>3, FS_Singleton
<1>6. ASSUME NEW k \in DOMAIN items
      PROVE  /\ items[k].first <= items[k].last /\ items[k].last <= Len(text[d])
             /\ k > 1 => items[k - 1].last < items[k].first
  <2>1. items[k].first <= items[k].last /\ items[k].last <= Len(text[d])
    BY <1>3 DEF Located
  <2>2. k > 1 => k - 1 \in DOMAIN items /\ k - 1 < k
    BY <1>4
  <2>3. QED
    BY <1>3, <2>1, <2>2 DEF Located
<1>7. QED
  BY <1>1, <1>5, <1>6

\* Every line with words has the one statement it is part of, and no other
\* (parse_positioned), so hovering finds it, whatever the text.
THEOREM EditorLocatesLines == Spec => []LinesAreLocated
BY TextsTypedInit, TextsTypedStep, TextsLocated, PTL DEF Spec

----------------------------------------------------------------------------
(* The statements of a text, read line by line: Read is a fold.            *)

LEMMA MaxIsIn ==
  ASSUME NEW n \in Nat, NEW u \in SUBSET (1..n), u # {}
  PROVE  Max(u) \in u /\ \A x \in u : x <= Max(u)
<1> DEFINE T == {n - x : x \in u}
<1>1. T \in SUBSET Nat /\ T # {}
  <2>1. \A x \in u : n - x \in Nat
    OBVIOUS
  <2>2. QED
    BY <2>1
<1>2. PICK d \in T : \A y \in T : d <= y
  BY <1>1, NatMin
<1>3. PICK m \in u : d = n - m
  BY <1>2
<1>4. \A x \in u : m >= x
  <2> TAKE x \in u
  <2>1. n - m <= n - x
    BY <1>2, <1>3
  <2>2. QED
    BY <2>1
<1>5. QED
  BY <1>4 DEF Max

LEMMA MaxIs ==
  ASSUME NEW n \in Nat, NEW u \in SUBSET (1..n), NEW m \in u, \A x \in u : x <= m
  PROVE  Max(u) = m
<1>1. Max(u) \in u /\ m <= Max(u)
  BY MaxIsIn
<1>2. \A x, y \in 1..n : x <= y /\ y <= x => x = y
  OBVIOUS
<1>3. Max(u) <= m /\ Max(u) \in 1..n /\ m \in 1..n
  BY <1>1
<1>4. QED
  BY <1>1, <1>2, <1>3

\* Read, on the sets of line numbers it recurs over.
Reads(lines, u, f) ==
  IF u = {} THEN Nothing ELSE ReadLine(f[u \ {Max(u)}], lines[Max(u)])

LEMMA ReadsExists ==
  ASSUME NEW lines
  PROVE  \A n \in Nat : \E f : f = [u \in SUBSET (1..n) |-> Reads(lines, u, f)]
<1> DEFINE Upto == {n \in Nat : \E f : f = [u \in SUBSET (1..n) |-> Reads(lines, u, f)]}
<1>1. 0 \in Upto
  <2> DEFINE f == [u \in SUBSET (1..0) |-> Nothing]
  <2>1. f = [u \in SUBSET (1..0) |-> Reads(lines, u, f)]
    BY DEF Reads
  <2>2. QED
    BY <2>1
<1>2. ASSUME NEW n \in Nat, n \in Upto PROVE n + 1 \in Upto
  <2>1. PICK f : f = [u \in SUBSET (1..n) |-> Reads(lines, u, f)]
    BY <1>2
  <2> DEFINE g == [u \in SUBSET (1..(n + 1)) |->
                     IF n + 1 \in u THEN ReadLine(f[u \ {n + 1}], lines[n + 1]) ELSE f[u]]
  <2>2. \A u \in SUBSET (1..n) : g[u] = f[u]
    OBVIOUS
  <2>3. ASSUME NEW u \in SUBSET (1..(n + 1)) PROVE g[u] = Reads(lines, u, g)
    <3>1. CASE n + 1 \in u
      <4>1. Max(u) = n + 1
        BY <3>1, MaxIs
      <4>2. u \ {n + 1} \in SUBSET (1..n)
        OBVIOUS
      <4>3. g[u \ {n + 1}] = f[u \ {n + 1}]
        BY <2>2, <4>2
      <4>4. g[u] = ReadLine(f[u \ {n + 1}], lines[n + 1])
        BY <3>1
      <4> HIDE DEF g
      <4>5. QED
        BY <3>1, <4>1, <4>3, <4>4 DEF Reads
    <3>2. CASE n + 1 \notin u
      <4>1. u \in SUBSET (1..n) /\ u \ {Max(u)} \in SUBSET (1..n)
        <5>1. \A i \in u : i \in 1..n
          BY <3>2
        <5>2. QED
          BY <5>1
      <4>2. f[u] = Reads(lines, u, f)
        BY <2>1, <4>1
      <4>3. g[u] = f[u] /\ g[u \ {Max(u)}] = f[u \ {Max(u)}]
        BY <2>2, <4>1
      <4> HIDE DEF g
      <4>4. QED
        BY <4>2, <4>3 DEF Reads
    <3>3. QED
      BY <3>1, <3>2
  <2>4. g = [u \in SUBSET (1..(n + 1)) |-> Reads(lines, u, g)]
    <3>1. \A u \in SUBSET (1..(n + 1)) : g[u] = Reads(lines, u, g)
      BY <2>3
    <3>2. DOMAIN g = SUBSET (1..(n + 1)) /\ g = [u \in DOMAIN g |-> g[u]]
      OBVIOUS
    <3> HIDE DEF g
    <3>3. QED
      BY <3>1, <3>2
  <2>5. \E f1 : f1 = [u \in SUBSET (1..(n + 1)) |-> Reads(lines, u, f1)]
    <3> HIDE DEF g
    <3> QED BY <2>4
  <2>6. QED
    BY <2>5
<1>3. QED
  <2> HIDE DEF Upto
  <2>1. \A n \in Nat : n \in Upto
    BY <1>1, <1>2, NatInd
  <2>2. QED
    BY <2>1 DEF Upto

\* Read takes a text line by line.
LEMMA ReadSteps ==
  ASSUME NEW S, NEW lines \in Seq(S)
  PROVE  \E p : /\ p[0] = Nothing /\ p[Len(lines)] = Read(lines)
                /\ \A i \in 1..Len(lines) : p[i] = ReadLine(p[i - 1], lines[i])
<1>0. DOMAIN lines = 1..Len(lines) /\ Len(lines) \in Nat
  OBVIOUS
<1>1. PICK f : f = [u \in SUBSET DOMAIN lines |-> Reads(lines, u, f)]
  <2>1. \E f : f = [u \in SUBSET (1..Len(lines)) |-> Reads(lines, u, f)]
    BY <1>0, ReadsExists
  <2>2. QED
    BY <1>0, <2>1
<1>2. \E g : /\ g = [u \in SUBSET DOMAIN lines |->
                       IF u = {} THEN Nothing ELSE ReadLine(g[u \ {Max(u)}], lines[Max(u)])]
             /\ g[DOMAIN lines] = Read(lines)
  <2>1. f = [u \in SUBSET DOMAIN lines |->
               IF u = {} THEN Nothing ELSE ReadLine(f[u \ {Max(u)}], lines[Max(u)])]
    BY <1>1 DEF Reads
  <2>2. QED
    BY <2>1 DEF Read, FoldLeft, MapThenFoldSet
<1>3. PICK g : /\ g = [u \in SUBSET DOMAIN lines |->
                         IF u = {} THEN Nothing ELSE ReadLine(g[u \ {Max(u)}], lines[Max(u)])]
               /\ g[DOMAIN lines] = Read(lines)
  BY <1>2
<1> DEFINE p == [i \in 0..Len(lines) |-> g[1..i]]
<1>5. p[0] = Nothing /\ p[Len(lines)] = Read(lines)
  <2>1. 1..0 = {} /\ {} \in SUBSET DOMAIN lines
    OBVIOUS
  <2>2. g[{}] = Nothing
    BY <1>3, <2>1
  <2>3. QED
    BY <1>0, <1>3, <2>1, <2>2
<1>6. ASSUME NEW i \in 1..Len(lines) PROVE p[i] = ReadLine(p[i - 1], lines[i])
  <2>1. i \in Nat /\ i \in 1..i /\ (1..i) \in SUBSET DOMAIN lines
    BY <1>0
  <2>2. Max(1..i) = i
    <3>1. \A x \in 1..i : x <= i
      OBVIOUS
    <3>2. QED
      BY <2>1, <3>1, MaxIs
  <2>3. (1..i) \ {i} = 1..(i - 1)
    OBVIOUS
  <2>4. g[1..i] = ReadLine(g[1..(i - 1)], lines[i])
    BY <1>3, <2>1, <2>2, <2>3
  <2>5. i \in 0..Len(lines) /\ i - 1 \in 0..Len(lines)
    OBVIOUS
  <2>6. QED
    BY <2>4, <2>5
<1>7. QED
  <2> HIDE DEF p
  <2> QED BY <1>5, <1>6

----------------------------------------------------------------------------
(* The items of a kind, in order.                                          *)

\* What ItemsOf recurs over.
OfUpto(items, kind, of, i) ==
  IF i = 0 THEN <<>>
  ELSE IF items[i].kind = kind THEN Append(of[i - 1], items[i]) ELSE of[i - 1]

LEMMA OfExist ==
  ASSUME NEW items, NEW kind
  PROVE  \A n \in Nat : \E f : f = [i \in 0..n |-> OfUpto(items, kind, f, i)]
<1> DEFINE Upto == {n \in Nat : \E f : f = [i \in 0..n |-> OfUpto(items, kind, f, i)]}
<1>1. 0 \in Upto
  <2> DEFINE f == [i \in 0..0 |-> <<>>]
  <2>1. f = [i \in 0..0 |-> OfUpto(items, kind, f, i)]
    BY DEF OfUpto
  <2>2. QED
    BY <2>1
<1>2. ASSUME NEW n \in Nat, n \in Upto PROVE n + 1 \in Upto
  <2>1. PICK f : f = [i \in 0..n |-> OfUpto(items, kind, f, i)]
    BY <1>2
  <2> DEFINE g == [i \in 0..(n + 1) |-> OfUpto(items, kind, f, i)]
  <2>2. \A i \in 0..n : g[i] = f[i]
    <3> TAKE i \in 0..n
    <3>1. f[i] = OfUpto(items, kind, f, i)
      BY <2>1
    <3>2. i \in 0..(n + 1)
      OBVIOUS
    <3>3. QED
      BY <3>1, <3>2
  <2>3. \A i \in 0..(n + 1) : OfUpto(items, kind, f, i) = OfUpto(items, kind, g, i)
    <3> TAKE i \in 0..(n + 1)
    <3>1. CASE i > 0
      <4>1. i - 1 \in 0..n
        BY <3>1
      <4>2. g[i - 1] = f[i - 1]
        BY <2>2, <4>1
      <4> HIDE DEF g
      <4>3. QED
        BY <4>2 DEF OfUpto
    <3>2. CASE i = 0
      BY <3>2 DEF OfUpto
    <3>3. QED
      BY <3>1, <3>2
  <2>4. g = [i \in 0..(n + 1) |-> OfUpto(items, kind, g, i)]
    BY <2>3
  <2>5. \E f1 : f1 = [i \in 0..(n + 1) |-> OfUpto(items, kind, f1, i)]
    <3> HIDE DEF g
    <3> QED BY <2>4
  <2>6. QED
    BY <2>5
<1>3. QED
  <2> HIDE DEF Upto
  <2>1. \A n \in Nat : n \in Upto
    BY <1>1, <1>2, NatInd
  <2>2. QED
    BY <2>1 DEF Upto

LEMMA OfSteps ==
  ASSUME NEW items, Len(items) \in Nat, NEW kind
  PROVE  \E of : /\ of[0] = <<>> /\ of[Len(items)] = ItemsOf(items, kind)
                 /\ \A i \in 1..Len(items) : of[i] = OfUpto(items, kind, of, i)
<1>1. PICK f : f = [i \in 0..Len(items) |-> OfUpto(items, kind, f, i)]
  BY OfExist
<1>2. f = [i \in 0..Len(items) |->
             IF i = 0 THEN <<>>
             ELSE IF items[i].kind = kind THEN Append(f[i - 1], items[i]) ELSE f[i - 1]]
  BY <1>1 DEF OfUpto
<1>3. PICK g : /\ g = [i \in 0..Len(items) |->
                         IF i = 0 THEN <<>>
                         ELSE IF items[i].kind = kind THEN Append(g[i - 1], items[i]) ELSE g[i - 1]]
               /\ g[Len(items)] = ItemsOf(items, kind)
  BY <1>2 DEF ItemsOf
<1>4. g[0] = <<>>
  BY <1>3
<1>5. ASSUME NEW i \in 1..Len(items) PROVE g[i] = OfUpto(items, kind, g, i)
  <2>1. i \in 0..Len(items) /\ i # 0
    OBVIOUS
  <2>2. QED
    BY <1>3, <2>1 DEF OfUpto
<1>6. QED
  BY <1>3, <1>4, <1>5

LEMMA OfEmpty == ASSUME NEW kind PROVE ItemsOf(<<>>, kind) = <<>>
<1>1. Len(<<>>) = 0
  OBVIOUS
<1>2. QED
  BY <1>1, OfSteps

\* One more item.
LEMMA OfAppend ==
  ASSUME NEW S, NEW items \in Seq(S), NEW x \in S, NEW kind
  PROVE  ItemsOf(Append(items, x), kind) =
           IF x.kind = kind THEN Append(ItemsOf(items, kind), x) ELSE ItemsOf(items, kind)
<1> DEFINE longer == Append(items, x)
           n == Len(items)
<1>1. Len(longer) = n + 1 /\ n \in Nat /\ longer[n + 1] = x
      /\ \A i \in 1..n : longer[i] = items[i]
  OBVIOUS
<1> HIDE DEF longer
<1>2. PICK p : /\ p[0] = <<>> /\ p[n] = ItemsOf(items, kind)
               /\ \A i \in 1..n : p[i] = OfUpto(items, kind, p, i)
  BY <1>1, OfSteps
<1>3. PICK q : /\ q[0] = <<>> /\ q[n + 1] = ItemsOf(longer, kind)
               /\ \A i \in 1..(n + 1) : q[i] = OfUpto(longer, kind, q, i)
  BY <1>1, OfSteps
<1> DEFINE Same == {k \in Nat : k <= n => p[k] = q[k]}
<1>4. 0 \in Same
  BY <1>2, <1>3
<1>5. ASSUME NEW k \in Nat, k \in Same PROVE k + 1 \in Same
  <2> SUFFICES ASSUME k + 1 <= n PROVE p[k + 1] = q[k + 1]
    OBVIOUS
  <2>1. k + 1 \in 1..n /\ k + 1 \in 1..(n + 1) /\ (k + 1) - 1 = k /\ p[k] = q[k] /\ k + 1 # 0
    BY <1>1, <1>5
  <2>2. longer[k + 1] = items[k + 1]
    BY <1>1, <2>1
  <2>3. p[k + 1] = OfUpto(items, kind, p, k + 1) /\ q[k + 1] = OfUpto(longer, kind, q, k + 1)
    BY <1>2, <1>3, <2>1
  <2>4. QED
    BY <2>1, <2>2, <2>3 DEF OfUpto
<1>6. n \in Same
  <2> HIDE DEF Same
  <2> QED BY <1>1, <1>4, <1>5, NatInd
<1>7. q[n + 1] = IF x.kind = kind THEN Append(q[n], x) ELSE q[n]
  <2>1. n + 1 \in 1..(n + 1) /\ (n + 1) - 1 = n /\ n + 1 # 0
    BY <1>1
  <2>2. q[n + 1] = OfUpto(longer, kind, q, n + 1)
    BY <1>3, <2>1
  <2>3. QED
    BY <1>1, <2>1, <2>2 DEF OfUpto
<1>8. QED
  BY <1>1, <1>2, <1>3, <1>6, <1>7 DEF longer

----------------------------------------------------------------------------
(* EditorReadsWhatRuns: line by line, the items of the editor's parser are *)
(* the statements the other parser has read.                               *)

HeadsOf(items) == [k \in DOMAIN items |-> items[k].head]
AsRule(item) == [head |-> item.head, body |-> item.body, id |-> item.id]
AsRules(items) == [k \in DOMAIN items |-> AsRule(items[k])]

LEMMA MappedAppend ==
  ASSUME NEW items \in Seq(ItemType), NEW x
  PROVE  /\ HeadsOf(Append(items, x)) = Append(HeadsOf(items), x.head)
         /\ AsRules(Append(items, x)) = Append(AsRules(items), AsRule(x))
<1> DEFINE longer == Append(items, x)
           n == Len(items)
<1>1. /\ n \in Nat /\ DOMAIN items = 1..n /\ DOMAIN longer = 1..(n + 1)
      /\ longer[n + 1] = x /\ \A k \in 1..n : longer[k] = items[k]
  OBVIOUS
<1> HIDE DEF longer, n
<1>2. HeadsOf(longer) = Append(HeadsOf(items), x.head)
  <2>1. HeadsOf(longer) = [k \in 1..(n + 1) |-> longer[k].head]
    BY <1>1 DEF HeadsOf
  <2>2. HeadsOf(items) = [k \in 1..n |-> items[k].head]
    BY <1>1 DEF HeadsOf
  <2>3. QED
    BY <1>1, <2>1, <2>2
<1>3. AsRules(longer) = Append(AsRules(items), AsRule(x))
  <2>1. AsRules(longer) = [k \in 1..(n + 1) |-> AsRule(longer[k])]
    BY <1>1 DEF AsRules
  <2>2. AsRules(items) = [k \in 1..n |-> AsRule(items[k])]
    BY <1>1 DEF AsRules
  <2>3. QED
    BY <1>1, <2>1, <2>2
<1>4. QED
  BY <1>2, <1>3 DEF longer

LEMMA OfType ==
  ASSUME NEW items \in Seq(ItemType), NEW kind
  PROVE  ItemsOf(items, kind) \in Seq(ItemType)
<1> DEFINE n == Len(items)
<1>1. n \in Nat /\ \A i \in 1..n : items[i] \in ItemType
  OBVIOUS
<1>2. PICK of : /\ of[0] = <<>> /\ of[n] = ItemsOf(items, kind)
                /\ \A i \in 1..n : of[i] = OfUpto(items, kind, of, i)
  BY <1>1, OfSteps
<1> DEFINE S == {i \in Nat : i <= n => of[i] \in Seq(ItemType)}
<1>3. 0 \in S
  <2>1. <<>> \in Seq(ItemType)
    OBVIOUS
  <2>2. QED
    BY <1>2, <2>1
<1>4. ASSUME NEW i \in Nat, i \in S PROVE i + 1 \in S
  <2> SUFFICES ASSUME i + 1 <= n PROVE of[i + 1] \in Seq(ItemType)
    OBVIOUS
  <2>1. i + 1 \in 1..n /\ (i + 1) - 1 = i /\ i + 1 # 0 /\ of[i] \in Seq(ItemType)
    BY <1>1, <1>4
  <2>2. of[i + 1] = OfUpto(items, kind, of, i + 1)
    BY <1>2, <2>1
  <2>3. QED
    BY <1>1, <2>1, <2>2 DEF OfUpto
<1>5. n \in S
  <2> HIDE DEF S
  <2> QED BY <1>1, <1>3, <1>4, NatInd
<1>6. QED
  BY <1>1, <1>2, <1>5

IsReading(p) ==
  p = [facts |-> p.facts, rules |-> p.rules, query |-> p.query, open |-> p.open,
       bad |-> p.bad]

\* The last item is the rule being read.
InRule(items, p) ==
  \E above \in Seq(ItemType) : \E item \in ItemType :
    /\ items = Append(above, item) /\ item.kind = "rule"
    /\ p.open = <<AsRule(item)>> /\ p.rules = AsRules(ItemsOf(above, "rule"))

\* No rule is being read.
Between(items, p) ==
  /\ p.open = <<>> /\ p.rules = AsRules(ItemsOf(items, "rule"))
  /\ items # <<>> => Last(items).kind # "rule"

Same(items, p) ==
  /\ items \in Seq(ItemType) /\ IsReading(p)
  /\ p.facts = HeadsOf(ItemsOf(items, "fact"))
  /\ InRule(items, p) \/ Between(items, p)

LEMMA AppendLast ==
  ASSUME NEW above \in Seq(ItemType), NEW item \in ItemType
  PROVE  /\ Append(above, item) # <<>> /\ Last(Append(above, item)) = item
         /\ \A x \in ItemType :
              [Append(above, item) EXCEPT ![Len(Append(above, item))] = x] = Append(above, x)
<1> DEFINE s == Append(above, item)
<1>1. Len(s) = Len(above) + 1 /\ s[Len(above) + 1] = item /\ s # <<>>
  OBVIOUS
<1>2. Last(s) = item
  <2> HIDE DEF s
  <2> QED BY <1>1 DEF Last
<1>3. ASSUME NEW x \in ItemType PROVE [s EXCEPT ![Len(above) + 1] = x] = Append(above, x)
  <2> DEFINE new == [s EXCEPT ![Len(above) + 1] = x]
             t == Append(above, x)
  <2>1. s \in Seq(ItemType) /\ Len(above) \in Nat /\ Len(above) + 1 \in DOMAIN s
    OBVIOUS
  <2>2. \A i \in 1..Len(above) : s[i] = above[i] /\ t[i] = above[i]
    OBVIOUS
  <2>3. t \in Seq(ItemType) /\ Len(t) = Len(above) + 1 /\ t[Len(above) + 1] = x
    OBVIOUS
  <2> HIDE DEF s, t
  <2>4. new \in Seq(ItemType) /\ Len(new) = Len(above) + 1 /\ new[Len(above) + 1] = x
        /\ \A i \in 1..Len(above) : new[i] = s[i]
    BY <1>1, <2>1
  <2>5. \A i \in 1..Len(new) : new[i] = t[i]
    BY <2>1, <2>2, <2>3, <2>4
  <2> HIDE DEF new
  <2>6. new = t
    BY <2>3, <2>4, <2>5, SeqEqual
  <2>7. QED
    BY <2>6 DEF new, t
<1> HIDE DEF s
<1>4. QED
  BY <1>1, <1>2, <1>3 DEF s

\* The rules read so far, once the open one is complete, are those of the items.
LEMMA ClosedSame ==
  ASSUME NEW items, NEW p, Same(items, p)
  PROVE  /\ IsReading(Close(p)) /\ Close(p).open = <<>> /\ Close(p).facts = p.facts
         /\ Close(p).rules = AsRules(ItemsOf(items, "rule"))
<1>1. CASE Between(items, p)
  BY <1>1 DEF Between, Same, Close
<1>2. CASE InRule(items, p)
  <2>1. PICK above \in Seq(ItemType), item \in ItemType :
          /\ items = Append(above, item) /\ item.kind = "rule"
          /\ p.open = <<AsRule(item)>> /\ p.rules = AsRules(ItemsOf(above, "rule"))
    BY <1>2 DEF InRule
  <2>2. PICK r : r = AsRule(item)
    OBVIOUS
  <2>3. p.open # <<>> /\ p.open[1] = r
    BY <2>1, <2>2
  <2>4. Close(p) = [p EXCEPT !.rules = Append(p.rules, r), !.open = <<>>]
    BY <2>3 DEF Close
  <2>5. PICK rules : rules = Append(p.rules, r)
    OBVIOUS
  <2>6. Close(p) = [facts |-> p.facts, rules |-> rules, query |-> p.query, open |-> <<>>,
                    bad |-> p.bad]
    BY <2>4, <2>5 DEF Same, IsReading
  <2>7. ItemsOf(items, "rule") = Append(ItemsOf(above, "rule"), item)
    BY <2>1, OfAppend
  <2>8. ItemsOf(above, "rule") \in Seq(ItemType)
    BY OfType
  <2>9. AsRules(ItemsOf(items, "rule")) = rules
    BY <2>1, <2>2, <2>5, <2>7, <2>8, MappedAppend
  <2>10. QED
    BY <2>6, <2>9 DEF IsReading
<1>3. QED
  BY <1>1, <1>2 DEF Same

\* The rule that a line continues.
Continued(r, line) ==
  [head |-> r.head, body |-> r.body \o Words(line),
   id   |-> IF IdOn(line) = <<>> THEN r.id ELSE IdOn(line)]

LEMMA ContinueIs ==
  ASSUME NEW p, IsReading(p), NEW r, r = AsRule(r), NEW line, p.open = <<r>>,
         Words(line) # <<>>, Continues(p, Words(line))
  PROVE  ReadLine(p, line) = [p EXCEPT !.open = <<Continued(r, line)>>]
<1> DEFINE head == r.head
           body == r.body
           id == r.id
<1> DEFINE s == [head |-> head, body |-> body, id |-> id]
           new == IF IdOn(line) = <<>> THEN id ELSE IdOn(line)
           b == body \o Words(line)
<1>1. ReadLine(p, line) =
        [p EXCEPT !.open[1].body = @ \o Words(line),
                  !.open[1].id = IF IdOn(line) = <<>> THEN @ ELSE IdOn(line)]
  BY DEF ReadLine
<1>2. \A x, y : [<<x>> EXCEPT ![1] = y] = <<y>> /\ <<x>>[1] = x
  OBVIOUS
<1>3. s = r /\ s.body \o Words(line) = b /\ s.id = id
  BY DEF AsRule
<1> HIDE DEF new, b, head, body, id
<1>4. [s EXCEPT !.body = b] = [head |-> head, body |-> b, id |-> id]
  OBVIOUS
<1>5. [[head |-> head, body |-> b, id |-> id] EXCEPT !.id = new]
        = [head |-> head, body |-> b, id |-> new]
  OBVIOUS
<1> DEFINE grown == [p.open EXCEPT ![1] = [p.open[1] EXCEPT !.body = b]]
<1>6. grown = <<[head |-> head, body |-> b, id |-> id]>>
  BY <1>2, <1>3, <1>4
<1>7. grown[1].id = id
  BY <1>2, <1>6
<1> HIDE DEF grown
<1>8. [grown EXCEPT ![1] = [grown[1] EXCEPT !.id = new]] = <<[head |-> head, body |-> b, id |-> new]>>
  BY <1>2, <1>5, <1>6
<1>9. [p.open EXCEPT ![1].body = @ \o Words(line),
                     ![1].id = IF IdOn(line) = <<>> THEN @ ELSE IdOn(line)]
        = [grown EXCEPT ![1] = [grown[1] EXCEPT !.id = new]]
  <2>1. p.open[1].body \o Words(line) = b
    BY <1>2, <1>3
  <2>2. (IF IdOn(line) = <<>> THEN grown[1].id ELSE IdOn(line)) = new
    BY <1>7 DEF new
  <2>3. QED
    BY <2>1, <2>2 DEF grown
<1>10. ReadLine(p, line) = [p EXCEPT !.open = <<[head |-> head, body |-> b, id |-> new]>>]
  <2>1. PICK s1 : s1 = <<[head |-> head, body |-> b, id |-> new]>>
    OBVIOUS
  <2>2. [p.open EXCEPT ![1].body = @ \o Words(line),
                       ![1].id = IF IdOn(line) = <<>> THEN @ ELSE IdOn(line)] = s1
    BY <1>8, <1>9, <2>1
  <2>3. QED
    BY <1>1, <2>1, <2>2 DEF IsReading
<1>11. QED
  BY <1>10 DEF b, new, head, body, id, Continued

\* The rule the editor's parser grows is the last item.
LEMMA GrowSame ==
  ASSUME NEW above \in Seq(ItemType), NEW item \in ItemType, item.kind = "rule",
         NEW line \in Line, NEW i \in Nat
  PROVE  \E new \in ItemType :
           /\ Grow(Append(above, item), line, i) = Append(above, new)
           /\ new.kind = "rule" /\ new.head = item.head /\ new.body = item.body \o Words(line)
           /\ new.id = IF IdOn(line) = <<>> THEN item.id ELSE IdOn(line)
<1> DEFINE items == Append(above, item)
           n == Len(items)
           id == IF IdOn(line) = <<>> THEN item.id ELSE IdOn(line)
           new == [kind |-> item.kind, head |-> item.head, body |-> item.body \o Words(line),
                   id |-> id, first |-> item.first, last |-> i]
<1>1. items \in Seq(ItemType) /\ items # <<>> /\ items[n] = item
  OBVIOUS
<1>2. /\ Grow(items, line, i) = [items EXCEPT ![n] = new] /\ new \in ItemType
  <2> DEFINE old == items[n]
             made == [kind |-> old.kind, head |-> old.head, body |-> old.body \o Words(line),
                      id |-> IF IdOn(line) = <<>> THEN old.id ELSE IdOn(line),
                      first |-> old.first, last |-> i]
  <2>1. made = new
    BY <1>1
  <2> HIDE DEF items, new
  <2>2. Grow(items, line, i) = [items EXCEPT ![n] = made] /\ made \in ItemType
    BY <1>1, GrowIs
  <2> HIDE DEF made
  <2>3. QED
    BY <2>1, <2>2
<1>3. [items EXCEPT ![n] = new] = Append(above, new)
  <2> HIDE DEF new
  <2> QED BY <1>2, AppendLast
<1>4. /\ new.kind = item.kind /\ new.head = item.head
      /\ new.body = item.body \o Words(line) /\ new.id = id
  OBVIOUS
<1> HIDE DEF new, items
<1>5. QED
  BY <1>2, <1>3, <1>4 DEF items

\* A line continues the open rule of the one parser and the last item of the other.
LEMMA GrowsWhereContinues ==
  ASSUME NEW items, NEW p, Same(items, p), NEW l, ~Starts(l, "and")
  PROVE  Grows(items) <=> Continues(p, l)
<1>1. CASE Between(items, p)
  BY <1>1 DEF Between, Grows, Continues
<1>2. CASE InRule(items, p)
  <2>1. PICK above \in Seq(ItemType), item \in ItemType :
          items = Append(above, item) /\ item.kind = "rule" /\ p.open = <<AsRule(item)>>
    BY <1>2 DEF InRule
  <2>2. items # <<>> /\ Last(items) = item
    BY <2>1, AppendLast
  <2>3. Grows(items) <=> Wants(item)
    BY <2>1, <2>2 DEF Grows
  <2>4. PICK r : r = AsRule(item)
    OBVIOUS
  <2>5. p.open # <<>> /\ p.open[1] = r
    BY <2>1, <2>4
  <2>6. r.body = item.body
    BY <2>4 DEF AsRule
  <2>7. Wants(r) <=> Wants(item)
    BY <2>6 DEF Wants
  <2>8. QED
    BY <2>3, <2>5, <2>7 DEF Continues
<1>3. QED
  BY <1>1, <1>2 DEF Same

\* The facts and rules that one more item leaves.
LEMMA OneMore ==
  ASSUME NEW items \in Seq(ItemType), NEW x \in ItemType
  PROVE  /\ HeadsOf(ItemsOf(Append(items, x), "fact")) =
              IF x.kind = "fact" THEN Append(HeadsOf(ItemsOf(items, "fact")), x.head)
              ELSE HeadsOf(ItemsOf(items, "fact"))
         /\ AsRules(ItemsOf(Append(items, x), "rule")) =
              IF x.kind = "rule" THEN Append(AsRules(ItemsOf(items, "rule")), AsRule(x))
              ELSE AsRules(ItemsOf(items, "rule"))
<1>1. PICK facts, rules : facts = ItemsOf(items, "fact") /\ rules = ItemsOf(items, "rule")
  OBVIOUS
<1>2. facts \in Seq(ItemType) /\ rules \in Seq(ItemType)
  BY <1>1, OfType
<1>3. /\ ItemsOf(Append(items, x), "fact") = IF x.kind = "fact" THEN Append(facts, x) ELSE facts
      /\ ItemsOf(Append(items, x), "rule") = IF x.kind = "rule" THEN Append(rules, x) ELSE rules
  BY <1>1, OfAppend
<1>4. /\ HeadsOf(Append(facts, x)) = Append(HeadsOf(facts), x.head)
      /\ AsRules(Append(rules, x)) = Append(AsRules(rules), AsRule(x))
  BY <1>2, MappedAppend
<1>5. QED
  BY <1>1, <1>3, <1>4

LEMMA SameGrown ==
  ASSUME NEW items, NEW p, Same(items, p), NEW line \in Line, NEW i \in Nat,
         ~Starts(Words(line), "and"), IdOn(line) # <<>> => Words(line) # <<>>, Grows(items)
  PROVE  Same(Grow(items, line, i), ReadLine(p, line))
<1>1. Continues(p, Words(line)) /\ InRule(items, p)
  BY GrowsWhereContinues DEF Same, Between, Continues
<1>2. PICK above \in Seq(ItemType), item \in ItemType :
        /\ items = Append(above, item) /\ item.kind = "rule"
        /\ p.open = <<AsRule(item)>> /\ p.rules = AsRules(ItemsOf(above, "rule"))
  BY <1>1 DEF InRule
<1>3. PICK new \in ItemType :
        /\ Grow(items, line, i) = Append(above, new)
        /\ new.kind = "rule" /\ new.head = item.head /\ new.body = item.body \o Words(line)
        /\ new.id = IF IdOn(line) = <<>> THEN item.id ELSE IdOn(line)
  BY <1>2, GrowSame
<1>4. PICK q : q = ReadLine(p, line)
  OBVIOUS
<1>5. q.open = <<AsRule(new)>> /\ q.facts = p.facts /\ q.rules = p.rules /\ IsReading(q)
  <2>1. CASE Words(line) = <<>>
    <3>1. q = p
      BY <1>4, <2>1 DEF ReadLine
    <3>2. new.id = item.id /\ new.head = item.head
      BY <1>3, <2>1
    <3>3. new.body = item.body
      <4>1. item.body \in Seq(Word)
        BY DEF ItemType
      <4>2. QED
        BY <1>3, <2>1, <4>1
    <3>4. AsRule(new) = AsRule(item)
      BY <3>2, <3>3 DEF AsRule
    <3>5. QED
      BY <1>2, <3>1, <3>4 DEF Same
  <2>2. CASE Words(line) # <<>>
    <3>1. PICK r : r = AsRule(item)
      OBVIOUS
    <3>2. p.open = <<r>> /\ r = AsRule(r) /\ IsReading(p)
      BY <1>2, <3>1 DEF AsRule, Same
    <3>3. q = [p EXCEPT !.open = <<Continued(r, line)>>]
      BY <1>1, <1>4, <2>2, <3>2, ContinueIs
    <3>4. AsRule(new) = Continued(r, line)
      BY <1>3, <3>1 DEF AsRule, Continued
    <3>5. q = [p EXCEPT !.open = <<AsRule(new)>>]
      BY <3>3, <3>4
    <3>6. QED
      BY <3>5 DEF Same, IsReading
  <2>3. QED
    BY <2>1, <2>2
<1>6. HeadsOf(ItemsOf(Append(above, new), "fact")) = p.facts
  <2>1. p.facts = HeadsOf(ItemsOf(Append(above, item), "fact"))
    BY <1>2 DEF Same
  <2>2. HeadsOf(ItemsOf(Append(above, item), "fact")) = HeadsOf(ItemsOf(above, "fact"))
    BY <1>2, OneMore
  <2>3. HeadsOf(ItemsOf(Append(above, new), "fact")) = HeadsOf(ItemsOf(above, "fact"))
    BY <1>3, OneMore
  <2>4. QED
    BY <2>1, <2>2, <2>3
<1>7. InRule(Append(above, new), q)
  BY <1>2, <1>3, <1>5 DEF InRule
<1>8. Append(above, new) \in Seq(ItemType)
  OBVIOUS
<1>9. QED
  BY <1>3, <1>4, <1>5, <1>6, <1>7, <1>8 DEF Same

\* A line of words that starts a statement.
LEMMA SameBegun ==
  ASSUME NEW items, NEW p, Same(items, p), NEW line \in Line, NEW i \in Nat,
         ~Starts(Words(line), "and"), Words(line) # <<>>, ~Grows(items)
  PROVE  Same(Append(items, ItemAt(Words(line), IdOn(line), i)), ReadLine(p, line))
<1>1. PICK l, id, c : l = Words(line) /\ id = IdOn(line) /\ c = Close(p)
  OBVIOUS
<1>2. ReadLine(p, line) = Begin(c, l, id)
  BY <1>1, GrowsWhereContinues DEF ReadLine
<1>3. /\ IsReading(c) /\ c.open = <<>> /\ c.facts = p.facts
      /\ c.rules = AsRules(ItemsOf(items, "rule"))
  BY <1>1, ClosedSame
<1>4. items \in Seq(ItemType) /\ p.facts = HeadsOf(ItemsOf(items, "fact"))
  BY DEF Same
<1>5. PICK x : x = ItemAt(l, id, i)
  OBVIOUS
<1>6. x \in ItemType
  BY <1>1, <1>5, LineWords, ItemAtIs
<1>7. PICK q : q = Begin(c, l, id)
  OBVIOUS
<1>8. Append(items, x) \in Seq(ItemType) /\ Append(items, x) # <<>> /\ Last(Append(items, x)) = x
  BY <1>4, <1>6, AppendLast
<1>9. CASE Starts(l, "?")
  <2>1. q = [c EXCEPT !.query = Tail(l), !.bad = @ \/ id # <<>>]
    BY <1>7, <1>9 DEF Begin, Starts
  <2>2. IsReading(q) /\ q.facts = c.facts /\ q.rules = c.rules /\ q.open = <<>>
    BY <1>3, <2>1 DEF IsReading
  <2>3. x.kind = "query"
    BY <1>5, <1>9 DEF ItemAt, Item
  <2>4. Between(Append(items, x), q)
    BY <1>3, <1>4, <1>6, <1>8, <2>2, <2>3, OneMore DEF Between
  <2>5. HeadsOf(ItemsOf(Append(items, x), "fact")) = q.facts
    BY <1>3, <1>4, <1>6, <2>2, <2>3, OneMore
  <2>6. QED
    BY <1>1, <1>2, <1>5, <1>7, <1>8, <2>2, <2>4, <2>5 DEF Same
<1>10. CASE ~Starts(l, "?") /\ IsRule(l)
  <2>1. PICK head, body : /\ head = SubSeq(l, 1, FirstIf(l) - 1)
                          /\ body = SubSeq(l, FirstIf(l) + 1, Len(l))
    OBVIOUS
  <2>2. q = [c EXCEPT !.open = <<[head |-> head, body |-> body, id |-> id]>>]
    BY <1>7, <1>10, <2>1 DEF Begin
  <2>3. x.kind = "rule" /\ x.head = head /\ x.body = body /\ x.id = id
    BY <1>5, <1>10, <2>1 DEF ItemAt, Item
  <2>4. q = [c EXCEPT !.open = <<AsRule(x)>>]
    BY <2>2, <2>3 DEF AsRule
  <2>5. IsReading(q) /\ q.facts = c.facts /\ q.rules = c.rules /\ q.open = <<AsRule(x)>>
    BY <1>3, <2>4 DEF IsReading
  <2>6. InRule(Append(items, x), q)
    BY <1>3, <1>4, <1>6, <2>3, <2>5 DEF InRule
  <2>7. HeadsOf(ItemsOf(Append(items, x), "fact")) = q.facts
    BY <1>3, <1>4, <1>6, <2>3, <2>5, OneMore
  <2>8. QED
    BY <1>1, <1>2, <1>5, <1>7, <1>8, <2>5, <2>6, <2>7 DEF Same
<1>11. CASE ~Starts(l, "?") /\ ~IsRule(l)
  <2>1. ~Starts(l, "and")
    BY <1>1
  <2>2. q = [c EXCEPT !.facts = Append(@, l), !.bad = @ \/ id # <<>>]
    BY <1>7, <1>11, <2>1 DEF Begin
  <2>3. /\ IsReading(q) /\ q.facts = Append(c.facts, l) /\ q.rules = c.rules /\ q.open = <<>>
    BY <1>3, <2>2 DEF IsReading
  <2>4. x.kind = "fact" /\ x.head = l
    BY <1>5, <1>11 DEF ItemAt, Item
  <2>5. Between(Append(items, x), q)
    BY <1>3, <1>4, <1>6, <1>8, <2>3, <2>4, OneMore DEF Between
  <2>6. HeadsOf(ItemsOf(Append(items, x), "fact")) = q.facts
    BY <1>3, <1>4, <1>6, <2>3, <2>4, OneMore
  <2>7. QED
    BY <1>1, <1>2, <1>5, <1>7, <1>8, <2>3, <2>5, <2>6 DEF Same
<1>12. QED
  BY <1>9, <1>10, <1>11

LEMMA SameStep ==
  ASSUME NEW items, NEW p, Same(items, p), NEW line \in Line, NEW i \in Nat,
         ~Starts(Words(line), "and"), IdOn(line) # <<>> => Words(line) # <<>>
  PROVE  Same(ItemsWith(items, line, i), ReadLine(p, line))
<1>1. CASE Grows(items)
  BY <1>1, SameGrown DEF ItemsWith
<1>2. CASE ~Grows(items) /\ Words(line) = <<>>
  BY <1>2 DEF ItemsWith, ReadLine
<1>3. CASE ~Grows(items) /\ Words(line) # <<>>
  BY <1>3, SameBegun DEF ItemsWith
<1>4. QED
  BY <1>1, <1>2, <1>3

LEMMA SameStatements ==
  ASSUME NEW lines \in Texts, OneReading(lines)
  PROVE  Same(ParsePositioned(lines), Read(lines))
<1>0. Len(lines) \in Nat /\ DOMAIN lines = 1..Len(lines) /\ \A i \in 1..Len(lines) : lines[i] \in Line
  BY DEF Texts
<1>1. PICK items : /\ items[0] = <<>> /\ items[Len(lines)] = ParsePositioned(lines)
                   /\ \A i \in 1..Len(lines) : items[i] = ItemsWith(items[i - 1], lines[i], i)
  BY ItemsSteps
<1>2. PICK p : /\ p[0] = Nothing /\ p[Len(lines)] = Read(lines)
               /\ \A i \in 1..Len(lines) : p[i] = ReadLine(p[i - 1], lines[i])
  BY ReadSteps DEF Texts
<1> DEFINE S == {i \in Nat : i <= Len(lines) => Same(items[i], p[i])}
<1>3. 0 \in S
  <2>1. <<>> \in Seq(ItemType) /\ HeadsOf(<<>>) = <<>> /\ AsRules(<<>>) = <<>>
    BY DEF HeadsOf, AsRules
  <2>2. IsReading(Nothing) /\ Nothing.facts = <<>> /\ Nothing.rules = <<>> /\ Nothing.open = <<>>
    BY DEF Nothing, IsReading
  <2>3. ItemsOf(<<>>, "fact") = <<>> /\ ItemsOf(<<>>, "rule") = <<>>
    BY OfEmpty
  <2>4. Same(<<>>, Nothing)
    BY <2>1, <2>2, <2>3 DEF Same, Between
  <2>5. QED
    BY <1>1, <1>2, <2>4
<1>4. ASSUME NEW i \in Nat, i \in S PROVE i + 1 \in S
  <2> SUFFICES ASSUME i + 1 <= Len(lines) PROVE Same(items[i + 1], p[i + 1])
    OBVIOUS
  <2>1. i + 1 \in 1..Len(lines) /\ (i + 1) - 1 = i /\ i <= Len(lines) /\ i + 1 \in Nat
    BY <1>0
  <2>2. Same(items[i], p[i])
    BY <1>4, <2>1
  <2>3. PICK line \in Line : line = lines[i + 1]
    BY <1>0, <2>1
  <2>4. ~Starts(Words(line), "and") /\ (IdOn(line) # <<>> => Words(line) # <<>>)
    BY <1>0, <2>1, <2>3 DEF OneReading
  <2>5. items[i + 1] = ItemsWith(items[i], line, i + 1) /\ p[i + 1] = ReadLine(p[i], line)
    BY <1>1, <1>2, <2>1, <2>3
  <2>6. QED
    BY <2>1, <2>2, <2>4, <2>5, SameStep
<1>5. Len(lines) \in S
  <2> HIDE DEF S
  <2> QED BY <1>0, <1>3, <1>4, NatInd
<1>6. QED
  BY <1>0, <1>1, <1>2, <1>5

\* What the two parsers make of a text that they do not read differently.
LEMMA OneReadingIsOne ==
  ASSUME NEW lines \in Texts, OneReading(lines)
  PROVE  /\ ParsePositioned(lines) \in Seq(ItemType)
         /\ HeadsOf(ItemsOf(ParsePositioned(lines), "fact")) = Parse(lines).facts
         /\ AsRules(ItemsOf(ParsePositioned(lines), "rule")) = Parse(lines).rules
<1>1. Same(ParsePositioned(lines), Read(lines))
  BY SameStatements
<1>2. QED
  BY <1>1, ClosedSame DEF Parse, Same

LEMMA TextsReadAlike == TextsTyped => EditorReadsWhatRuns
<1> SUFFICES ASSUME TextsTyped, NEW d \in opened, OneReading(text[d])
             PROVE  LET items == ParsePositioned(text[d])
                        p     == Parse(text[d])
                        facts == ItemsOf(items, "fact")
                        rules == ItemsOf(items, "rule")
                    IN  /\ [k \in DOMAIN facts |-> facts[k].head] = p.facts
                        /\ [k \in DOMAIN rules |-> [head |-> rules[k].head, body |-> rules[k].body,
                                                    id |-> rules[k].id]] = p.rules
  BY DEF EditorReadsWhatRuns
<1>1. text[d] \in Texts
  BY DEF TextsTyped
<1>2. QED
  BY <1>1, OneReadingIsOne DEF HeadsOf, AsRules, AsRule

\* The editor's parser (parse_positioned) finds the facts and the rules, with
\* their ids, that the parser of the tools runs (_parse_text), in every text that
\* has no line opening with "and" and no id on a line of its own.
THEOREM EditorReadsAsTools == Spec => []EditorReadsWhatRuns
BY TextsTypedInit, TextsTypedStep, TextsReadAlike, PTL DEF Spec

----------------------------------------------------------------------------
(* AnswersFitText.                                                         *)

\* An answer that these items give.
GivenBy(a, d, items) ==
  \/ a.kind \notin {"hover", "completion"}
  \/ \E n : n # NoPredicate /\ a = HoverOn(d, items, n)
  \/ \E b : a = [kind |-> "completion", doc |-> d, begun |-> b, offered |-> Offered(items, b)]

\* An answer on an open document is one that the items of its text give.
AnswersAreGiven ==
  \A d \in opened : answer.doc = d => GivenBy(answer, d, ParsePositioned(text[d]))

LEMMA NoAnswerIsGiven ==
  ASSUME answer' = NoAnswer PROVE AnswersAreGiven'
<1>1. answer'.kind = "none"
  BY DEF NoAnswer
<1>2. QED
  BY <1>1 DEF AnswersAreGiven, GivenBy

LEMMA NamesAreNames ==
  ASSUME NEW item, NEW n \in NamesIn(item) PROVE n # NoPredicate
<1>1. \A w \in DOMAIN Predicate : Predicate[w] # NoPredicate
  BY ChecksAssumption
<1>2. \A w \in Junk : Unfinished[w] # NoPredicate
  BY ChecksAssumption
<1>3. QED
  BY <1>1, <1>2 DEF NamesIn

LEMMA LookedItems ==
  ASSUME IInv, NEW d \in opened
  PROVE  Looked(d).items = ParsePositioned(text[d])
<1>1. Looked(d) = [version |-> version[d], items |-> ParsePositioned(text[d])]
  BY EntryOfOpen DEF IInv, Looked, Current
<1>2. QED
  BY <1>1

\* What a look at a document answers is of its text, if the document is open.
LEMMA LookIsGiven ==
  ASSUME IInv, NEW d \in Docs, UNCHANGED <<opened, text>>, answer'.doc = d,
         NEW items, items = Looked(d).items, GivenBy(answer', d, items)
  PROVE  AnswersAreGiven'
<1> SUFFICES ASSUME NEW e \in opened, answer'.doc = e
             PROVE  GivenBy(answer', e, ParsePositioned(text[e]))
  BY DEF AnswersAreGiven
<1>1. e = d /\ d \in opened
  OBVIOUS
<1>2. items = ParsePositioned(text[d])
  BY <1>1, LookedItems
<1>3. QED
  BY <1>1, <1>2

LEMMA GivenStep ==
  ASSUME IInv, AnswersAreGiven, [Next]_vars PROVE AnswersAreGiven'
<1>1. ASSUME NEW d \in Docs, DidOpen(d) PROVE AnswersAreGiven'
  BY <1>1, NoAnswerIsGiven DEF DidOpen, RunDiagnostics
<1>2. ASSUME NEW d \in Docs, NEW t, DidChange(d, t) PROVE AnswersAreGiven'
  BY <1>2, NoAnswerIsGiven DEF DidChange, RunDiagnostics
<1>3. ASSUME NEW d \in Docs, DidSave(d) PROVE AnswersAreGiven'
  BY <1>3, NoAnswerIsGiven DEF DidSave, RunDiagnostics
<1>4. ASSUME NEW d \in Docs, DidClose(d) PROVE AnswersAreGiven'
  BY <1>4, NoAnswerIsGiven DEF DidClose
<1>5. ASSUME NEW d \in Docs, NEW i, Hover(d, i) PROVE AnswersAreGiven'
  <2>1. PICK items : items = Looked(d).items
    OBVIOUS
  <2>2. PICK names : names = UNION {NamesIn(items[k]) :
                           k \in {j \in ItemsAt(items, i) : \A h \in ItemsAt(items, i) : j <= h}}
    OBVIOUS
  <2>3. answer' \in {HoverOn(d, items, n) : n \in names} \cup {NoAnswer}
    BY <1>5, <2>1, <2>2 DEF Hover
  <2>4. \A n \in names : n # NoPredicate
    BY <2>2, NamesAreNames
  <2>5. ASSUME NEW n \in names, answer' = HoverOn(d, items, n) PROVE AnswersAreGiven'
    <3>1. GivenBy(answer', d, items) /\ answer'.doc = d
      BY <2>4, <2>5 DEF GivenBy, HoverOn
    <3>2. UNCHANGED <<opened, text>>
      BY <1>5 DEF Hover
    <3>3. QED
      BY <2>1, <3>1, <3>2, LookIsGiven
  <2>6. QED
    BY <2>3, <2>5, NoAnswerIsGiven
<1>6. ASSUME NEW d \in Docs, NEW begun, Completion(d, begun) PROVE AnswersAreGiven'
  <2>1. PICK items : items = Looked(d).items
    OBVIOUS
  <2>2. answer' = [kind |-> "completion", doc |-> d, begun |-> begun,
                   offered |-> Offered(items, begun)]
    BY <1>6, <2>1 DEF Completion
  <2>3. GivenBy(answer', d, items) /\ answer'.doc = d
    BY <2>2 DEF GivenBy
  <2>4. UNCHANGED <<opened, text>>
    BY <1>6 DEF Completion
  <2>5. QED
    BY <2>1, <2>3, <2>4, LookIsGiven
<1>7. ASSUME NEW d \in Docs, WriteFile(d) PROVE AnswersAreGiven'
  BY <1>7, NoAnswerIsGiven DEF WriteFile
<1>8. ASSUME UNCHANGED vars PROVE AnswersAreGiven'
  BY <1>8 DEF vars, AnswersAreGiven
<1>9. QED
  BY <1>1, <1>2, <1>3, <1>4, <1>5, <1>6, <1>7, <1>8 DEF Next

\* The name of a term is that of its one word.
LEMMA TermNames ==
  ASSUME NEW s, IsTerm(s)
  PROVE  /\ s # <<>> /\ s[1] \notin Junk \cup Negated /\ NameOfTerm(s) # NoPredicate
         /\ NameOfTerm(s) = IF s[1] \in DOMAIN Predicate THEN Predicate[s[1]] ELSE s[1]
<1>1. Len(s) = 1 /\ s[1] \in Goal \cup {"if", "and"} /\ s[1] \notin BodyOnly /\ s # <<>>
  BY DEF IsTerm, Atoms
<1>2. s[1] \notin Junk \cup Negated
  BY <1>1, LinesAssumption, ChecksAssumption
<1>3. Head(s) = s[1] /\ Last(s) = s[1]
  BY <1>1 DEF Last
<1>4. NameOfTerm(s) = NameOf(s)
  BY <1>1 DEF NameOfTerm
<1>5. CASE s[1] \in DOMAIN Predicate
  <2>1. s[1] \notin {"if", "and"}
    BY <1>1, <1>5, LinesAssumption, ChecksAssumption
  <2>2. NameOf(s) = Predicate[s[1]]
    BY <1>1, <1>2, <1>3, <1>5, <2>1 DEF NameOf
  <2>3. QED
    BY <1>1, <1>2, <1>4, <1>5, <2>2, ChecksAssumption
<1>6. CASE s[1] \notin DOMAIN Predicate
  <2>1. s[1] \in {"if", "and"}
    BY <1>1, <1>6, ChecksAssumption
  <2>2. s[1] \notin Closed
    BY <1>2, <2>1, LinesAssumption, ChecksAssumption
  <2>3. NameOf(s) = s[1]
    BY <1>1, <1>2, <1>3, <1>6, <2>1, <2>2 DEF NameOf
  <2>4. QED
    BY <1>1, <1>2, <1>4, <1>6, <2>1, <2>3, ChecksAssumption
<1>7. QED
  BY <1>5, <1>6

LEMMA TermOpens ==
  ASSUME NEW s, IsTerm(s), NEW name, name # NoPredicate,
         NameOfTerm(s) = name => Opening(s) = name
  PROVE  Opening(s) = name <=> NameOfTerm(s) = name
<1>1. /\ s # <<>> /\ s[1] \notin Junk
      /\ s[1] \in DOMAIN Predicate => NameOfTerm(s) = Predicate[s[1]]
  BY TermNames
<1>2. Head(s) = s[1]
  OBVIOUS
<1>3. Opening(s) \in {NoPredicate, NameOfTerm(s)}
  BY <1>1, <1>2 DEF Opening
<1>4. QED
  BY <1>3

\* The facts and the heads of rules that the parser has found, by the items.
LEMMA HeadsAre ==
  ASSUME NEW facts \in Seq(ItemType), NEW rules \in Seq(ItemType), NEW p,
         HeadsOf(facts) = p.facts, AsRules(rules) = p.rules, Parseable(p)
  PROVE  /\ DOMAIN p.facts = DOMAIN facts /\ \A k \in DOMAIN facts : facts[k].head = p.facts[k]
         /\ DOMAIN p.rules = DOMAIN rules
         /\ \A k \in DOMAIN rules : rules[k].head = p.rules[k].head
         /\ \A k \in DOMAIN facts : IsTerm(facts[k].head)
         /\ \A k \in DOMAIN rules : IsTerm(rules[k].head)
<1>1. DOMAIN p.facts = DOMAIN facts /\ \A k \in DOMAIN facts : facts[k].head = p.facts[k]
  BY DEF HeadsOf
<1>2. DOMAIN p.rules = DOMAIN rules /\ \A k \in DOMAIN rules : rules[k].head = p.rules[k].head
  BY DEF AsRules, AsRule
<1>3. QED
  BY <1>1, <1>2 DEF Parseable

LEMMA HoverCounts ==
  ASSUME NEW items \in Seq(ItemType), NEW p, Parseable(p), NEW d, NEW name, name # NoPredicate,
         HeadsOf(ItemsOf(items, "fact")) = p.facts, AsRules(ItemsOf(items, "rule")) = p.rules,
         HasNoAtom(p, name)
  PROVE  /\ HoverOn(d, items, name).facts = Inventory(p, name).facts
         /\ HoverOn(d, items, name).rules = Inventory(p, name).rules
<1>1. PICK facts, rules : facts = ItemsOf(items, "fact") /\ rules = ItemsOf(items, "rule")
  OBVIOUS
<1>2. /\ DOMAIN p.facts = DOMAIN facts /\ \A k \in DOMAIN facts : facts[k].head = p.facts[k]
      /\ DOMAIN p.rules = DOMAIN rules
      /\ \A k \in DOMAIN rules : rules[k].head = p.rules[k].head
      /\ \A k \in DOMAIN facts : IsTerm(facts[k].head)
      /\ \A k \in DOMAIN rules : IsTerm(rules[k].head)
  <2>1. facts \in Seq(ItemType) /\ rules \in Seq(ItemType)
    BY <1>1, OfType
  <2>2. QED
    BY <1>1, <2>1, HeadsAre
<1>3. ASSUME NEW s \in ToSet(p.facts) \cup {r.head : r \in ToSet(p.rules)}, NameOfTerm(s) = name
      PROVE  Opening(s) = name
  BY <1>3 DEF HasNoAtom
<1>4. ASSUME NEW k \in DOMAIN facts
      PROVE  Opening(facts[k].head) = name <=> NameOfTerm(p.facts[k]) = name
  <2>1. PICK s : s = p.facts[k]
    OBVIOUS
  <2>2. s \in ToSet(p.facts) /\ IsTerm(s) /\ facts[k].head = s
    BY <1>2, <2>1 DEF ToSet
  <2>3. Opening(s) = name <=> NameOfTerm(s) = name
    BY <1>3, <2>2, TermOpens
  <2>4. QED
    BY <2>1, <2>2, <2>3
<1>5. ASSUME NEW k \in DOMAIN rules
      PROVE  Opening(rules[k].head) = name <=> NameOfTerm(p.rules[k].head) = name
  <2>1. PICK s : s = p.rules[k].head
    OBVIOUS
  <2>2. p.rules[k] \in ToSet(p.rules) /\ IsTerm(s) /\ rules[k].head = s
    BY <1>2, <2>1 DEF ToSet
  <2>3. Opening(s) = name <=> NameOfTerm(s) = name
    BY <1>3, <2>1, <2>2, TermOpens
  <2>4. QED
    BY <2>1, <2>2, <2>3
<1>6. {k \in DOMAIN facts : Opening(facts[k].head) = name}
        = {i \in DOMAIN p.facts : NameOfTerm(p.facts[i]) = name}
  BY <1>2, <1>4
<1>7. {k \in DOMAIN rules : Opening(rules[k].head) = name}
        = {i \in DOMAIN p.rules : NameOfTerm(p.rules[i].head) = name}
  BY <1>2, <1>5
<1>8. QED
  BY <1>1, <1>6, <1>7 DEF HoverOn, Inventory

LEMMA OffersDefined ==
  ASSUME NEW items \in Seq(ItemType), NEW p, Parseable(p), NEW begun,
         HeadsOf(ItemsOf(items, "fact")) = p.facts, AsRules(ItemsOf(items, "rule")) = p.rules
  PROVE  Offered(items, begun) = Defined(p) \cap begun \cap Completable
<1>1. PICK facts, rules : facts = ItemsOf(items, "fact") /\ rules = ItemsOf(items, "rule")
  OBVIOUS
<1>2. /\ DOMAIN p.facts = DOMAIN facts /\ \A k \in DOMAIN facts : facts[k].head = p.facts[k]
      /\ DOMAIN p.rules = DOMAIN rules
      /\ \A k \in DOMAIN rules : rules[k].head = p.rules[k].head
      /\ \A k \in DOMAIN facts : IsTerm(facts[k].head)
      /\ \A k \in DOMAIN rules : IsTerm(rules[k].head)
  <2>1. facts \in Seq(ItemType) /\ rules \in Seq(ItemType)
    BY <1>1, OfType
  <2>2. QED
    BY <1>1, <2>1, HeadsAre
<1> DEFINE begins(w) == CASE w \in Junk    -> Unfinished[w]
                          [] w \in Negated -> "not"
                          [] OTHER         -> IF w \in DOMAIN Predicate THEN Predicate[w] ELSE w
           heads == {item.head : item \in ToSet(facts) \cup ToSet(rules)}
           stated == ToSet(p.facts) \cup {r.head : r \in ToSet(p.rules)}
<1>3. heads = stated
  <2>1. ASSUME NEW h \in heads PROVE h \in stated
    BY <1>2 DEF ToSet
  <2>2. ASSUME NEW h \in stated PROVE h \in heads
    <3>1. CASE h \in ToSet(p.facts)
      <4>1. PICK k \in DOMAIN facts : h = facts[k].head
        BY <1>2, <3>1 DEF ToSet
      <4>2. facts[k] \in ToSet(facts)
        BY DEF ToSet
      <4>3. QED
        BY <4>1, <4>2
    <3>2. CASE h \notin ToSet(p.facts)
      <4>1. PICK r \in ToSet(p.rules) : h = r.head
        BY <3>2
      <4>2. PICK k \in DOMAIN rules : h = rules[k].head
        BY <1>2, <4>1 DEF ToSet
      <4>3. rules[k] \in ToSet(rules)
        BY DEF ToSet
      <4>4. QED
        BY <4>2, <4>3
    <3>3. QED
      BY <3>1, <3>2
  <2>3. QED
    BY <2>1, <2>2
<1>4. ASSUME NEW h \in stated
      PROVE  h # <<>> /\ begins(h[1]) = NameOfTerm(h) /\ NameOfTerm(h) # NoPredicate
  <2>1. IsTerm(h)
    BY <1>4, <1>2 DEF ToSet
  <2>2. QED
    BY <2>1, TermNames
<1>5. {begins(h[1]) : h \in heads \ {<<>>}} = {NameOfTerm(h) : h \in stated}
  <2> HIDE DEF begins, heads, stated
  <2> QED BY <1>3, <1>4
<1>6. Defined(p) = {NameOfTerm(h) : h \in stated}
  <2>1. Defined(p) = {NameOfTerm(h) : h \in stated} \ {NoPredicate}
    BY DEF Defined
  <2> HIDE DEF stated
  <2>2. QED
    BY <2>1, <1>4
<1>7. Offered(items, begun) = {begins(h[1]) : h \in heads \ {<<>>}} \cap begun \cap Completable
  BY <1>1 DEF Offered
<1>8. QED
  BY <1>5, <1>6, <1>7

LEMMA AnswersFit == TextsTyped /\ AnswersAreGiven => AnswersFitText
<1> SUFFICES ASSUME TextsTyped, AnswersAreGiven, NEW d \in opened, answer.doc = d,
                    OneReading(text[d]), Parseable(Parse(text[d])), NEW p, p = Parse(text[d])
             PROVE  /\ answer.kind = "hover" /\ HasNoAtom(p, answer.name) =>
                         /\ answer.facts = Inventory(p, answer.name).facts
                         /\ answer.rules = Inventory(p, answer.name).rules
                    /\ answer.kind = "completion" => answer.offered = Defined(p) \cap answer.begun \cap Completable
  BY DEF AnswersFitText
<1>1. text[d] \in Texts
  BY DEF TextsTyped
<1>2. PICK items : items = ParsePositioned(text[d])
  OBVIOUS
<1>3. /\ items \in Seq(ItemType) /\ HeadsOf(ItemsOf(items, "fact")) = p.facts
      /\ AsRules(ItemsOf(items, "rule")) = p.rules
  BY <1>1, <1>2, OneReadingIsOne
<1>4. GivenBy(answer, d, items)
  BY <1>2 DEF AnswersAreGiven
<1>5. ASSUME answer.kind = "hover", HasNoAtom(p, answer.name)
      PROVE  /\ answer.facts = Inventory(p, answer.name).facts
             /\ answer.rules = Inventory(p, answer.name).rules
  <2>1. PICK n : n # NoPredicate /\ answer = HoverOn(d, items, n)
    BY <1>4, <1>5 DEF GivenBy
  <2>2. answer.name = n
    BY <2>1 DEF HoverOn
  <2>3. QED
    BY <1>3, <1>5, <2>1, <2>2, HoverCounts
<1>6. ASSUME answer.kind = "completion" PROVE answer.offered = Defined(p) \cap answer.begun \cap Completable
  <2>1. PICK b : answer = [kind |-> "completion", doc |-> d, begun |-> b,
                           offered |-> Offered(items, b)]
    <3>1. \A n : HoverOn(d, items, n).kind = "hover"
      BY DEF HoverOn
    <3>2. \A n : answer # HoverOn(d, items, n)
      BY <1>6, <3>1
    <3>3. QED
      BY <1>4, <1>6, <3>2 DEF GivenBy
  <2>2. Offered(items, b) = Defined(p) \cap b \cap Completable
    BY <1>3, OffersDefined
  <2>3. QED
    BY <2>1, <2>2
<1>7. QED
  BY <1>5, <1>6

\* An answer to hover or completion on an open document is that of check_kb on
\* the text as it is now, whatever was typed, closed, opened again or looked at
\* in other documents since it was parsed (_get_pkb, compute_hover,
\* compute_completions): the names check_kb finds defined are offered, those
\* excepted that begin with a letter beyond a to z.
THEOREM EditorAnswersFit == Spec => []AnswersFitText
<1> DEFINE Inv == IInv /\ TextsTyped /\ AnswersAreGiven
<1>1. Init => Inv
  <2>1. Init => AnswersAreGiven
    BY DEF Init, AnswersAreGiven
  <2>2. QED
    BY <2>1, Initially, TextsTypedInit
<1>2. Inv /\ [Next]_vars => Inv'
  BY StepKeeps, TextsTypedStep, GivenStep
<1>3. Inv => AnswersFitText
  BY AnswersFit
<1>4. QED
  BY <1>1, <1>2, <1>3, PTL DEF Spec

----------------------------------------------------------------------------
(* NoFalseCircle.                                                          *)

\* Among the names other than a circular one's, nothing derives it.
LEMMA CircularHasNoBase ==
  ASSUME NEW p, NEW name \in Circular(p), ~NegatesItself(p, name), name \notin LiteralNames
  PROVE  name \notin MayHold(p)
<1> DEFINE names == Defined(p) \cup LiteralNames
           callsOf(r) == {NameOf(g) : g \in {h \in GoalsOf(r.body) : ~Negates(h)}} \ {NoPredicate}
           derived(H) == {m \in Defined(p) : \/ FactsOf(p, m) # {}
                                             \/ \E r \in RulesOf(p, m) : callsOf(r) \subseteq H}
           H == names \ {name}
<1>1. FactsOf(p, name) = {} /\ \A r \in RulesOf(p, name) : name \in BodyPredicates(r)
  BY DEF Circular, HasBase
<1>2. name # NoPredicate
  BY DEF Circular, Defined
<1>3. ASSUME NEW r \in RulesOf(p, name) PROVE name \in callsOf(r)
  <2>1. PICK g \in GoalsOf(r.body) : NameOf(g) = name
    BY <1>1 DEF BodyPredicates
  <2>2. ~Negates(g)
    BY <2>1 DEF NegatesItself
  <2>3. QED
    BY <1>2, <2>1, <2>2
<1>4. name \notin derived(H)
  BY <1>1, <1>3
<1>5. LiteralNames \subseteq H
  OBVIOUS
<1>6. derived(H) \subseteq H
  BY <1>4
<1>7. H \in SUBSET names /\ LiteralNames \cup derived(H) \subseteq H /\ name \notin H
  BY <1>5, <1>6
<1>8. MayHold(p) = {m \in names : \A K \in SUBSET names :
                                    LiteralNames \cup derived(K) \subseteq K => m \in K}
  BY DEF MayHold
<1>9. QED
  <2> HIDE DEF derived, H, names
  <2> QED BY <1>7, <1>8

LEMMA NoTextHasFalseCircle == ASSUME NEW lines PROVE CircularNeverHolds(lines)
<1> SUFFICES ASSUME NEW e \in Errors(lines), e.type = "circular_rule", e.name \notin LiteralNames,
                    ~NegatesItself(Parse(lines), e.name)
             PROVE  e.name \notin MayHold(Parse(lines))
  BY DEF CircularNeverHolds
<1>1. e.name \in Circular(Parse(lines))
  BY DEF Errors, Report
<1>2. QED
  BY <1>1, CircularHasNoBase

\* A predicate that check_kb calls circular has no derivation in any text, but
\* for the two exceptions that CircularNeverHolds names (validation.py).
THEOREM CircularIsCircular == Spec => []NoFalseCircle
<1>1. NoFalseCircle
  BY NoTextHasFalseCircle DEF NoFalseCircle
<1>2. QED
  BY <1>1, PTL
=============================================================================
