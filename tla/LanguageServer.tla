--------------------------- MODULE LanguageServer ---------------------------
(***************************************************************************)
(* euclid-lsp: the language server of an editor.  Each handler runs to its *)
(* end before the next; what persists between them is the editor's texts,  *)
(* kept by pygls, the cache of parsed documents, and what was published.   *)
(* Columns and the wording of messages are left out; lines count from 1.   *)
(***************************************************************************)
EXTENDS KbChecks

CONSTANTS
  Docs,         \* documents
  Lines,        \* lines the user types
  Files,        \* bound: texts found or saved on disk
  Completable,  \* names that begin with a letter from a to z or "_"
  Mentions,     \* of a name: the words it is a part of
  Begun,        \* of what is typed before the cursor: the names it begins
  MaxLines,     \* bound: lines of a text
  MaxVersion    \* bound: changes to a document, plus one

ASSUME ServerAssumption ==
  /\ Lines \subseteq Line /\ Files \subseteq Seq(Line)
  /\ MaxVersion \in Nat \ {0} /\ MaxLines \in Nat

VARIABLES
  disk,         \* of each document: the text in its file
  opened,       \* the documents open in the editor
  text,         \* of each document: the editor's text, while it is open
  version,      \* of each document: the editor's number of that text
  cache,        \* _doc_cache, of each document: <<>> or its entry
  shown,        \* of each document: the diagnostics last published
  answer        \* the last answer to hover or completion

vars == <<disk, opened, text, version, cache, shown, answer>>

----------------------------------------------------------------------------
(* positioned_parser.py: one pass over the lines, each statement with the  *)
(* first and the last line it takes in.                                    *)

Item(kind, head, body, id, i) ==
  [kind |-> kind, head |-> head, body |-> body, id |-> id, first |-> i, last |-> i]

\* A line that starts a statement.  Only the words of a rule are split.
ItemAt(l, id, i) ==
  CASE Starts(l, "?") -> Item("query", <<>>, Tail(l), <<>>, i)
    [] ~Starts(l, "?") /\ IsRule(l) ->
         Item("rule", SubSeq(l, 1, FirstIf(l) - 1), SubSeq(l, FirstIf(l) + 1, Len(l)), id, i)
    [] OTHER -> Item("fact", l, <<>>, <<>>, i)

\* Unlike the parser, which also looks ahead for a line that opens with "and".
Grows(items) == items # <<>> /\ Last(items).kind = "rule" /\ Wants(Last(items))

\* Defects: the last line is not counted; an id on a later line is not seen.
GrowUncounted(items, line, i) ==
  [items EXCEPT ![Len(items)].body = @ \o Words(line),
                ![Len(items)].id = IF IdOn(line) = <<>> THEN @ ELSE IdOn(line)]

GrowSameId(items, line, i) ==
  [items EXCEPT ![Len(items)].body = @ \o Words(line),
                ![Len(items)].last = i]

\* A blank line, or an id on a line of its own, counts as the rule's.
Grow(items, line, i) ==
  [items EXCEPT ![Len(items)].body = @ \o Words(line),
                ![Len(items)].last = i,
                ![Len(items)].id = IF IdOn(line) = <<>> THEN @ ELSE IdOn(line)]

\* What the ith line makes of the items of the lines above it.
ItemsWith(items, line, i) ==
  CASE Grows(items) -> Grow(items, line, i)
    [] ~Grows(items) /\ Words(line) = <<>> -> items
    [] OTHER -> Append(items, ItemAt(Words(line), IdOn(line), i))

ParsePositioned(lines) ==
  LET items[i \in 0..Len(lines)] ==
        IF i = 0 THEN <<>> ELSE ItemsWith(items[i - 1], lines[i], i)
  IN  items[Len(lines)]

\* The items of a kind, in order.
ItemsOf(items, kind) ==
  LET of[i \in 0..Len(items)] ==
        IF i = 0 THEN <<>>
        ELSE IF items[i].kind = kind THEN Append(of[i - 1], items[i]) ELSE of[i - 1]
  IN  of[Len(items)]

----------------------------------------------------------------------------
(* diagnostics.py.                                                         *)

Defines(item, kind, name) == item.kind = kind /\ Opening(item.head) = name

\* _locate_predicate: the first statement whose text opens with the name, or a
\* query above it that has the name somewhere in it.
Locates(item, name) ==
  \/ Defines(item, "fact", name) \/ Defines(item, "rule", name)
  \/ item.kind = "query" /\ ToSet(item.body) \cap Mentions[name] # {}

\* What is not located is put on the first line.
LineOf(items, name) ==
  LET at == {i \in DOMAIN items : name # NoPredicate /\ Locates(items[i], name)}
  IN  IF at = {} THEN 1 ELSE items[CHOOSE i \in at : \A j \in at : i <= j].first

Diagnostics(lines, items) ==
  {[type |-> r.type, name |-> r.name, line |-> LineOf(items, r.name)] :
     r \in Errors(lines) \cup Warnings(lines)}

----------------------------------------------------------------------------
(* hover.py and autocomplete.py.                                           *)

\* _find_item_at.
ItemsAt(items, i) == {k \in DOMAIN items : items[k].first <= i /\ i <= items[k].last}

\* Names followed by a parenthesis in an item: one of them is at the column,
\* which is counted in the line but looked up in the item's text.
NamesIn(item) ==
  LET words == ToSet(item.head) \cup ToSet(item.body)
  IN  {Predicate[w] : w \in words \cap DOMAIN Predicate \cap Closed}
        \cup {Unfinished[w] : w \in words \cap Junk}

HoverOn(d, items, name) ==
  LET count(of) == Cardinality({k \in DOMAIN of : Opening(of[k].head) = name})
  IN  [kind |-> "hover", doc |-> d, name |-> name,
       facts |-> count(ItemsOf(items, "fact")), rules |-> count(ItemsOf(items, "rule"))]

\* The predicates among the completions: the names that facts and heads begin
\* with, unless the first letter is beyond a to z.
Offered(items, begun) ==
  LET begins(w) == CASE w \in Junk    -> Unfinished[w]
                     [] w \in Negated -> "not"
                     [] OTHER         -> IF w \in DOMAIN Predicate THEN Predicate[w] ELSE w
      heads == {item.head : item \in ToSet(ItemsOf(items, "fact")) \cup ToSet(ItemsOf(items, "rule"))}
  IN  {begins(h[1]) : h \in heads \ {<<>>}} \cap begun \cap Completable

----------------------------------------------------------------------------
(* server.py.                                                              *)

NoAnswer == [kind |-> "none", doc |-> "none"]

NothingShown == {}

Init ==
  /\ disk \in [Docs -> Files] /\ opened = {}
  /\ text = [d \in Docs |-> <<>>] /\ version = [d \in Docs |-> 0]
  /\ cache = [d \in Docs |-> <<>>]
  /\ shown = [d \in Docs |-> NothingShown]
  /\ answer = NoAnswer

\* Defect: the version is not compared.
EntryOfAnyVersion(d, t, v) ==
  IF cache[d] # <<>> THEN cache[d][1]
  ELSE [version |-> v, items |-> ParsePositioned(t)]

\* _get_pkb, for text t of version v: the entry it returns and keeps.
Entry(d, t, v) ==
  IF cache[d] # <<>> /\ cache[d][1].version = v THEN cache[d][1]
  ELSE [version |-> v, items |-> ParsePositioned(t)]

\* _run_diagnostics, once pygls has noted text t of version v.
RunDiagnostics(d, t, v) ==
  /\ text' = [text EXCEPT ![d] = t] /\ version' = [version EXCEPT ![d] = v]
  /\ cache' = [cache EXCEPT ![d] = <<Entry(d, t, v)>>]
  /\ shown' = [shown EXCEPT ![d] = Diagnostics(t, Entry(d, t, v).items)]
  /\ answer' = NoAnswer

\* did_open: editors number from 1.
DidOpen(d) ==
  /\ d \notin opened /\ opened' = opened \cup {d}
  /\ RunDiagnostics(d, disk[d], 1)
  /\ UNCHANGED disk

\* The texts one line away from a text.
Edits(t) ==
  {InsertAt(t, i, l) : i \in 1..(Len(t) + 1), l \in Lines} \cup {RemoveAt(t, i) : i \in DOMAIN t}

\* did_change.
DidChange(d, t) ==
  /\ d \in opened /\ version[d] < MaxVersion
  /\ t \in Edits(text[d]) /\ Len(t) <= MaxLines
  /\ RunDiagnostics(d, t, version[d] + 1)
  /\ UNCHANGED <<disk, opened>>

\* did_save.
DidSave(d) ==
  /\ d \in opened /\ text[d] \in Files
  /\ disk' = [disk EXCEPT ![d] = text[d]]
  /\ RunDiagnostics(d, text[d], version[d])
  /\ UNCHANGED opened

\* Defect: the diagnostics of the closed document stay.
CloseKeepingShown(d) ==
  /\ d \in opened /\ opened' = opened \ {d}
  /\ cache' = [cache EXCEPT ![d] = <<>>]
  /\ text' = [text EXCEPT ![d] = <<>>] /\ version' = [version EXCEPT ![d] = 0]
  /\ answer' = NoAnswer
  /\ UNCHANGED <<disk, shown>>

\* did_close: edits that were not saved are gone.
DidClose(d) ==
  /\ d \in opened /\ opened' = opened \ {d}
  /\ cache' = [cache EXCEPT ![d] = <<>>]
  /\ shown' = [shown EXCEPT ![d] = NothingShown]
  /\ text' = [text EXCEPT ![d] = <<>>] /\ version' = [version EXCEPT ![d] = 0]
  /\ answer' = NoAnswer
  /\ UNCHANGED disk

\* A document that is not open is read from its file and has no version.
Current(d) == IF d \in opened THEN text[d] ELSE disk[d]

Looked(d) == Entry(d, Current(d), version[d])

\* hover, at a line of the document.
Hover(d, i) ==
  /\ cache' = [cache EXCEPT ![d] = <<Looked(d)>>]
  /\ LET at == ItemsAt(Looked(d).items, i)
         names == UNION {NamesIn(Looked(d).items[k]) :
                           k \in {j \in at : \A h \in at : j <= h}}
     IN  answer' \in {HoverOn(d, Looked(d).items, n) : n \in names} \cup {NoAnswer}
  /\ UNCHANGED <<disk, opened, text, version, shown>>

\* completion: of the line only what is typed before the cursor counts.
Completion(d, begun) ==
  /\ cache' = [cache EXCEPT ![d] = <<Looked(d)>>]
  /\ answer' = [kind |-> "completion", doc |-> d, begun |-> begun,
               offered |-> Offered(Looked(d).items, begun)]
  /\ UNCHANGED <<disk, opened, text, version, shown>>

\* Another program writes the file of a document that is not open.
WriteFile(d) ==
  /\ d \notin opened /\ \E f \in Files : disk' = [disk EXCEPT ![d] = f]
  /\ answer' = NoAnswer
  /\ UNCHANGED <<opened, text, version, cache, shown>>

Next ==
  \E d \in Docs :
    \/ DidOpen(d)
    \/ \E t \in Edits(text[d]) : DidChange(d, t)
    \/ DidSave(d)
    \/ DidClose(d)
    \/ \E i \in 1..MaxLines : Hover(d, i)
    \/ \E begun \in Begun : Completion(d, begun)
    \/ WriteFile(d)

Spec == Init /\ [][Next]_vars

----------------------------------------------------------------------------
(* Properties.                                                             *)

\* The types of the server's state; a diagnostic is at a line of its text.
TypeOK ==
  /\ opened \subseteq Docs /\ disk \in [Docs -> Seq(Line)]
  /\ text \in [Docs -> Seq(Line)] /\ version \in [Docs -> 0..MaxVersion]
  /\ \A d \in Docs : cache[d] # <<>> => cache[d][1].version \in 0..MaxVersion
  /\ \A d \in Docs : \A r \in shown[d] : r.line = 1 \/ r.line \in DOMAIN text[d]

\* The items kept for an open document are those of its text, so no answer
\* comes from an older version, or from before the document was closed.
CacheIsCurrent ==
  \A d \in opened : cache[d] = <<[version |-> version[d], items |-> ParsePositioned(text[d])]>>

\* The diagnostics an editor shows are those of the text it shows, and a
\* closed document has none.
PublishedIsCurrent ==
  \A d \in Docs :
    shown[d] = IF d \in opened THEN Diagnostics(text[d], ParsePositioned(text[d]))
               ELSE NothingShown

\* A line with words belongs to one statement, and statements are in the order
\* of their lines: hovering finds the statement under the cursor.
LinesAreLocated ==
  \A d \in opened :
    LET items == ParsePositioned(text[d])
    IN  /\ \A i \in DOMAIN text[d] :
             Words(text[d][i]) # <<>> => Cardinality(ItemsAt(items, i)) = 1
        /\ \A k \in DOMAIN items :
             /\ items[k].first <= items[k].last /\ items[k].last <= Len(text[d])
             /\ k > 1 => items[k - 1].last < items[k].first

\* The two parsers of the language differ on a line that opens with "and" and
\* on an id that has a line to itself.
OneReading(t) ==
  /\ ~ParseRaises(t)
  /\ \A i \in DOMAIN t : ~Starts(Words(t[i]), "and") /\ (IdOn(t[i]) # <<>> => Words(t[i]) # <<>>)

\* Otherwise the editor's parser finds the statements that a tool would run,
\* rule by rule and with the same ids.
EditorReadsWhatRuns ==
  \A d \in opened : OneReading(text[d]) =>
    LET items == ParsePositioned(text[d])
        p     == Parse(text[d])
        facts == ItemsOf(items, "fact")
        rules == ItemsOf(items, "rule")
    IN  /\ [k \in DOMAIN facts |-> facts[k].head] = p.facts
        /\ [k \in DOMAIN rules |-> [head |-> rules[k].head, body |-> rules[k].body,
                                    id |-> rules[k].id]] = p.rules

\* No statement of the name is an atom, which hover, in search of the name and a
\* parenthesis, would not count.
HasNoAtom(p, name) ==
  \A s \in ToSet(p.facts) \cup {r.head : r \in ToSet(p.rules)} :
    NameOfTerm(s) = name => Opening(s) = name

\* Hover counts the statements of a predicate as check_kb does, and completion
\* offers the predicates that check_kb finds defined and that begin with a letter
\* from a to z, in the text as it is now.
AnswersFitText ==
  \A d \in opened : answer.doc = d /\ OneReading(text[d]) /\ Parseable(Parse(text[d])) =>
    LET p == Parse(text[d]) IN
    /\ answer.kind = "hover" /\ HasNoAtom(p, answer.name) =>
         /\ answer.facts = Inventory(p, answer.name).facts
         /\ answer.rules = Inventory(p, answer.name).rules
    /\ answer.kind = "completion" => answer.offered = Defined(p) \cap answer.begun \cap Completable

\* No diagnostic calls a predicate circular that has a derivation.
NoFalseCircle == \A d \in opened : CircularNeverHolds(text[d])
=============================================================================
