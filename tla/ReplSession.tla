----------------------------- MODULE ReplSession -----------------------------
(***************************************************************************)
(* The interactive shell of euclid_mcp/cli.py.  Typed lines are held until *)
(* the statement they belong to seems complete, then added to the session  *)
(* KB if the whole of it still checks, and dropped with a message if not.  *)
(***************************************************************************)
EXTENDS StatementLines

CONSTANTS
  EndsInIf,     \* goals whose last letters are "if": motif
  TypedLines,   \* statement lines and comments the user types
  Queries,      \* goals the user asks, as words
  Files,        \* texts the user loads, as lines
  MaxInputs     \* bound: lines entered

\* A typed line that opens with "?" is a query, not a statement.
ASSUME ReplAssumption ==
  /\ TypedLines \subseteq {l \in Line : ~Starts(l, "?")}
  /\ Files \subseteq Seq(Line) /\ MaxInputs \in Nat

VARIABLES
  lines,        \* _lines: the session KB
  pending,      \* _pending: lines held back
  lastQuery,    \* _last_query; <<>> for None
  running,
  \* History: statement lines typed since the start or the last reset; those
  \* dropped with a message; whether a statement was cut in two or a file
  \* loaded; whether a load left the session KB invalid; lines entered.
  typed, rejected, cut, spoilt, inputs

vars == <<lines, pending, lastQuery, running, typed, rejected, cut, spoilt, inputs>>

----------------------------------------------------------------------------
(* Flushing.                                                               *)

\* check_kb reports no parse error; it takes a text of any size.
Accepts(text) == Valid(text)

\* Defects: no check, and a roll back that takes one line too many.
KeepAll(s, held) == [s EXCEPT !.lines = @ \o held]

CutOneMore(s, held) ==
  IF Accepts(s.lines \o held)
  THEN [s EXCEPT !.lines = @ \o held]
  ELSE [s EXCEPT !.rejected = @ \o held,
                 !.lines = SubSeq(@, 1, Len(@) - 1)]

\* _flush: the held lines join the session KB, or are dropped.
Flush(s, held) ==
  IF Accepts(s.lines \o held)
  THEN [s EXCEPT !.lines = @ \o held]
  ELSE [s EXCEPT !.rejected = @ \o held]

Session == [lines |-> lines, rejected |-> rejected]

Become(s) == lines' = s.lines /\ rejected' = s.rejected

FlushPending == IF pending = <<>> THEN Session ELSE Flush(Session, pending)

\* Defect: a trailing "and" is forgotten.
HeldOpenByIf ==
  LET held == IF pending = <<>> THEN <<>> ELSE Words(Last(pending))
  IN  held # <<>> /\ Last(held) \in {"if"} \cup EndsInIf

\* _TRAILING_CONTINUATION: the last held line ends with the letters "and" or
\* "if".  A held comment ends with nothing.
HeldOpen ==
  LET held == IF pending = <<>> THEN <<>> ELSE Words(Last(pending))
  IN  held # <<>> /\ Last(held) \in {"and", "if"} \cup EndsInAnd \cup EndsInIf

JoinsHeld(l) == HeldOpen \/ Starts(l, "and")

----------------------------------------------------------------------------
(* _process_line.                                                          *)

FreshSession ==
  /\ lines = <<>> /\ pending = <<>> /\ lastQuery = <<>> /\ running = TRUE
  /\ typed = <<>> /\ rejected = <<>> /\ cut = FALSE /\ spoilt = FALSE
  /\ inputs = 0

\* Every line entered is counted.
Enter == running /\ inputs < MaxInputs /\ inputs' = inputs + 1

\* A line that continues what is held, or opens with "and".
HoldMore(l) ==
  /\ Enter /\ JoinsHeld(l)
  /\ pending' = Append(pending, l)
  /\ typed' = Append(typed, l)
  /\ cut' = (cut \/ Words(l) = <<>>)
  /\ UNCHANGED <<lines, lastQuery, running, rejected, spoilt>>

\* A rule is held one line longer, for a line that opens with "and".
BeginRule(l) ==
  /\ Enter /\ ~JoinsHeld(l) /\ IsRule(l)
  /\ Become(FlushPending)
  /\ pending' = <<l>>
  /\ typed' = Append(typed, l)
  /\ UNCHANGED <<lastQuery, running, cut, spoilt>>

\* Anything else is added at once, after what was held.
AddLine(l) ==
  /\ Enter /\ ~JoinsHeld(l) /\ ~IsRule(l)
  /\ Become(Flush(FlushPending, <<l>>))
  /\ pending' = <<>>
  /\ typed' = Append(typed, l)
  /\ UNCHANGED <<lastQuery, running, cut, spoilt>>

\* A blank line flushes, and so do the commands that then only read the
\* session KB: :check, :kb, :explain, :diagnose and :what-if.
FlushOnly ==
  /\ Enter
  /\ Become(FlushPending) /\ pending' = <<>>
  /\ cut' = (cut \/ HeldOpen)
  /\ UNCHANGED <<lastQuery, running, typed, spoilt>>

\* "? query": over the session KB after the flush.
Query(q) ==
  /\ Enter
  /\ Become(FlushPending) /\ pending' = <<>>
  /\ lastQuery' = q
  /\ cut' = (cut \/ HeldOpen)
  /\ UNCHANGED <<running, typed, spoilt>>

\* ":load": the lines of a file join the session KB unchecked.
Load(f) ==
  /\ Enter
  /\ Become([FlushPending EXCEPT !.lines = @ \o f]) /\ pending' = <<>>
  /\ cut' = TRUE /\ spoilt' = (spoilt \/ ~Accepts(lines'))
  /\ UNCHANGED <<lastQuery, running, typed>>

\* ":reset": what was held is still flushed, and reported, first.
Reset ==
  /\ Enter
  /\ lines' = <<>> /\ pending' = <<>> /\ lastQuery' = <<>>
  /\ typed' = <<>> /\ rejected' = <<>> /\ cut' = FALSE /\ spoilt' = FALSE
  /\ UNCHANGED running

\* ":quit" and the end of the input.
Quit ==
  /\ running /\ running' = FALSE
  /\ Become(FlushPending) /\ pending' = <<>>
  /\ UNCHANGED <<lastQuery, typed, cut, spoilt, inputs>>

\* Whatever is entered, other than a query, a reset and the end of the input.
Edit ==
  \/ \E l \in TypedLines : HoldMore(l) \/ BeginRule(l) \/ AddLine(l)
  \/ FlushOnly
  \/ \E f \in Files : Load(f)

----------------------------------------------------------------------------
(* Properties.                                                             *)

\* The types of the shell's fields; what is held begins with a rule or with
\* a line that opens with "and".
TypeOK ==
  /\ {lines, pending, typed, rejected} \subseteq Seq(Line)
  /\ lastQuery \in Queries \cup {<<>>} /\ inputs \in 0..MaxInputs
  /\ {running, cut, spoilt} \subseteq BOOLEAN
  /\ pending # <<>> => IsRule(pending[1]) \/ Starts(pending[1], "and")

\* _flush rolls back what does not check, so the session KB always checks,
\* until a file is loaded that does not.
SessionChecks == ~spoilt => Accepts(lines)

\* Lines typed one by one are a text: when no statement is cut in two by a
\* blank line, a query, a command or a comment, and all that was typed checks
\* as a whole, no part of it was refused.  (_print_kb: the listing of a
\* session is to be fed straight back.)
PasteSafe == ~cut /\ Accepts(typed) => rejected = <<>>

\* The parser groups the lines of every session as the documentation says, when
\* no line ends with a goal whose last letters are "and".
LinesGroupAsDocumented == EndsPlainly(lines) => GroupsAsDocumented(lines)

\* The first line with words that a step adds opens with "and".
AddsContinuation ==
  \E i \in (Len(lines) + 1)..Len(lines') :
    /\ Starts(Words(lines'[i]), "and")
    /\ \A j \in (Len(lines) + 1)..(i - 1) : Words(lines'[j]) = <<>>

\* The statements of the session KB are still there after a step.
StatementsStay ==
  /\ IsPrefix(Parse(lines).facts, Parse(lines').facts)
  /\ IsPrefix(Parse(lines).rules, Parse(lines').rules)

\* The last rule of the session KB lacks a body or ends with "and".
EndsOpen == LET p == Read(lines) IN p.open # <<>> /\ Wants(p.open[1])

\* Later input never changes or takes away a statement of the session KB,
\* short of a reset, a line that opens with "and", and an unfinished last
\* rule: a blank line flushes such a rule, and the next fact joins it
\* (docs/CLI.md:117 has it finished by the blank line).
InputOnlyAdds ==
  [][lines' # <<>> /\ ~AddsContinuation /\ ~EndsOpen => StatementsStay]_vars
=============================================================================
