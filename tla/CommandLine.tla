---------------------------- MODULE CommandLine ----------------------------
(***************************************************************************)
(* The commands of euclid_mcp/cli.py: which text a command runs over,      *)
(* whether it runs at all, and its exit code.  Without a subcommand it is  *)
(* the shell of ReplSession, over the KB its options name.  A text of      *)
(* blanks only is <<>>; an empty option is one not given.  --backend,      *)
(* --json, what is printed and files that cannot be decoded are left out.  *)
(***************************************************************************)
EXTENDS ReplSession

CONSTANTS
  Commands,     \* what is typed after euclid-cli
  Disk,         \* of each file that exists: its text
  Preloads,     \* texts EUCLID_KB_PATH names; <<>> for none
  NotGiven,
  MaxSize       \* MAX_KNOWLEDGE_LENGTH, in lines

TextOption(text) == text = NotGiven \/ text \in Seq(Line)

ASSUME CommandLineAssumption ==
  /\ \A text \in Preloads : Len(text) <= MaxSize /\ Valid(text)
  /\ \A o \in Commands : DOMAIN o = {"tool", "before", "after", "query", "wrong"}
  /\ \A f \in DOMAIN Disk : Disk[f] \in Seq(Line)
  /\ \A o \in Commands : TextOption(o.before.text) /\ TextOption(o.after.text)

VARIABLES
  phase,        \* start, shell or ended
  preload,      \* _PRELOADED_KB
  exit,         \* the exit code; NotGiven while there is none
  call,         \* the last call of a tool
  named         \* history: the text the options of a shell name

----------------------------------------------------------------------------
(* The tools of the server, as a command sees them.                        *)

NoCall == [tool |-> "none", over |-> <<>>, failed |-> FALSE]

\* _resolve: a text of blanks is no text.
Resolved(text) == IF text = <<>> THEN preload ELSE text

\* The errors of reason, and of the tools that call it, that a text and a query
\* make certain.
MustFail(text, query) ==
  \/ text = <<>> \/ Len(text) > MaxSize \/ ParseRaises(text)
  \/ (query = NotGiven /\ Parse(text).query = <<>>)

\* The ways a call may end.  An engine may fail over any text; of check_kb only
\* the parse errors are known, and it fails for want of a text.
Calls(tool, text, query) ==
  {[tool |-> tool, over |-> Resolved(text), failed |-> f] :
     f \in {b \in BOOLEAN :
              IF tool = "check" THEN ~b => Valid(Resolved(text)) /\ Resolved(text) # <<>>
              ELSE MustFail(Resolved(text), query) => b}}

----------------------------------------------------------------------------
(* cli.py.                                                                 *)

\* The parser of a subcommand has the same options as the one before it, and
\* resets those it is not given.
Options(o) == IF o.tool = "shell" THEN o.before ELSE o.after

\* argparse: diagnose needs a query; wrong stands for an option that is unknown,
\* needed or has a value of another type.
UsageError(o) == o.wrong \/ (o.tool = "diagnose" /\ o.query = NotGiven)

\* _load_kb: the file is read only if there is no text.
FileMissing(o) ==
  Options(o).text = NotGiven /\ Options(o).file \notin DOMAIN Disk \cup {NotGiven}

\* _resolve_knowledge.
Knowledge(o) ==
  CASE Options(o).text # NotGiven -> Options(o).text
    [] Options(o).text = NotGiven /\ Options(o).file # NotGiven -> Disk[Options(o).file]
    [] OTHER -> <<>>

Init ==
  /\ FreshSession /\ phase = "start" /\ preload \in Preloads
  /\ exit = NotGiven /\ call = NoCall /\ named = <<>>

End(code) == phase' = "ended" /\ exit' = code

\* Nothing has run: argparse, or _load_kb.
Refuse(o) ==
  /\ phase = "start" /\ (UsageError(o) \/ FileMissing(o))
  /\ End(2)
  /\ UNCHANGED <<vars, preload, call, named>>

\* Defect: an invalid KB is no failure of check.
ExitOfErrors(c, tool) == IF c.failed /\ tool # "check" THEN 1 ELSE 0

\* _handle, and the last line of _run_check.
ExitOf(c, tool) == IF c.failed THEN 1 ELSE 0

\* _run_reason, _run_explain, _run_diagnose, _run_what_if and _run_check.
RunTool(o) ==
  /\ phase = "start" /\ ~UsageError(o) /\ ~FileMissing(o) /\ o.tool # "shell"
  /\ \E c \in Calls(o.tool, Knowledge(o), o.query) : call' = c /\ End(ExitOf(c, o.tool))
  /\ UNCHANGED <<vars, preload, named>>

\* _run_repl: the text is not checked, as one of :load is not.
StartShell(o) ==
  /\ phase = "start" /\ ~UsageError(o) /\ ~FileMissing(o) /\ o.tool = "shell"
  /\ phase' = "shell" /\ named' = Knowledge(o)
  /\ lines' = Knowledge(o) /\ spoilt' = ~Accepts(lines') /\ cut' = (lines' # <<>>)
  /\ UNCHANGED <<pending, lastQuery, running, typed, rejected, inputs, preload, exit, call>>

\* Lines and commands of the shell.
Work ==
  /\ phase = "shell" /\ Edit
  /\ call' = NoCall
  /\ UNCHANGED <<phase, preload, exit, named>>

\* ":reset" gives up the text the shell started with.
Restart ==
  /\ phase = "shell" /\ Reset
  /\ named' = <<>> /\ call' = NoCall
  /\ UNCHANGED <<phase, preload, exit>>

\* A query of the shell: an error is printed and the shell goes on.
Ask(q) ==
  /\ phase = "shell" /\ Query(q)
  /\ call' \in Calls("reason", lines', q)
  /\ UNCHANGED <<phase, preload, exit, named>>

\* The shell ends without an error, whatever the session went through.
Leave ==
  /\ phase = "shell" /\ Quit
  /\ call' = NoCall /\ End(0)
  /\ UNCHANGED <<preload, named>>

----------------------------------------------------------------------------

Next ==
  \/ \E o \in Commands : Refuse(o) \/ RunTool(o) \/ StartShell(o)
  \/ Work \/ Restart
  \/ \E q \in Queries : Ask(q)
  \/ Leave

allVars == <<vars, phase, preload, exit, call, named>>

Spec == Init /\ [][Next]_allVars

----------------------------------------------------------------------------
(* Properties.                                                             *)

\* docs/CLI.md, "Exit codes": 2 and no tool was called, 1 and it reported an
\* error, 0 and it ran over a KB that parses; after check, over a valid one.
ExitTellsOutcome ==
  phase = "ended" =>
    /\ exit = 2 => call = NoCall
    /\ exit = 1 <=> call.failed
    /\ exit = 0 /\ call # NoCall =>
         /\ call.over # <<>> /\ ~ParseRaises(call.over)
         /\ call.tool = "check" => Valid(call.over)

\* The KB a shell is started over stays under every query until a reset:
\* neither a refused line nor the preloaded KB takes its place, and a query
\* of the shell runs over what the same options give reason.
QueriesKeepNamedKb ==
  phase = "shell" /\ call # NoCall /\ named # <<>> => IsPrefix(named, call.over)
=============================================================================
