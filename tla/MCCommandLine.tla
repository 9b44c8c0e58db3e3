---------------------------- MODULE MCCommandLine ----------------------------
(* Every subcommand over files, texts and a preloaded KB, and the shell over  *)
(* four goals: facts, rules in both styles, complete and open.                *)
EXTENDS CommandLine

MCGoal == {"a", "b", "motif", "demand"}
MCBodyOnly == {}
MCLiteral == {}
MCDangerous == {}
MCId == {"# rule: r"}
MCEndsInIf == {"motif"}
MCEndsInAnd == {"demand"}
MCJunk == {"b("}

MCTypedLines ==
  {<<>>, <<"b">>, <<"b(">>, <<"a", "if", "# rule: r">>, <<"a", "if", "b">>,
   <<"b", "if", "a", "and">>, <<"and", "b">>, <<"and", "b", "and">>, <<"a", "if", "motif">>,
   <<"b", "if", "demand">>}

MCQueries == {<<"a">>}

MCFiles == {<< <<"b">>, <<"a", "if">> >>, << <<"b(">>, <<"?", "a">> >>,
            << <<"?", "b", "and", "a">>, <<>>, <<"b", "if">>, <<"a", "and">>, <<"b">> >>}

MCDisk ==
  [f \in {"blank", "open", "asks", "broken", "long"} |->
     CASE f = "blank"  -> <<>>
       [] f = "open"   -> << <<"b">>, <<"a", "if">> >>
       [] f = "asks"   -> << <<"?", "a">>, <<"a">> >>
       [] f = "broken" -> << <<"b(">>, <<"and", "a">> >>
       [] OTHER        -> [i \in 1..4 |-> <<"b">>]]

MCPreloads == {<<>>, << <<"b">> >>}

MCOptions(files) == [file : files, text : {"none", <<>>, << <<"b">>, <<"?", "b">> >>}]

MCNone == [file |-> "none", text |-> "none"]

MCCommands ==
  [tool : {"check", "reason", "explain", "diagnose", "what-if"}, before : {MCNone},
   after : MCOptions(DOMAIN MCDisk \cup {"none", "absent"}), query : {"none", <<"a">>},
   wrong : BOOLEAN]
  \cup [tool : {"reason", "shell"}, after : {MCNone}, query : {"none"}, wrong : {FALSE},
        before : {MCNone, [file |-> "asks", text |-> "none"], [file |-> "absent", text |-> "none"],
                  [file |-> "absent", text |-> <<>>]}]
=============================================================================
