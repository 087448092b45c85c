----------------------------- MODULE MCPrograms -----------------------------
(***************************************************************************)
(* Programs.tla for TLC: the commands a user types.                        *)
(***************************************************************************)
EXTENDS Programs

Foreground == {<<"hello">>, <<"typo">>, <<"count_s">>, <<"count_p">>, <<"sh">>,
               <<"threads_s">>, <<"threads_p">>,
               <<"hello", "filter">>, <<"typo", "filter">>,
               <<"hello", "typo">>, <<"count_p", "filter">>}

Background == {<<"hello">>, <<"count_p">>, <<"hello", "filter">>}

MCCommands == [files : Foreground, background : {FALSE}]
                \cup [files : Background, background : {TRUE}]

=============================================================================
