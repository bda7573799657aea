------------------------------ MODULE MCShell ------------------------------
EXTENDS Shell

\* Every short line of words, blanks, tabs and backslashes.
AnyLine == UNION {[1 .. n -> {" ", "\t", "\\", "w"}] : n \in 0 .. 5}

\* Every short number, as the address for a module.
Number == UNION {[1 .. n -> {"0", "x", "1", "F", "w"}] : n \in 1 .. 4}
NumberLine == {<<"ldmod", " ", "w", "\t">> \o n : n \in Number}

\* Lines of commands.
CommandLine ==
  {<<name>> : name \in cmdtab}
    \union {<<"help", " ", "ls", " ", "w">>, <<"ls", " ", "-", "l">>, <<"ls", " ", "w">>,
            <<"ls", " ", "w", " ", "w">>, <<"cd", " ", " ", "w">>, <<"rmdrv", " ", "w", " ", "w">>,
            <<"more", " ", "w">>, <<"root", " ", "p", "1", "9">>, <<"root", " ", "w">>,
            <<"load", " ", "p", "1">>, <<"load", " ", "p", "9">>, <<"load", " ", "w">>,
            <<"load", " ", "-", "s">>, <<"load", " ", "-", "s", "9">>, <<"load", " ", "-", "w", " ", "1">>,
            <<"load", " ", "-", "s", " ", "1", "0", " ", "0", "x", "1", "a">>,
            <<"load", "\t", "-", "s", " ", "0", " ", "9">>,
            <<"load", " ", "-", "f", " ", " ", "w", "\\", " ", "w", " ", "1", "9">>,
            <<"dump", " ", "-", "x", " ", "0", "x", "F", "0">>, <<"dump", " ", "-", "c", "\t", "1">>,
            <<"dump", " ", "-", "w", " ", "1">>, <<" ", " ", "w", " ", "ls">>, <<" ", " ">>, <<>>,
            <<"w", " ", "w", " ", "w", " ", "w", " ", "w", " ", "w">>}

SomeSessions ==
  {<<l>> : l \in AnyLine \union NumberLine} \union {<<a, b>> : a, b \in CommandLine}

SomeLow == {<<>>, <<"w">>}
=============================================================================
