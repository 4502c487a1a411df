---------------------------- MODULE MCTestRunner ----------------------------
(* The suites, examples, command lines and configurations TestRunner is    *)
(* checked with.                                                           *)
EXTENDS TestRunner

MCKindOf == [s \in Suites |-> IF s = "perf" THEN "performance" ELSE "unit"]

CommandLine ==
    [suite |-> NoOption, example |-> NoOption, pyexample |-> NoOption,
     constrain |-> "", valgrind |-> FALSE, nowaf |-> FALSE, list |-> FALSE,
     report |-> TRUE]

\* No option, a constraint, valgrind, a suite, an example, an unknown name.
MCOptions ==
    {[CommandLine EXCEPT !.valgrind = v, !.constrain = c] :
        v \in BOOLEAN, c \in {"", "performance", "pyexample"}}
    \cup {[CommandLine EXCEPT !.suite = s, !.nowaf = TRUE] : s \in {{"perf"}, {"core", "perf"}, {}}}
    \cup {[CommandLine EXCEPT !.example = {"udp"}],
          [CommandLine EXCEPT !.pyexample = {"mixed.py"}, !.valgrind = TRUE],
          [CommandLine EXCEPT !.list = TRUE]}

MCConfigs == [examples : {TRUE}, bindings : BOOLEAN, nsc : {FALSE}]
=============================================================================
