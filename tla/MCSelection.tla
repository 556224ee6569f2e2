----------------------------- MODULE MCSelection -----------------------------
(* Small instances of Selection for TLC. *)
EXTENDS Selection

MCWords == STRING

\* Suites: one system and two unit suites, one of which crashes under valgrind,
\* and two performance suites.
MCSuites == <<"queue", "click", "wifi", "many", "speed">>
MCKindOf == [s \in Range(MCSuites) |->
  CASE s \in {"many", "speed"} -> "performance" [] s = "wifi" -> "system" [] OTHER -> "unit"]
MCMatching ==
  [p \in {"queue", "speed", "*e*", "u*", "x"} |->
     CASE p = "queue" -> {"queue"} [] p = "speed" -> {"speed"} [] p = "u*" -> {"udp"}
       [] p = "*e*" -> {"queue", "speed", "brite"} [] OTHER -> {}]

Example(name, params, run, grind, fullness, fields) ==
  [name |-> name, params |-> params, run |-> run, grind |-> grind, fullness |-> fullness,
   fields |-> fields]

Udp == Example("udp", "", TRUE, TRUE, "quick", 4)
Brite == Example("brite", "", FALSE, TRUE, "QUICK", 3)

\* udp is listed without and with parameters, brite has a false condition, tcp
\* takes long and does not bear valgrind, and gone was never built. In the other
\* files an entry is wrong.
MCExampleFiles ==
  {[cpp_examples |-> <<Udp, Example("udp", "--n=1", TRUE, TRUE, "EXTENSIVE", 4), Brite,
                       Example("tcp", "", TRUE, FALSE, "TAKES_FOREVER", 4),
                       Example("gone", "", TRUE, TRUE, "QUICK", 3)>>,
    python_examples |-> <<Example("a.py", "", TRUE, TRUE, "QUICK", 2),
                          Example("b.py", "", TRUE, TRUE, "quick", 3)>>],
   [cpp_examples |-> <<Udp, [Udp EXCEPT !.fullness = "LONG"]>>, python_examples |-> <<>>],
   [cpp_examples |-> <<Brite>>, python_examples |-> <<[Brite EXCEPT !.fields = 4]>>]}

\* The file of these lines.
File(lines) ==
  FlattenSeq([n \in DOMAIN lines |->
                [k \in DOMAIN lines[n] |-> [line |-> n, word |-> lines[n][k]]]])

Flags(t, e, p) ==
  <<<<"ENABLE_TESTS", "=", t>>, <<"ENABLE_EXAMPLES", "=", e>>,
    <<"ENABLE_PYTHON_BINDINGS", "=", p>>>>

All     == <<<<"ns3_runnable_programs", "=", "[", "udp", "#", "]">>, <<"tcp", "brite", "other", "]">>,
             <<"ns3_runnable_scripts", "=", "[", "a.py", "b.py", "]">>>>
Some    == <<<<"ns3_runnable_programs", "=", "[", "udp", "]">>,
             <<"ns3_runnable_scripts", "=", "[", "]">>>>
Torn    == <<<<"ns3_runnable_programs", "=", "[", "udp">>, <<"ns3_runnable_scripts", "=", "[", "]">>>>
Dirs    == <<<<"top_dir", "=", "/ns3">>, <<"out_dir", "=", "/ns3/build">>>>
AllOn   == Flags("True", "True", "True")
Ready   == File(Dirs \o AllOn \o All)

\* The flags in all combinations, a line that was torn, and a directory that is left out.
MCLocks ==
  {File(Dirs \o Flags(t, e, p) \o All) : t, e, p \in {"True", "False"}}
  \cup {File(Dirs \o <<<<"ENABLE_TESTS", "=">>>> \o All), File(<<Dirs[1]>> \o AllOn \o All),
        File(<<Dirs[2], <<"top_dir", "=">>>> \o AllOn \o All)}
MCReconfigured == {Missing, File(AllOn \o Some), File(AllOn \o All \o Torn), File(Torn)}

Plain == [suite |-> "", constrain |-> "", example |-> "", params |-> "", wild |-> FALSE,
          pyexample |-> "", valgrind |-> FALSE, fullness |-> "QUICK",
          process_limit |-> 0, show |-> "", no_build |-> TRUE, passed |-> {}]

Naming(suite, example, py) ==
  [Plain EXCEPT !.suite = suite, !.example = example[1], !.params = example[2],
                !.wild = example[3], !.pyexample = py]

\* What may be named, in every combination and with every constraint.
MCNamed ==
  {[Naming(s, e, y) EXCEPT !.constrain = c] :
     s \in {"", "queue", "speed", "*e*", "x"},
     e \in {<<"", "", FALSE>>, <<"udp", "", FALSE>>, <<"udp", "--n=2", FALSE>>, <<"u*", "", TRUE>>,
            <<"other", "", FALSE>>, <<"x", "", FALSE>>},
     y \in {"", "b.py", "c.py"},
     c \in {"", "core", "unit", "performance", "example", "pyexample"}}

\* What decides whether a job is skipped.
MCSkipping ==
  {[Plain EXCEPT !.valgrind = v, !.fullness = f, !.passed = p] :
     v \in BOOLEAN, f \in Durations, p \in {{}, {<<"wifi", "">>, <<"udp", "--n=1">>}}}

\* The number of workers, the listings, and the build.
MCOthers ==
  {[Plain EXCEPT !.process_limit = n] : n \in {-1, 1, 2, 3}}
  \cup {[Plain EXCEPT !.show = s] : s \in {"list", "kinds"}}
  \cup {[Plain EXCEPT !.no_build = FALSE, !.constrain = c] : c \in {"", "pyexample"}}

MCCases ==
  {[args |-> a, lock |-> Ready] : a \in MCNamed}
  \cup {[args |-> a, lock |-> l] : a \in MCSkipping \cup MCOthers, l \in MCLocks \cup {Missing}}

L == "modules_enabled"
MCFiles == {File(lines) : lines \in
             UNION {[1 .. n -> {<<L, "=", "[", "a", "]">>, <<L, "=", "[", "a">>, <<"b", "]">>,
                              <<"b", "#", "]">>, <<"#", L, "]">>, <<"tests_enabled", "=", "True">>}]
                  : n \in 0 .. 3}}
MCRcFiles == {File(lines) : lines \in
               UNION {[1 .. n -> {<<L, "=", "[", "a", "]">>, <<"examples_enabled", "=", "True">>,
                                <<"examples_enabled", "=", "False", "#", "True">>,
                                <<"tests_enabled", "=", "True">>, <<"#", "tests_enabled">>}]
                    : n \in 0 .. 2}}
MCInside == {<<"modules_enabled", "no_modules_enabled">>}
=============================================================================
