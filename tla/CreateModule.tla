---------------------------- MODULE CreateModule ----------------------------
(***************************************************************************)
(* utils/create-module.py: which modules a command line asks for, the      *)
(* directories and files made for each of them, and the removal of what    *)
(* was made when a step fails. Several runs of the script may share the    *)
(* source tree; nothing locks it.                                          *)
(*                                                                         *)
(* A path is the sequence of its parts. In the path of a generated file    *)
(* the module's name is left out: "-helper.h" stands for <name>-helper.h.  *)
(***************************************************************************)
EXTENDS Integers, Sequences, SequencesExt, FiniteSets

CONSTANTS
  Procs,        \* the runs of the script
  Names,        \* what a file or a directory may be called
  CommandLines, \* what they may be asked: functions from Procs to [project, modnames]
  Trees,        \* what the source tree may hold before the first of them starts
  InvalidParts, \* the parts of a path that do not match allowedRE
  Faults        \* the calls of the system that may fail: a subset of AllFaults

AllFaults == {"mkdir", "open", "write", "rmtree", "kill"}

VARIABLES
  args,    \* the command line of each run
  asked,   \* the modules it asks for, in order
  before,  \* history: the tree before the first run started
  tree,    \* the source tree: from paths to "dir", "empty" or "whole"
  pc,      \* where each run is
  todo,    \* the modules it has not finished
  step,    \* how many directories and files of Head(todo) are made
  doomed,  \* the entries its rmtree has listed and not removed yet
  said     \* what it has told the user

vars == <<args, asked, before, tree, pc, todo, step, doomed, said>>

----------------------------------------------------------------------------
(* The templates: for each, the files of the module it names. A header     *)
(* <name>.h is found as ns3/<name>.h once the module is built.             *)

CMAKELISTS_TEMPLATE ==
  {<<"model", ".cc">>, <<"model", ".h">>, <<"helper", "-helper.cc">>, <<"helper", "-helper.h">>,
   <<"test", "-test-suite.cc">>}
MODEL_CC_TEMPLATE            == {<<"model", ".h">>}
MODEL_H_TEMPLATE             == {}
HELPER_CC_TEMPLATE           == {<<"helper", "-helper.h">>}
HELPER_H_TEMPLATE            == {<<"model", ".h">>}
EXAMPLES_CMAKELISTS_TEMPLATE == {<<"examples", "-example.cc">>}
EXAMPLE_CC_TEMPLATE          == {<<"helper", "-helper.h">>}
TEST_CC_TEMPLATE             == {<<"model", ".h">>}
DOC_RST_TEMPLATE             == {<<>>}

Dir(path)            == [kind |-> "dir", path |-> path, names |-> {}]
File(path, template) == [kind |-> "file", path |-> path, names |-> template]

make_cmakelists == <<File(<<"CMakeLists.txt">>, CMAKELISTS_TEMPLATE)>>
make_model ==
  <<Dir(<<"model">>), File(<<"model", ".cc">>, MODEL_CC_TEMPLATE),
    File(<<"model", ".h">>, MODEL_H_TEMPLATE)>>
make_test ==
  <<Dir(<<"test">>), File(<<"test", "-test-suite.cc">>, TEST_CC_TEMPLATE)>>

\* Mutant: the helper's header is written beside the model's.
make_helper_misplaced ==
  <<Dir(<<"helper">>), File(<<"helper", "-helper.cc">>, HELPER_CC_TEMPLATE),
    File(<<"model", "-helper.h">>, HELPER_H_TEMPLATE)>>

make_helper ==
  <<Dir(<<"helper">>), File(<<"helper", "-helper.cc">>, HELPER_CC_TEMPLATE),
    File(<<"helper", "-helper.h">>, HELPER_H_TEMPLATE)>>
make_examples ==
  <<Dir(<<"examples">>), File(<<"examples", "CMakeLists.txt">>, EXAMPLES_CMAKELISTS_TEMPLATE),
    File(<<"examples", "-example.cc">>, EXAMPLE_CC_TEMPLATE)>>
make_doc == <<Dir(<<"doc">>), File(<<"doc", ".rst">>, DOC_RST_TEMPLATE)>>

\* What make_module makes, in order: the directory, then what the functions do.
functions ==
  <<Dir(<<>>)>> \o make_cmakelists \o make_model \o make_test \o make_helper \o make_examples
    \o make_doc

WithParents(path) == {SubSeq(path, 1, n) : n \in 1 .. Len(path)}

\* What is there has a name, and its parents are there.
IsTree(t) ==
  /\ IsFiniteSet(DOMAIN t) /\ DOMAIN t \subseteq Seq(Names) \ {<<>>}
  /\ t \in [DOMAIN t -> {"dir", "empty", "whole"}]
  /\ \A q \in DOMAIN t : WithParents(q) \subseteq DOMAIN t

ASSUME CreateModuleAssumption ==
  /\ Faults \subseteq AllFaults
  /\ {"src", "contrib"} \subseteq Names
  /\ \A i \in 1 .. Len(functions) : functions[i].path \in Seq(Names)
  /\ CommandLines \subseteq [Procs -> [project : Seq(Names), modnames : Seq(Seq(Names))]]
  /\ \A t \in Trees : IsTree(t)

----------------------------------------------------------------------------
(* main: from the command line to the list of modules.                     *)

Skipped(name) == name = <<>> \/ Len(name) > 2
Rest(name)    == IF name[1] \in {"src", "contrib"} THEN Tail(name) ELSE name

\* The path "." has no parts; as a project it is contrib itself.
Here       == <<".">>
Project(a) == IF a.project = Here THEN <<>> ELSE a.project

\* parser.error is called for this name, or name_path.parts[0] does not exist.
Rejected(a, name) == ~Skipped(name) /\ name[1] = "src" /\ a.project # <<>>
NoName(a, name)   == ~Skipped(name) /\ ~Rejected(a, name) /\ (name = Here \/ Rest(name) = <<>>)
Named(a, name)    == ~Skipped(name) /\ ~Rejected(a, name) /\ ~NoName(a, name)
                       /\ Rest(name)[1] \notin InvalidParts

\* The second part of a name that starts with neither src nor contrib is dropped.
ModulePath(a, name) ==
  (CASE a.project # <<>> -> <<"contrib">> \o Project(a)
     [] name[1] = "src"  -> <<"src">>
     [] OTHER            -> <<"contrib">>) \o <<Rest(name)[1]>>

\* The list after each turn of the loop, and at its end.
Collected(a) ==
  LET modules[n \in 0 .. Len(a.modnames)] ==
        IF n = 0 THEN <<>>
        ELSE IF Named(a, a.modnames[n])
             THEN Append(modules[n - 1], ModulePath(a, a.modnames[n]))
             ELSE modules[n - 1]
  IN modules
Modules(a) == Collected(a)[Len(a.modnames)]

\* What ends the run before anything is made: "usage" (exit code 2), "exception"
\* (exit code 1), or nothing.
Refusal(a) ==
  LET bad == SelectSeq(a.modnames, LAMBDA name : Rejected(a, name) \/ NoName(a, name))
  IN CASE ~({<<"src">>, <<"contrib">>} \subseteq DOMAIN tree)    -> "usage"
       [] \E i \in DOMAIN Project(a) : Project(a)[i] \in InvalidParts -> "usage"
       [] bad = <<>>                                             -> "nothing"
       [] Rejected(a, Head(bad))                                 -> "usage"
       [] OTHER                                                  -> "exception"

----------------------------------------------------------------------------
Init ==
  /\ args \in CommandLines
  /\ asked = [p \in Procs |-> Modules(args[p])]
  /\ before \in Trees
  /\ tree = before
  /\ pc = [p \in Procs |-> "idle"]
  /\ todo = [p \in Procs |-> <<>>]
  /\ step = [p \in Procs |-> 0]
  /\ doomed = [p \in Procs |-> <<>>]
  /\ said = [p \in Procs |-> "nothing"]

Set(f, p, v) == [f EXCEPT ![p] = v]

\* The run ends and says w; its exit code is 2 for "usage", 1 for "exception",
\* and 0 otherwise, whether it failed or not.
End(p, w) == pc' = Set(pc, p, "done") /\ said' = Set(said, p, w)

Start(p) ==
  /\ pc[p] = "idle"
  /\ IF Refusal(args[p]) = "nothing"
     THEN /\ todo' = Set(todo, p, asked[p])
          /\ pc' = Set(pc, p, "check")
          /\ UNCHANGED said
     ELSE End(p, Refusal(args[p])) /\ UNCHANGED todo
  /\ UNCHANGED <<args, asked, before, tree, step, doomed>>

\* Mutant: make_module goes ahead without looking whether the module exists.
Check_blind(p) ==
  /\ pc[p] = "check" /\ todo[p] # <<>>
  /\ pc' = Set(pc, p, "make") /\ step' = Set(step, p, 0)
  /\ UNCHANGED <<args, asked, before, tree, todo, doomed, said>>

\* make_module looks whether the directory is there; all() stops at the first
\* module that is refused.
Check(p) ==
  /\ pc[p] = "check" /\ todo[p] # <<>>
  /\ IF Head(todo[p]) \in DOMAIN tree
     THEN End(p, "exists") /\ UNCHANGED step
     ELSE pc' = Set(pc, p, "make") /\ step' = Set(step, p, 0) /\ UNCHANGED said
  /\ UNCHANGED <<args, asked, before, tree, todo, doomed>>

Succeed(p) ==
  /\ pc[p] = "check" /\ todo[p] = <<>>
  /\ End(p, "created")
  /\ UNCHANGED <<args, asked, before, tree, todo, step, doomed>>

----------------------------------------------------------------------------
(* make_module: one directory or file after the other.                     *)

Making(p) == pc[p] = "make" /\ step[p] < Len(functions)
Item(p)   == functions[step[p] + 1]
Target(p) == Head(todo[p]) \o Item(p).path

Dirs == {q \in DOMAIN tree : tree[q] = "dir"}
With(q, v) == [r \in DOMAIN tree \cup {q} |-> IF r = q THEN v ELSE tree[r]]

\* Both need the directory they are in. mkdir needs a new name; open cuts a file
\* that is there.
Possible(p) ==
  /\ Front(Target(p)) \in Dirs
  /\ Target(p) \notin (IF Item(p).kind = "dir" THEN DOMAIN tree ELSE Dirs)

Made(p) == With(Target(p), IF Item(p).kind = "dir" THEN "dir" ELSE "whole")

\* mkdir(parents=True) makes the missing parents one by one, from above.
MakeParent(p) ==
  /\ Making(p) /\ Item(p).kind = "dir"
  /\ \E q \in WithParents(Front(Target(p))) \ DOMAIN tree :
       Front(q) \in Dirs /\ tree' = With(q, "dir")
  /\ UNCHANGED <<args, asked, before, pc, todo, step, doomed, said>>

Make(p) ==
  /\ Making(p) /\ Possible(p)
  /\ tree' = Made(p)
  /\ step' = Set(step, p, step[p] + 1)
  /\ UNCHANGED <<args, asked, before, pc, todo, doomed, said>>

\* Mutant: the modules are taken off the list from its end.
NextModule_last(p) ==
  /\ pc[p] = "make" /\ step[p] = Len(functions)
  /\ todo' = Set(todo, p, Front(todo[p]))
  /\ pc' = Set(pc, p, "check")
  /\ UNCHANGED <<args, asked, before, tree, step, doomed, said>>

\* make_module returns True.
NextModule(p) ==
  /\ pc[p] = "make" /\ step[p] = Len(functions)
  /\ todo' = Set(todo, p, Tail(todo[p]))
  /\ pc' = Set(pc, p, "check")
  /\ UNCHANGED <<args, asked, before, tree, step, doomed, said>>

\* A write that fails, or that a kill cuts short, leaves the opened file empty.
Opened(p) == IF Item(p).kind = "file" /\ Possible(p) THEN With(Target(p), "empty") ELSE tree

\* mkdir finds its name taken, a file on its way, or gone again the parent it has
\* just made, which another run has removed; open finds no directory.
Blocked(p) ==
  IF Item(p).kind = "file" THEN ~Possible(p)
  ELSE \/ Target(p) \in DOMAIN tree
       \/ ~(WithParents(Target(p)) \cap DOMAIN tree \subseteq Dirs)
       \/ Front(Target(p)) \notin DOMAIN tree /\ Procs # {p}

\* A call of the system fails, also for a reason of its own.
Raises(p) ==
  \/ Blocked(p) /\ UNCHANGED tree
  \/ Item(p).kind = "dir" /\ "mkdir" \in Faults /\ UNCHANGED tree
  \/ Item(p).kind = "file" /\ "open" \in Faults /\ UNCHANGED tree
  \/ Item(p).kind = "file" /\ "write" \in Faults /\ tree' = Opened(p)

Fail(p) ==
  /\ Making(p)
  /\ Raises(p)
  /\ pc' = Set(pc, p, "undo")
  /\ UNCHANGED <<args, asked, before, todo, step, doomed, said>>

----------------------------------------------------------------------------
(* The except clause: rmtree lists the directory, removes what it listed,  *)
(* one entry after the other, then the directory itself. The order is the  *)
(* file system's; here it is always the same.                              *)

Below(path) == {q \in DOMAIN tree : IsPrefix(path, q)}

Entries(path) == {q \in Below(path) : Len(q) = Len(path) + 1}

\* Mutant: the except clause only reports, as if nothing had been made.
Undo_none(p) ==
  /\ pc[p] = "undo"
  /\ End(p, "failed")
  /\ UNCHANGED <<args, asked, before, tree, todo, step, doomed>>

Undo(p) ==
  /\ pc[p] = "undo"
  /\ IF Head(todo[p]) \in DOMAIN tree
     THEN /\ doomed' = Set(doomed, p, SetToSeq(Entries(Head(todo[p]))))
          /\ pc' = Set(pc, p, "remove")
          /\ UNCHANGED said
     ELSE End(p, "failed") /\ UNCHANGED doomed
  /\ UNCHANGED <<args, asked, before, tree, todo, step>>

\* One entry goes, with what is below it. If another run has removed it, Python
\* 3.13 goes on, and older versions raise.
RemoveEntry(p) ==
  /\ pc[p] = "remove" /\ doomed[p] # <<>>
  /\ tree' = [q \in DOMAIN tree \ Below(Head(doomed[p])) |-> tree[q]]
  /\ doomed' = Set(doomed, p, Tail(doomed[p]))
  /\ UNCHANGED <<args, asked, before, pc, todo, step, said>>

RemoveDirectory(p) ==
  /\ pc[p] = "remove" /\ doomed[p] = <<>>
  /\ Below(Head(todo[p])) = {Head(todo[p])}
  /\ tree' = [q \in DOMAIN tree \ {Head(todo[p])} |-> tree[q]]
  /\ End(p, "failed")
  /\ UNCHANGED <<args, asked, before, todo, step, doomed>>

\* rmtree raises, and with it the except clause: an entry it listed is gone, the
\* directory is gone or has got new entries, or a removal is refused.
RemoveRaises(p) ==
  /\ pc[p] = "remove"
  /\ \/ doomed[p] # <<>> /\ Head(doomed[p]) \notin DOMAIN tree
     \/ doomed[p] = <<>> /\ Below(Head(todo[p])) # {Head(todo[p])}
     \/ "rmtree" \in Faults
  /\ End(p, "exception")
  /\ UNCHANGED <<args, asked, before, tree, todo, step, doomed>>

\* The script catches no KeyboardInterrupt: an interrupt or a kill ends it where
\* it is. Between two steps that is a run that takes no further step, which Spec
\* allows anywhere; between open and write it leaves the file empty.
Kill(p) ==
  /\ "kill" \in Faults
  /\ Making(p) /\ Item(p).kind = "file" /\ Possible(p)
  /\ tree' = Opened(p)
  /\ pc' = Set(pc, p, "killed")
  /\ UNCHANGED <<args, asked, before, todo, step, doomed, said>>

Run(p) ==
  \/ Start(p) \/ Check(p) \/ Succeed(p) \/ MakeParent(p) \/ Make(p) \/ NextModule(p) \/ Fail(p)
  \/ Undo(p) \/ RemoveEntry(p) \/ RemoveDirectory(p) \/ RemoveRaises(p) \/ Kill(p)

Next == \E p \in Procs : Run(p)

Spec == Init /\ [][Next]_vars

----------------------------------------------------------------------------
(* Properties.                                                             *)

Paths == Seq(Names) \ {<<>>}

TypeOK ==
  /\ args \in CommandLines /\ before \in Trees /\ IsTree(tree)
  /\ asked \in [Procs -> Seq(Paths)]
  /\ pc \in [Procs -> {"idle", "check", "make", "undo", "remove", "done", "killed"}]
  /\ todo \in [Procs -> Seq(Paths)]
  /\ \A p \in Procs : IsSuffix(todo[p], asked[p])
  /\ step \in [Procs -> 0 .. Len(functions)]
  /\ doomed \in [Procs -> Seq(Paths)]
  /\ \A p \in Procs : \A i \in DOMAIN doomed[p] : Front(doomed[p][i]) = Head(todo[p])
  /\ said \in [Procs -> {"nothing", "usage", "exception", "exists", "failed", "created"}]

\* Another run was asked for this module, for one inside its directory or for
\* one whose directory it is in.
Contended(p, m) ==
  \E q \in Procs \ {p} : \E n \in Range(asked[q]) : IsPrefix(m, n) \/ IsPrefix(n, m)

\* The modules that p alone is asked for, and that were not there.
Mine(p) == {m \in Range(asked[p]) : ~Contended(p, m) /\ m \notin DOMAIN before}

\* The directory or file f of module m is there as it was made.
Right(m, f) ==
  /\ m \o f.path \in DOMAIN tree
  /\ tree[m \o f.path] = (IF f.kind = "dir" THEN "dir" ELSE "whole")

\* Everything make_module makes is there, and every file a generated file names.
Whole(m) ==
  \A i \in DOMAIN functions :
    /\ Right(m, functions[i])
    /\ \A n \in functions[i].names : m \o n \in DOMAIN tree

\* What the user had in the tree stays there unchanged, whatever fails and
\* however the runs interleave: the roll-back never takes a directory that was
\* there before the run that rolls back.
UserFilesKept == \A q \in DOMAIN before : q \in DOMAIN tree /\ tree[q] = before[q]

\* A run that came to its end leaves each of its modules whole or absent, the
\* whole ones first, unless another run worked in the same directory. A name asked
\* for twice counts where it is asked for first.
AllOrNothing ==
  \A p \in Procs : said[p] \in {"created", "exists", "failed"} =>
    LET M == asked[p]
        mine == {i \in DOMAIN M : M[i] \in Mine(p) /\ \A k \in 1 .. i - 1 : M[k] # M[i]}
    IN \A i \in mine :
         /\ Whole(M[i]) \/ M[i] \notin DOMAIN tree
         /\ said[p] = "created" => Whole(M[i])
         /\ Whole(M[i]) => \A k \in mine : k < i => Whole(M[k])

\* What is there of the modules: those nobody else worked at count as made when
\* they are whole; the others, and those of the user, are not this run's.
Store == INSTANCE ModuleStore WITH
  wanted <- asked,
  made   <- {m \in UNION {Range(asked[p]) : p \in Procs} :
               \/ \E p \in Procs : m \in Range(asked[p]) \ Mine(p)
               \/ Whole(m)},
  answer <- [p \in Procs |-> CASE said[p] = "created" -> "yes" [] said[p] = "nothing" -> "none" [] OTHER -> "no"]

\* Runs that do not meet add whole modules only, in the order asked, report
\* success for no less, and take none away, faults and kills included.
ImplementsModuleStore == Store!Spec

----------------------------------------------------------------------------
(* The inductive invariant.                                                *)

\* The paths of p have one length, so that none of its modules is inside another;
\* what it is making or removing was not there; its lists are empty outside the
\* phases that use them.
RunInv ==
  \A p \in Procs :
    /\ \A i, k \in 1 .. Len(asked[p]) : Len(asked[p][i]) = Len(asked[p][k])
    /\ pc[p] = "idle" => todo[p] = <<>>
    /\ pc[p] \in {"make", "undo", "remove"} => todo[p] # <<>> /\ Head(todo[p]) \notin DOMAIN before
    /\ doomed[p] # <<>> => pc[p] \in {"remove", "done"}
    /\ pc[p] = "done" <=> said[p] # "nothing"
    /\ said[p] = "created" => todo[p] = <<>>
    /\ said[p] \in {"exists", "failed"} => todo[p] # <<>>

\* How many of its modules p has finished; whether it got as far as the first.
Turn(p)    == Len(asked[p]) - Len(todo[p])
Started(p) == pc[p] # "idle" /\ (said[p] \in {"usage", "exception"} => todo[p] # <<>>)

\* p is neither making, nor removing, nor has left in pieces the head of its list.
Settled(p) == pc[p] = "check" \/ said[p] \in {"exists", "failed"}

\* p has begun with the head of its list and not made the last file of it.
Unfinished(p) ==
  \/ pc[p] = "make" /\ step[p] < Len(functions)
  \/ pc[p] \in {"undo", "remove", "killed"}
  \/ said[p] = "exception"

\* Of the modules of p alone: those behind it are whole, those before it are not
\* there, and of the one at hand the first steps are done and the last is not.
BehindInv(p) == \A i \in 1 .. Turn(p) : asked[p][i] \in Mine(p) => Whole(asked[p][i])
AheadInv(p) ==
  \A i \in Turn(p) + 1 .. Len(asked[p]) :
    /\ asked[p][i] \in Mine(p)
    /\ \A k \in 1 .. Turn(p) : asked[p][k] # asked[p][i]
    /\ asked[p][i] = Head(todo[p]) => Settled(p)
    => asked[p][i] \notin DOMAIN tree
AtHandInv(p) ==
  todo[p] # <<>> /\ Head(todo[p]) \in Mine(p) =>
    /\ pc[p] = "make" => \A i \in 1 .. step[p] : Right(Head(todo[p]), functions[i])
    /\ Unfinished(p) => ~Right(Head(todo[p]), functions[Len(functions)])

ModuleInv ==
  \A p \in Procs :
    /\ pc[p] = "idle" => Mine(p) \cap DOMAIN tree = {}
    /\ Started(p) => BehindInv(p) /\ AheadInv(p) /\ AtHandInv(p)

MakeInv == TypeOK /\ UserFilesKept /\ RunInv /\ ModuleInv
=============================================================================
