---------------------------- MODULE MCMutantCopy ----------------------------
(* Projects and command lines for checking MutantCopy with TLC: a plain case *)
(* and cases that each differ from it in one respect.                        *)
EXTENDS MutantCopy

In(root, path) == [root |-> root, path |-> path]
Link(to) == [kind |-> "link", to |-> to]
Path(at) == [as |-> "file", at |-> at]
Option(as) == [as |-> as, at |-> In("here", <<>>)]
Word(at) == [as |-> "-W", at |-> at]

Source == <<"src", "a.c">>

\* Sources, a test script, and a build directory of an earlier build.
Small ==
  <<>> :> Dir @@ <<"src">> :> Dir @@ Source :> File("A", "clean")
    @@ <<"run">> :> File("run", "clean")
    @@ <<"build">> :> Dir @@ <<"build", "run">> :> File("run", "clean")

\* Links in both forms, a pipe, and a directory named like the suffix.
Large ==
  Small @@ <<"abs">> :> Link(In("project", <<"src">>)) @@ <<"rel">> :> Link(In("here", <<"src">>))
    @@ <<"src", "pipe">> :> [kind |-> "other"]
    @@ <<"src", "up">> :> Link(In("project", <<"src">>))
    @@ <<"2">> :> Dir @@ <<"2", "a.c">> :> File("B", "clean")

\* With the dependency file of an earlier build.
Built == Small @@ <<"src", "deps.d">> :> File("old", "clean")

\* With links where the programs put their files.
Linked(path, to) == Small @@ path :> Link(to)

MCNames == {"src", "a.c", "run", "build", "abs", "rel", "up", "pipe", "2", "sh", "project",
            "deps.d", "a.d", "a.o", "out", "late"}

MCElsewhere ==
  [sibling |-> <<>> :> Dir @@ <<"a.c">> :> File("A", "clean")
                 @@ <<"src">> :> Link(In("project", <<"src">>)),
   system  |-> <<>> :> Dir @@ <<"sh">> :> File("sh", "clean")]

Plain ==
  [tree |-> Small,
   candidate |-> [at |-> In("project", Source), text |-> "A"],
   compile |-> [directory |-> In("project", <<"src">>),
                arguments |-> <<Option("-c"), Path(In("project", Source))>>],
   test |-> <<Path(In("project", <<"run">>))>>]

OtherCandidates ==
  {[Plain EXCEPT !.candidate.text = "older"],
   [Plain EXCEPT !.candidate.at = In("project", <<"build", "run">>), !.candidate.text = "run"],
   [Plain EXCEPT !.tree = Large, !.candidate.at = In("sibling", <<"a.c">>)],
   \* mistaken for the project's
   [Plain EXCEPT !.tree = Large, !.candidate = [at |-> In("sibling", <<"a.c">>), text |-> "B"],
                 !.compile.arguments = <<Path(In("sibling", <<"a.c">>))>>],
   [Plain EXCEPT !.candidate.at = In("system", <<"sh">>), !.candidate.text = "sh"]}

Compiling(tree, directory, arguments) ==
  [Plain EXCEPT !.tree = tree, !.compile = [directory |-> directory, arguments |-> arguments]]

OtherCompiles ==
  {\* from the build directory, which is not copied
   Compiling(Small, In("project", <<"build">>), Plain.compile.arguments),
   \* from outside: the original, or the copy by its absolute path
   Compiling(Small, In("sibling", <<>>), <<Path(In("here", Source))>>),
   Compiling(Small, In("sibling", <<>>), <<Option("-MD"), Path(In("project", Source))>>),
   \* through links, in the directory and in the argument
   Compiling(Large, In("project", <<"abs">>), <<Option("-MD"), Path(In("here", <<"a.c">>))>>),
   Compiling(Large, In("project", <<>>), <<Path(In("project", <<"abs", "a.c">>))>>),
   Compiling(Large, In("project", <<>>), <<Path(In("here", <<"abs", "a.c">>))>>),
   Compiling(Large, In("project", <<>>), <<Path(In("here", <<"rel", "a.c">>))>>),
   Compiling(Large, In("project", <<>>), <<Path(In("here", <<"rel", "up", "a.c">>))>>),
   \* with outputs in the project, and one that is there already
   Compiling(Built, In("project", <<"src">>), <<Option("-MD"), Path(In("here", <<"a.c">>))>>),
   Compiling(Small, In("project", <<>>),
             <<Option("-MD"), [as |-> "-o=", at |-> In("project", <<"a.d">>)], Option("-o"),
               Path(In("project", <<"a.o">>)), Path(In("here", Source))>>)}

\* Outputs that lead out of the copy, and to another file of the copy.
OtherOutputs ==
  {Compiling(Small, In("project", <<"src">>), <<Word(to), Path(In("here", <<"a.c">>))>>) :
     to \in {In("project", <<"run">>), In("here", <<"a.d">>)}}
    \cup
  {Compiling(Linked(<<"src", "deps.d">>, to), In("project", <<"src">>),
             <<Option("-MD"), Path(In("here", <<"a.c">>))>>) :
     to \in {In("project", <<"a.d">>), In("project", <<"build", "run">>), In("here", Source)}}
    \cup
  {[Plain EXCEPT !.tree = Linked(<<"out">>, to)] :
     to \in {In("project", <<"run">>), In("here", <<"run">>)}}

OtherTests ==
  {[Plain EXCEPT !.test = <<Path(In("system", <<"sh">>)), Path(In("here", <<"run">>))>>],
   [Plain EXCEPT !.test = <<Path(In("project", <<"build", "run">>))>>]}

MCCases == {Plain} \cup OtherCandidates \cup OtherCompiles \cup OtherOutputs \cup OtherTests
=============================================================================
