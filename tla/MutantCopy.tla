----------------------------- MODULE MutantCopy -----------------------------
(***************************************************************************)
(* One candidate of test-mutation in detail: p101_mutation_execute with     *)
(* files.c and the rewriting of the compile command.  MutationCampaign      *)
(* knows each of these steps by its result only; here they work on trees    *)
(* of files, and KeepsToCampaign shows that they have no other results.     *)
(*                                                                         *)
(* A tree is a function from paths (sequences of names, <<>> the top) to    *)
(* entries; a location is a path in one of several trees: the project, the  *)
(* temporary directory, and Elsewhere, which holds the directory whose name *)
(* begins with the project's ("sibling") and the rest of the system.  The   *)
(* root "here" stands for a relative path: relative to the working          *)
(* directory in a command, to the top of its own tree in a symbolic link.   *)
(* The recursions of files.c are stacks of frames; readdir gives the names  *)
(* in any order, and every call may fail.                                   *)
(***************************************************************************)
EXTENDS CommandOutcome, Sequences, FiniteSets, SequencesExt

CONSTANTS
  Names,      \* the names a directory can list
  Cases,      \* [tree, candidate, compile, test]: what one call may be given
  Elsewhere,  \* the trees that are neither the project nor the copy
  Ignored,    \* names that ignored_name leaves out
  Suffix,     \* what the name of "sibling" adds to that of the project
  MaxKept     \* bound: calls that fail in one removal

At(root, path) == [root |-> root, path |-> path]

Nowhere == At("nowhere", <<>>)

Dir == [kind |-> "dir"]
File(text, state) == [kind |-> "file", text |-> text, state |-> state]

IsTree(tree) ==
  /\ DOMAIN tree \subseteq Seq(Names)
  /\ \A p \in DOMAIN tree :
       p # <<>> => Front(p) \in DOMAIN tree /\ tree[Front(p)].kind = "dir"

ASSUME NamesOK == {Suffix, "project", "deps.d", "out", "late"} \subseteq Names

\* What a command line can name; RewritePath adds places in the copy.
Location == [root : {"project", "here", "sibling", "system"}, path : Seq(Names)]

Argument == [as : {"file", "-c", "-MD", "-o", "-o=", "-W"}, at : Location]

ASSUME CasesOK ==
  /\ MaxKept \in Nat
  /\ DOMAIN Elsewhere = {"sibling", "system"}
  /\ \A c \in Cases :
       /\ IsTree(c.tree) /\ <<>> \in DOMAIN c.tree /\ c.tree[<<>>] = Dir
       /\ c.candidate.at \in Location /\ c.compile.directory \in Location
       /\ c.compile.arguments \in Seq(Argument) /\ c.test \in Seq(Argument)
       /\ \A i \in DOMAIN c.compile.arguments :
            LET a == c.compile.arguments[i] IN a.as = "-W" => a.at.path # <<>>

\* No link on the way along the path.
Straight(tree, path) ==
  \A k \in 0 .. Len(path) :
    LET way == SubSeq(path, 1, k) IN way \in DOMAIN tree => tree[way].kind # "link"

\* Where the project's text is looked for in the copy.
Place(at) == IF at.root = "project" THEN at.path ELSE <<Suffix>> \o at.path

\* The scan has every candidate from realpath.  Bound: the project has no link
\* either where the code looks for one that the scan found in "sibling".
ASSUME CandidatesOK ==
  \A c \in Cases :
    c.candidate.at.root \in {"project", "sibling"} => Straight(c.tree, Place(c.candidate.at))

\* Bound: no link leads to a link, or through one.
ASSUME LinksOK ==
  \A c \in Cases :
    /\ \A p \in DOMAIN c.tree :
         LET to == c.tree[p].to IN
         c.tree[p].kind = "link" =>
           /\ to \in Location
           /\ to.root \in {"here", "project"} => Straight(c.tree, to.path)
           /\ to.root \in DOMAIN Elsewhere => Straight(Elsewhere[to.root], to.path)
    /\ \A root \in DOMAIN Elsewhere : \A p \in DOMAIN Elsewhere[root] :
         LET to == Elsewhere[root][p].to IN
         Elsewhere[root][p].kind = "link" =>
           /\ to \in Location
           /\ to.root = "project" => Straight(c.tree, to.path)
           /\ to.root = "here" => Straight(Elsewhere[root], to.path)
           /\ to.root \in DOMAIN Elsewhere => Straight(Elsewhere[to.root], to.path)

VARIABLES
  case,     \* what this call was given
  project,  \* the project's tree; the code is not to change it
  temp,     \* the temporary directory, with the copy under "project"
  pc, err,
  pending,  \* whether an error was pending at the call
  frames,   \* the directories being copied or removed, innermost first
  command,  \* the command built last: its working directory and arguments
  outcome,  \* result->outcome, "none" while not completed
  written,  \* history: what the programs opened to write it
  fate,     \* history: what became of the test command
  ran,      \* history: whether its program was found at all
  kept      \* history: entries that a failed call left behind

vars == <<case, project, temp, pc, err, pending, frames, command, outcome, written, fate, ran,
          kept>>

history == <<written, fate, ran>>

C == INSTANCE MutationCampaign WITH
       MaxMutants <- 1, MaxSites <- 1,
       request <- "run", capacity <- 1, sites <- 1, seen <- 1, count <- 1, index <- 1, exit <- 2,
       report <- [killed |-> 0, survived |-> 0, inconclusive |-> 0, exit |-> 3],
       baseline <- "passed",
       pc <- IF pc = "done" THEN "next" ELSE pc,
       err <- IF pc = "copy" THEN pending ELSE err,
       completed <- outcome # "none",
       results <- IF outcome = "none" THEN <<>> ELSE <<outcome>>,
       trees <- IF DOMAIN temp = {} THEN {} ELSE {1},
       stuck <- IF pc = "done" /\ DOMAIN temp # {} THEN {1} ELSE {},
       tests <- IF pc = "make tree" THEN <<>> ELSE <<fate>>

-----------------------------------------------------------------------------
(* Trees, paths, and realpath.                                               *)

Empty == [p \in {} |-> Dir]

Put(tree, path, entry) ==
  [p \in DOMAIN tree \cup {path} |-> IF p = path THEN entry ELSE tree[p]]

Without(tree, path) == [p \in DOMAIN tree \ {path} |-> tree[p]]

Children(tree, dir) ==
  {Last(p) : p \in {q \in DOMAIN tree : q # <<>> /\ Front(q) = dir}}

Tree(root) ==
  CASE root = "project" -> project
    [] root = "temp" -> temp
    [] root \in DOMAIN Elsewhere -> Elsewhere[root]
    [] OTHER -> Empty

Entry(at) == Tree(at.root)[at.path]

Exists(at) == at.path \in DOMAIN Tree(at.root)

InCopy(path) == At("temp", <<"project">> \o path)

\* The top of the tree that the relative links of a tree are relative to.
Top(root) == IF root = "temp" THEN InCopy(<<>>) ELSE At(root, <<>>)

Enter(at, name) ==
  LET next == At(at.root, Append(at.path, name))
      link == Entry(next).to
  IN IF ~Exists(next) THEN Nowhere
     ELSE IF Entry(next).kind # "link" THEN next
     ELSE IF link.root = "here"
          THEN At(at.root, Top(at.root).path \o link.path)
     ELSE link

\* realpath: every link on the way is followed; Nowhere if there is no such file.
Real(at) ==
  LET found[k \in 0 .. Len(at.path)] ==
        IF k = 0 THEN At(at.root, <<>>) ELSE Enter(found[k - 1], at.path[k])
  IN IF Exists(found[Len(at.path)]) THEN found[Len(at.path)] ELSE Nowhere

Resolve(directory, at) ==
  Real(IF at.root = "here" THEN At(directory.root, directory.path \o at.path) ELSE at)

-----------------------------------------------------------------------------
Init ==
  /\ case \in Cases
  /\ project = case.tree
  /\ temp = Empty
  /\ pc = "make tree"
  /\ err \in BOOLEAN /\ pending = err
  /\ frames = <<>>
  /\ command = [directory |-> Nowhere, arguments |-> <<>>]
  /\ outcome = "none"
  /\ written = {} /\ fate = "none" /\ ran = FALSE
  /\ kept = {}

MakeTree ==
  /\ pc = "make tree"
  /\ \/ /\ err' = TRUE
        /\ pc' = "done"
        /\ UNCHANGED temp
     \/ /\ temp' = Put(temp, <<>>, Dir)
        /\ \/ err' = TRUE /\ pc' = "remove"
           \/ UNCHANGED err /\ pc' = "copy"
  /\ UNCHANGED <<case, project, pending, frames, command, outcome, history, kept>>

-----------------------------------------------------------------------------
(* p101_mutation_copy_tree.                                                  *)

Frame(tree, dir) == [dir |-> dir, left |-> Children(tree, dir)]

\* The names a copied directory gives: ignored ones are passed over.
Listed(dir) == [dir |-> dir, left |-> Children(project, dir) \ Ignored]

Done(name) == <<[Head(frames) EXCEPT !.left = @ \ {name}]>> \o Tail(frames)

\* The top of the copy, and the reset of the error object.
CopyTop ==
  /\ pc = "copy" /\ frames = <<>>
  /\ \/ /\ temp' = Put(temp, InCopy(<<>>).path, Dir)
        /\ err' = FALSE
        /\ frames' = <<Listed(<<>>)>>
        /\ UNCHANGED pc
     \/ /\ temp' \in {temp, Put(temp, InCopy(<<>>).path, Dir)}
        /\ err' = TRUE
        /\ pc' = "remove"
        /\ UNCHANGED frames
  /\ UNCHANGED <<case, project, pending, command, outcome, history, kept>>

\* Mutant: a directory that could not be made is entered all the same.
CopyEntryAnyway ==
  /\ pc = "copy" /\ frames # <<>>
  /\ \E name \in Head(frames).left :
       LET path  == Append(Head(frames).dir, name)
           entry == project[path]
       IN /\ temp' \in {temp, Put(temp, InCopy(path).path, entry)}
          /\ frames' = IF entry.kind = "dir" THEN <<Listed(path)>> \o Done(name) ELSE Done(name)
  /\ UNCHANGED <<case, project, pc, err, pending, command, outcome, history, kept>>

\* A directory is made and entered, a file copied, a link copied as it is
\* (lstat), and anything else left out.
CopyEntry ==
  /\ pc = "copy" /\ frames # <<>>
  /\ \E name \in Head(frames).left :
       LET path  == Append(Head(frames).dir, name)
           entry == project[path]
       IN /\ temp' = IF entry.kind = "other" THEN temp
                     ELSE Put(temp, InCopy(path).path, entry)
          /\ frames' = IF entry.kind = "dir" THEN <<Listed(path)>> \o Done(name) ELSE Done(name)
  /\ UNCHANGED <<case, project, pc, err, pending, command, outcome, history, kept>>

EndDirectory ==
  /\ pc = "copy" /\ frames # <<>> /\ Head(frames).left = {}
  /\ frames' = Tail(frames)
  /\ pc' = IF Tail(frames) = <<>> THEN "apply" ELSE "copy"
  /\ UNCHANGED <<case, project, temp, err, pending, command, outcome, history, kept>>

\* A failure anywhere ends the whole recursion; part of the entry at work may
\* have been made.  A write that falls short leaves no error.
CopyFails ==
  /\ pc = "copy" /\ frames # <<>>
  /\ \/ UNCHANGED temp
     \/ \E name \in Head(frames).left :
          LET path == Append(Head(frames).dir, name) IN
          \/ project[path].kind = "dir" /\ temp' = Put(temp, InCopy(path).path, Dir)
          \/ /\ project[path].kind = "file"
             /\ temp' = Put(temp, InCopy(path).path, File(project[path].text, "broken"))
  /\ err' \in BOOLEAN
  /\ pc' = "remove"
  /\ frames' = <<>>
  /\ UNCHANGED <<case, project, pending, command, outcome, history, kept>>

-----------------------------------------------------------------------------
(* p101_mutation_apply_candidate.                                            *)

Write(at, entry) ==
  /\ project' = IF at.root = "project" THEN Put(project, at.path, entry) ELSE project
  /\ temp' = IF at.root = "temp" THEN Put(temp, at.path, entry) ELSE temp

\* The candidate's path starts with the project's, as a string ...
StartsWithProject(at) == at.root \in {"project", "sibling"}

\* ... and the rest of it is taken for a path in the copy.
Target(at) == Real(InCopy(Place(at)))

\* Mutant: the text at the candidate's place is not compared.
OriginalFoundAlways(at) == Exists(at) /\ Entry(at).kind = "file"

\* The text the scan saw is still at its place.
OriginalFound(at) ==
  /\ Exists(at) /\ Entry(at).kind = "file"
  /\ Entry(at).text = case.candidate.text

ApplyCandidate ==
  /\ pc = "apply"
  /\ LET at == case.candidate.at IN
     \/ /\ StartsWithProject(at) /\ OriginalFound(Target(at))
        /\ \/ /\ Write(Target(at), File(Entry(Target(at)).text, "mutated"))
              /\ pc' = "build"
              /\ UNCHANGED err
           \/ /\ Write(Target(at), File(Entry(Target(at)).text, "broken"))
              /\ err' \in BOOLEAN
              /\ pc' = "remove"
     \/ /\ err' \in BOOLEAN
        /\ pc' = "remove"
        /\ UNCHANGED <<project, temp>>
  /\ UNCHANGED <<case, pending, frames, command, outcome, history, kept>>

-----------------------------------------------------------------------------
(* The two commands.  An argument is [as, at]: a path ("file"), an option    *)
(* ("-c", "-MD", and "-o" for those whose value is the next argument), an    *)
(* output option with its value in the same word ("-o="), or a word that     *)
(* names an output and is not known for one ("-W", as in -Wp,-MD,a.d).        *)

\* Absolute paths that exist and really are in the project move into the copy.
RewritePath(a) ==
  IF a.as = "file" /\ a.at.root # "here" /\ Real(a.at).root = "project"
  THEN [as |-> "file", at |-> InCopy(Real(a.at).path)]
  ELSE a

\* Mutant: the word that holds an output option and its value is kept.
KeptJoined(soFar, a) ==
  [skip |-> ~soFar.skip /\ a.as = "-o",
   arguments |-> IF soFar.skip \/ a.as \in {"-o", "-c"} THEN soFar.arguments
                 ELSE Append(soFar.arguments, RewritePath(a))]

\* One turn of the loop of build_compile_command.
Kept(soFar, a) ==
  [skip |-> ~soFar.skip /\ a.as = "-o",
   arguments |-> IF soFar.skip \/ a.as \in {"-o", "-c", "-o="} THEN soFar.arguments
                 ELSE Append(soFar.arguments, RewritePath(a))]

CompileArguments(source) ==
  LET upTo[k \in 0 .. Len(source)] ==
        IF k = 0 THEN [skip |-> FALSE, arguments |-> <<>>] ELSE Kept(upTo[k - 1], source[k])
  IN upTo[Len(source)].arguments

\* A command is looked up by the file it compiles, which is one of its words.
CompilesCandidate ==
  LET words == case.compile.arguments IN
  \E i \in DOMAIN words :
    /\ words[i].as = "file" /\ (i > 1 => words[i - 1].as # "-o")
    /\ Resolve(Real(case.compile.directory), words[i].at) = case.candidate.at

BuildCompileCommand ==
  /\ pc = "build"
  /\ \/ /\ CompilesCandidate
        /\ command' =
             [directory |-> RewritePath([as |-> "file", at |-> case.compile.directory]).at,
              arguments |-> CompileArguments(case.compile.arguments)]
        /\ pc' = "compile"
        /\ UNCHANGED err
     \/ /\ err' \in BOOLEAN
        /\ pc' = "remove"
        /\ UNCHANGED command
  /\ UNCHANGED <<case, project, temp, pending, frames, outcome, history, kept>>

\* sh -c 'cd "$1" && shift && exec "$@"': without the directory, or a file it
\* is given, the command fails.
WorkingDirectory == Real(command.directory)

Files == {Resolve(WorkingDirectory, command.arguments[i].at) :
            i \in {j \in DOMAIN command.arguments : command.arguments[j].as = "file"}}

CanRun ==
  /\ Exists(WorkingDirectory) /\ Entry(WorkingDirectory).kind = "dir"
  /\ Nowhere \notin Files

OutcomesOfCommand == {o \in OutcomesGiven(err) : o.code = 0 => CanRun}

Inside(directory, name) == At(directory.root, Append(directory.path, name))

\* Where the compiler writes: a dependency file in its directory, and whatever
\* file a word names.
Output(a) ==
  IF a.as = "-MD" THEN Inside(WorkingDirectory, "deps.d")
  ELSE Inside(Resolve(WorkingDirectory, At(a.at.root, Front(a.at.path))), Last(a.at.path))

\* Bound: a test writes one file, "out" in its working directory.
Outputs ==
  IF pc = "test" THEN {InCopy(<<"out">>)}
  ELSE {Output(a) : a \in {b \in ToSet(command.arguments) : b.as \in {"-MD", "-o=", "-W"}}}

IsLink(at) == Exists(at) /\ Entry(at).kind = "link"

\* What is opened there: a link is followed.
Opened(at) == IF IsLink(at) THEN Enter(At(at.root, Front(at.path)), Last(at.path)) ELSE at

\* It can be opened to write: there is a file, or a directory to make it in.
Writable(at) ==
  LET parent == At(at.root, Front(at.path)) IN
  /\ Exists(parent) /\ Entry(parent).kind = "dir"
  /\ Exists(at) => Entry(at).kind = "file"

\* A program that was started may have written an output.
ProgramWrites(entry) ==
  \/ UNCHANGED <<project, temp, written>>
  \/ /\ CanRun
     /\ \E at \in Outputs :
          /\ Writable(Opened(at))
          /\ Write(Opened(at), entry)
          /\ written' = written \cup {Opened(at)}

Compile ==
  /\ pc = "compile"
  /\ \E o \in OutcomesOfCommand :
       /\ err' = o.err
       /\ \/ /\ o.timedOut \/ o.code # 0
             /\ outcome' = "inconclusive"
             /\ pc' = "remove"
          \/ /\ ~o.timedOut /\ o.code = 0
             /\ pc' = "rewrite"
             /\ UNCHANGED outcome
  /\ ProgramWrites(File("deps", "clean"))
  /\ UNCHANGED <<case, pending, frames, command, fate, ran, kept>>

\* The arguments of the test command, and its working directory.
RewriteCommand ==
  /\ pc = "rewrite"
  /\ \/ /\ command' = [directory |-> InCopy(<<>>),
                       arguments |-> [i \in DOMAIN case.test |-> RewritePath(case.test[i])]]
        /\ pc' = IF err THEN "remove" ELSE "test"
        /\ UNCHANGED err
     \/ /\ err' = TRUE
        /\ pc' = "remove"
        /\ UNCHANGED command
  /\ UNCHANGED <<case, project, temp, pending, frames, outcome, history, kept>>

\* Mutant: a test that was cut short killed the mutant.
ClassifyByCode(o) == IF o.code = 0 THEN "survived" ELSE "killed"

Classify(o) ==
  CASE o.timedOut -> "inconclusive"
    [] ~o.timedOut /\ o.code = 0 -> "survived"
    [] OTHER -> "killed"

RunTest ==
  /\ pc = "test"
  /\ \E o \in OutcomesOfCommand :
       /\ err' = o.err
       /\ fate' = C!Fate(o)
       /\ outcome' = Classify(o)
  /\ ran' = CanRun
  /\ ProgramWrites(File("out", "clean"))
  /\ pc' = "remove"
  /\ UNCHANGED <<case, pending, frames, command, kept>>

-----------------------------------------------------------------------------
(* p101_mutation_remove_tree.  Nothing stops it, and its result is not used. *)

MayFail == Cardinality(kept) < MaxKept

\* The temporary directory itself; if it cannot be read, all of it stays.
RemoveTop ==
  /\ pc = "remove" /\ frames = <<>>
  /\ \/ /\ frames' = <<Frame(temp, <<>>)>>
        /\ UNCHANGED <<pc, kept>>
     \/ /\ MayFail
        /\ kept' = kept \cup {<<>>}
        /\ pc' = "done"
        /\ UNCHANGED frames
  /\ UNCHANGED <<case, project, temp, err, pending, command, outcome, history>>

\* Mutant: the first failure ends the removal of a directory.
RemoveEntryUntilFailure ==
  /\ pc = "remove" /\ frames # <<>>
  /\ \E name \in Head(frames).left :
       LET path == Append(Head(frames).dir, name) IN
       \/ /\ temp[path].kind = "dir"
          /\ frames' = <<Frame(temp, path)>> \o Done(name)
          /\ UNCHANGED <<temp, kept>>
       \/ /\ temp[path].kind # "dir"
          /\ temp' = Without(temp, path)
          /\ frames' = Done(name)
          /\ UNCHANGED kept
       \/ /\ MayFail
          /\ kept' = kept \cup {path}
          /\ frames' = <<[Head(frames) EXCEPT !.left = {}]>> \o Tail(frames)
          /\ UNCHANGED temp
  /\ UNCHANGED <<case, project, pc, err, pending, command, outcome, history>>

\* A directory is entered, anything else unlinked (lstat: a link, never what it
\* leads to); what cannot be entered or unlinked stays.
RemoveEntry ==
  /\ pc = "remove" /\ frames # <<>>
  /\ \E name \in Head(frames).left :
       LET path == Append(Head(frames).dir, name) IN
       \/ /\ temp[path].kind = "dir"
          /\ frames' = <<Frame(temp, path)>> \o Done(name)
          /\ UNCHANGED <<temp, kept>>
       \/ /\ temp[path].kind # "dir"
          /\ temp' = Without(temp, path)
          /\ frames' = Done(name)
          /\ UNCHANGED kept
       \/ /\ MayFail
          /\ kept' = kept \cup {path}
          /\ frames' = Done(name)
          /\ UNCHANGED temp
  /\ UNCHANGED <<case, project, pc, err, pending, command, outcome, history>>

\* The end of a directory, or a readdir error that looks like it; rmdir
\* succeeds only on an empty directory.
LeaveDirectory ==
  /\ pc = "remove" /\ frames # <<>>
  /\ LET dir == Head(frames).dir IN
     \/ /\ Head(frames).left = {}
        /\ temp' = IF Children(temp, dir) = {} THEN Without(temp, dir) ELSE temp
        /\ UNCHANGED kept
     \/ /\ MayFail
        /\ kept' = kept \cup {dir}
        /\ UNCHANGED temp
  /\ frames' = Tail(frames)
  /\ pc' = IF Tail(frames) = <<>> THEN "done" ELSE "remove"
  /\ UNCHANGED <<case, project, err, pending, command, outcome, history>>

\* Only the command itself is killed at its deadline: what it started may still
\* write into the copy.
StragglerWrites ==
  /\ pc = "remove" /\ fate = "cut" /\ MayFail
  /\ ran /\ InCopy(<<>>).path \in DOMAIN temp
  /\ LET path == InCopy(<<"late">>).path IN
       /\ path \notin DOMAIN temp
       /\ temp' = Put(temp, path, File("late", "clean"))
       /\ kept' = kept \cup {path}
  /\ UNCHANGED <<case, project, pc, err, pending, frames, command, outcome, history>>

Finished == pc = "done" /\ UNCHANGED vars

Next ==
  \/ MakeTree \/ CopyTop \/ CopyEntry \/ EndDirectory \/ CopyFails
  \/ ApplyCandidate \/ BuildCompileCommand \/ Compile \/ RewriteCommand \/ RunTest
  \/ RemoveTop \/ RemoveEntry \/ LeaveDirectory \/ StragglerWrites \/ Finished

Spec == Init /\ [][Next]_vars

-----------------------------------------------------------------------------
(* Properties. *)

\* The types; the temporary directory is a tree, and the recursion is in
\* directories that lie within one another.
TypeOK ==
  /\ case \in Cases
  /\ IsTree(project) /\ IsTree(temp)
  /\ pc \in {"make tree", "copy", "apply", "build", "compile", "rewrite", "test", "remove", "done"}
  /\ err \in BOOLEAN /\ pending \in BOOLEAN /\ ran \in BOOLEAN
  /\ outcome \in {"none", "inconclusive", "survived", "killed"}
  /\ frames # <<>> => pc \in {"copy", "remove"}
  /\ \A i \in 1 .. Len(frames) - 1 : Front(frames[i].dir) = frames[i + 1].dir
  /\ pc = "remove" => \A i \in DOMAIN frames : frames[i].dir \in DOMAIN temp

\* What the copy cannot keep a program from writing: the file that a link at the
\* place of an output leads to, and one that a word of the compile command names
\* without the rewriting knowing it for an output.
Strays ==
  {Opened(at) : at \in {o \in Outputs : IsLink(o)}}
    \cup {Opened(Output(a)) : a \in {b \in ToSet(command.arguments) :
                                       pc = "compile" /\ b.as = "-W"}}

SameEntry(p) == p \in DOMAIN project \cap DOMAIN project' /\ project'[p] = project[p]

\* README.md of the component: "The original working tree is never edited."
\* That is so but for these strays: no other step of the tool or of a command it
\* builds changes a file of the project, adds one or removes one, whatever links,
\* output options and working directories they go through.
ProjectNeverEdited ==
  [][\A p \in DOMAIN project \cup DOMAIN project' :
       SameEntry(p) \/ \E at \in Strays : at.root = "project" /\ at.path = p]_vars

\* A relative argument finds the copy if the working directory is in the
\* project and no link with an absolute target is met on the way.
Relocatable(a) ==
  \/ a.at.root # "here"
  \/ LET from == Real(case.compile.directory) IN
     /\ from.root = "project"
     /\ \A k \in 1 .. Len(a.at.path) :
          LET way  == Resolve(from, At("here", SubSeq(a.at.path, 1, k - 1)))
              path == Append(way.path, a.at.path[k])
          IN way.root = "project" /\ path \in DOMAIN project /\ project[path].kind = "link" =>
               project[path].to.root = "here"

\* The one file of another directory that the code takes for the project's: the
\* project has the very text of the candidate where the code looks for it.
Mistaken ==
  LET path == Place(case.candidate.at) IN
  /\ case.candidate.at.root = "sibling"
  /\ path \in DOMAIN case.tree /\ case.tree[path].kind = "file"
  /\ case.tree[path].text = case.candidate.text

\* Of the project as the call found it, all but ignored names and special files.
Copied == {p \in DOMAIN case.tree : /\ \A i \in DOMAIN p : p[i] \notin Ignored
                                    /\ case.tree[p].kind # "other"}

\* What is tested is the mutant, unless the candidate was mistaken.  The compiler
\* is given the edited file, unless a relative argument leads elsewhere; and at
\* the test the copy is the project as the call found it but for what the
\* compiler wrote, with this candidate's edit and no other.
MutantIsTested ==
  ~Mistaken =>
    LET mutant == case.candidate.at.path
        sources == {a \in ToSet(case.compile.arguments) : a.as = "file"}
    IN /\ pc = "compile" /\ CanRun /\ (\A a \in sources : Relocatable(a)) =>
            InCopy(mutant) \in Files
       /\ pc = "test" =>
            /\ case.candidate.at.root = "project"
            /\ mutant \in Copied /\ case.tree[mutant].text = case.candidate.text
            /\ \A p \in DOMAIN case.tree :
                 LET copy == InCopy(p).path IN
                 \/ InCopy(p) \in written
                 \/ p \notin Copied /\ copy \notin DOMAIN temp
                 \/ /\ p \in Copied /\ copy \in DOMAIN temp
                    /\ temp[copy] = IF p = mutant THEN File(case.tree[p].text, "mutated")
                                    ELSE case.tree[p]

\* Removal goes as far as it can: what is left in the end is an entry at which
\* a call failed, something inside it, or a directory around it.
RemovalIsThorough ==
  pc = "done" =>
    \A p \in DOMAIN temp :
      \E k \in kept \cap DOMAIN temp : IsPrefix(k, p) \/ IsPrefix(p, k)

\* Every step has a result that MutationCampaign has for it, or is inside one.
KeepsToCampaign == [][C!Next]_(C!vars)

\* README.md of the component, Blind spots: "A killed mutant only proves that
\* this test command rejected this one edit."  A command whose program was not
\* found has rejected nothing.
KilledMeansRejected ==
  pc = "done" /\ outcome = "killed" /\ fate = "failed" => ran
=============================================================================
