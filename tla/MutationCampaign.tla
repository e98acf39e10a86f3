-------------------------- MODULE MutationCampaign --------------------------
(***************************************************************************)
(* The campaign of test-mutation: main.c and p101_mutation_execute.  The    *)
(* scan collects candidates up to a capacity, the test command is run once  *)
(* on the project itself, and then once per candidate on a mutated copy     *)
(* that has its own temporary directory and must first compile.             *)
(*                                                                         *)
(* Every call may fail.  The error object is shared by all steps: an error  *)
(* that one step leaves behind is what the next one starts with, and        *)
(* p101_mutation_copy_tree is the one step that resets it.  A command is    *)
(* known only by its outcome (CommandOutcome, implemented by RunCommand).   *)
(***************************************************************************)
EXTENDS CommandOutcome, Sequences, FiniteSets

CONSTANTS
  MaxMutants,  \* MAX_MUTANTS, the largest --max-mutants
  MaxSites     \* bound: mutation sites in the project

ASSUME LimitsOK == MaxMutants \in Nat \ {0} /\ MaxSites \in Nat

VARIABLES
  request,   \* what the command line asks for, "unread" before it is read
  capacity,  \* --max-mutants, not used before it is read
  sites,     \* mutation sites the analysis finds in the project
  pc, err, exit,
  seen, count, \* sites reported so far, candidates kept
  index,     \* the candidate at work
  completed, \* the result of p101_mutation_execute
  results,   \* the outcomes so far
  trees,     \* candidates whose temporary directory exists
  report,    \* what was reported: the counts and the exit status
  stuck,     \* history: candidates whose directory could not be removed
  baseline,  \* history: what became of the test command on the project
  tests      \* history: what became of it on each candidate

vars == <<request, capacity, sites, pc, err, exit, seen, count, index, completed, results, trees,
          stuck, report, baseline, tests>>

arguments == <<request, capacity>>

scan      == <<seen, count>>
candidate == <<index, completed, results, trees, stuck, report>>
history   == <<baseline, tests>>

Running == 3

NoReport == [killed |-> 0, survived |-> 0, inconclusive |-> 0, exit |-> Running]

\* What a command really did, as far as its outcome tells.
Fate(o) ==
  CASE o.timedOut -> "cut"
    [] ~o.timedOut /\ o.code = 0 -> "passed"
    [] ~o.timedOut /\ o.code = NoCode -> "lost"
    [] OTHER -> "failed"

Init ==
  /\ request = "unread" /\ capacity = MaxMutants
  /\ sites \in 0 .. MaxSites
  /\ pc = "parse" /\ err = FALSE /\ exit = Running
  /\ seen = 0 /\ count = 0
  /\ index = 1 /\ completed = FALSE /\ results = <<>>
  /\ trees = {} /\ stuck = {}
  /\ report = NoReport
  /\ baseline = "none" /\ tests = <<>>

-----------------------------------------------------------------------------
(* main, up to the loop over the candidates.  exit is return_value.          *)

\* Bad options, or the usage text, which may fail to print.
ParseArguments ==
  /\ pc = "parse"
  /\ request' \in {"run", "list", "help", "misuse"} /\ capacity' \in 1 .. MaxMutants
  /\ \/ /\ request' \in {"help", "misuse"}
        /\ err' \in BOOLEAN
        /\ exit' = IF request' = "help" /\ ~err' THEN 0 ELSE 2
        /\ pc' = "report error"
     \/ /\ request' \in {"run", "list"}
        /\ exit' = 2
        /\ \E fails \in BOOLEAN : err' = fails  \* the array of candidates
        /\ pc' = IF err' THEN "report error" ELSE "scan"
  /\ UNCHANGED <<sites, scan, candidate, history>>

\* Mutant: the capacity is not looked at.
ObserveUnbounded ==
  /\ pc = "scan" /\ seen < sites
  /\ seen' = seen + 1
  /\ count' = count + 1
  /\ UNCHANGED <<arguments, sites, pc, err, exit, candidate, history>>

\* One site is reported to the observer.  At capacity it is passed over; a
\* record that cannot be filled in stops the scan, and the analysis may still
\* return true to main.
Observe ==
  /\ pc = "scan" /\ seen < sites
  /\ seen' = seen + 1
  /\ \/ /\ count = capacity
        /\ UNCHANGED <<count, err, pc>>
     \/ /\ count < capacity
        /\ count' = count + 1
        /\ \/ UNCHANGED <<err, pc>>
           \/ err' = TRUE /\ pc' \in {"found", "report error"}
  /\ UNCHANGED <<arguments, sites, exit, candidate, history>>

EndScan ==
  /\ pc = "scan"
  /\ \/ /\ seen = sites
        /\ pc' = "found"
        /\ UNCHANGED err
     \/ /\ err' = TRUE
        /\ pc' = "report error"
  /\ UNCHANGED <<arguments, sites, exit, scan, candidate, history>>

ListCandidates ==
  /\ pc = "found" /\ request = "list"
  /\ \E fails \in BOOLEAN : err' = (err \/ fails)
  /\ exit' = IF err' THEN 2 ELSE 0
  /\ pc' = "report error"
  /\ UNCHANGED <<arguments, sites, scan, candidate, history>>

\* Mutant: a campaign without candidates is not refused.
RefuseNothing ==
  /\ pc = "found" /\ request = "run"
  /\ pc' = "baseline"
  /\ UNCHANGED <<arguments, sites, err, exit, scan, candidate, history>>

RefuseVacuous ==
  /\ pc = "found" /\ request = "run"
  /\ \/ /\ count = 0
        /\ \E fails \in BOOLEAN : err' = (err \/ fails)
        /\ pc' = "report error"
     \/ /\ count > 0
        /\ pc' = "baseline"
        /\ UNCHANGED err
  /\ UNCHANGED <<arguments, sites, exit, scan, candidate, history>>

RunBaseline ==
  /\ pc = "baseline"
  /\ \E o \in OutcomesGiven(err), allocated \in BOOLEAN :
       /\ baseline' = Fate(o)
       /\ \/ /\ o.timedOut \/ o.code # 0 \/ o.err
             /\ err' \in {o.err, TRUE}
             /\ pc' = "report error"
          \/ /\ ~o.timedOut /\ o.code = 0 /\ ~o.err
             /\ err' = ~allocated
             /\ pc' = IF ~allocated THEN "report error"
                      ELSE IF count = 0 THEN "report" ELSE "make tree"
  /\ UNCHANGED <<arguments, sites, exit, scan, candidate, tests>>

-----------------------------------------------------------------------------
(* p101_mutation_execute, for the candidate index.                           *)

\* mkdtemp; with the directory made, realpath of the project.
MakeTree ==
  /\ pc = "make tree"
  /\ completed' = FALSE
  /\ \/ /\ err' = TRUE
        /\ pc' = "next"
        /\ UNCHANGED trees
     \/ /\ trees' = trees \cup {index}
        /\ \/ err' = TRUE /\ pc' = "remove"
           \/ UNCHANGED err /\ pc' = "copy"
  /\ UNCHANGED <<arguments, sites, exit, scan, index, results, stuck, report, baseline>>
  /\ tests' = Append(tests, "none")

\* p101_mutation_copy_tree resets the error object once its directory exists;
\* a copy that fails with a short write leaves no error.
CopyTree ==
  /\ pc = "copy"
  /\ \/ err' = FALSE /\ pc' = "apply"
     \/ err' \in BOOLEAN /\ pc' = "remove"
  /\ UNCHANGED <<arguments, sites, exit, scan, candidate, history>>

\* p101_mutation_apply_candidate: also refuses a source that has changed.
ApplyCandidate ==
  /\ pc = "apply"
  /\ \/ UNCHANGED err /\ pc' = "build"
     \/ err' \in BOOLEAN /\ pc' = "remove"
  /\ UNCHANGED <<arguments, sites, exit, scan, candidate, history>>

BuildCompileCommand ==
  /\ pc = "build"
  /\ \/ UNCHANGED err /\ pc' = "compile"
     \/ err' \in BOOLEAN /\ pc' = "remove"
  /\ UNCHANGED <<arguments, sites, exit, scan, candidate, history>>

\* Mutant: leaving early, a mutant that does not compile keeps its directory.
CompileKeepingTree ==
  /\ pc = "compile"
  /\ \E o \in OutcomesGiven(err) :
       /\ err' = o.err
       /\ \/ /\ o.timedOut \/ o.code # 0
             /\ results' = Append(results, "inconclusive")
             /\ completed' = TRUE
             /\ pc' = "next"
          \/ /\ ~o.timedOut /\ o.code = 0
             /\ pc' = "rewrite"
             /\ UNCHANGED <<results, completed>>
  /\ UNCHANGED <<arguments, sites, exit, scan, index, trees, stuck, report, history>>

\* A mutant that does not compile in time is inconclusive.
Compile ==
  /\ pc = "compile"
  /\ \E o \in OutcomesGiven(err) :
       /\ err' = o.err
       /\ \/ /\ o.timedOut \/ o.code # 0
             /\ results' = Append(results, "inconclusive")
             /\ completed' = TRUE
             /\ pc' = "remove"
          \/ /\ ~o.timedOut /\ o.code = 0
             /\ pc' = "rewrite"
             /\ UNCHANGED <<results, completed>>
  /\ UNCHANGED <<arguments, sites, exit, scan, index, trees, stuck, report, history>>

\* The paths of the test command are moved into the copy.
RewriteCommand ==
  /\ pc = "rewrite"
  /\ \E fails \in BOOLEAN : err' = (err \/ fails)
  /\ pc' = IF err' THEN "remove" ELSE "test"
  /\ UNCHANGED <<arguments, sites, exit, scan, candidate, history>>

Classify(o) ==
  CASE o.timedOut -> "inconclusive"
    [] ~o.timedOut /\ o.code = 0 -> "survived"
    [] OTHER -> "killed"

RunTest ==
  /\ pc = "test"
  /\ \E o \in OutcomesGiven(err) :
       /\ err' = o.err
       /\ tests' = [tests EXCEPT ![index] = Fate(o)]
       /\ results' = Append(results, Classify(o))
  /\ completed' = TRUE
  /\ pc' = "remove"
  /\ UNCHANGED <<arguments, sites, exit, scan, index, trees, stuck, report, baseline>>

\* Best effort: whether the directory could be removed is not looked at.
RemoveTree ==
  /\ pc = "remove"
  /\ \/ trees' = trees \ {index} /\ UNCHANGED stuck
     \/ stuck' = stuck \cup {index} /\ UNCHANGED trees
  /\ pc' = "next"
  /\ UNCHANGED <<arguments, sites, err, exit, scan, index, completed, results, report,
                 history>>

\* Mutant: the loop goes on after a candidate that was not completed.
NextCandidateAnyway ==
  /\ pc = "next"
  /\ index' = index + 1
  /\ pc' = IF index < count THEN "make tree" ELSE "report"
  /\ UNCHANGED <<arguments, sites, err, exit, scan, completed, results, trees, stuck,
                 report, history>>

\* A candidate that was not completed ends the campaign without a report.
NextCandidate ==
  /\ pc = "next"
  /\ index' = index + 1
  /\ pc' = IF ~completed THEN "report error"
           ELSE IF index < count THEN "make tree" ELSE "report"
  /\ UNCHANGED <<arguments, sites, err, exit, scan, completed, results, trees, stuck,
                 report, history>>

-----------------------------------------------------------------------------
Tally(outcome) == Cardinality({i \in DOMAIN results : results[i] = outcome})

\* The report has a verdict of its own.
Reported ==
  [killed |-> Tally("killed"), survived |-> Tally("survived"),
   inconclusive |-> Tally("inconclusive"),
   exit |-> IF Tally("inconclusive") > 0 THEN 2 ELSE IF Tally("survived") > 0 THEN 1 ELSE 0]

\* Mutant: whether the report could be written is not looked at.
ReportResultsUnchecked ==
  /\ pc = "report"
  /\ report' \in {NoReport, Reported}
  /\ pc' = "judge"
  /\ UNCHANGED <<arguments, sites, err, exit, scan, index, completed, results, trees, stuck,
                 history>>

\* A report that is cut short or not written leaves an error.
ReportResults ==
  /\ pc = "report"
  /\ \/ report' = Reported /\ UNCHANGED err
     \/ report' \in {NoReport, Reported} /\ err' = TRUE
  /\ pc' = "judge"
  /\ UNCHANGED <<arguments, sites, exit, scan, index, completed, results, trees, stuck,
                 history>>

Has(outcome) == \E i \in DOMAIN results : results[i] = outcome

\* Mutant: each result overwrites the verdict of the ones before it.
VerdictOfLast ==
  IF results = <<>> THEN 0
  ELSE CASE results[Len(results)] = "inconclusive" -> 2
         [] results[Len(results)] = "survived" -> 1
         [] OTHER -> 0

\* Mutant: a survivor found later turns 2 back into 1.
VerdictOfSurvivors ==
  IF Has("survived") THEN 1 ELSE IF Has("inconclusive") THEN 2 ELSE 0

Verdict ==
  IF Has("inconclusive") THEN 2 ELSE IF Has("survived") THEN 1 ELSE 0

Judge ==
  /\ pc = "judge"
  /\ exit' = Verdict
  /\ pc' = "report error"
  /\ UNCHANGED <<arguments, sites, err, scan, candidate, history>>

\* The labels "cleanup_candidates" and "done" of main.
ReportError ==
  /\ pc = "report error"
  /\ exit' = IF err THEN 2 ELSE exit
  /\ pc' = "done"
  /\ UNCHANGED <<arguments, sites, err, scan, candidate, history>>

Finished == pc = "done" /\ UNCHANGED vars

Step ==
  \/ ParseArguments \/ Observe \/ EndScan \/ ListCandidates \/ RefuseVacuous \/ RunBaseline
  \/ MakeTree \/ CopyTree \/ ApplyCandidate \/ BuildCompileCommand \/ Compile
  \/ RewriteCommand \/ RunTest \/ RemoveTree \/ NextCandidate
  \/ ReportResults \/ Judge \/ ReportError

Next == Step \/ Finished

\* A command is under way.  RunCommand says when it does not return.
Waiting == pc \in {"baseline", "compile", "test"} /\ ~err

\* The program keeps running, but for a command that does not return.
Spec == Init /\ [][Next]_vars /\ WF_vars(Step /\ ~Waiting)

-----------------------------------------------------------------------------
(* Properties. *)

Requests == {"unread", "run", "list", "help", "misuse"}

Fates == {"none", "cut", "passed", "failed", "lost"}

\* The types, and that no more candidates are kept than there is room for.
TypeOK ==
  /\ request \in Requests /\ capacity \in 1 .. MaxMutants /\ sites \in 0 .. MaxSites
  /\ pc \in {"parse", "scan", "found", "baseline", "make tree", "copy", "apply", "build",
             "compile", "rewrite", "test", "remove", "next", "report", "judge",
             "report error", "done"}
  /\ err \in BOOLEAN /\ completed \in BOOLEAN
  /\ exit \in {0, 1, 2, Running} /\ report.exit \in {0, 1, 2, Running}
  /\ seen \in 0 .. sites /\ count \in 0 .. capacity /\ index \in 1 .. capacity + 1
  /\ results \in Seq({"inconclusive", "survived", "killed"})
  /\ tests \in Seq(Fates) /\ baseline \in Fates
  /\ trees \subseteq 1 .. capacity /\ stuck \subseteq trees

\* 0 and 1 are verdicts of a whole campaign: the unmodified project passed its
\* own tests, there was something to mutate, and every candidate that was kept
\* compiled, got as far as its test and was not cut short there.  A test the
\* tool itself could not run or lost sight of ("lost") passes for one that
\* rejected the mutant, see ZeroMeansEveryMutantKilled.
VerdictIsComplete ==
  pc = "done" /\ request = "run" /\ exit # 2 =>
    /\ baseline = "passed"
    /\ Len(tests) = count
    /\ count = IF sites < capacity THEN sites ELSE capacity
    /\ count > 0
    /\ \A i \in DOMAIN tests : tests[i] \notin {"none", "cut"}

\* A mutant the tests did accept is never lost behind the verdict of another.
NoSurvivorMissed ==
  pc = "done" /\ exit = 0 => \A i \in DOMAIN tests : tests[i] # "passed"

\* 1 says that some mutant survived, and hides nothing inconclusive.
FindingsAreReal ==
  pc = "done" /\ exit = 1 =>
    /\ \E i \in DOMAIN tests : tests[i] = "passed"
    /\ \A i \in DOMAIN results : results[i] # "inconclusive"

\* On every path out of a candidate its directory is removed, or was tried to:
\* directories do not pile up over the campaign.
TreesRemoved ==
  pc \in {"next", "make tree", "report", "done"} => trees = stuck

\* A verdict comes with its report: it counts as survivors the mutants whose
\* test really passed and as killed all others (a lost test among them), and the
\* report and the exit status, which are worked out apart from each other, agree.
ReportAgrees ==
  pc = "done" /\ request = "run" /\ exit \in {0, 1} =>
    /\ report.exit = exit
    /\ report.survived = Cardinality({i \in DOMAIN tests : tests[i] = "passed"})
    /\ report.killed = count - report.survived

\* The campaign as MutationTesting sees it.
Selected == IF baseline = "passed" THEN count ELSE 0
Tested   == [i \in 1 .. Len(results) |-> tests[i]]
Answer   == IF pc = "done" THEN exit ELSE Running

Abstract == INSTANCE MutationTesting WITH
  selected <- Selected, fates <- Tested, verdict <- Answer

\* Every campaign is one of MutationTesting, and ends unless a command never
\* returns: candidates are tested in turn and once each, the number of them does
\* not change, and the verdict is given once, on all of them.
ImplementsTesting == Abstract!TestingSteps /\ (Abstract!TestingEnds \/ <>[]Waiting)

(* README.md of the component: "Exit status is 0 when the baseline and every *)
(* selected mutant are killed".  Killed is a test command that ran on the    *)
(* mutant and rejected it.                                                   *)
ZeroMeansEveryMutantKilled ==
  pc = "done" /\ request = "run" /\ exit = 0 => \A i \in DOMAIN tests : tests[i] = "failed"
=============================================================================
