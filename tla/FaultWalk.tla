----------------------------- MODULE FaultWalk -----------------------------
(***************************************************************************)
(* The fault walk of test-faults: main, the option checks of cli.c and the  *)
(* campaign loop of runner.c.  One baseline case and then one case per      *)
(* fault index run a command under "p101-inspect run"; every case reads     *)
(* back the evidence the pipeline left in the case's run directory.         *)
(*                                                                         *)
(* The program is one thread, but between any two steps the world may act:  *)
(* a wrapper call fails (setenv, unsetenv, fopen, printf), the pipeline     *)
(* cannot be started, the child hangs, and a run directory of an earlier    *)
(* process with the same pid still holds its files: nothing clears it, so   *)
(* what a pipeline does not write again is read as if it had.  The error    *)
(* object is sticky: err, once TRUE, stays TRUE.                            *)
(***************************************************************************)
EXTENDS Naturals, Sequences, FiniteSets

CONSTANTS
  Requests,         \* command lines, as records (see Request)
  Names, NoName,    \* names a log line can carry, and the empty one among them
  Worlds,           \* what a pipeline that ran can leave in an empty run directory
  Leftover,         \* what an earlier campaign left in a run directory
  Nothing,          \* an empty run directory
  MaxFailuresLimit, \* MAX_FAILURES_LIMIT
  GroupLimit,       \* FAULT_GROUP_LIMIT
  Missable,         \* files of the run directory that fopen may fail to open
  FailureSets,      \* control variables whose setenv or unsetenv fails at once
  InheritedSets,    \* the control variables the caller may have set
  Unset,            \* a variable that is not in the environment
  Inherited         \* a value test-faults inherited from its own caller

Statuses == {"success", "findings", "other"}  \* exit 0, exit 1, all the rest

\* A line of fault.log: another tag, a damaged P101FAULT record, or a good one.
Line == [kind : {"other", "damaged", "fault"}, name : Names]

\* A report of p101-inspect as the reader of resource.c finds it.
Report == [file : {"absent", "unreadable", "garbled", "parsed"}, findings : Nat]

World == [status : Statuses, logged : BOOLEAN, faults : Seq(Line),
          resources : Report, analysis : Report]

Request == [help : BOOLEAN, badOption : BOOLEAN, command : BOOLEAN, emptyText : BOOLEAN,
            mode : {"plain", "named", "unknown"}, name : BOOLEAN, errno : BOOLEAN,
            garbled : BOOLEAN, max : Nat]

(* The control variables.  "host" stands for the P101_FAULT_* and             *)
(* P101_CALL_LOG_* variables of the tools themselves, "shape" for the log,   *)
(* mode, amount and repeat variables of the child, which every case sets.    *)
Cleared == {"host", "call", "errno", "name", "shape"}

Controls == Cleared \cup {"resourceLog"}

\* The files of a run directory, by their use.
Files(world) ==
  {f \in {"faults", "log", "resources", "analysis"} :
     \/ f = "faults"    /\ world.faults # <<>>
     \/ f = "log"       /\ world.logged
     \/ f = "resources" /\ world.resources.file # "absent"
     \/ f = "analysis"  /\ world.analysis.file # "absent"}

ASSUME ConstantsOK ==
  /\ NoName \in Names
  /\ Requests \subseteq Request
  /\ Worlds \subseteq World
  /\ Leftover \in World
  /\ Nothing \in World /\ Files(Nothing) = {}
  /\ MaxFailuresLimit \in Nat
  /\ GroupLimit \in Nat
  /\ Missable \subseteq {"faults", "log", "resources", "analysis"}
  /\ FailureSets \subseteq SUBSET Controls /\ InheritedSets \subseteq SUBSET Controls
  /\ Unset \notin Nat /\ Inherited \notin Nat /\ Unset # Inherited

VARIABLES
  request,  \* the command line
  pc,       \* where main or run_one_case stands
  err,      \* the error object holds an error
  environ,  \* the control variables of the environment
  oldCases, \* this many run directories of an earlier campaign exist
  directory, \* the run directory of the current case
  index,    \* the case: 0 is the baseline
  result,   \* struct run_result
  runs, findings, trouble, groups, \* the totals of the walk
  exhausted, \* "exhausted after n calls" was printed
  exit,     \* the exit status, or Running
  walked    \* history: what really happened in every started case

vars == <<request, pc, err, environ, oldCases, directory, index, result, runs, findings,
          trouble, groups, exhausted, exit, walked>>

totals == <<runs, findings, trouble, groups, exhausted>>

Running == 3

-----------------------------------------------------------------------------
(* The environment. *)

\* Mutant: the error of a failing unsetenv is not looked at.
UnsetenvIgnoringErrors(S) ==
  \E stuck \in {S \cap failing : failing \in FailureSets} :
    /\ environ' = [c \in Controls |-> IF c \in S \ stuck THEN Unset ELSE environ[c]]
    /\ err' = err

\* Remove the variables in S; some of the calls may fail and leave theirs.
Unsetenv(S) ==
  \E stuck \in {S \cap failing : failing \in FailureSets} :
    /\ environ' = [c \in Controls |-> IF c \in S \ stuck THEN Unset ELSE environ[c]]
    /\ err' = (err \/ stuck # {})

\* The variables a case sets: the call index is left out of the baseline.
CaseControls ==
  {"shape"} \cup (IF request.name THEN {"name"} ELSE {})
            \cup (IF request.errno THEN {"errno"} ELSE {})
            \cup (IF index > 0 THEN {"call"} ELSE {})

-----------------------------------------------------------------------------
(* The evidence.  The wait status of a pipeline is kept beside its files.    *)

\* The first line that carries the P101FAULT tag decides.
Deciding(lines) ==
  {i \in DOMAIN lines : /\ lines[i].kind # "other"
                        /\ \A j \in 1 .. i - 1 : lines[j].kind = "other"}

Hit(lines)     == \E i \in Deciding(lines) : lines[i].kind = "fault"
Damaged(lines) == \E i \in Deciding(lines) : lines[i].kind = "damaged"
HitName(lines) == lines[CHOOSE i \in Deciding(lines) : TRUE].name

\* What the evidence of a case is worth, whatever the program makes of it.
Sound(w) ==
  /\ w.status # "other"
  /\ w.logged /\ w.resources.file = "parsed" /\ w.analysis.file = "parsed"
  /\ ~Damaged(w.faults)

EmptyResult ==
  [status |-> "success", ok |-> FALSE, hit |-> FALSE, name |-> NoName, logged |-> FALSE,
   resources |-> FALSE, analysis |-> FALSE, findings |-> 0]

AnalysisSummaryUnavailable ==
  ~result.logged \/ ~result.resources \/ ~result.analysis

\* What a pipeline leaves in a directory that is not empty: a kept file stays,
\* as it was, and the lines of a kept fault log come before the new ones.
Beside(world, kept) ==
  [world EXCEPT
     !.logged    = @ \/ "log" \in kept,
     !.faults    = IF "faults" \in kept THEN directory.faults \o @ ELSE @,
     !.resources = IF "resources" \in kept THEN directory.resources ELSE @,
     !.analysis  = IF "analysis" \in kept THEN directory.analysis ELSE @]

PipelineStatusIsAcceptable(status) == status \in {"success", "findings"}

-----------------------------------------------------------------------------
Init ==
  /\ request \in Requests
  /\ pc = "parse"
  /\ err = FALSE
  /\ \E set \in InheritedSets :
       environ = [c \in Controls |-> IF c \in set THEN Inherited ELSE Unset]
  /\ oldCases \in 0 .. request.max + 1
  /\ directory = Nothing
  /\ index = 0
  /\ result = EmptyResult
  /\ runs = 0 /\ findings = 0 /\ trouble = FALSE
  /\ groups = [n \in {} |-> [runs |-> 0, findings |-> 0]]
  /\ exhausted = FALSE
  /\ exit = Running
  /\ walked = <<>>

(* main.  A bad option stops getopt; help wins only if nothing was wrong.    *)
ParseArguments ==
  /\ pc = "parse"
  /\ err' = request.badOption
  /\ pc' = IF request.badOption THEN "report" ELSE IF request.help THEN "usage" ELSE "check"
  /\ UNCHANGED <<request, environ, oldCases, directory, index, result, totals, exit, walked>>

Usage ==
  /\ pc = "usage"
  /\ \E fails \in BOOLEAN : err' = (err \/ fails)
  /\ pc' = "report"
  /\ exit' = 0
  /\ UNCHANGED <<request, environ, oldCases, directory, index, result, totals, walked>>

ArgumentsRefused ==
  \/ ~request.command
  \/ request.emptyText
  \/ request.mode = "unknown"
  \/ request.mode = "named" /\ ~request.name

CheckArguments ==
  /\ pc = "check"
  /\ err' = ArgumentsRefused
  /\ pc' = IF ArgumentsRefused THEN "report" ELSE "convert"
  /\ UNCHANGED <<request, environ, oldCases, directory, index, result, totals, exit, walked>>

NumbersRefused == request.garbled \/ request.max > MaxFailuresLimit

ConvertArguments ==
  /\ pc = "convert"
  /\ err' = NumbersRefused
  /\ pc' = IF NumbersRefused THEN "report" ELSE "paths"
  /\ UNCHANGED <<request, environ, oldCases, directory, index, result, totals, exit, walked>>

-----------------------------------------------------------------------------
(* run_one_case, from the empty result to its "done" label ("unset").        *)

\* Mutant: every case has the same run directory.
MakeLogPathsOfOneDirectory ==
  /\ pc = "paths"
  /\ result' = EmptyResult
  /\ directory' = IF index = 0 /\ oldCases > 0 THEN Leftover ELSE directory
  /\ \E tooLong \in BOOLEAN : /\ err' = (err \/ tooLong)
                              /\ pc' = IF err' THEN "unset" ELSE "clear"
  /\ UNCHANGED <<request, environ, oldCases, index, totals, exit, walked>>

MakeLogPaths ==
  /\ pc = "paths"
  /\ result' = EmptyResult
  /\ directory' = IF index < oldCases THEN Leftover ELSE Nothing
  /\ \E tooLong \in BOOLEAN : /\ err' = (err \/ tooLong)
                              /\ pc' = IF err' THEN "unset" ELSE "clear"
  /\ UNCHANGED <<request, environ, oldCases, index, totals, exit, walked>>

ClearBefore ==
  /\ pc = "clear"
  /\ Unsetenv(Cleared)
  /\ pc' = IF err' THEN "unset" ELSE "set"
  /\ UNCHANGED <<request, oldCases, directory, index, result, totals, exit, walked>>

SetControls ==
  /\ pc = "set"
  /\ \E failed \in {CaseControls \cap failing : failing \in FailureSets} :
       /\ environ' = [c \in Controls |->
                        IF c \in CaseControls \ failed THEN index ELSE environ[c]]
       /\ err' = (err \/ failed # {})
       /\ pc' = IF err' THEN "unset" ELSE "run"
  /\ UNCHANGED <<request, oldCases, directory, index, result, totals, exit, walked>>

\* What was found in the directory, and whether this case's pipeline ran and
\* wrote all of it.
Start(found, ran, own) ==
  /\ directory' = found
  /\ result' = [result EXCEPT !.status = found.status,
                              !.ok = PipelineStatusIsAcceptable(found.status)]
  /\ walked' = Append(walked,
       [ran |-> ran, own |-> own, reused |-> index < oldCases,
        call |-> environ["call"], sound |-> Sound(found),
        silent |-> found.status # "success" /\ found.analysis.findings = 0,
        hit |-> Hit(found.faults),
        name |-> IF Hit(found.faults) THEN HitName(found.faults) ELSE NoName,
        findings |-> found.analysis.findings])

\* The pipeline ran and left its files in the run directory, beside those files
\* of an earlier campaign it did not write again or wrote behind ...
RunPipeline ==
  /\ pc = "run"
  /\ \E world \in Worlds :
       \E kept \in SUBSET (Files(directory) \ (Files(world) \ {"faults"})) :
         Start(Beside(world, kept), TRUE, kept = {})
  /\ pc' = "hit"
  /\ UNCHANGED <<request, err, environ, oldCases, index, totals, exit>>

\* ... or it could not be executed, or refused to start: what lay there stays.
PipelineNotStarted ==
  /\ pc = "run"
  /\ Start([directory EXCEPT !.status = "other"], FALSE, FALSE)
  /\ \E fails \in BOOLEAN : err' = (err \/ fails)
  /\ pc' = "hit"
  /\ UNCHANGED <<request, environ, oldCases, index, totals, exit>>

\* waitpid has no deadline: a command that never ends stops the walk for good.
PipelineHangs ==
  /\ pc = "run"
  /\ pc' = "hung"
  /\ UNCHANGED <<request, err, environ, oldCases, directory, index, result, totals, exit, walked>>

\* A fault log that cannot be opened counts as a fault that did not fire; one
\* that cannot be read is an error.
ReadFaultHit ==
  LET lines == directory.faults IN
  /\ pc = "hit"
  /\ \E outcome \in {"read", "readError"} \cup (IF "faults" \in Missable THEN {"missed"} ELSE {}) :
       LET hit == outcome = "read" /\ Hit(lines) IN
       /\ err' = (err \/ outcome = "readError" \/ (outcome = "read" /\ Damaged(lines)))
       /\ result' = [result EXCEPT !.hit = hit, !.name = IF hit THEN HitName(lines) ELSE NoName]
  /\ pc' = IF err' THEN "unset" ELSE "summaries"
  /\ UNCHANGED <<request, environ, oldCases, directory, index, totals, exit, walked>>

\* file_exists takes a file it cannot open for one that is not there.
ReadSummaries ==
  /\ pc = "summaries"
  /\ \E missed \in SUBSET Missable :
       LET logged == directory.logged /\ "log" \notin missed
           resources == IF logged /\ "resources" \notin missed
                          THEN directory.resources.file ELSE "absent"
           analysis == IF "analysis" \notin missed THEN directory.analysis.file ELSE "absent"
       IN /\ err' = (err \/ "unreadable" \in {resources, analysis})
          /\ result' = [result EXCEPT
               !.logged = logged, !.resources = (resources = "parsed"),
               !.analysis = (analysis = "parsed"),
               !.findings = IF analysis = "parsed" THEN directory.analysis.findings ELSE 0]
  /\ pc' = "unset"
  /\ UNCHANGED <<request, environ, oldCases, directory, index, totals, exit, walked>>

\* Mutant: a failed clear is tried again, for ever.
ClearAfterRetrying ==
  /\ pc = "unset"
  /\ Unsetenv(Cleared)
  /\ trouble' = (trouble \/ err')
  /\ pc' = IF err' THEN "unset" ELSE IF index = 0 THEN "baseline" ELSE "tally"
  /\ UNCHANGED <<request, oldCases, directory, index, result, runs, findings, groups, exhausted,
                 exit, walked>>

\* The label "done" of run_one_case; a failed case ends the walk.
ClearAfter ==
  /\ pc = "unset"
  /\ Unsetenv(Cleared)
  /\ trouble' = (trouble \/ err')
  /\ pc' = IF err' THEN "reset" ELSE IF index = 0 THEN "baseline" ELSE "tally"
  /\ UNCHANGED <<request, oldCases, directory, index, result, runs, findings, groups, exhausted,
                 exit, walked>>

-----------------------------------------------------------------------------
(* p101_error_path_walk_run: what the loop does with a finished case.        *)

\* Mutant: the bound is compared before the increment.
NextCaseOneTooFar ==
  /\ index' = index + 1
  /\ pc' = IF index <= request.max /\ ~err' THEN "paths" ELSE "summary"

\* The head of the for loop.
NextCase ==
  /\ index' = index + 1
  /\ pc' = IF index + 1 <= request.max /\ ~err' THEN "paths" ELSE "summary"

TallyBaseline ==
  /\ pc = "baseline"
  /\ runs' = runs + 1
  /\ findings' = findings + result.findings
  /\ trouble' = (trouble \/ ~result.ok \/ AnalysisSummaryUnavailable
                 \/ (result.status # "success" /\ result.findings = 0))
  /\ \E printFails \in BOOLEAN : err' = (err \/ printFails)
  /\ NextCase
  /\ UNCHANGED <<request, environ, oldCases, directory, result, groups, exhausted, exit, walked>>

GroupName == IF result.name = NoName THEN "?" ELSE result.name

\* Mutant: with the table full, a new name is charged to the groups there are.
UpdateFaultGroupWhenFull ==
  groups' =
    IF GroupName \in DOMAIN groups \/ Cardinality(DOMAIN groups) = GroupLimit
      THEN [n \in DOMAIN groups |-> [runs |-> groups[n].runs + 1,
                                     findings |-> groups[n].findings + result.findings]]
      ELSE [n \in DOMAIN groups \cup {GroupName} |->
              IF n = GroupName THEN [runs |-> 1, findings |-> result.findings] ELSE groups[n]]

\* A new name is dropped when the table is full.
UpdateFaultGroup ==
  groups' =
    IF GroupName \in DOMAIN groups
      THEN [groups EXCEPT ![GroupName] = [runs |-> @.runs + 1,
                                          findings |-> @.findings + result.findings]]
      ELSE IF Cardinality(DOMAIN groups) < GroupLimit
        THEN [n \in DOMAIN groups \cup {GroupName} |->
                IF n = GroupName THEN [runs |-> 1, findings |-> result.findings] ELSE groups[n]]
        ELSE groups

TallyFault ==
  /\ pc = "tally"
  /\ runs' = runs + 1
  /\ trouble' = (trouble \/ ~result.ok \/ AnalysisSummaryUnavailable)
  /\ \E printFails \in BOOLEAN : err' = (err \/ printFails)
  /\ \/ /\ ~result.hit
        /\ exhausted' = TRUE
        /\ pc' = "summary"
        /\ UNCHANGED <<index, findings, groups>>
     \/ /\ result.hit
        /\ findings' = findings + result.findings
        /\ UpdateFaultGroup
        /\ NextCase
        /\ UNCHANGED exhausted
  /\ UNCHANGED <<request, environ, oldCases, directory, result, exit, walked>>

PrintSummary ==
  /\ pc = "summary"
  /\ \E printFails \in BOOLEAN : err' = (err \/ printFails)
  /\ pc' = "reset"
  /\ UNCHANGED <<request, environ, oldCases, directory, index, result, totals, exit, walked>>

\* Mutant: findings outrank trouble.
ExitStatusFindingsFirst(hasError) ==
  IF findings > 0 THEN 1 ELSE IF hasError \/ trouble THEN 2 ELSE 0

ExitStatus(hasError) ==
  IF hasError \/ trouble THEN 2 ELSE IF findings > 0 THEN 1 ELSE 0

\* Mutant: the resource log variable is forgotten.
ResetKeepsResourceLog ==
  /\ pc = "reset"
  /\ Unsetenv(Cleared)
  /\ exit' = ExitStatus(err')
  /\ pc' = "report"
  /\ UNCHANGED <<request, oldCases, directory, index, result, totals, walked>>

ResetRunEnvironment ==
  /\ pc = "reset"
  /\ Unsetenv(Controls)
  /\ exit' = ExitStatus(err')
  /\ pc' = "report"
  /\ UNCHANGED <<request, oldCases, directory, index, result, totals, walked>>

\* The label "done" of main: a pending error is printed and the status is 2.
ReportError ==
  /\ pc = "report"
  /\ exit' = IF err THEN 2 ELSE exit
  /\ pc' = "done"
  /\ UNCHANGED <<request, err, environ, oldCases, directory, index, result, totals, walked>>

Finished == pc \in {"done", "hung"} /\ UNCHANGED vars

Step ==
  \/ ParseArguments \/ Usage \/ CheckArguments \/ ConvertArguments
  \/ MakeLogPaths \/ ClearBefore \/ SetControls
  \/ RunPipeline \/ PipelineNotStarted \/ PipelineHangs
  \/ ReadFaultHit \/ ReadSummaries \/ ClearAfter
  \/ TallyBaseline \/ TallyFault \/ PrintSummary
  \/ ResetRunEnvironment \/ ReportError

Next == Step \/ Finished

\* The program's own steps are not delayed for ever; the command's end is not
\* assumed, it is the alternative PipelineHangs of the step at "run".
Spec == Init /\ [][Next]_vars /\ WF_vars(Step)
-----------------------------------------------------------------------------
(* Properties. *)

ProgramPoints ==
  {"parse", "usage", "check", "convert", "paths", "clear", "set", "run", "hit", "summaries",
   "unset", "baseline", "tally", "summary", "reset", "report", "done", "hung"}

ResultType ==
  [status : Statuses, ok : BOOLEAN, hit : BOOLEAN, name : Names, logged : BOOLEAN,
   resources : BOOLEAN, analysis : BOOLEAN, findings : Nat]

Case ==
  [ran : BOOLEAN, own : BOOLEAN, reused : BOOLEAN, call : Nat \cup {Unset, Inherited},
   sound : BOOLEAN, silent : BOOLEAN, hit : BOOLEAN, name : Names, findings : Nat]

\* The types, and that the walk stays within the bound -n gives: the case
\* number never passes it by more than the one step that ends the loop.
TypeOK ==
  /\ request \in Requests
  /\ pc \in ProgramPoints
  /\ err \in BOOLEAN
  /\ environ \in [Controls -> Nat \cup {Unset, Inherited}]
  /\ oldCases \in 0 .. request.max + 1
  /\ directory \in World
  /\ index \in 0 .. request.max + 1
  /\ pc \in {"paths", "clear", "set", "run", "hit", "summaries", "unset", "baseline", "tally"}
       => index <= request.max
  /\ result \in ResultType
  /\ runs \in Nat /\ findings \in Nat
  /\ trouble \in BOOLEAN
  /\ groups \in [DOMAIN groups -> [runs : Nat, findings : Nat]]
  /\ Cardinality(DOMAIN groups) <= GroupLimit
  /\ exhausted \in BOOLEAN
  /\ exit \in {0, 1, 2, Running}
  /\ walked \in Seq(Case)

\* When the pipeline of a case starts, the fault and call log controls in the
\* environment are those of that case: no call index at the baseline, no errno
\* or name the caller did not ask for, nothing of an earlier case or of the
\* parent.  P101_RESOURCE_LOG is not one of them: it is cleared at the end of the
\* walk only, and a pipeline sees it as test-faults inherited it.
CaseIsolated ==
  pc = "run" =>
    /\ \A c \in Cleared : environ[c] = IF c \in CaseControls THEN index ELSE Unset
    /\ environ["resourceLog"] \in {Unset, Inherited}

\* A case in which something went wrong with the evidence: its pipeline did not
\* run, what was found is incomplete, some of it is of another case of this
\* walk, or the baseline failed without one finding to explain it.
Untrusted(i) ==
  \/ ~walked[i].ran
  \/ ~walked[i].sound
  \/ ~(walked[i].own \/ walked[i].reused)
  \/ i = 1 /\ walked[i].silent

\* Exit 0 or 1 is a verdict, and no verdict rests on a pipeline that did not run
\* or broke, on a report that is missing or did not parse, or on the evidence of
\* another case.  Where a run directory existed before the walk, files an
\* earlier process left there may stand in for the pipeline's own, and nothing
\* notices: that case is then "reused", and the promise ends there.
NoVerdictOnBadEvidence ==
  pc = "done" /\ exit # 2 => \A i \in DOMAIN walked : ~Untrusted(i)

\* The cases that the summary is to list under a name, and their findings.
CasesNamed(n) ==
  {i \in 2 .. Len(walked) :
     walked[i].hit /\ n = IF walked[i].name = NoName THEN "?" ELSE walked[i].name}

FindingsNamed(n) ==
  LET upTo[k \in 0 .. Len(walked)] ==
        IF k = 0 THEN 0
        ELSE upTo[k - 1] + IF k \in CasesNamed(n) THEN walked[k].findings ELSE 0
  IN upTo[Len(walked)]

\* The grouped summary is exact for each name it lists, also when the table
\* overflowed: a name that was once dropped never enters it later.
GroupsAreExact ==
  pc = "summary" /\ ~trouble /\ ~err =>
    \A n \in DOMAIN groups :
      /\ groups[n].runs = Cardinality(CasesNamed(n))
      /\ groups[n].findings = FindingsNamed(n)

\* Nothing is left in the caller-visible environment of the process unless an
\* unsetenv failed, and then the status is 2.
EnvironmentRestored ==
  pc = "done" /\ walked # <<>> /\ exit # 2 => \A c \in Controls : environ[c] = Unset

\* test-faults ends, or waits for a command that never does.
EndsOrHangs == <>(pc \in {"done", "hung"})

(* commands.md: "walk fault injections until no fault fires".                *)
ExhaustedMeansNoFaultFired ==
  pc = "done" /\ exhausted /\ exit # 2 => ~walked[Len(walked)].hit

-----------------------------------------------------------------------------
\* Every behaviour of test-faults is one of the campaign: the cases are run in
\* order with the right fault armed, and a verdict 0 or 1 is given only for a
\* complete and trusted series, 1 exactly if a counted case has a finding.

Abstract == INSTANCE Campaign WITH
  cases <- walked, verdict <- IF pc = "done" THEN exit ELSE Running

ImplementsCampaign == Abstract!CampaignSpec
=============================================================================
