# Formal models of p101-test

p101-test is a set of five small command-line tools that judge other programs: they run a command
under some disturbance, read back the evidence it left, and give a verdict as an exit status: 0
(clean), 1 (a finding), 2 (trouble: no verdict). What makes such a tool correct is not that it runs
but that **its verdicts are founded**: that 0 and 1 are never given on evidence that is stale,
partial or misread, whatever fails on the way. That is what these modules state, check and prove.

All tools are single-threaded C programs over the p101 wrapper libraries. Every wrapper call may
leave an error in a shared *error object*; it is sticky in most places, optional in some (the
`P101_ERROR_OPTIONAL` calls) and reset in one. The hard behaviour is therefore partial failure:
which steps still run once an error is pending, and what the last step makes of it. Real
concurrency exists in one place, the child that runs beside its polling parent.

## Inventory

| Part | Source | State | Operations | What makes it correct |
|---|---|---|---|---|
| test-faults, the fault walk | `src/main.c`, `cli.c`, `runner.c`, `paths.c` | arguments, error object, environment variables, case number, `struct run_result`, totals, group table | check options; per case: make paths, clear and set the controls, run `p101-inspect run`, read fault log and reports, clear; tally; summary; exit | cases are isolated; no verdict on broken evidence or on another case's; totals are exact; it ends unless the command hangs |
| report reader | `src/resource.c` | buffer, capacity, size, stream | open, grow, read, parse | never writes past the buffer; below its limit parses the whole report (at the limit the code parses the prefix it has) |
| test-mutation, the campaign | `components/mutation/src/main.c`, `candidates.c`, `execution.c`, `output.c` | candidates, results, error object, temporary trees, the report's counts and status | scan, baseline, copy/apply/compile/test/remove per candidate, report or list, judge | a verdict covers every candidate; no survivor is missed; no tree is left; the report agrees with the exit status |
| option parser of test-mutation | `components/mutation/src/cli.c` | words, arguments read so far | one turn per word, check at the end | what is run, and how much of it, is what the line asks for; the test command's words are never read as options |
| command runner of test-mutation | `execution.c` | child, deadline, results | spawn, poll, kill, wait | returns the child's own code; times out only at the deadline; reaps the child and returns, but for a failing kill or waitpid at the deadline, whose errors the code drops |
| project copy of test-mutation | `components/mutation/src/files.c`, `execution.c` | project, temporary directory, the directories of a recursion, the two commands | copy, apply, rewrite paths, drop output options, compile, test, remove | no write falls into the project, links and unknown output words of the programs aside; the compiler reads the mutated file; the test runs in the copy; only what a failed call kept is left |
| test-command-contract | `components/command-contract/src/main.c` | two captures, manifest, two timespecs | run, capture, compare, measure, clean up | clean means the contract held in what was observed; a finding means what was measured broke it; captures are removed |
| conformance | `components/conformance/src/main.c` | tables of APIs and faults, counters | load seven files, validate, write receipt | pass means every API and fault is covered; the receipt agrees with the status |
| repository-receipt | `components/repository-receipt/src/main.c` | paths, records, receipt file | scan, sort, load, judge, write | the receipt lists every result once; it fails exactly for the texts the tool knows as failures |
| libraries, p101-inspect | external | files and a wait status | | a nondeterministic environment |
| wrapper scripts, fuzz harness, tests, build | `test-faults`, `test-mutation`, `fuzz/`, `test/`, CMake files | | | not modelled |

The parts interact through files and exit statuses only: test-faults through the run directory of
one pipeline, the mutation campaign through `p101_mutation_run_command`, repository-receipt and
conformance through files that other tools wrote. Inside test-faults, the walk calls the reader;
inside test-mutation, the command line decides what the campaign does, the campaign makes a copy
per candidate, and campaign and copy call the runner.

The hazards, with the line where each bites and the properties that watch it, are listed in
`PROJECT.json`. Left out of that list, because nothing in the code could be stated about them: wrapper
names that agree in their first `NAME_LEN` characters share a group (`runner.c:259`), and
test-command-contract runs its command without a deadline (`command-contract/src/main.c:562`). The
sum of the two captured sizes is checked for overflow (`command-contract/src/main.c:278`), which two
buffers in one address space cannot cause: the model lets the sum wrap, so `VerdictIsTrue` covers the
check, but it is no hazard of the program.

## Modules

| Module | Models | Composition |
|---|---|---|
| `Campaign` | what a fault walk promises, without files, environment or errors | abstract specification |
| `FaultWalk` | test-faults | implements `Campaign` (`ImplementsCampaign`) |
| `PolicyReader` | `p101_error_path_walk_read_policy_json` | its outcomes are the `file` field of the reports in `FaultWalk` |
| `CommandOutcome` | what the command runner may return | extended by both modules below |
| `RunCommand` | `p101_mutation_run_command` with child and clock | keeps to `CommandOutcome` (`KeepsContract`) |
| `MutationTesting` | what a mutation campaign promises, without files, copies or errors | abstract specification |
| `MutationCampaign` | test-mutation, a candidate being its place in the order | relies on `CommandOutcome` only; implements `MutationTesting` (`ImplementsTesting`) |
| `MutationOptions` | its option parser, as a fold over the words | |
| `TestMutation` | test-mutation as it is called | composes `MutationCampaign` and `MutationOptions` |
| `MutantCopy` | one candidate in detail, on trees of files | relies on `CommandOutcome`; implements the part of `MutationCampaign` between two candidates (`KeepsToCampaign`) |
| `CommandContract` | test-command-contract | |
| `Conformance` | the conformance tool | |
| `RepositoryReceipt` | the repository receipt tool | |
| `MC...` | values of the constants for TLC | |
| `...Proofs` | theorems about the module they are named after; `TestMutationProofs` also holds those about `MutationCampaign` | |

### How state and actions correspond to the code

In every module `pc` is the place in the C function, `err` is "the error object holds an error",
and `exit` or `status` is the exit status, with the value `Running` until it is set. An action is
one call or one block between two calls whose failure the code tells apart. A disjunct or an `\E
fails \in BOOLEAN` is the failure of the calls in that block. Operators whose comment starts with
"Mutant:" are not part of the specifications: they are plausible slips in the definition
that follows them, kept to test the properties.

**FaultWalk.** `ParseArguments`, `CheckArguments` and `ConvertArguments` are `main` and `cli.c`; a
command line is a record of what these checks distinguish. `MakeLogPaths` to `ClearAfter` are
`run_one_case`: the empty result, the paths, `clear_fault_environment`, the controls of the case,
the pipeline, `read_fault_hit`, the two summaries, and the label `done`. `TallyBaseline`,
`TallyFault`, `PrintSummary` and `ResetRunEnvironment` are `p101_error_path_walk_run`. The
environment has six entries: the variables of the code fall into classes that are always treated
alike (`host`, `shape`) or stand for themselves. `World` is one complete outcome of
`p101-inspect run`, external to this repository, in an empty directory: a wait status, a fault log
and two reports. `oldCases` and `Leftover` are run directories that an earlier process with the same
pid left. The code never clears one (`runner.c:380-410`, `paths.c:62-98`), so `RunPipeline` leaves its
files `Beside` any of the old ones that it did not write again, and behind the lines of an old fault log.
`walked` is a history variable: what *really* happened in each case, whether its pipeline `ran`, whether
all that was found is its `own`, and whether its directory was `reused`. The properties compare what the
program concluded with it. They excuse a reused directory: there the code does judge a mixture of old and
new files and cannot tell, and both `NoVerdictOnBadEvidence` and `Campaign` say so.
`P101_RESOURCE_LOG` (`resourceLog`) is not among the variables reset before a case
(`runner.c:502-529`), only at the end of the walk; `CaseIsolated` says of it that no case sets it.

**PolicyReader.** One action per call of the loop in `resource.c`; `capacity`, `used` and the file
size are numbers; `fread` returns any admissible short count.

**RunCommand.** The parent's steps, `ChildEnds`/`ChildDies` and `Tick` interleave freely. A child
that has ended and was not waited for is a `zombie`. After a failed second `clock_gettime` the
code computes with an uninitialised `timespec`: both outcomes of the comparison are possible. The kill
and the waitpid at the deadline take an optional error (`execution.c:510-511`): `Kill` may leave the
child alive and `WaitFails` may leave it unreaped, with no error, and `swallowed` is the history of
that. `ReapedUnlessError` and `Returns` state exactly these exceptions: a child that is left is one of
a timeout whose waitpid failed, and a call that never returns waits, after a refused kill, for a command
that does not end.

**MutationCampaign.** One action per step of `main` and `p101_mutation_execute`. A command is its
outcome, any of `OutcomesGiven(err)`, or does not return (`Waiting`); `tests` and `baseline` are history: what became of the
command. `CopyTree` sets `err` to FALSE, as `files.c` resets the error object at the root. `capacity`
is the room that `--max-mutants` leaves and `report` what `p101_mutation_report_results` printed: it
counts again and computes an exit status of its own. When an error was pending before the
report, that status is 0 or 1 although the process then exits with 2; `ReportAgrees` therefore speaks
of the exit statuses 0 and 1 only.

**MutationOptions and TestMutation.** A line is a sequence of words; `Arguments` is the loop of
`p101_mutation_parse_arguments`, one `Turn` per word, and `IsValid` the check after it. A turn of the
code that takes an option with its value is two turns here, with `awaits` in between. What
`strtoul`, `strtod` and the name tables make of a word is given by constants. `TestMutation` lets the
campaign's `ParseArguments` take the request and the capacity from the line (`ReadsLine`).
`CommandLineObeyed` reads the line a second time, declaratively: where its phrases begin, which
stand before the first `--`, and which count is said last.

**MutantCopy.** A tree is a function from paths (sequences of names) to entries (directory, file,
link, other). There is the project, the temporary directory with the copy in it, and `Elsewhere`: a
directory whose name begins with the project's (the code tells them apart by a prefix of the string) and
the rest of the system. `Enter` and `Real` are `realpath`; a way is `Straight` when no link is on it.
`Place` is where the code looks for a candidate's text, by the string that follows the project's. The two recursions of `files.c`, copying
and removal, are stacks of `frames`, with the names of a directory handed out in any order. A file is
a text and a state (`clean`, `mutated`, `broken`). `Kept` is one turn of the loop that builds the
compile command; `CompilesCandidate` says how the command was found: by the candidate's file, which is one
of its words. `Outputs` are the files that the command which was built makes the compiler write, or that the
test writes; `ProgramWrites` opens one of them, through a link if one stands there (`Opened`), if that
can be opened (`Writable`). An argument `-W` is a word that names an output without the rewriting
knowing it for one, as `-Wp,-MD,a.d` does. These two, the link and the word, are what can still reach the
project: `Strays`, the exception of `ProjectNeverEdited`. `Mistaken` is the exception of
`MutantIsTested`: a candidate of the sibling directory whose text stands at the same place in the project,
which the code edits and tests instead. `Relocatable` is the condition under which a relative
argument means in the copy what it means in the project; where it fails the code does compile the original.
`written`, `fate`, `ran` and `kept` are history.

**CommandContract.** Each run draws a behaviour (how it ended, what it printed, whether it wrote
the manifest, how long it took). `size_t` is arithmetic modulo `SizeModulus`; the timespecs have
`Nanos` nanoseconds per second, so borrow and the split of the budget happen within small numbers. The
second reading of the clock comes after both captures were read back (`main.c:169-182`), so some of the
time measured is the tool's own (`Overheads`): of a time limit `VerdictIsTrue` promises that 0 is true of
the command and 1 of what was measured (`Breached`). The removal of the captures is one unlink at a time,
each of which may fail and is then passed over (`RemoveCapture`).

**Conformance.** The input is a record of the seven files as sequences of rows, each well formed
or `Bad`. One action per loader reads one row; `EndOfFile` also stands for the read error that
looks like it. `Expected` is the inner loop of the fault loader, a table with one entry per symbol.
`Inputs` is a complete set of files and every set with one or two defects. The properties are said of
the files alone and distinguish, where the code does not ask for agreement, *some* row from *every*
row: an API may have several audit rows and several calls, and the last one counts.

**RepositoryReceipt.** `readdir` hands out the entries in any order; `disk` is the receipt file,
`Old` until it is truncated. A status is any text (`Statuses`): the code copies it and knows only `FAIL`
and `MISSING` (`main.c:93-99`), so `VerdictIsEarned` says that 0 is given exactly without these, never that the
tests passed.

## Runs

| Run | Checks | Shows |
|---|---|---|
| `fault_walk` | `TypeOK`, `CaseIsolated`, `NoVerdictOnBadEvidence`, `GroupsAreExact`, `EnvironmentRestored`, `ImplementsCampaign`, `EndsOrHangs` | the walk keeps its cases apart, judges only on complete evidence, its own unless the run directory was there before, and implements the abstract campaign |
| `walk_missed_log` | `ExhaustedMeansNoFaultFired` | violated: a fault log that cannot be opened ends the walk as "exhausted" with status 0 |
| `policy_reader` | `TypeOK`, `InBounds`, `WholeReportParsed`, `Terminates` | the reader at every size around its doublings and its limit |
| `run_command` | `TypeOK`, `KeepsContract`, `CodeIsTheChilds`, `ReapedUnlessError`, `TimeoutIsEarned`, `Returns` | every interleaving of parent, child and clock, with a kill and a waitpid that may fail unnoticed |
| `mutation_campaign` | `TypeOK`, `VerdictIsComplete`, `NoSurvivorMissed`, `FindingsAreReal`, `TreesRemoved`, `ReportAgrees`, `CommandLineObeyed`, `ImplementsTesting` | test-mutation from its command line to its exit status, with every failure of every step: the verdict and the report are founded, the line is obeyed, and the campaign implements the abstract one, and ends unless a command never returns |
| `mutation_lost_test` | `ZeroMeansEveryMutantKilled` | violated: a test command that never ran counts as a killed mutant, and the error is reset |
| `mutant_copy` | `TypeOK`, `MutantIsTested`, `RemovalIsThorough`, `ProjectNeverEdited`, `KeepsToCampaign` | a candidate is applied, compiled and tested in its copy, unless it was mistaken for the project's; the project is written by strays only; and `MutationCampaign` misses no result of it |
| `mutant_missing_test` | `KilledMeansRejected` | violated: a test program that the copy leaves out is not found there, and the mutant counts as killed |
| `command_contract` | `TypeOK`, `VerdictIsTrue`, `VerdictIsFounded`, `NoCaptureLeft` | all modes, with wrapped sums, borrowed seconds, time that is not the command's and unlinks that fail |
| `conformance` | `TypeOK`, `VerdictIsFounded`, `ReceiptAgrees` | every one- and two-defect set of files |
| `conformance_receipt` | `ReceiptNamesItsCounters` | violated: two counters are swapped in the receipt |
| `repository_receipt` | `TypeOK`, `VerdictIsComplete`, `VerdictIsEarned` | every order of the directory, every failing call, texts the tool does not know among the results |

The four violations are real disagreements between the code and what its documents or its own
format string say; `PROJECT.json` quotes both sides.

### Bounds, and why they are enough

* `fault_walk`: two injected cases beside the baseline (first, middle and last case are then
  distinct), one group (so that the table overflows at the second name), 11 outcomes of a
  pipeline: five sound ones, with and without a hit or a finding, and six with one defect; each may
  meet every part of an earlier campaign's directory, whose files are complete, so that each can stand
  in for a missing one. Every variable is inherited (a clean caller differs only until the
  first case has cleared them), and one set of calls fails or none. `Missable` leaves `"faults"` out:
  that failure is the subject of `walk_missed_log`.
* `policy_reader`: initial capacity 3 and limit 14, so the buffer grows twice and the last doubling
  is cut off by the limit; files are up to three bytes larger than the limit.
* `run_command`: a deadline at tick 3, a clock up to 5, a good, a bad and a signal-like exit code.
* `mutation_campaign`: up to three sites for one to three places, so the capacity is exceeded, met and
  not reached. The lines are all those of up to three out of nineteen pieces (an option with a good,
  a bad or a missing value, a separator with and without a command, words that look like options) and
  longer ones that end in a whole run, with two counts, or one operator more than there is room for
  (`MaxOperators` is 1). `WordsOK`: an output format, a bad format, an unknown option and an option of the
  tool's own are different words, and no word is the null pointer.
* `mutant_copy`: one candidate in some two dozen cases, a plain one and one for each way the code treats
  a project or a command differently: a text that changed since the scan, a candidate in an ignored
  directory, in the sibling (once mistaken for the project's), outside; compilation from an ignored directory, from outside, through an
  absolute and a relative link, and through a relative link to a directory with an absolute one;
  outputs in the project, with and without a dependency file there already, in an option that is dropped
  or in a word that is kept; links where the compiler or the test writes, which lead to another file of
  the copy, to a file of the project or to a place in it where there is none; a test program found by a
  search, or left out of the copy. No link leads to or through another link (`LinksOK`); a test
  writes one file, `out` in its working directory; what lies outside the project and the copy
  (`Elsewhere`) does not change. `CandidatesOK`: the project has no link on the way to a candidate, whose
  path comes from `realpath` (`candidates.c:124`), nor on the way to where the code looks for one of the
  sibling. Up to two calls fail in
  one removal (`MaxKept`), so a failure may have neighbours at the same and at another level; none in
  `mutant_missing_test`.
* `command_contract`: sizes modulo 8, budgets up to twice the modulus; four nanoseconds per second, and up
  to two of them that are the tool's own in a measured run (`MaxOverhead`).
* `conformance`: two APIs, two faults of the platform and one of another; arrays of three APIs and
  four faults. Two defects at once are what it takes for one to hide the other. The defects include
  a fault listed twice, an API tested for faults that is never called, and audit rows that disagree.
* `repository_receipt`: up to four files for three places, of which at most two are not clean results; a
  text beside `PASS`, `FAIL` and `MISSING` stands for all the others.

### Fairness

`FaultWalk`, `PolicyReader`, `MutationCampaign` and `TestMutation` assume weak fairness of the program's own next
step: a single thread that is not blocked goes on. The end of a command is not part of that
assumption: in `FaultWalk` a pipeline that never ends is the action `PipelineHangs`, and
`EndsOrHangs` says that this is the only way not to end. In `MutationCampaign` a command that is under
way is excluded from the fairness (`WF_vars(Step /\ ~Waiting)`): it may never return. `RunCommand`
says when: `Returns` holds under weak fairness of the parent, of the clock and of the
delivery of a `SIGKILL` that was accepted, never of the child's own end, and its only exception is a kill
that was refused. So `ImplementsTesting` says that a campaign ends with a verdict, which is the
fairness of `MutationTesting` (`TestingEnds`), or waits for a command for ever. The other modules claim no
liveness: `CommandContract` may hang with its command, `MutantCopy` walks finite trees, the remaining
two are loops over finite files.

## Theorems

Proved by TLAPS for every value of the constants, under the named assumptions of the modules
(`ConstantsOK`, `TimesOK`, `CodesOK`, `LimitsOK`, `OptionsOK`, `WordsOK`, those of `PolicyReader`, and of
`MutantCopy` `NamesOK`, `CasesOK`, `CandidatesOK` and `LinksOK`, see Bounds). In
`CommandContract` the assumption says that the values a command line may give to a mode are what its
parser can make of a word (`Readings`), in `Conformance` only what the rows of the files are.

* **`FaultWalkProofs`.** `TypeCorrectness`; `Isolation` (`CaseIsolated`); `Restoration`
  (`EnvironmentRestored`); `VerdictOnEvidence` (`NoVerdictOnBadEvidence`). The last is the central
  claim of the tool, and it does not reach further than the code: evidence that an earlier process left in
  a reused run directory is excepted. It is not inductive: between the start of a pipeline and the tally, a case
  may be worthless without any trace in the totals. The strengthening `TrustInv` says what the
  program knows meanwhile: `OwnDirectory` (a directory that is not reused is empty when its pipeline
  starts), `CurrentKnown` (the result has the status of the pipeline, and a
  pipeline that did not start is not acceptable), `LogRead` and `ReportsRead` (without an error,
  what was read is what is there), `Counting` (one case per index, which makes "baseline" the same
  thing in the code and in the history) and `UntrustedExcused` (every worthless case but the
  current one has already caused an error, trouble or status 2). The theorem assumes
  `"faults" \notin Missable`, and needs it: without it the claim is false.
* **`FaultWalkProofs`, the series.** `Implementation` (`ImplementsCampaign`) and `ExactGroups`
  (`GroupsAreExact`), under the same assumption. `CampaignInv` adds to `TrustInv` what the walk knows
  of its series: `CurrentSeen` and `HitKnown` (the history, the run directory and the result tell the same of
  the current case), `AllHit` (only a fault that fired is followed by another case),
  `FindingsCounted` and `GroupsCounted` (the totals are those of the cases tallied so far; a name
  without a group was dropped when the table was full, and the table never shrinks, so its group
  cannot appear later with the earlier cases missing) and `Closed` (the walk ends after the last case or
  the first without a hit, and its status is the judgement). A start of a pipeline is then `RunCase` of
  `Campaign`, the last step is `Judge`, `GiveHelp` or `GiveUp`, and every other step stutters. The sum
  of a group is carried as a table of partial sums (`Sums`), which a minimal counterexample shows to
  be the recursive one of `FindingsNamed`.
* **`PolicyReaderProofs`.** `TypeCorrectness`, `BufferSafety`, `EmptyReadIsTheEnd`, `WholeReport`,
  from one inductive invariant about capacity, used bytes and what is left of the file, for every
  capacity, limit and size. `WholeReport` is about reports below the limit and without a pending error: at
  the limit the code parses the prefix it has read.
* **`RunCommandProofs`.** `TypeCorrectness`, `Contract`, `OwnCode`, `NoChildLeft`, `FairDeadline`.
  The strengthening `IInv` relates the place of the parent to the state of the child (attended from
  spawn to return) and the signal to the deadline. `NoChildLeft` carries the exception of the
  two calls whose errors are dropped: a child may be left after a timeout. `Contract` is what makes it sound to let
  `MutationCampaign` know a command by `CommandOutcome` alone.
* **`TestMutationProofs`, the campaign.** `TypeCorrectness`, `Completeness` (`VerdictIsComplete`; a
  test the tool lost sight of counts as begun and not cut short, see `mutation_lost_test`),
  `NoneMissed` (`NoSurvivorMissed`), `RealFindings` (`FindingsAreReal`), `Removal`
  (`TreesRemoved`) and `Reporting` (`ReportAgrees`). What the properties
  say of the last state is built up over the whole campaign, and `IInv` says how: `Scanned` (what
  was kept of what was seen; a scan without error has seen everything), `Founded` (a baseline that
  passed precedes all work), `Counted` (one test per candidate begun, one result per candidate
  completed, at every place of the loop), `Matched` (each result agrees with what really became of
  its test), `Trees` (whose directory exists) and `Decided` (the exit status is 2 until the
  judgement, and a verdict on `count` results after it). `ReportKept` adds that at
  the judgement, and after it unless the exit status is 2, the report is the one counted from the results.
* **`TestMutationProofs`, the refinement.** `Simulation`: every behaviour of `MutationCampaign` takes only the
  steps of `MutationTesting`, each step of the code being a step of the abstract campaign or a
  stutter. Three facts are needed beside `IInv`: `Opened` (the request is
  read first and no baseline has run before it is due), `Answered` (from then on there is an exit status, and
  a misuse keeps 2) and `Blamed` (a result is inconclusive only when its test did not run or was cut
  short; what makes the abstract judgement on fates the code's judgement on results).
* **`TestMutationProofs`, as it is called.** `Conducts`: test-mutation, with its command line, is a campaign. With it
  every theorem above holds of the tool as it is called, for every line and every table of words;
  `AsCalled` states the guarantees of the exit status and of the report.
* **`TestMutationProofs`, the command line.** `Obedience` (`CommandLineObeyed`). Its core is an induction
  over the words: `ReadTo` says what the parser knows after `i` words in terms of the declarative reading.
  `Positioned` ties `awaits`, `atTest` and the test command to where phrases begin and the first
  `--` stands, `AcceptedTo` says that the phrases so far are fine, and `Tallied` that the project, the database,
  the operators, the list flag and the count are those said so far (`Given`, whose values have been read).
  Once the parser has stopped, the whole line is not well formed, whatever follows. `FoldExists`
  turns the fold of the library into the loop of the code, `LoopRuns`, state by state. `WordsOK` is needed:
  without it one word could be an option to the loop and a refused word to the reader. `Obedient`
  carries the request through the campaign.
* **`RepositoryReceiptProofs`.** `TypeCorrectness`, `Completeness` (`VerdictIsComplete`), `Earned`
  (`VerdictIsEarned`: which texts pass and which fail, for any set of texts). `IInv` follows the results from the directory to the receipt: `Collected`
  (the paths are those of the names read so far, each once), `Loaded` (one record per path that was
  sorted), `Whole` and `Answered` (what the file on the disk says, and the status). The sort is the
  hard part: `InsertPath` moves one path down, and the lemmas say where every element of the
  sequence goes, that it stays a permutation and that the prefix is in order.
* **`CommandContractProofs`.** `TypeCorrectness`, `Foundation` (`VerdictIsFounded`),
  `CapturesRemoved` (`NoCaptureLeft`), `Truth` (`VerdictIsTrue`). `CapturesRemoved` rests on `Removing`:
  what is left is a file whose turn has not come or whose own unlink failed. What makes `Truth` worth a proof is
  the arithmetic: `BudgetIsExact` (a sum modulo `SizeModulus` that is smaller than a summand, or larger
  than the budget, is what exceeds the budget in the integers) and `LimitIsExact` (seconds and
  nanoseconds with their borrow, compared with a limit in milliseconds, are the comparison of the two
  durations), for every modulus and every number of nanoseconds that is a multiple of the
  milliseconds. `Timed` says no more of the two readings of the clock than that they are at least as far apart
  as the command ran.
* **`ConformanceProofs`.** `TypeCorrectness`, `Foundation` (`VerdictIsFounded`), `Agreement`
  (`ReceiptAgrees`). `IInv` is `Typed`, `Ended` (where the statuses come from) and `Described`: while
  no error is pending, every table is what the rows read so far make of it. Each file has its part
  of `Described`: the APIs are the rows (`ApisAt`), a flag is set by exactly one row
  (`TestsAt`, `ContractsAt`), what the audit and the calls left is that of the last row that spoke of it
  (`TracesAt`, `CallsAt`), the expected faults are in order those of the platform (`FaultsAt`, with a
  witness that names row and symbol for each entry), and each outcome has marked the first entry it
  matches (`OutcomesAt`). The end of the file makes the part a statement about the whole file, and the
  verdict follows from all seven. The attempt to prove an earlier form of `FailMeansGap` failed for three
  good reasons: a failure was also the answer to a fault listed twice, to an API that is tested for
  faults but neither traced nor called, and to audit rows that disagree about tracing. TLC shows all three
  on inputs that the runs had not had; the property now says what the code does, and the runs have
  those inputs.

* **`MutantCopyProofs`, the trees.** `TypeCorrectness` (`TypeOK`), `Thoroughness` (`RemovalIsThorough`),
  `Refinement` (`KeepsToCampaign`). `CopyInv` holds the types (`Placed`), where the tops of the trees are
  (`Rooted`), that the recursions are in directories that exist and list entries that exist
  (`Copying`, `Removing`), that the copy has the kinds and the links of the project (`Mirrored`) and that
  whatever is there during the removal will be visited, is being visited or has a reason to stay
  (`Unvisited`). A frame is the way to the one above it, so an entry is below exactly one frame's
  list; that is what lets a directory be left. With `Reset` (the copy begins by resetting the error)
  every step is, for `MutationCampaign`, one of its steps or none.
* **`MutantCopyProofs`, the project.** `Untouched` (`ProjectNeverEdited`). `Unedited` says that the compiler
  does not work in the project. With it, `ProgramStrays` finds every write of a program outside the project
  or among the strays: an output in the working directory is in the copy unless it is a link, one named in an
  option has been dropped (`OutputsDropped`), and one named in an unknown word is a stray. It rests on where `realpath` leads: a way that is followed name by name from
  a place not behind a link never ends behind one (`RealKeeps`), and in the copy a way without
  links leads to itself or nowhere (`CopyHolds`).
* **`MutantCopyProofs`, the mutant.** `TestedMutant` (`MutantIsTested`). `Faithful` follows the copy: only
  what is to be copied is visited (`Chosen`), nothing else is in the copy (`NothingElse`), everything is
  there or due (`AllThere`), the text was where the scan had seen it (`Found`), the compile command names
  the candidate's file (`Commanded`), and once the compiler has run the copy is that but for what it
  wrote (`Compiled`); all of it unless the candidate is `Mistaken`. That the compiler is given the
  mutant (`ReadsMutant`) needs
  two walks of `realpath` side by side, one in the project and one in the copy (`SameWay`): as
  long as no absolute link is met, each is at the other's place or the one in the copy has come to
  nothing, which the compiler would have refused. The proof corrected the property twice.
  `Relocatable` looked at the links on the way as it is written, and missed a relative link that leads to a
  directory with an absolute one: there the compiler reads the original. And with `-MD` the compiler may
  leave, or overwrite, dependency files in the copy, so these are not the project's (`written`). `mutant_copy`
  has a case for each, and TLC refutes the earlier form.

Well-founded induction is within reach although the induction theorems of the library are not: a
minimal counterexample, from the library's theorem that every non-empty set of naturals has a least
element with respect to `<`. It is used for `First`, for the sort, for the recursive tables of
`Expected` and `FindingsNamed`, for the recursive functions of `Real`, `CompileArguments` and `Begins`,
and for the fold of `Arguments`.

Every safety invariant of a passing run has a theorem. Only model-checked: the liveness properties (out of
the prover's reach; the liveness half of `ImplementsTesting` among them).

## Not modelled

The p101 libraries, `p101-inspect` and the compiler are external and appear only as
nondeterministic outcomes. Texts, paths and formats are left out unless a property is about them.
The wrapper scripts, the fuzz harness, the tests and the build have no behaviour of their own.
Of the descendants of a killed command `MutantCopy` knows that they may still write one file into the copy
(`StragglerWrites`); what else they do is not modelled. In `MutantCopy` a file's bytes are one text and a state:
that the original text is at its place is tested, the splice is not done byte by byte. A failed
allocation of the compile command, which the code follows with a store through the null pointer
(`execution.c:402`), is treated like every other failed allocation.

## Plan

1. Done: the fault walk, its abstract campaign and its reader; the command runner and the mutation
   campaign; the three other tools; first theorems.
2. Done: the project copy (`MutantCopy`) and the command line (`MutationOptions`, `TestMutation`).
3. Done: the abstract mutation campaign and the proof that the campaign implements its steps.
4. Done: the theorems about the three smaller tools, the sort and the arithmetic among them.
5. Done: the fault walk implements its campaign, and its summary is exact.
6. Done: the theorems about the project copy.
7. Done: the theorem about the command line. Left to TLC: liveness.
