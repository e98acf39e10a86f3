--------------------------- MODULE CommandContract ---------------------------
(***************************************************************************)
(* test-command-contract: run a command once or twice with its two output   *)
(* streams captured in files named after the tool's pid, and judge what was *)
(* seen against the contract of the selected mode.  The values of the       *)
(* command line are only read after the command has run.                    *)
(*                                                                         *)
(* What the command does is not known: each run draws a behaviour.  The     *)
(* effect manifest is a file of the command; it outlives a run that does    *)
(* not write it.  size_t wraps at SizeModulus, and the two timespecs are    *)
(* read from one monotonic clock.                                           *)
(***************************************************************************)
EXTENDS Integers, Sequences, FiniteSets

CONSTANTS
  Behaviours,     \* per mode, what a run of the command may do
  Values,         \* per mode, the values on the command line
  SizeModulus,    \* SIZE_MAX + 1
  Nanos,          \* nanoseconds in a second
  Millis,         \* milliseconds in a second
  Overheads,      \* bound: what of a timed run is not the command's, in nanoseconds
  MaxStart        \* bound: the clock at the start of a timed run

Modes == {"determinism", "redaction", "output-limit", "time-limit", "recovery",
          "schema-compatibility", "side-effect-determinism"}

Twice == {"determinism", "side-effect-determinism"}

\* A value that does not parse, the empty probe, and no value at all.
Garbled == -1
Empty   == -2
Missing == -3

\* A captured stream: which bytes, how many, and is the probe among them.
Stream == [bytes : STRING, size : 0 .. SizeModulus - 2, probe : BOOLEAN]

Unwritten == "unwritten"

\* One run: a signal or an exit status, the two streams, what was written to
\* the manifest, and how long it took in nanoseconds.
Behaviour == [signalled : BOOLEAN, code : 0 .. 255, out : Stream, error : Stream,
              manifest : STRING, lasts : Nat]

\* How a mode can come to see its value: a limit or a status is read as a number
\* or does not parse, a probe may be empty, a path is taken as it stands.
Readings(m) ==
  Nat \cup (CASE m = "redaction" -> {Empty}
              [] m \in {"determinism", "side-effect-determinism"} -> {}
              [] OTHER -> {Garbled})

ASSUME ConstantsOK ==
  /\ Behaviours \in [Modes -> SUBSET Behaviour]
  /\ \A m \in Modes : Values[m] \subseteq Readings(m)
  /\ SizeModulus \in Nat \ {0, 1}
  /\ Millis \in Nat \ {0} /\ Nanos \in Nat \ {0} /\ Nanos % Millis = 0
  /\ Overheads \subseteq Nat /\ MaxStart \in Nat

VARIABLES
  mode, value,  \* the command line
  pc, err, status,
  run,          \* the run at work
  clock,        \* CLOCK_MONOTONIC in nanoseconds
  started, finished, \* the timespecs
  captures,     \* struct run_capture of run 1 and run 2
  manifest,     \* the manifest file
  effects,      \* what was read of it after run 1 and run 2
  files,        \* the capture files that exist
  removals,     \* how many of the unlinks at the end have been tried
  stuck,        \* history: the files an unlink failed on
  runs          \* history: what the command did

vars == <<mode, value, pc, err, status, run, clock, started, finished, captures, manifest,
          effects, files, removals, stuck, runs>>

request == <<mode, value>>
ending  == <<removals, stuck>>
disk    == <<files, ending>>
times   == <<clock, started, finished>>

Running == 3

\* The capture files, in the order they are removed in.
CaptureFiles == <<<<2, "stdout">>, <<2, "stderr">>, <<1, "stdout">>, <<1, "stderr">>>>

FilesOf(r) == {<<r, "stdout">>, <<r, "stderr">>}

Timespec(t) == [sec |-> t \div Nanos, nsec |-> t % Nanos]

Nothing == [bytes |-> "", size |-> 0, probe |-> FALSE]

\* struct run_capture before the run.
NoCapture == [read |-> FALSE, signalled |-> FALSE, code |-> 0, out |-> Nothing, error |-> Nothing]

Init ==
  /\ mode \in Modes
  /\ value \in Values[mode] \cup {Missing}
  /\ pc = "parse" /\ err = FALSE /\ status = Running
  /\ run = 1
  /\ clock \in 0 .. (IF mode = "time-limit" THEN MaxStart ELSE 0)
  /\ started = Timespec(0) /\ finished = Timespec(0)
  /\ captures = [r \in 1 .. 2 |-> NoCapture]
  /\ manifest \in (IF mode = "side-effect-determinism" THEN {Unwritten, "old"} ELSE {Unwritten})
  /\ effects = <<>>
  /\ files = {} /\ removals = 0 /\ stuck = {}
  /\ runs = <<>>

-----------------------------------------------------------------------------
\* Mutant: a mode is accepted without its value.
ParseWithoutValue ==
  /\ pc = "parse"
  /\ pc' = "prefix"
  /\ UNCHANGED <<request, err, status, run, times, captures, manifest, effects, disk, runs>>

\* Options, mode, value, "--" and the command; only determinism takes no value.
ParseArguments ==
  /\ pc = "parse"
  /\ \/ /\ (value = Missing) = (mode = "determinism")
        /\ pc' = "prefix"
        /\ UNCHANGED err
     \/ /\ err' \in BOOLEAN
        /\ pc' = "clean up"
  /\ UNCHANGED <<request, status, run, times, captures, manifest, effects, disk, runs>>

\* The file name prefix, and for a timed run the first reading of the clock.
MakePrefix ==
  /\ pc = "prefix"
  /\ \/ /\ started' = IF mode = "time-limit" THEN Timespec(clock) ELSE started
        /\ pc' = "run"
        /\ UNCHANGED err
     \/ /\ err' \in BOOLEAN
        /\ pc' = "clean up"
        /\ UNCHANGED started
  /\ UNCHANGED <<request, status, run, clock, finished, captures, manifest, effects, disk, runs>>

\* The command runs to its end, however long that takes ...
RunCommand ==
  /\ pc = "run"
  /\ \E b \in Behaviours[mode] :
       /\ runs' = Append(runs, b)
       /\ manifest' = IF b.manifest = Unwritten THEN manifest ELSE b.manifest
       /\ clock' = clock + b.lasts
       /\ \E fails \in BOOLEAN : err' = (err \/ fails)
  /\ files' = files \cup FilesOf(run)
  /\ pc' = IF err' THEN "clean up" ELSE "read"
  /\ UNCHANGED <<request, status, run, started, finished, captures, effects, ending>>

\* ... which may be for ever ...
CommandHangs ==
  /\ pc = "run"
  /\ files' = files \cup FilesOf(run)
  /\ pc' = "hung"
  /\ UNCHANGED <<request, err, status, run, times, captures, manifest, effects, ending, runs>>

\* ... or the tool cannot run it; it may have made both files, one or none by then.
CommandNotRun ==
  /\ pc = "run"
  /\ err' = TRUE
  /\ \E made \in SUBSET FilesOf(run) : files' = files \cup made
  /\ pc' = "clean up"
  /\ UNCHANGED <<request, status, run, times, captures, manifest, effects, ending, runs>>

Seen(b) == [read |-> TRUE, signalled |-> b.signalled, code |-> b.code, out |-> b.out,
            error |-> b.error]

AfterRun == CASE mode = "time-limit" -> "stop clock"
              [] mode = "side-effect-determinism" -> "manifest"
              [] mode = "determinism" /\ run = 1 -> "again"
              [] OTHER -> "judge"

\* Mutant: the captures are compared whether or not they could be read.
ReadUnchecked ==
  /\ pc = "read"
  /\ captures' \in {captures, [captures EXCEPT ![run] = Seen(runs[run])]}
  /\ pc' = AfterRun
  /\ UNCHANGED <<request, err, status, run, times, manifest, effects, disk, runs>>

\* Both capture files are read; a short read fails without an error.
ReadCaptures ==
  /\ pc = "read"
  /\ \/ /\ captures' = [captures EXCEPT ![run] = Seen(runs[run])]
        /\ pc' = AfterRun
        /\ UNCHANGED err
     \/ /\ err' \in BOOLEAN
        /\ pc' = "clean up"
        /\ UNCHANGED captures
  /\ UNCHANGED <<request, status, run, times, manifest, effects, disk, runs>>

\* The clock is read again when both captures have been read back: that, and what
\* it took to start the command, is part of the time measured.
StopClock ==
  /\ pc = "stop clock"
  /\ \E lag \in Overheads : clock' = clock + lag
  /\ \/ /\ finished' = Timespec(clock')
        /\ pc' = "judge"
        /\ UNCHANGED err
     \/ /\ err' = TRUE
        /\ pc' = "clean up"
        /\ UNCHANGED finished
  /\ UNCHANGED <<request, status, run, started, captures, manifest, effects, disk, runs>>

\* The manifest is read after each run; there may be none.
ReadManifest ==
  /\ pc = "manifest"
  /\ \/ /\ manifest # Unwritten
        /\ effects' = Append(effects, manifest)
        /\ pc' = IF run = 1 THEN "again" ELSE "judge"
        /\ UNCHANGED err
     \/ /\ err' \in BOOLEAN
        /\ pc' = "clean up"
        /\ UNCHANGED effects
  /\ UNCHANGED <<request, status, run, times, captures, manifest, disk, runs>>

RunAgain ==
  /\ pc = "again"
  /\ run' = 2
  /\ pc' = "run"
  /\ UNCHANGED <<request, err, status, times, captures, manifest, effects, disk, runs>>

-----------------------------------------------------------------------------
(* The verdict.                                                              *)

CapturedEqual(a, b) == a.size = b.size /\ (a.size > 0 => a.bytes = b.bytes)

SameCaptures ==
  /\ captures[1].signalled = captures[2].signalled /\ captures[1].code = captures[2].code
  /\ CapturedEqual(captures[1].out, captures[2].out)
  /\ CapturedEqual(captures[1].error, captures[2].error)

OverBudget ==
  LET total == (captures[1].out.size + captures[1].error.size) % SizeModulus
  IN total < captures[1].out.size \/ total > value

MaximumNanos == (value % Millis) * (Nanos \div Millis)

\* Mutant: no second is borrowed when the nanoseconds go below zero.
ExceededWithoutBorrow ==
  LET seconds == finished.sec - started.sec
      nanos   == finished.nsec - started.nsec
  IN \/ seconds > value \div Millis
     \/ seconds = value \div Millis /\ nanos > MaximumNanos

Exceeded ==
  LET borrow  == finished.nsec < started.nsec
      seconds == finished.sec - started.sec - (IF borrow THEN 1 ELSE 0)
      nanos   == finished.nsec - started.nsec + (IF borrow THEN Nanos ELSE 0)
  IN \/ seconds < 0
     \/ seconds > value \div Millis
     \/ seconds = value \div Millis /\ nanos > MaximumNanos

Representable ==
  CASE mode = "redaction" -> value # Empty
    [] mode = "output-limit" -> value # Garbled /\ value % SizeModulus = value
    [] mode = "time-limit" -> value # Garbled
    [] mode \in {"recovery", "schema-compatibility"} -> value # Garbled /\ value <= 255
    [] OTHER -> TRUE

Broken ==
  CASE mode = "determinism" -> ~SameCaptures
    [] mode = "side-effect-determinism" -> ~SameCaptures \/ effects[1] # effects[2]
    [] mode = "redaction" -> captures[1].out.probe \/ captures[1].error.probe
    [] mode = "output-limit" -> OverBudget
    [] mode = "time-limit" -> Exceeded
    [] OTHER -> captures[1].signalled \/ captures[1].code # value

\* A finding that cannot be printed is trouble.
Judge ==
  /\ pc = "judge"
  /\ \/ /\ ~Representable
        /\ err' = TRUE
        /\ status' = 2
     \/ /\ Representable
        /\ \/ status' = (IF Broken THEN 1 ELSE 0) /\ UNCHANGED err
           \/ Broken /\ status' = 2 /\ err' = TRUE
  /\ pc' = "clean up"
  /\ UNCHANGED <<request, run, times, captures, manifest, effects, disk, runs>>

\* Mutant: the removal ends at the first unlink that fails.
RemoveCaptureUntilOneFails ==
  /\ pc = "clean up" /\ removals < 4
  /\ LET file == CaptureFiles[removals + 1]
     IN \/ /\ files' = files \ {file}
           /\ removals' = removals + 1
           /\ UNCHANGED stuck
        \/ /\ file \in files
           /\ stuck' = stuck \cup {file}
           /\ removals' = 4
           /\ UNCHANGED files
  /\ UNCHANGED <<request, pc, err, status, run, times, captures, manifest, effects, runs>>

\* The label "done": the files of both runs are unlinked one after the other,
\* whether there are any or not.  The error of an unlink is optional: a file it
\* fails on stays, and the next one is tried.
RemoveCapture ==
  /\ pc = "clean up" /\ removals < 4
  /\ removals' = removals + 1
  /\ LET file == CaptureFiles[removals + 1]
     IN \/ files' = files \ {file} /\ UNCHANGED stuck
        \/ file \in files /\ stuck' = stuck \cup {file} /\ UNCHANGED files
  /\ UNCHANGED <<request, pc, err, status, run, times, captures, manifest, effects, runs>>

\* A path out that set no status leaves it at EXIT_TROUBLE.
Return ==
  /\ pc = "clean up" /\ removals = 4
  /\ status' = IF err \/ status = Running THEN 2 ELSE status
  /\ pc' = "done"
  /\ UNCHANGED <<request, err, run, times, captures, manifest, effects, disk, runs>>

Finished == pc \in {"done", "hung"} /\ UNCHANGED vars

Next ==
  \/ ParseArguments \/ MakePrefix \/ RunCommand \/ CommandHangs \/ CommandNotRun
  \/ ReadCaptures \/ StopClock \/ ReadManifest \/ RunAgain \/ Judge
  \/ RemoveCapture \/ Return \/ Finished

Spec == Init /\ [][Next]_vars

-----------------------------------------------------------------------------
(* Properties. *)

\* The types, and that past the parser the value the mode needs is there.
TypeOK ==
  /\ mode \in Modes /\ value \in Values[mode] \cup {Missing}
  /\ pc \in {"parse", "prefix", "run", "read", "stop clock", "manifest", "again", "judge",
             "clean up", "done", "hung"}
  /\ pc \in {"run", "read", "judge"} => (value = Missing) = (mode = "determinism")
  /\ err \in BOOLEAN /\ status \in {0, 1, 2, Running}
  /\ run \in 1 .. 2 /\ removals \in 0 .. 4
  /\ files \subseteq FilesOf(1) \cup FilesOf(2) /\ stuck \subseteq FilesOf(1) \cup FilesOf(2)
  /\ clock \in Nat
  /\ started \in [sec : Nat, nsec : 0 .. Nanos - 1]
  /\ finished \in [sec : Nat, nsec : 0 .. Nanos - 1]
  /\ Len(runs) <= 2 /\ Len(effects) <= 2

\* The contract of the mode, said of what the command did and in unbounded
\* arithmetic.  Of the manifest the contract is about what the file holds after
\* each run: a run that does not write it leaves what was there.
SameRuns ==
  /\ runs[1].signalled = runs[2].signalled /\ runs[1].code = runs[2].code
  /\ runs[1].out.size = runs[2].out.size /\ runs[1].error.size = runs[2].error.size
  /\ runs[1].out.size > 0 => runs[1].out.bytes = runs[2].out.bytes
  /\ runs[1].error.size > 0 => runs[1].error.bytes = runs[2].error.bytes

Holds ==
  CASE mode = "determinism" -> SameRuns
    [] mode = "side-effect-determinism" ->
         SameRuns /\ runs[2].manifest \in {Unwritten, effects[1]}
    [] mode = "redaction" -> ~runs[1].out.probe /\ ~runs[1].error.probe
    [] mode = "output-limit" -> runs[1].out.size + runs[1].error.size <= value
    [] mode = "time-limit" -> runs[1].lasts * Millis <= value * Nanos
    [] OTHER -> ~runs[1].signalled /\ runs[1].code = value

\* The time between the two readings of the clock.
Elapsed == clock - (started.sec * Nanos + started.nsec)

\* What was seen to break the contract: of a timed run it is the time measured,
\* the tool's own work included, that is over the limit.
Breached == IF mode = "time-limit" THEN Elapsed * Millis > value * Nanos ELSE ~Holds

\* 0 is said only of a command that kept the contract in every run.  1 is said
\* only when it was broken; under a time limit that is said of the time measured,
\* so that 1 can meet a command that ended just within its limit.
VerdictIsTrue ==
  pc = "done" => /\ status = 0 => Holds /\ ~Breached
                 /\ status = 1 => Breached

\* A verdict needs every run the mode calls for, none beyond them, and each
\* one's output read to the end; an impossible value is never a verdict.
VerdictIsFounded ==
  pc = "done" /\ status # 2 =>
    /\ Len(runs) = IF mode \in Twice THEN 2 ELSE 1
    /\ \A r \in DOMAIN runs : captures[r] = Seen(runs[r])
    /\ value \notin {Garbled, Empty}

\* Captured output is not left behind, whichever way the tool ends and however
\* many of the runs got as far as making their files, unless it could not be
\* removed; one that cannot be removed does not keep the others.
NoCaptureLeft == pc = "done" => files \subseteq stuck
=============================================================================
