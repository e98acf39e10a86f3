----------------------------- MODULE RunCommand -----------------------------
(***************************************************************************)
(* p101_mutation_run_command of execution.c: spawn a command, poll for its  *)
(* end, kill it at the deadline.  The parent, the child and the clock run   *)
(* concurrently: the child may end between any two steps of the parent, and *)
(* any time may pass between them.  The kill and the wait at the deadline   *)
(* are best effort: their errors are swallowed.                             *)
(***************************************************************************)
EXTENDS CommandOutcome

CONSTANTS
  Timeout,  \* the deadline, in ticks after the start
  MaxTime   \* bound: the clock stops here

ASSUME TimesOK == Timeout \in Nat \ {0} /\ MaxTime \in Nat /\ Timeout <= MaxTime

VARIABLES
  pending,   \* the error object held an error at the call
  pc,        \* where the parent stands
  err,       \* the error object holds an error
  clock,     \* ticks since the spawn
  child,     \* "none", "running", "zombie" (ended, not waited for), "reaped"
  exitCode,  \* the status the child ended with, or NoCode
  exitTime,  \* when the child ended by itself
  killed,    \* SIGKILL was sent
  swallowed, \* history: which of the calls at the deadline failed unnoticed
  started,   \* the start of the interval was read from the clock
  timedOut, code \* the results

vars == <<pending, pc, err, clock, child, exitCode, exitTime, killed, swallowed, started,
          timedOut, code>>

signal == <<killed, swallowed>>

Init ==
  /\ pc = "arguments"
  /\ pending \in BOOLEAN /\ err = pending
  /\ clock = 0
  /\ child = "none" /\ exitCode = NoCode /\ exitTime = 0
  /\ killed = FALSE /\ swallowed = {}
  /\ started = FALSE
  /\ timedOut = FALSE /\ code = NoCode

\* The arguments for "sh -c" may not be built; a pending error is as bad.
BuildArguments ==
  /\ pc = "arguments"
  /\ \E fails \in BOOLEAN : err' = (err \/ fails)
  /\ pc' = IF err' THEN "done" ELSE "spawn"
  /\ UNCHANGED <<pending, clock, child, exitCode, exitTime, signal, started, timedOut, code>>

Spawn ==
  /\ pc = "spawn"
  /\ \/ /\ err' = TRUE
        /\ pc' = "done"
        /\ UNCHANGED child
     \/ /\ child' = "running"
        /\ pc' = "start"
        /\ UNCHANGED err
  /\ UNCHANGED <<pending, clock, exitCode, exitTime, signal, started, timedOut, code>>

ReadStart ==
  /\ pc = "start"
  /\ started' \in BOOLEAN
  /\ err' = ~started'
  /\ pc' = "poll"
  /\ UNCHANGED <<pending, clock, child, exitCode, exitTime, signal, timedOut, code>>

\* Mutant: the wait status is returned as it is, not decoded.
PollRawStatus ==
  /\ pc = "poll"
  /\ child = "zombie"
  /\ child' = "reaped"
  /\ code' = exitCode * 256
  /\ pc' = "done"
  /\ UNCHANGED <<pending, err, clock, exitCode, exitTime, signal, started, timedOut>>

\* Mutant: the result is taken from the status whether or not it was stored.
PollTrustingStatus ==
  /\ pc = "poll"
  /\ code' = IF exitCode = NoCode THEN 0 ELSE exitCode
  /\ child' = IF child = "zombie" THEN "reaped" ELSE child
  /\ pc' = "done"
  /\ UNCHANGED <<pending, err, clock, exitCode, exitTime, signal, started, timedOut>>

\* waitpid with WNOHANG: the child, an error, or nothing yet.  A pending error
\* ends the loop, but not before a child that has ended is reported.
Poll ==
  /\ pc = "poll"
  /\ \/ /\ child = "zombie"
        /\ child' = "reaped"
        /\ code' = exitCode
        /\ pc' = "done"
        /\ UNCHANGED err
     \/ /\ err' = TRUE
        /\ pc' = "done"
        /\ UNCHANGED <<child, code>>
     \/ /\ child = "running"
        /\ pc' = IF err THEN "done" ELSE "clock"
        /\ UNCHANGED <<err, child, code>>
  /\ UNCHANGED <<pending, clock, exitCode, exitTime, signal, started, timedOut>>

\* Mutant: the deadline is compared with one tick to spare.
CheckClockEarly ==
  /\ pc = "clock"
  /\ pc' = IF clock + 1 >= Timeout THEN "kill" ELSE "sleep"
  /\ timedOut' = (pc' = "kill")
  /\ UNCHANGED <<pending, err, clock, child, exitCode, exitTime, signal, started, code>>

\* Mutant: only the end of the child ends the loop.
CheckClockNever ==
  /\ pc = "clock"
  /\ pc' = "sleep"
  /\ UNCHANGED <<pending, err, clock, child, exitCode, exitTime, signal, started, timedOut, code>>

\* If the second clock_gettime fails, the elapsed time is computed from an
\* uninitialised timespec: both outcomes of the comparison are possible.
CheckClock ==
  /\ pc = "clock"
  /\ \E fails \in BOOLEAN, late \in BOOLEAN :
       /\ ~fails => late = (clock >= Timeout)
       /\ err' = (err \/ fails)
       /\ timedOut' = late
       /\ pc' = IF late THEN "kill" ELSE "sleep"
  /\ UNCHANGED <<pending, clock, child, exitCode, exitTime, signal, started, code>>

\* nanosleep of the poll interval; an interrupted sleep simply polls again.
Sleep ==
  /\ pc = "sleep"
  /\ pc' = "poll"
  /\ UNCHANGED <<pending, err, clock, child, exitCode, exitTime, signal, started, timedOut, code>>

\* Mutant: the killed child is not waited for.
KillWithoutWait ==
  /\ pc = "kill"
  /\ killed' = TRUE
  /\ pc' = "done"
  /\ UNCHANGED <<pending, err, clock, child, exitCode, exitTime, swallowed, started, timedOut,
                 code>>

\* The signal may be refused (a command that changed its user, say).
Kill ==
  /\ pc = "kill"
  /\ killed' \in BOOLEAN
  /\ swallowed' = IF killed' THEN swallowed ELSE swallowed \cup {"kill"}
  /\ pc' = "wait"
  /\ UNCHANGED <<pending, err, clock, child, exitCode, exitTime, started, timedOut, code>>

\* Mutant: the status of the killed child becomes the result.
WaitTakingStatus ==
  /\ pc = "wait"
  /\ child = "zombie"
  /\ child' = "reaped"
  /\ code' = 137
  /\ pc' = "done"
  /\ UNCHANGED <<pending, err, clock, exitCode, exitTime, signal, started, timedOut>>

\* waitpid without WNOHANG, for as long as the child runs; its status is not
\* looked at ...
Wait ==
  /\ pc = "wait"
  /\ child = "zombie"
  /\ child' = "reaped"
  /\ pc' = "done"
  /\ UNCHANGED <<pending, err, clock, exitCode, exitTime, signal, started, timedOut, code>>

\* ... or it fails, which is not looked at either.
WaitFails ==
  /\ pc = "wait"
  /\ swallowed' = swallowed \cup {"wait"}
  /\ pc' = "done"
  /\ UNCHANGED <<pending, err, clock, child, exitCode, exitTime, killed, started, timedOut, code>>

ParentStep ==
  \/ BuildArguments \/ Spawn \/ ReadStart \/ Poll \/ CheckClock \/ Sleep \/ Kill \/ Wait

\* The child ends by itself, at any time ...
ChildEnds ==
  /\ child = "running" /\ ~killed
  /\ child' = "zombie"
  /\ exitCode' \in Codes
  /\ exitTime' = clock
  /\ UNCHANGED <<pending, pc, err, clock, signal, started, timedOut, code>>

\* ... or SIGKILL takes effect.
ChildDies ==
  /\ child = "running" /\ killed
  /\ child' = "zombie"
  /\ UNCHANGED <<pending, pc, err, clock, exitCode, exitTime, signal, started, timedOut, code>>

Tick ==
  /\ clock < MaxTime /\ child # "none" /\ pc # "done"
  /\ clock' = clock + 1
  /\ UNCHANGED <<pending, pc, err, child, exitCode, exitTime, signal, started, timedOut, code>>

Finished == pc = "done" /\ UNCHANGED vars

Next == ParentStep \/ WaitFails \/ ChildEnds \/ ChildDies \/ Tick \/ Finished

\* The parent is scheduled, the clock advances and a SIGKILL is delivered; that
\* a command ends by itself is not assumed, nor that a wait fails.
Spec ==
  /\ Init /\ [][Next]_vars
  /\ WF_vars(ParentStep) /\ WF_vars(ChildDies) /\ WF_vars(Tick)

-----------------------------------------------------------------------------
(* Properties. *)

\* The types, and that the clock and the codes stay in their ranges.
TypeOK ==
  /\ pc \in {"arguments", "spawn", "start", "poll", "clock", "sleep", "kill", "wait", "done"}
  /\ pending \in BOOLEAN /\ err \in BOOLEAN
  /\ started \in BOOLEAN /\ killed \in BOOLEAN /\ timedOut \in BOOLEAN
  /\ swallowed \subseteq {"kill", "wait"}
  /\ clock \in 0 .. MaxTime /\ exitTime \in 0 .. MaxTime
  /\ child \in {"none", "running", "zombie", "reaped"}
  /\ exitCode \in Codes \cup {NoCode} /\ code \in Codes \cup {NoCode}

\* The caller is told one of the outcomes it is written for; above all, no
\* code without a timeout means that an error is pending, and an error that was
\* pending at the call means that nothing was run.
KeepsContract ==
  pc = "done" => [code |-> code, timedOut |-> timedOut, err |-> err] \in OutcomesGiven(pending)

\* A code is the child's own, of a child that ended by itself and was reaped.
CodeIsTheChilds ==
  pc = "done" /\ code # NoCode => child = "reaped" /\ ~killed /\ code = exitCode

\* Without an error, the function leaves no child running and no zombie, but
\* for one case: at the deadline, a wait that failed unnoticed.  Even then the
\* child is as good as dead, unless the signal was refused as well.
ReapedUnlessError ==
  pc = "done" /\ ~err /\ child # "reaped" =>
    /\ timedOut /\ "wait" \in swallowed
    /\ child = "running" => killed \/ "kill" \in swallowed

\* A command is killed only at or after its deadline, if the clock was read.
TimeoutIsEarned ==
  timedOut /\ ~err => clock >= Timeout

\* The function returns, whatever the command does, unless the kill was
\* refused: then it waits, past every deadline, for as long as the command runs.
Returns ==
  <>(pc = "done") \/ <>[](pc = "wait" /\ child = "running" /\ "kill" \in swallowed)
=============================================================================
