-------------------------- MODULE RunCommandProofs --------------------------
(***************************************************************************)
(* Proofs about RunCommand for every deadline, every bound of the clock and *)
(* every set of exit codes.                                                 *)
(***************************************************************************)
EXTENDS RunCommand, TLAPS

\* Between the spawn and the return the parent has exactly one child.
Attending == {"start", "poll", "clock", "sleep", "kill", "wait"}

\* Before the spawn there is nothing; an error that was pending never gets to it.
NothingBefore ==
  /\ pc \in {"arguments", "spawn"} => child = "none"
  /\ pc = "spawn" => ~err
  /\ pending => err /\ child = "none"

\* The child is there while it is attended to, and has no status while it runs.
ChildAttended ==
  /\ pc \in Attending => child \in {"running", "zombie"}
  /\ child \in {"none", "running"} => exitCode = NoCode
  /\ child \in {"zombie", "reaped"} /\ ~killed => exitCode \in Codes

\* The signal is sent, and its failure swallowed, only between the verdict on the
\* deadline and the return.
KillOrder ==
  /\ pc = "start" => ~err
  /\ pc = "clock" => ~err
  /\ timedOut => pc \in {"kill", "wait", "done"} /\ child # "none"
  /\ pc \in {"kill", "wait"} => timedOut
  /\ killed => timedOut /\ pc # "kill"
  /\ pc = "wait" => killed \/ "kill" \in swallowed

\* What the function returns, and what it leaves behind.
ResultFounded ==
  /\ pc # "done" => code = NoCode
  /\ ReapedUnlessError
  /\ pc = "done" /\ code = NoCode /\ ~timedOut => err
  /\ code # NoCode => child = "reaped" /\ ~killed /\ ~timedOut /\ code = exitCode

IInv ==
  /\ TypeOK
  /\ NothingBefore
  /\ ChildAttended
  /\ KillOrder
  /\ ResultFounded
  /\ TimeoutIsEarned

USE CodesOK, TimesOK

\* No exit status is mistaken for the absence of one.
LEMMA NoCodeIsNone == NoCode \notin Codes
BY DEF NoCode

\* The strengthened invariant holds at the call of p101_mutation_run_command.
LEMMA InitEstablishes == Init => IInv
<1> SUFFICES ASSUME Init PROVE IInv
    OBVIOUS
<1>1. TypeOK
  <2>1. clock \in 0 .. MaxTime /\ exitTime \in 0 .. MaxTime
    BY DEF Init
  <2>2. pending \in BOOLEAN /\ err \in BOOLEAN
    BY DEF Init
  <2> QED BY <2>1, <2>2 DEF Init, TypeOK
<1>2. NothingBefore
  BY Zenon DEF Init, NothingBefore
<1>3. ChildAttended /\ KillOrder /\ ResultFounded /\ TimeoutIsEarned
  BY DEF Init, ChildAttended, KillOrder, ResultFounded, TimeoutIsEarned, Attending,
          ReapedUnlessError
<1> QED BY <1>1, <1>2, <1>3 DEF IInv

\* Every step of the parent, of the child and of the clock preserves it.
LEMMA StepPreserves == IInv /\ [Next]_vars => IInv'
<1> SUFFICES ASSUME IInv, [Next]_vars PROVE IInv'
    OBVIOUS
<1> USE NoCodeIsNone
<1> USE DEF IInv, TypeOK, NothingBefore, ChildAttended, KillOrder, ResultFounded,
            TimeoutIsEarned, ReapedUnlessError, Attending, NoCode, signal
<1>1. CASE BuildArguments BY <1>1 DEF BuildArguments
<1>2. CASE Spawn
  <2>1. CASE pc' = "done"
    BY <1>2, <2>1 DEF Spawn
  <2>2. CASE pc' = "start"
    BY <1>2, <2>2 DEF Spawn
  <2> QED BY <1>2, <2>1, <2>2 DEF Spawn
<1>3. CASE ReadStart BY <1>3 DEF ReadStart
<1>4. CASE Poll
  <2>1. CASE child = "zombie" /\ child' = "reaped"
    BY <1>4, <2>1 DEF Poll
  <2>2. CASE err' /\ UNCHANGED <<child, code>> /\ pc' = "done"
    BY <1>4, <2>2 DEF Poll
  <2>3. CASE child = "running" /\ err /\ UNCHANGED <<err, child, code>> /\ pc' = "done"
    BY <1>4, <2>3 DEF Poll
  <2>4. CASE ~err /\ pc' = "clock"
    BY <1>4, <2>4 DEF Poll
  <2> QED BY <1>4, <2>1, <2>2, <2>3, <2>4 DEF Poll
<1>5. CASE CheckClock BY <1>5 DEF CheckClock
<1>6. CASE Sleep BY <1>6 DEF Sleep
<1>7. CASE Kill BY <1>7 DEF Kill
<1>8. CASE Wait BY <1>8 DEF Wait
<1>9. CASE WaitFails BY <1>9 DEF WaitFails
<1>10. CASE ChildEnds BY <1>10 DEF ChildEnds
<1>11. CASE ChildDies BY <1>11 DEF ChildDies
<1>12. CASE Tick BY <1>12 DEF Tick
<1>13. CASE UNCHANGED vars BY <1>13 DEF vars
<1> QED BY <1>1, <1>2, <1>3, <1>4, <1>5, <1>6, <1>7, <1>8, <1>9, <1>10, <1>11, <1>12, <1>13
       DEF Next, ParentStep, Finished

\* The strengthened invariant holds throughout every call.
THEOREM Invariance == Spec => []IInv
<1>1. Init => IInv
  BY InitEstablishes
<1>2. IInv /\ [Next]_vars => IInv'
  BY StepPreserves
<1> QED BY <1>1, <1>2, PTL DEF Spec

\* The types and ranges of the state of p101_mutation_run_command.
THEOREM TypeCorrectness == Spec => []TypeOK
<1>1. IInv => TypeOK
  BY DEF IInv
<1> QED BY <1>1, Invariance, PTL

\* Every return of the function is one of the outcomes its caller is written
\* for: the interface on which MutationCampaign relies.
THEOREM Contract == Spec => []KeepsContract
<1>1. IInv => KeepsContract
  <2> SUFFICES ASSUME IInv, pc = "done"
               PROVE [code |-> code, timedOut |-> timedOut, err |-> err] \in OutcomesGiven(pending)
    BY DEF KeepsContract
  <2> USE DEF IInv, TypeOK, NothingBefore, ResultFounded, OutcomesGiven
  <2>1. CASE pending
    <3>1. err = TRUE
      BY <2>1
    <3>2. timedOut = FALSE /\ code = NoCode
      BY <2>1 DEF KillOrder
    <3> QED BY <2>1, <3>1, <3>2 DEF Lost
  <2>2. CASE ~pending /\ code # NoCode
    BY <2>2 DEF Ended
  <2>3. CASE ~pending /\ code = NoCode /\ timedOut
    BY <2>3 DEF Killed
  <2>4. CASE ~pending /\ code = NoCode /\ ~timedOut
    BY <2>4 DEF Lost
  <2> QED BY <2>1, <2>2, <2>3, <2>4
<1> QED BY <1>1, Invariance, PTL

\* A code is only ever that of a child that ended by itself and was reaped:
\* never the status of the killed child, never a status nobody stored.
THEOREM OwnCode == Spec => []CodeIsTheChilds
<1>1. IInv => CodeIsTheChilds
  BY DEF IInv, ResultFounded, CodeIsTheChilds
<1> QED BY <1>1, Invariance, PTL

\* Without an error no child outlives the call, running or as a zombie, unless
\* the wait at the deadline failed unnoticed; it is then one that was killed, or
\* whose kill was refused.
THEOREM NoChildLeft == Spec => []ReapedUnlessError
<1>1. IInv => ReapedUnlessError
  BY DEF IInv, ResultFounded
<1> QED BY <1>1, Invariance, PTL

\* A command is called timed out only once its deadline has passed, whatever
\* the deadline and however the child and the clock interleave.
THEOREM FairDeadline == Spec => []TimeoutIsEarned
<1>1. IInv => TimeoutIsEarned
  BY DEF IInv
<1> QED BY <1>1, Invariance, PTL
=============================================================================
