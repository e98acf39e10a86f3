-------------------------- MODULE FaultWalkProofs --------------------------
(***************************************************************************)
(* Proofs about FaultWalk: for every command line, every evidence the       *)
(* pipelines find or leave, every combination of failing calls, every -n bound and  *)
(* every size of the group table.                                           *)
(***************************************************************************)
EXTENDS FaultWalk, FiniteSetTheorems, WellFoundedInduction, TLAPS

-----------------------------------------------------------------------------
(* Lemmas about the operators.                                               *)

\* The name of a fault that fired is the name of a log line.
LEMMA HitNameType ==
  ASSUME NEW lines \in Seq(Line), Hit(lines)
  PROVE  HitName(lines) \in Names
<1> DEFINE chosen == CHOOSE i \in Deciding(lines) : TRUE
<1>1. chosen \in Deciding(lines)
  BY DEF Hit
<1>2. chosen \in DOMAIN lines
  BY <1>1 DEF Deciding
<1>3. lines[chosen] \in Line
  BY <1>2
<1> QED BY <1>3 DEF HitName, Line

\* Every case starts from a well-typed result.
LEMMA EmptyResultType == EmptyResult \in ResultType
BY ConstantsOK DEF EmptyResult, ResultType, Statuses

\* unsetenv leaves an environment; without an error every variable is gone.
LEMMA UnsetenvEffect ==
  ASSUME NEW S, environ \in [Controls -> Nat \cup {Unset, Inherited}], err \in BOOLEAN,
         Unsetenv(S)
  PROVE  /\ environ' \in [Controls -> Nat \cup {Unset, Inherited}]
         /\ err' \in BOOLEAN
         /\ err => err'
         /\ ~err' => \A c \in S \cap Controls : environ'[c] = Unset
         /\ \A c \in Controls : environ'[c] \in {Unset, environ[c]}
BY DEF Unsetenv

\* Whatever stands in the group table, one more case keeps it a table within
\* its limit.
TableOK ==
  /\ groups \in [DOMAIN groups -> [runs : Nat, findings : Nat]]
  /\ IsFiniteSet(DOMAIN groups)
  /\ Cardinality(DOMAIN groups) <= GroupLimit

LEMMA GroupTable ==
  ASSUME TableOK, UpdateFaultGroup, result.findings \in Nat, GroupLimit \in Nat
  PROVE  TableOK'
<1> USE DEF TableOK, UpdateFaultGroup
<1>1. CASE GroupName \in DOMAIN groups
  <2>1. groups[GroupName] \in [runs : Nat, findings : Nat]
    BY <1>1
  <2>2. DOMAIN groups' = DOMAIN groups
    BY <1>1
  <2>3. groups' \in [DOMAIN groups -> [runs : Nat, findings : Nat]]
    BY <1>1, <2>1
  <2> QED BY <2>2, <2>3
<1>2. CASE GroupName \notin DOMAIN groups /\ Cardinality(DOMAIN groups) < GroupLimit
  <2>1. DOMAIN groups' = DOMAIN groups \cup {GroupName}
    BY <1>2
  <2>2. /\ IsFiniteSet(DOMAIN groups \cup {GroupName})
        /\ Cardinality(DOMAIN groups \cup {GroupName}) = Cardinality(DOMAIN groups) + 1
    BY <1>2, FS_AddElement
  <2>3. Cardinality(DOMAIN groups) \in Nat
    BY FS_CardinalityType
  <2>4. groups' \in [DOMAIN groups \cup {GroupName} -> [runs : Nat, findings : Nat]]
    BY <1>2
  <2> QED BY <1>2, <2>1, <2>2, <2>3, <2>4
<1>3. CASE GroupName \notin DOMAIN groups /\ ~(Cardinality(DOMAIN groups) < GroupLimit)
  BY <1>3
<1> QED BY <1>1, <1>2, <1>3

\* The parts of the evidence the program reads.
LEMMA WorldParts ==
  ASSUME NEW w \in World
  PROVE  /\ w.status \in Statuses
         /\ w.faults \in Seq(Line)
         /\ w.analysis.findings \in Nat
         /\ \A status \in Statuses : [w EXCEPT !.status = status] \in World
<1>1. w.status \in Statuses /\ w.faults \in Seq(Line) /\ w.analysis \in Report
  BY DEF World
<1>2. w.analysis.findings \in Nat
  BY <1>1 DEF Report
<1>3. ASSUME NEW status \in Statuses PROVE [w EXCEPT !.status = status] \in World
  BY DEF World
<1> QED BY <1>1, <1>2, <1>3

\* New files beside old ones are again the contents of a run directory.
LEMMA BesideType ==
  ASSUME NEW world \in World, NEW kept, directory \in World
  PROVE  Beside(world, kept) \in World
<1>1. /\ world.logged \in BOOLEAN /\ world.faults \in Seq(Line)
      /\ world.resources \in Report /\ world.analysis \in Report
      /\ directory.faults \in Seq(Line)
      /\ directory.resources \in Report /\ directory.analysis \in Report
  BY DEF World
<1> DEFINE l == world.logged \/ "log" \in kept
           f == IF "faults" \in kept THEN directory.faults \o world.faults ELSE world.faults
           r == IF "resources" \in kept THEN directory.resources ELSE world.resources
           a == IF "analysis" \in kept THEN directory.analysis ELSE world.analysis
<1>2. l \in BOOLEAN /\ f \in Seq(Line) /\ r \in Report /\ a \in Report
  BY <1>1
<1>3. Beside(world, kept) =
        [world EXCEPT !.logged = l, !.faults = f, !.resources = r, !.analysis = a]
  BY DEF Beside, World
<1> HIDE DEF l, f, r, a
<1> QED BY <1>2, <1>3 DEF World

\* A pipeline that runs leaves evidence of its own, or some of what lay there.
LEMMA RunStarts ==
  ASSUME directory \in World, RunPipeline
  PROVE  \E found \in World, own \in BOOLEAN :
           /\ Start(found, TRUE, own)
           /\ Files(directory) = {} => own
<1>1. PICK world \in Worlds :
        \E kept \in SUBSET (Files(directory) \ (Files(world) \ {"faults"})) :
          Start(Beside(world, kept), TRUE, kept = {})
  BY DEF RunPipeline
<1>2. PICK kept : /\ kept \subseteq Files(directory)
                 /\ Start(Beside(world, kept), TRUE, kept = {})
  BY <1>1
<1>3. world \in World
  BY ConstantsOK
<1>4. Beside(world, kept) \in World
  BY <1>3, BesideType
<1>5. Files(directory) = {} => kept = {}
  BY <1>2
<1> QED BY <1>2, <1>4, <1>5

-----------------------------------------------------------------------------
(* The types.                                                                *)

\* TypeOK in three parts: the control, the evidence and the totals.
CaseIndices == {"paths", "clear", "set", "run", "hit", "summaries", "unset", "baseline", "tally"}

\* Before the walk.
Opening == {"parse", "usage", "check", "convert"}

ControlOK ==
  /\ request \in Requests
  /\ pc \in ProgramPoints
  /\ err \in BOOLEAN
  /\ oldCases \in 0 .. request.max + 1
  /\ index \in 0 .. request.max + 1
  /\ pc \in CaseIndices => index <= request.max
  /\ pc \in Opening => index = 0
  /\ exit \in {0, 1, 2, Running}

EvidenceOK ==
  /\ environ \in [Controls -> Nat \cup {Unset, Inherited}]
  /\ directory \in World
  /\ result \in ResultType
  /\ walked \in Seq(Case)

TotalsOK ==
  /\ runs \in Nat /\ findings \in Nat
  /\ trouble \in BOOLEAN /\ exhausted \in BOOLEAN
  /\ TableOK

TypeInv == ControlOK /\ EvidenceOK /\ TotalsOK

LEMMA TypeParts == TypeInv => TypeOK
BY DEF TypeInv, ControlOK, EvidenceOK, TotalsOK, TableOK, TypeOK, CaseIndices

USE ConstantsOK

\* The initial state is well typed.
LEMMA InitTyped == Init => TypeInv
<1> SUFFICES ASSUME Init PROVE TypeInv
    OBVIOUS
<1>1. request \in Request /\ request.max \in Nat
  BY DEF Init, Request
<1>2. environ \in [Controls -> Nat \cup {Unset, Inherited}]
  BY DEF Init
<1>3. result \in ResultType
  BY EmptyResultType DEF Init
<1>4. DOMAIN groups = {}
  BY DEF Init
<1>5. TableOK
  BY <1>4, FS_EmptySet DEF Init, TableOK
<1>6. index \in 0 .. request.max + 1 /\ index <= request.max
  BY <1>1 DEF Init
<1>7. walked \in Seq(Case)
  BY DEF Init
<1> QED BY <1>1, <1>2, <1>3, <1>5, <1>6, <1>7
       DEF Init, TypeInv, ControlOK, EvidenceOK, TotalsOK, ProgramPoints, CaseIndices,
            Opening, Running

\* Starting a pipeline records a well-typed case.
LEMMA StartTyped ==
  ASSUME EvidenceOK, NEW world \in World, NEW ran \in BOOLEAN, NEW own \in BOOLEAN,
         Start(world, ran, own)
  PROVE  directory' \in World /\ result' \in ResultType /\ walked' \in Seq(Case)
<1>1. world.status \in Statuses /\ world.faults \in Seq(Line)
      /\ world.analysis.findings \in Nat
  BY WorldParts
<1>2. result' \in ResultType
  <2>1. PipelineStatusIsAcceptable(world.status) \in BOOLEAN
    BY DEF PipelineStatusIsAcceptable
  <2>2. result \in ResultType
    BY DEF EvidenceOK
  <2>3. result' = [result EXCEPT !.status = world.status,
                                !.ok = PipelineStatusIsAcceptable(world.status)]
    BY DEF Start
  <2> HIDE ConstantsOK DEF PipelineStatusIsAcceptable
  <2> QED BY <1>1, <2>1, <2>2, <2>3 DEF ResultType
<1> DEFINE name == IF Hit(world.faults) THEN HitName(world.faults) ELSE NoName
<1>3. name \in Names
  BY <1>1, HitNameType
<1>4. environ["call"] \in Nat \cup {Unset, Inherited}
  BY DEF EvidenceOK, Controls, Cleared
<1>5. Sound(world) \in BOOLEAN /\ Hit(world.faults) \in BOOLEAN
      /\ (world.status # "success" /\ world.analysis.findings = 0) \in BOOLEAN
  BY DEF Sound, Hit
<1> HIDE DEF name
<1>6. [ran |-> ran, own |-> own, reused |-> index < oldCases,
       call |-> environ["call"], sound |-> Sound(world),
       silent |-> world.status # "success" /\ world.analysis.findings = 0,
       hit |-> Hit(world.faults), name |-> name,
       findings |-> world.analysis.findings] \in Case
  BY <1>1, <1>3, <1>4, <1>5 DEF Case
<1>7. walked' \in Seq(Case)
  BY <1>6 DEF Start, EvidenceOK, name
<1> QED BY <1>2, <1>7 DEF Start

\* Every step keeps the control state in range, above all the case number.
LEMMA StepControl ==
  ASSUME TypeInv, [Next]_vars
  PROVE  ControlOK'
<1> USE DEF TypeInv, ControlOK, ProgramPoints, CaseIndices, Opening, Running
<1>0. request \in Request /\ request.max \in Nat /\ index \in Nat
  BY DEF Request
<1>1. CASE ParseArguments
  <2>1. request.badOption \in BOOLEAN
    BY <1>0 DEF Request
  <2>2. err' \in BOOLEAN
    BY <1>1, <2>1 DEF ParseArguments
  <2>3. pc' \in {"report", "usage", "check"}
    BY <1>1 DEF ParseArguments
  <2> QED BY <1>0, <1>1, <2>2, <2>3 DEF ParseArguments
<1>2. CASE Usage
  BY <1>0, <1>2 DEF Usage
<1>3. CASE CheckArguments
  <2>1. err' \in BOOLEAN
    BY <1>3 DEF CheckArguments, ArgumentsRefused
  <2>2. pc' \in {"report", "convert"}
    BY <1>3 DEF CheckArguments
  <2> QED BY <1>0, <1>3, <2>1, <2>2 DEF CheckArguments
<1>4. CASE ConvertArguments
  <2>1. err' \in BOOLEAN
    BY <1>4 DEF ConvertArguments, NumbersRefused
  <2>2. pc' \in {"report", "paths"} /\ index <= request.max
    BY <1>0, <1>4 DEF ConvertArguments
  <2> QED BY <1>0, <1>4, <2>1, <2>2 DEF ConvertArguments
<1>5. CASE MakeLogPaths
  BY <1>0, <1>5 DEF MakeLogPaths
<1>6. CASE ClearBefore
  <2>1. err' \in BOOLEAN
    BY <1>6, UnsetenvEffect DEF ClearBefore, EvidenceOK
  <2>2. pc' \in {"unset", "set"}
    BY <1>6 DEF ClearBefore
  <2> QED BY <1>0, <1>6, <2>1, <2>2 DEF ClearBefore
<1>7. CASE SetControls
  BY <1>0, <1>7 DEF SetControls
<1>8. CASE RunPipeline
  BY <1>0, <1>8 DEF RunPipeline
<1>9. CASE PipelineNotStarted
  BY <1>0, <1>9 DEF PipelineNotStarted
<1>10. CASE PipelineHangs
  BY <1>0, <1>10 DEF PipelineHangs
<1>11. CASE ReadFaultHit
  BY <1>0, <1>11 DEF ReadFaultHit
<1>12. CASE ReadSummaries
  BY <1>0, <1>12 DEF ReadSummaries
<1>13. CASE ClearAfter
  <2>1. err' \in BOOLEAN
    BY <1>13, UnsetenvEffect DEF ClearAfter, EvidenceOK
  <2>2. pc' \in {"reset", "baseline", "tally"}
    BY <1>13 DEF ClearAfter
  <2> QED BY <1>0, <1>13, <2>1, <2>2 DEF ClearAfter
<1>14. CASE TallyBaseline
  <2>1. err' \in BOOLEAN
    BY <1>14 DEF TallyBaseline
  <2>2. index <= request.max
    BY <1>14 DEF TallyBaseline
  <2>3. \/ index' = index /\ pc' = "summary"
        \/ index' = index + 1 /\ pc' = "summary"
        \/ index' = index + 1 /\ pc' = "paths" /\ index + 1 <= request.max
    BY <1>0, <1>14 DEF TallyBaseline, NextCase
  <2>4. index' \in 0 .. request.max + 1 /\ (pc' \in CaseIndices => index' <= request.max)
    BY <1>0, <2>2, <2>3
  <2> QED BY <1>0, <1>14, <2>1, <2>3, <2>4 DEF TallyBaseline
<1>15. CASE TallyFault
  <2>1. err' \in BOOLEAN
    BY <1>15 DEF TallyFault
  <2>2. index <= request.max
    BY <1>15 DEF TallyFault
  <2>3. \/ index' = index /\ pc' = "summary"
        \/ index' = index + 1 /\ pc' = "summary"
        \/ index' = index + 1 /\ pc' = "paths" /\ index + 1 <= request.max
    BY <1>0, <1>15 DEF TallyFault, NextCase
  <2>4. index' \in 0 .. request.max + 1 /\ (pc' \in CaseIndices => index' <= request.max)
    BY <1>0, <2>2, <2>3
  <2> QED BY <1>0, <1>15, <2>1, <2>3, <2>4 DEF TallyFault
<1>16. CASE PrintSummary
  BY <1>0, <1>16 DEF PrintSummary
<1>17. CASE ResetRunEnvironment
  <2>1. err' \in BOOLEAN
    BY <1>17, UnsetenvEffect DEF ResetRunEnvironment, EvidenceOK
  <2>2. pc' \in {"report"}
    BY <1>17 DEF ResetRunEnvironment
  <2>3. exit' \in {0, 1, 2, Running}
    BY <1>17 DEF ResetRunEnvironment, ExitStatus
  <2> QED BY <1>0, <1>17, <2>1, <2>2, <2>3 DEF ResetRunEnvironment
<1>18. CASE ReportError
  BY <1>0, <1>18 DEF ReportError
<1>19. CASE UNCHANGED vars
  BY <1>19 DEF vars
<1> QED BY <1>1, <1>2, <1>3, <1>4, <1>5, <1>6, <1>7, <1>8, <1>9, <1>10, <1>11, <1>12, <1>13,
           <1>14, <1>15, <1>16, <1>17, <1>18, <1>19
       DEF Next, Step, Finished

\* Every step keeps the totals numbers and the groups a table.
LEMMA StepTotals ==
  ASSUME TypeInv, [Next]_vars
  PROVE  TotalsOK'
<1> USE DEF TypeInv, TotalsOK, totals
<1>0. result.findings \in Nat
  BY DEF EvidenceOK, ResultType
<1>1. CASE ParseArguments
  BY <1>1 DEF ParseArguments, TableOK
<1>2. CASE Usage
  BY <1>2 DEF Usage, TableOK
<1>3. CASE CheckArguments
  BY <1>3 DEF CheckArguments, TableOK
<1>4. CASE ConvertArguments
  BY <1>4 DEF ConvertArguments, TableOK
<1>5. CASE MakeLogPaths
  BY <1>5 DEF MakeLogPaths, TableOK
<1>6. CASE ClearBefore
  BY <1>6 DEF ClearBefore, TableOK
<1>7. CASE SetControls
  BY <1>7 DEF SetControls, TableOK
<1>8. CASE RunPipeline
  BY <1>8 DEF RunPipeline, TableOK
<1>9. CASE PipelineNotStarted
  BY <1>9 DEF PipelineNotStarted, TableOK
<1>10. CASE PipelineHangs
  BY <1>10 DEF PipelineHangs, TableOK
<1>11. CASE ReadFaultHit
  BY <1>11 DEF ReadFaultHit, TableOK
<1>12. CASE ReadSummaries
  BY <1>12 DEF ReadSummaries, TableOK
<1>13. CASE ClearAfter
  BY <1>13 DEF ClearAfter, TableOK
<1>14. CASE TallyBaseline
  <2>1. trouble' \in BOOLEAN /\ exhausted' \in BOOLEAN
    BY <1>14 DEF TallyBaseline
  <2>2. runs' \in Nat /\ findings' \in Nat
    BY <1>0, <1>14 DEF TallyBaseline
  <2> QED BY <1>14, <2>1, <2>2 DEF TallyBaseline, TableOK
<1>15. CASE TallyFault
  <2>1. trouble' \in BOOLEAN /\ exhausted' \in BOOLEAN
    BY <1>15 DEF TallyFault
  <2>2. runs' \in Nat /\ findings' \in Nat
    BY <1>0, <1>15 DEF TallyFault
  <2>3. TableOK'
    <3>1. CASE result.hit
      BY <1>0, <1>15, <3>1, GroupTable DEF TallyFault
    <3>2. CASE ~result.hit
      BY <1>15, <3>2 DEF TallyFault, TableOK
    <3> QED BY <3>1, <3>2
  <2> QED BY <2>1, <2>2, <2>3
<1>16. CASE PrintSummary
  BY <1>16 DEF PrintSummary, TableOK
<1>17. CASE ResetRunEnvironment
  BY <1>17 DEF ResetRunEnvironment, TableOK
<1>18. CASE ReportError
  BY <1>18 DEF ReportError, TableOK
<1>19. CASE UNCHANGED vars
  BY <1>19 DEF vars, TableOK
<1> QED BY <1>1, <1>2, <1>3, <1>4, <1>5, <1>6, <1>7, <1>8, <1>9, <1>10, <1>11, <1>12, <1>13,
           <1>14, <1>15, <1>16, <1>17, <1>18, <1>19
       DEF Next, Step, Finished

\* Every step keeps the evidence and what is read of it well typed.
LEMMA StepEvidence ==
  ASSUME TypeInv, [Next]_vars
  PROVE  EvidenceOK'
<1> USE DEF TypeInv, EvidenceOK
<1>0. index \in Nat /\ err \in BOOLEAN /\ request.max \in Nat
  BY DEF ControlOK, Request
<1>1. CASE ParseArguments
  BY <1>1 DEF ParseArguments
<1>2. CASE Usage
  BY <1>2 DEF Usage
<1>3. CASE CheckArguments
  BY <1>3 DEF CheckArguments
<1>4. CASE ConvertArguments
  BY <1>4 DEF ConvertArguments
<1>5. CASE MakeLogPaths
  BY <1>5, EmptyResultType DEF MakeLogPaths
<1>6. CASE ClearBefore
  BY <1>0, <1>6, UnsetenvEffect DEF ClearBefore, totals
<1>7. CASE SetControls
  BY <1>0, <1>7 DEF SetControls
<1>8. CASE RunPipeline
  <2>1. PICK found \in World, own \in BOOLEAN : Start(found, TRUE, own)
    BY <1>8, RunStarts
  <2>3. directory' \in World /\ result' \in ResultType /\ walked' \in Seq(Case)
    BY <2>1, StartTyped
  <2> QED BY <1>8, <2>3 DEF RunPipeline
<1>9. CASE PipelineNotStarted
  <2>1. [directory EXCEPT !.status = "other"] \in World
    BY WorldParts DEF Statuses
  <2>2. directory' \in World /\ result' \in ResultType /\ walked' \in Seq(Case)
    BY <1>9, <2>1, StartTyped DEF PipelineNotStarted
  <2> QED BY <1>9, <2>2 DEF PipelineNotStarted
<1>10. CASE PipelineHangs
  BY <1>10 DEF PipelineHangs
<1>11. CASE ReadFaultHit
  <2>1. PICK outcome \in {"read", "readError", "missed"} :
          LET hit == outcome = "read" /\ Hit(directory.faults) IN
          result' = [result EXCEPT !.hit = hit,
                                   !.name = IF hit THEN HitName(directory.faults) ELSE NoName]
    BY <1>11 DEF ReadFaultHit
  <2> DEFINE hit == outcome = "read" /\ Hit(directory.faults)
             name == IF hit THEN HitName(directory.faults) ELSE NoName
  <2>2. hit \in BOOLEAN
    BY DEF Hit
  <2>3. name \in Names
    BY WorldParts, HitNameType
  <2>4. result' = [result EXCEPT !.hit = hit, !.name = name]
    BY <2>1
  <2> HIDE DEF hit, name
  <2>5. result' \in ResultType
    BY <2>2, <2>3, <2>4 DEF ResultType
  <2> QED BY <1>11, <2>5 DEF ReadFaultHit
<1>12. CASE ReadSummaries
  <2>1. PICK l \in BOOLEAN, r \in BOOLEAN, a \in BOOLEAN, n \in Nat :
          result' = [result EXCEPT !.logged = l, !.resources = r, !.analysis = a, !.findings = n]
    BY <1>12, WorldParts DEF ReadSummaries
  <2>2. result' \in ResultType
    BY <2>1 DEF ResultType
  <2> QED BY <1>12, <2>2 DEF ReadSummaries
<1>13. CASE ClearAfter
  BY <1>0, <1>13, UnsetenvEffect DEF ClearAfter, totals
<1>14. CASE TallyBaseline
  BY <1>14 DEF TallyBaseline
<1>15. CASE TallyFault
  BY <1>15 DEF TallyFault
<1>16. CASE PrintSummary
  BY <1>16 DEF PrintSummary
<1>17. CASE ResetRunEnvironment
  BY <1>0, <1>17, UnsetenvEffect DEF ResetRunEnvironment, totals
<1>18. CASE ReportError
  BY <1>18 DEF ReportError
<1>19. CASE UNCHANGED vars
  BY <1>19 DEF vars
<1> QED BY <1>1, <1>2, <1>3, <1>4, <1>5, <1>6, <1>7, <1>8, <1>9, <1>10, <1>11, <1>12, <1>13,
           <1>14, <1>15, <1>16, <1>17, <1>18, <1>19
       DEF Next, Step, Finished

\* Every step of the program preserves the types.
LEMMA StepTyped == TypeInv /\ [Next]_vars => TypeInv'
BY StepControl, StepEvidence, StepTotals DEF TypeInv

\* The state of a walk is well typed, its case number and its group table stay
\* within their limits, for every -n and every table size.
THEOREM TypeCorrectness == Spec => []TypeOK
<1>1. Spec => []TypeInv
  BY InitTyped, StepTyped, PTL DEF Spec
<1> QED BY <1>1, TypeParts, PTL

-----------------------------------------------------------------------------
(* The environment of a case.                                                *)

\* A case goes on only without an error.
ErrorStops ==
  pc \in {"paths", "clear", "set", "run", "summaries", "baseline", "tally"} => ~err

\* Nothing is walked before the first case.
NothingWalkedYet == pc \in Opening => walked = <<>>

\* Between the clearing and the setting nothing is armed.
Disarmed == pc = "set" => \A c \in Cleared : environ[c] = Unset

\* No case sets the resource log variable.
NeverSet == environ["resourceLog"] \in {Unset, Inherited}

\* A run directory that did not exist before the walk is empty until its pipeline
\* starts.
OwnDirectory == pc \in {"clear", "set", "run"} /\ ~(index < oldCases) => directory = Nothing

\* A walk that is over has cleaned up, or will report an error.
CleanedUp ==
  pc \in {"report", "done"} =>
    \/ exit = 2
    \/ pc = "report" /\ err
    \/ walked = <<>>
    \/ \A c \in Controls : environ[c] = Unset

IsolationInv ==
  /\ TypeInv /\ ErrorStops /\ NothingWalkedYet /\ Disarmed /\ CaseIsolated /\ CleanedUp
  /\ NeverSet /\ OwnDirectory

LEMMA InitIsolated == Init => IsolationInv
BY InitTyped DEF Init, IsolationInv, ErrorStops, NothingWalkedYet, Disarmed, CaseIsolated,
     CleanedUp, NeverSet, OwnDirectory, Opening, Controls

\* Every step keeps the cases apart: the steps that matter are the clearing
\* before a case, the setting of its controls and the reset after the walk.
LEMMA StepIsolated == IsolationInv /\ [Next]_vars => IsolationInv'
<1> SUFFICES ASSUME IsolationInv, [Next]_vars PROVE IsolationInv'
    OBVIOUS
<1>0. TypeInv'
  BY StepTyped DEF IsolationInv
<1> USE DEF IsolationInv, ErrorStops, NothingWalkedYet, Disarmed, CaseIsolated, CleanedUp,
            NeverSet, OwnDirectory, Opening
<1>x. environ \in [Controls -> Nat \cup {Unset, Inherited}] /\ err \in BOOLEAN
  BY DEF TypeInv, ControlOK, EvidenceOK
<1>y. "resourceLog" \in Controls \ Cleared /\ CaseControls \subseteq Cleared
  BY DEF Controls, Cleared, CaseControls
<1>1. CASE ParseArguments
  BY <1>0, <1>1 DEF ParseArguments
<1>2. CASE Usage
  BY <1>0, <1>2 DEF Usage
<1>3. CASE CheckArguments
  BY <1>0, <1>3 DEF CheckArguments
<1>4. CASE ConvertArguments
  BY <1>0, <1>4 DEF ConvertArguments
<1>5. CASE MakeLogPaths
  BY <1>0, <1>5 DEF MakeLogPaths
<1>6. CASE ClearBefore
  <2>1. err' \/ \A c \in Cleared : environ'[c] = Unset
    BY <1>x, <1>6, UnsetenvEffect DEF ClearBefore, Controls
  <2>2. NeverSet'
    BY <1>x, <1>y, <1>6, UnsetenvEffect DEF ClearBefore
  <2> QED BY <1>0, <1>6, <2>1, <2>2 DEF ClearBefore
<1>7. CASE SetControls
  <2>1. Cleared \subseteq Controls /\ CaseControls' = CaseControls
    BY <1>7 DEF SetControls, Controls, CaseControls
  <2>2. pc' # "set" /\ pc' \in {"unset", "run"} /\ (pc' = "run" => ~err')
    BY <1>7 DEF SetControls
  <2>3. ASSUME pc' = "run", NEW c \in Cleared
        PROVE  environ'[c] = IF c \in CaseControls THEN index ELSE Unset
    BY <1>7, <2>1, <2>3 DEF SetControls
  <2>4. index' = index /\ pc = "set" /\ UNCHANGED <<directory, oldCases>>
    BY <1>7 DEF SetControls
  <2>5. NeverSet'
    BY <1>x, <1>y, <1>7 DEF SetControls
  <2> QED BY <1>0, <2>1, <2>2, <2>3, <2>4, <2>5
<1>8. CASE RunPipeline
  BY <1>0, <1>8 DEF RunPipeline
<1>9. CASE PipelineNotStarted
  BY <1>0, <1>9 DEF PipelineNotStarted
<1>10. CASE PipelineHangs
  BY <1>0, <1>10 DEF PipelineHangs
<1>11. CASE ReadFaultHit
  BY <1>0, <1>11 DEF ReadFaultHit
<1>12. CASE ReadSummaries
  BY <1>0, <1>12 DEF ReadSummaries
<1>13. CASE ClearAfter
  <2>1. NeverSet'
    BY <1>x, <1>y, <1>13, UnsetenvEffect DEF ClearAfter
  <2> QED BY <1>0, <1>13, <2>1 DEF ClearAfter
<1>14. CASE TallyBaseline
  BY <1>0, <1>14 DEF TallyBaseline, NextCase
<1>15. CASE TallyFault
  BY <1>0, <1>15 DEF TallyFault, NextCase
<1>16. CASE PrintSummary
  BY <1>0, <1>16 DEF PrintSummary
<1>17. CASE ResetRunEnvironment
  <2>1. err' \/ \A c \in Controls : environ'[c] = Unset
    BY <1>x, <1>17, UnsetenvEffect DEF ResetRunEnvironment
  <2>2. err' => exit' = 2
    BY <1>17 DEF ResetRunEnvironment, ExitStatus
  <2>3. NeverSet'
    BY <1>x, <1>y, <1>17, UnsetenvEffect DEF ResetRunEnvironment
  <2> QED BY <1>0, <1>17, <2>1, <2>2, <2>3 DEF ResetRunEnvironment
<1>18. CASE ReportError
  BY <1>0, <1>18 DEF ReportError
<1>19. CASE UNCHANGED vars
  BY <1>0, <1>19 DEF vars, CaseControls
<1> QED BY <1>1, <1>2, <1>3, <1>4, <1>5, <1>6, <1>7, <1>8, <1>9, <1>10, <1>11, <1>12, <1>13,
           <1>14, <1>15, <1>16, <1>17, <1>18, <1>19
       DEF Next, Step, Finished

\* At the start of every pipeline the fault and call log controls are exactly
\* those of its case, whatever the caller exported and whichever setenv or
\* unsetenv of an earlier case failed; P101_RESOURCE_LOG is as inherited or unset,
\* never a value of the walk.
THEOREM Isolation == Spec => []CaseIsolated
<1>1. Spec => []IsolationInv
  BY InitIsolated, StepIsolated, PTL DEF Spec
<1>2. IsolationInv => CaseIsolated
  BY DEF IsolationInv
<1> QED BY <1>1, <1>2, PTL

\* A walk that gives a verdict leaves no control variable behind.
THEOREM Restoration == Spec => []EnvironmentRestored
<1>1. Spec => []IsolationInv
  BY InitIsolated, StepIsolated, PTL DEF Spec
<1>2. IsolationInv => EnvironmentRestored
  BY DEF IsolationInv, CleanedUp, EnvironmentRestored
<1> QED BY <1>1, <1>2, PTL

-----------------------------------------------------------------------------
(* The verdict.                                                              *)

\* The steps between the start of a pipeline and the judgement on its case.
Judging == {"hit", "summaries", "unset", "baseline", "tally"}

\* One case has been walked for every index.
Counting ==
  /\ pc \in {"paths", "clear", "set", "run"} => Len(walked) = index
  /\ pc \in Judging \ {"unset"} => Len(walked) = index + 1
  /\ pc = "unset" /\ ~err => Len(walked) = index + 1
  /\ pc = "baseline" => index = 0
  /\ pc = "tally" => index > 0

\* The result tells what happened to the case that is being judged.
CurrentKnown ==
  pc \in Judging /\ ~(pc = "unset" /\ err) =>
    LET current == walked[Len(walked)] IN
    /\ result.ok => result.status # "other"
    /\ ~current.ran => ~result.ok
    /\ current.ran =>
         /\ current.own \/ current.reused
         /\ current.sound = Sound(directory)
         /\ current.silent =
              (directory.status # "success" /\ directory.analysis.findings = 0)
         /\ result.status = directory.status

\* Without an error the fault log was read to its deciding line ...
LogRead ==
  pc = "summaries" \/ (pc \in {"unset", "baseline", "tally"} /\ ~err)
    => ~Damaged(directory.faults)

\* ... and the result claims no report that is not there.
ReportsRead ==
  pc \in {"unset", "baseline", "tally"} /\ ~err =>
    /\ result.logged => directory.logged
    /\ result.resources => directory.resources.file = "parsed"
    /\ result.analysis => /\ directory.analysis.file = "parsed"
                          /\ result.findings = directory.analysis.findings

\* Why an untrusted case does no harm: it will be, or has been, turned into
\* exit status 2, or it is the one that is still being judged.
Excused(i) ==
  \/ pc \in {"report", "done"} /\ exit = 2
  \/ pc # "done" /\ err
  \/ pc \notin {"report", "done"} /\ trouble
  \/ pc \in Judging /\ i = Len(walked)

UntrustedExcused == \A i \in DOMAIN walked : Untrusted(i) => Excused(i)

TrustInv ==
  IsolationInv /\ Counting /\ CurrentKnown /\ LogRead /\ ReportsRead /\ UntrustedExcused

LEMMA InitTrusted == Init => TrustInv
BY InitIsolated DEF Init, TrustInv, Counting, CurrentKnown, LogRead, ReportsRead,
     UntrustedExcused,
                    Judging

\* What the cases look like after a pipeline was started.
LEMMA StartRecorded ==
  ASSUME EvidenceOK, NEW world \in World, NEW ran \in BOOLEAN, NEW own \in BOOLEAN,
         Start(world, ran, own)
  PROVE  /\ Len(walked') = Len(walked) + 1
         /\ \A i \in DOMAIN walked : walked'[i] = walked[i]
         /\ DOMAIN walked' = DOMAIN walked \cup {Len(walked')}
         /\ directory' = world
         /\ result'.status = world.status
         /\ result'.ok = PipelineStatusIsAcceptable(world.status)
         /\ walked'[Len(walked')].ran = ran
         /\ walked'[Len(walked')].own = own
         /\ walked'[Len(walked')].reused = (index < oldCases)
         /\ walked'[Len(walked')].sound = Sound(world)
         /\ walked'[Len(walked')].silent =
              (world.status # "success" /\ world.analysis.findings = 0)
<1> USE DEF EvidenceOK
<1>1. PICK c : /\ walked' = Append(walked, c)
              /\ c.ran = ran /\ c.own = own /\ c.reused = (index < oldCases)
              /\ c.sound = Sound(world)
              /\ c.silent = (world.status # "success" /\ world.analysis.findings = 0)
  BY DEF Start
<1>2. /\ Len(walked') = Len(walked) + 1
      /\ \A i \in DOMAIN walked : walked'[i] = walked[i]
      /\ DOMAIN walked' = DOMAIN walked \cup {Len(walked')}
      /\ walked'[Len(walked')] = c
  BY <1>1
<1>3. /\ directory' = world
      /\ result'.status = world.status
      /\ result'.ok = PipelineStatusIsAcceptable(world.status)
  BY DEF Start, ResultType
<1> QED BY <1>1, <1>2, <1>3

\* Starting a pipeline keeps the invariant, its own evidence or not.
LEMMA StartTrusted ==
  ASSUME TrustInv, NEW world \in World, NEW ran \in BOOLEAN, NEW own \in BOOLEAN,
         Start(world, ran, own),
         ran \/ world.status = "other", ran => own \/ index < oldCases,
         pc = "run", pc' = "hit", err => err', UNCHANGED <<index, trouble, exit>>
  PROVE  Counting' /\ CurrentKnown' /\ LogRead' /\ ReportsRead' /\ UntrustedExcused'
<1> USE DEF TrustInv, Judging
<1>1. /\ Len(walked') = Len(walked) + 1
      /\ \A i \in DOMAIN walked : walked'[i] = walked[i]
      /\ DOMAIN walked' = DOMAIN walked \cup {Len(walked')}
  BY StartRecorded DEF IsolationInv, TypeInv
<1>2. Counting'
  BY <1>1 DEF Counting
<1>3. CurrentKnown'
  <2>1. world.status = "other" => ~PipelineStatusIsAcceptable(world.status)
    BY DEF PipelineStatusIsAcceptable
  <2>2. PipelineStatusIsAcceptable(world.status) => world.status # "other"
    BY DEF PipelineStatusIsAcceptable
  <2> QED BY <2>1, <2>2, StartRecorded DEF IsolationInv, TypeInv, CurrentKnown
<1>4. LogRead' /\ ReportsRead'
  BY DEF LogRead, ReportsRead
<1>5. UntrustedExcused'
  <2> SUFFICES ASSUME NEW i \in DOMAIN walked', Untrusted(i)' PROVE Excused(i)'
    BY DEF UntrustedExcused
  <2>1. CASE i = Len(walked')
    BY <2>1 DEF Excused
  <2>2. CASE i \in DOMAIN walked
    <3>1. Untrusted(i)
      BY <1>1, <2>2 DEF Untrusted
    <3> QED BY <2>2, <3>1 DEF UntrustedExcused, Excused
  <2> QED BY <1>1, <2>1, <2>2
<1> QED BY <1>2, <1>3, <1>4, <1>5

\* Judging a case: the case is trusted or there is trouble.
LEMMA Judged ==
  ASSUME TrustInv, pc \in {"baseline", "tally"}, Untrusted(Len(walked))
  PROVE  \/ ~result.ok \/ AnalysisSummaryUnavailable
         \/ pc = "baseline" /\ result.status # "success" /\ result.findings = 0
<1> DEFINE current == walked[Len(walked)]
<1>1. ~err
  BY DEF TrustInv, IsolationInv, ErrorStops
<1>2. /\ result.ok => result.status # "other"
      /\ ~current.ran => ~result.ok
      /\ current.ran =>
           /\ current.own \/ current.reused
           /\ current.sound = Sound(directory)
           /\ current.silent =
                (directory.status # "success" /\ directory.analysis.findings = 0)
           /\ result.status = directory.status
  BY <1>1 DEF TrustInv, CurrentKnown, Judging
<1>3. /\ ~Damaged(directory.faults)
      /\ result.logged => directory.logged
      /\ result.resources => directory.resources.file = "parsed"
      /\ result.analysis => /\ directory.analysis.file = "parsed"
                            /\ result.findings = directory.analysis.findings
  BY <1>1 DEF TrustInv, LogRead, ReportsRead
<1>4. Len(walked) = index + 1 /\ index \in Nat
  BY DEF TrustInv, Counting, Judging, IsolationInv, TypeInv, ControlOK, Request
<1>8. pc = "tally" => index # 0
  BY <1>4 DEF TrustInv, Counting
<1>5. CASE ~current.ran
  BY <1>2, <1>5
<1>6. CASE current.ran /\ ~current.sound
  BY <1>2, <1>3, <1>6 DEF Sound, AnalysisSummaryUnavailable
<1>7. CASE current.ran /\ current.sound /\ Len(walked) = 1 /\ current.silent
  <2>1. pc = "baseline"
    <3>1. Len(walked) = 1
      BY <1>7
    <3>2. \A n \in Nat : n + 1 = 1 => n = 0
      OBVIOUS
    <3>3. index = 0
      BY <1>4, <3>1, <3>2, Zenon
    <3>4. pc # "tally"
      BY <1>8, <3>3
    <3> QED BY <3>4
  <2>2. /\ directory.status # "success" /\ directory.analysis.findings = 0
        /\ result.status = directory.status
    BY <1>2, <1>7
  <2>3. CASE result.analysis
    BY <1>3, <2>1, <2>2, <2>3
  <2>4. CASE ~result.analysis
    BY <2>4 DEF AnalysisSummaryUnavailable
  <2> QED BY <2>3, <2>4
<1> QED BY <1>2, <1>5, <1>6, <1>7 DEF Untrusted

\* An untrusted case stays excused if its excuse outlives the step.
LEMMA StillExcused ==
  ASSUME TrustInv, UNCHANGED walked,
         \A i \in DOMAIN walked : Untrusted(i) /\ Excused(i) => Excused(i)'
  PROVE  UntrustedExcused'
BY DEF TrustInv, UntrustedExcused, Untrusted

\* Every step keeps every untrusted case excused, provided a fault log that
\* exists can be opened.
LEMMA StepTrusted ==
  ASSUME "faults" \notin Missable, TrustInv, [Next]_vars
  PROVE  TrustInv'
<1>i. IsolationInv'
  BY StepIsolated DEF TrustInv
<1>t. /\ index \in Nat /\ err \in BOOLEAN /\ trouble \in BOOLEAN
      /\ environ \in [Controls -> Nat \cup {Unset, Inherited}]
      /\ directory \in World /\ result \in ResultType
  BY DEF TrustInv, IsolationInv, TypeInv, ControlOK, EvidenceOK, TotalsOK, Request
<1>n. Len(walked) \in Nat
  BY DEF TrustInv, IsolationInv, TypeInv, EvidenceOK
<1>e. ErrorStops /\ NothingWalkedYet /\ (pc \in Opening => index = 0)
  BY DEF TrustInv, IsolationInv, TypeInv, ControlOK
<1>c. Counting /\ CurrentKnown /\ LogRead /\ ReportsRead
  BY DEF TrustInv
<1> USE DEF Judging, Opening
<1>1. CASE ParseArguments
  <2>1. Counting'
    BY <1>t, <1>n, <1>e, <1>c, <1>1 DEF ParseArguments, totals, Counting, ErrorStops,
         NothingWalkedYet
  <2>2. CurrentKnown' /\ LogRead' /\ ReportsRead'
    BY <1>c, <1>e, <1>1 DEF ParseArguments, totals, CurrentKnown, LogRead, ReportsRead, ErrorStops
  <2>4. UntrustedExcused'
    BY <1>e, <1>1 DEF ParseArguments, totals, UntrustedExcused, NothingWalkedYet
  <2> QED BY <1>i, <2>1, <2>2, <2>4 DEF TrustInv
<1>2. CASE Usage
  <2>1. Counting'
    BY <1>t, <1>n, <1>e, <1>c, <1>2 DEF Usage, totals, Counting, ErrorStops, NothingWalkedYet
  <2>2. CurrentKnown' /\ LogRead' /\ ReportsRead'
    BY <1>c, <1>e, <1>2 DEF Usage, totals, CurrentKnown, LogRead, ReportsRead, ErrorStops
  <2>4. UntrustedExcused'
    BY <1>e, <1>2 DEF Usage, totals, UntrustedExcused, NothingWalkedYet
  <2> QED BY <1>i, <2>1, <2>2, <2>4 DEF TrustInv
<1>3. CASE CheckArguments
  <2>1. Counting'
    BY <1>t, <1>n, <1>e, <1>c, <1>3 DEF CheckArguments, totals, Counting, ErrorStops,
         NothingWalkedYet
  <2>2. CurrentKnown' /\ LogRead' /\ ReportsRead'
    BY <1>c, <1>e, <1>3 DEF CheckArguments, totals, CurrentKnown, LogRead, ReportsRead, ErrorStops
  <2>4. UntrustedExcused'
    BY <1>e, <1>3 DEF CheckArguments, totals, UntrustedExcused, NothingWalkedYet
  <2> QED BY <1>i, <2>1, <2>2, <2>4 DEF TrustInv
<1>4. CASE ConvertArguments
  <2>1. Counting'
    BY <1>t, <1>n, <1>e, <1>c, <1>4 DEF ConvertArguments, totals, Counting, ErrorStops,
         NothingWalkedYet
  <2>2. CurrentKnown' /\ LogRead' /\ ReportsRead'
    BY <1>c, <1>e, <1>4 DEF ConvertArguments, totals, CurrentKnown, LogRead, ReportsRead,
         ErrorStops
  <2>4. UntrustedExcused'
    BY <1>e, <1>4 DEF ConvertArguments, totals, UntrustedExcused, NothingWalkedYet
  <2> QED BY <1>i, <2>1, <2>2, <2>4 DEF TrustInv
<1>5. CASE MakeLogPaths
  <2>1. Counting'
    BY <1>t, <1>n, <1>e, <1>c, <1>5 DEF MakeLogPaths, totals, Counting, ErrorStops,
         NothingWalkedYet
  <2>2. CurrentKnown' /\ LogRead' /\ ReportsRead'
    BY <1>c, <1>e, <1>5 DEF MakeLogPaths, totals, CurrentKnown, LogRead, ReportsRead, ErrorStops
  <2>4. UntrustedExcused'
    <3>1. ASSUME NEW i \in DOMAIN walked, Untrusted(i), Excused(i) PROVE Excused(i)'
      BY <1>t, <1>n, <1>e, <1>5, <3>1 DEF MakeLogPaths, totals, Excused, ErrorStops
    <3>2. UNCHANGED walked
      BY <1>5 DEF MakeLogPaths
    <3> QED BY <3>1, <3>2, StillExcused
  <2> QED BY <1>i, <2>1, <2>2, <2>4 DEF TrustInv
<1>6. CASE ClearBefore
  <2>0. (err => err') /\ err' \in BOOLEAN
    BY <1>t, <1>6, UnsetenvEffect DEF ClearBefore
  <2>1. Counting'
    BY <1>t, <1>n, <1>e, <1>c, <2>0, <1>6 DEF ClearBefore, totals, Counting, ErrorStops,
         NothingWalkedYet
  <2>2. CurrentKnown' /\ LogRead' /\ ReportsRead'
    BY <1>c, <1>e, <2>0, <1>6 DEF ClearBefore, totals, CurrentKnown, LogRead, ReportsRead,
         ErrorStops
  <2>4. UntrustedExcused'
    <3>1. ASSUME NEW i \in DOMAIN walked, Untrusted(i), Excused(i) PROVE Excused(i)'
      BY <1>t, <1>n, <1>e, <2>0, <1>6, <3>1 DEF ClearBefore, totals, Excused, ErrorStops
    <3>2. UNCHANGED walked
      BY <1>6 DEF ClearBefore
    <3> QED BY <3>1, <3>2, StillExcused
  <2> QED BY <1>i, <2>1, <2>2, <2>4 DEF TrustInv
<1>7. CASE SetControls
  <2>1. Counting'
    BY <1>t, <1>n, <1>e, <1>c, <1>7 DEF SetControls, totals, Counting, ErrorStops,
         NothingWalkedYet
  <2>2. CurrentKnown' /\ LogRead' /\ ReportsRead'
    BY <1>c, <1>e, <1>7 DEF SetControls, totals, CurrentKnown, LogRead, ReportsRead, ErrorStops
  <2>4. UntrustedExcused'
    <3>1. ASSUME NEW i \in DOMAIN walked, Untrusted(i), Excused(i) PROVE Excused(i)'
      BY <1>t, <1>n, <1>e, <1>7, <3>1 DEF SetControls, totals, Excused, ErrorStops
    <3>2. UNCHANGED walked
      BY <1>7 DEF SetControls
    <3> QED BY <3>1, <3>2, StillExcused
  <2> QED BY <1>i, <2>1, <2>2, <2>4 DEF TrustInv
<1>8. CASE RunPipeline
  <2>1. PICK found \in World, own \in BOOLEAN :
          Start(found, TRUE, own) /\ (Files(directory) = {} => own)
    BY <1>t, <1>8, RunStarts
  <2>2. pc = "run" /\ pc' = "hit" /\ UNCHANGED <<err, index, trouble, exit>>
    BY <1>8 DEF RunPipeline, totals
  <2>3. ~(index < oldCases) => own
    BY <2>1, <2>2, ConstantsOK DEF TrustInv, IsolationInv, OwnDirectory
  <2>4. Counting' /\ CurrentKnown' /\ LogRead' /\ ReportsRead' /\ UntrustedExcused'
    BY <2>1, <2>2, <2>3, StartTrusted
  <2> QED BY <1>i, <2>4 DEF TrustInv
<1>9. CASE PipelineNotStarted
  <2> DEFINE stale == [directory EXCEPT !.status = "other"]
  <2>1. stale \in World
    BY <1>t, WorldParts DEF Statuses
  <2>2. stale.status = "other"
    BY <1>t DEF World
  <2>3. Start(stale, FALSE, FALSE)
    BY <1>9 DEF PipelineNotStarted
  <2>4. pc = "run" /\ pc' = "hit" /\ (err => err') /\ UNCHANGED <<index, trouble, exit>>
    BY <1>t, <1>9 DEF PipelineNotStarted, totals
  <2> HIDE DEF stale
  <2>5. Counting' /\ CurrentKnown' /\ LogRead' /\ ReportsRead' /\ UntrustedExcused'
    BY <2>1, <2>2, <2>3, <2>4, StartTrusted
  <2> QED BY <1>i, <2>5 DEF TrustInv
<1>10. CASE PipelineHangs
  <2>1. Counting'
    BY <1>t, <1>n, <1>e, <1>c, <1>10 DEF PipelineHangs, totals, Counting, ErrorStops,
         NothingWalkedYet
  <2>2. CurrentKnown' /\ LogRead' /\ ReportsRead'
    BY <1>c, <1>e, <1>10 DEF PipelineHangs, totals, CurrentKnown, LogRead, ReportsRead, ErrorStops
  <2>4. UntrustedExcused'
    <3>1. ASSUME NEW i \in DOMAIN walked, Untrusted(i), Excused(i) PROVE Excused(i)'
      BY <1>t, <1>n, <1>e, <1>10, <3>1 DEF PipelineHangs, totals, Excused, ErrorStops
    <3>2. UNCHANGED walked
      BY <1>10 DEF PipelineHangs
    <3> QED BY <3>1, <3>2, StillExcused
  <2> QED BY <1>i, <2>1, <2>2, <2>4 DEF TrustInv
<1>11. CASE ReadFaultHit
  <2>1. Counting'
    BY <1>t, <1>n, <1>e, <1>c, <1>11 DEF ReadFaultHit, totals, Counting, ErrorStops,
         NothingWalkedYet
  <2>2. CurrentKnown' /\ LogRead' /\ ReportsRead'
    <3>1. PICK outcome \in {"read", "readError"} :
            err' = (err \/ outcome = "readError"
                        \/ (outcome = "read" /\ Damaged(directory.faults)))
      BY <1>11 DEF ReadFaultHit
    <3>2. result'.ok = result.ok /\ result'.status = result.status
      BY <1>t, <1>11 DEF ReadFaultHit, ResultType
    <3>3. /\ UNCHANGED <<directory, walked>> /\ pc = "hit"
          /\ pc' = IF err' THEN "unset" ELSE "summaries"
      BY <1>11 DEF ReadFaultHit
    <3>4. ~err' => ~Damaged(directory.faults)
      BY <3>1
    <3>5. LogRead' /\ ReportsRead'
      BY <3>3, <3>4 DEF LogRead, ReportsRead
    <3>6. CurrentKnown'
      BY <1>c, <3>2, <3>3 DEF CurrentKnown
    <3> QED BY <3>5, <3>6
  <2>4. UntrustedExcused'
    <3>1. ASSUME NEW i \in DOMAIN walked, Untrusted(i), Excused(i) PROVE Excused(i)'
      BY <1>t, <1>n, <1>e, <1>11, <3>1 DEF ReadFaultHit, totals, Excused, ErrorStops
    <3>2. UNCHANGED walked
      BY <1>11 DEF ReadFaultHit
    <3> QED BY <3>1, <3>2, StillExcused
  <2> QED BY <1>i, <2>1, <2>2, <2>4 DEF TrustInv
<1>12. CASE ReadSummaries
  <2>1. Counting'
    BY <1>t, <1>n, <1>e, <1>c, <1>12 DEF ReadSummaries, totals, Counting, ErrorStops,
         NothingWalkedYet
  <2>2. CurrentKnown' /\ LogRead' /\ ReportsRead'
    <3>1. result'.ok = result.ok /\ result'.status = result.status
      BY <1>t, <1>12 DEF ReadSummaries, ResultType
    <3>2. /\ result'.logged => directory.logged
          /\ result'.resources => directory.resources.file = "parsed"
          /\ result'.analysis => /\ directory.analysis.file = "parsed"
                                 /\ result'.findings = directory.analysis.findings
      BY <1>t, <1>12 DEF ReadSummaries, ResultType
    <3>3. UNCHANGED <<directory, walked>> /\ pc = "summaries" /\ pc' = "unset"
      BY <1>12 DEF ReadSummaries
    <3>4. LogRead' /\ ReportsRead'
      BY <1>c, <3>2, <3>3 DEF LogRead, ReportsRead
    <3>5. CurrentKnown'
      BY <1>c, <3>1, <3>3 DEF CurrentKnown
    <3> QED BY <3>4, <3>5
  <2>4. UntrustedExcused'
    <3>1. ASSUME NEW i \in DOMAIN walked, Untrusted(i), Excused(i) PROVE Excused(i)'
      BY <1>t, <1>n, <1>e, <1>12, <3>1 DEF ReadSummaries, totals, Excused, ErrorStops
    <3>2. UNCHANGED walked
      BY <1>12 DEF ReadSummaries
    <3> QED BY <3>1, <3>2, StillExcused
  <2> QED BY <1>i, <2>1, <2>2, <2>4 DEF TrustInv
<1>13. CASE ClearAfter
  <2>0. (err => err') /\ err' \in BOOLEAN
    BY <1>t, <1>13, UnsetenvEffect DEF ClearAfter
  <2>1. Counting'
    BY <1>t, <1>n, <1>e, <1>c, <2>0, <1>13 DEF ClearAfter, totals, Counting, ErrorStops,
         NothingWalkedYet
  <2>2. CurrentKnown'
    BY <1>c, <2>0, <1>13 DEF ClearAfter, totals, CurrentKnown
  <2>3. LogRead' /\ ReportsRead'
    BY <1>c, <2>0, <1>13 DEF ClearAfter, totals, LogRead, ReportsRead
  <2>4. UntrustedExcused'
    <3>1. ASSUME NEW i \in DOMAIN walked, Untrusted(i), Excused(i) PROVE Excused(i)'
      BY <1>t, <1>n, <1>e, <2>0, <1>13, <3>1 DEF ClearAfter, totals, Excused, ErrorStops
    <3>2. UNCHANGED walked
      BY <1>13 DEF ClearAfter
    <3> QED BY <3>1, <3>2, StillExcused
  <2> QED BY <1>i, <2>1, <2>2, <2>3, <2>4 DEF TrustInv
<1>14. CASE TallyBaseline
  <2>1. Counting'
    BY <1>t, <1>n, <1>e, <1>c, <1>14 DEF TallyBaseline, totals, NextCase, Counting,
         ErrorStops, NothingWalkedYet
  <2>2. CurrentKnown' /\ LogRead' /\ ReportsRead'
    BY <1>c, <1>e, <1>14 DEF TallyBaseline, totals, NextCase, CurrentKnown, LogRead,
         ReportsRead, ErrorStops
  <2>4. UntrustedExcused'
    <3>1. ASSUME NEW i \in DOMAIN walked, Untrusted(i), Excused(i) PROVE Excused(i)'
      <4>1. pc \notin {"report", "done"} /\ ~err => trouble \/ i = Len(walked)
        BY <3>1 DEF Excused
      <4>2. i = Len(walked) => trouble'
        BY <3>1, <1>14, Judged DEF TallyBaseline
      <4>3. trouble => trouble'
        BY <1>14 DEF TallyBaseline
      <4>4. pc \notin {"report", "done"} /\ pc' \notin {"report", "done"}
        BY <1>14 DEF TallyBaseline, NextCase
      <4>5. ~err
        BY <1>e, <1>14 DEF TallyBaseline, ErrorStops
      <4> QED BY <4>1, <4>2, <4>3, <4>4, <4>5 DEF Excused
    <3>2. UNCHANGED walked
      BY <1>14 DEF TallyBaseline
    <3> QED BY <3>1, <3>2, StillExcused
  <2> QED BY <1>i, <2>1, <2>2, <2>4 DEF TrustInv
<1>15. CASE TallyFault
  <2>1. Counting'
    BY <1>t, <1>n, <1>e, <1>c, <1>15 DEF TallyFault, totals, NextCase, Counting, ErrorStops,
         NothingWalkedYet
  <2>2. CurrentKnown' /\ LogRead' /\ ReportsRead'
    BY <1>c, <1>e, <1>15 DEF TallyFault, totals, NextCase, CurrentKnown, LogRead,
         ReportsRead, ErrorStops
  <2>4. UntrustedExcused'
    <3>1. ASSUME NEW i \in DOMAIN walked, Untrusted(i), Excused(i) PROVE Excused(i)'
      <4>1. pc \notin {"report", "done"} /\ ~err => trouble \/ i = Len(walked)
        BY <3>1 DEF Excused
      <4>2. i = Len(walked) => trouble'
        BY <3>1, <1>15, Judged DEF TallyFault
      <4>3. trouble => trouble'
        BY <1>15 DEF TallyFault
      <4>4. pc \notin {"report", "done"} /\ pc' \notin {"report", "done"}
        BY <1>15 DEF TallyFault, NextCase
      <4>5. ~err
        BY <1>e, <1>15 DEF TallyFault, ErrorStops
      <4> QED BY <4>1, <4>2, <4>3, <4>4, <4>5 DEF Excused
    <3>2. UNCHANGED walked
      BY <1>15 DEF TallyFault
    <3> QED BY <3>1, <3>2, StillExcused
  <2> QED BY <1>i, <2>1, <2>2, <2>4 DEF TrustInv
<1>16. CASE PrintSummary
  <2>1. Counting'
    BY <1>t, <1>n, <1>e, <1>c, <1>16 DEF PrintSummary, totals, Counting, ErrorStops,
         NothingWalkedYet
  <2>2. CurrentKnown' /\ LogRead' /\ ReportsRead'
    BY <1>c, <1>e, <1>16 DEF PrintSummary, totals, CurrentKnown, LogRead, ReportsRead, ErrorStops
  <2>4. UntrustedExcused'
    <3>1. ASSUME NEW i \in DOMAIN walked, Untrusted(i), Excused(i) PROVE Excused(i)'
      BY <1>t, <1>n, <1>e, <1>16, <3>1 DEF PrintSummary, totals, Excused, ErrorStops
    <3>2. UNCHANGED walked
      BY <1>16 DEF PrintSummary
    <3> QED BY <3>1, <3>2, StillExcused
  <2> QED BY <1>i, <2>1, <2>2, <2>4 DEF TrustInv
<1>17. CASE ResetRunEnvironment
  <2>0. (err => err') /\ err' \in BOOLEAN
    BY <1>t, <1>17, UnsetenvEffect DEF ResetRunEnvironment
  <2>1. Counting'
    BY <1>t, <1>n, <1>e, <1>c, <2>0, <1>17 DEF ResetRunEnvironment, totals, ExitStatus,
         Counting, ErrorStops, NothingWalkedYet
  <2>2. CurrentKnown' /\ LogRead' /\ ReportsRead'
    BY <1>c, <1>e, <2>0, <1>17 DEF ResetRunEnvironment, totals, ExitStatus, CurrentKnown,
         LogRead, ReportsRead, ErrorStops
  <2>4. UntrustedExcused'
    <3>1. ASSUME NEW i \in DOMAIN walked, Untrusted(i), Excused(i) PROVE Excused(i)'
      <4>1. err \/ trouble
        BY <1>17, <3>1 DEF ResetRunEnvironment, Excused
      <4>2. err' \/ trouble => exit' = 2
        BY <1>17 DEF ResetRunEnvironment, ExitStatus
      <4>3. pc' = "report"
        BY <1>17 DEF ResetRunEnvironment
      <4> QED BY <2>0, <4>1, <4>2, <4>3 DEF Excused
    <3>2. UNCHANGED walked
      BY <1>17 DEF ResetRunEnvironment
    <3> QED BY <3>1, <3>2, StillExcused
  <2> QED BY <1>i, <2>1, <2>2, <2>4 DEF TrustInv
<1>18. CASE ReportError
  <2>1. Counting'
    BY <1>t, <1>n, <1>e, <1>c, <1>18 DEF ReportError, totals, Counting, ErrorStops,
         NothingWalkedYet
  <2>2. CurrentKnown' /\ LogRead' /\ ReportsRead'
    BY <1>c, <1>e, <1>18 DEF ReportError, totals, CurrentKnown, LogRead, ReportsRead, ErrorStops
  <2>4. UntrustedExcused'
    <3>1. ASSUME NEW i \in DOMAIN walked, Untrusted(i), Excused(i) PROVE Excused(i)'
      BY <1>t, <1>n, <1>e, <1>18, <3>1 DEF ReportError, totals, Excused, ErrorStops
    <3>2. UNCHANGED walked
      BY <1>18 DEF ReportError
    <3> QED BY <3>1, <3>2, StillExcused
  <2> QED BY <1>i, <2>1, <2>2, <2>4 DEF TrustInv
<1>19. CASE UNCHANGED vars
  BY <1>i, <1>19 DEF vars, TrustInv, Counting, CurrentKnown, LogRead, ReportsRead,
       UntrustedExcused,
                  Excused, Untrusted
<1> QED BY <1>1, <1>2, <1>3, <1>4, <1>5, <1>6, <1>7, <1>8, <1>9, <1>10, <1>11, <1>12, <1>13,
           <1>14, <1>15, <1>16, <1>17, <1>18, <1>19
       DEF Next, Step, Finished

\* No exit status 0 or 1 rests on a pipeline that did not run or broke, on a
\* report that is missing, damaged or unreadable, or on the evidence of another
\* case of the walk: provided a fault log that is there can be opened, and for
\* every mixture of old and new files in run directories that already existed.
THEOREM VerdictOnEvidence ==
  ASSUME "faults" \notin Missable
  PROVE  Spec => []NoVerdictOnBadEvidence
<1>1. Init => TrustInv
  BY InitTrusted
<1>2. TrustInv /\ [Next]_vars => TrustInv'
  BY StepTrusted
<1>3. TrustInv => NoVerdictOnBadEvidence
  BY DEF TrustInv, UntrustedExcused, Excused, Judging, NoVerdictOnBadEvidence
<1> QED BY <1>1, <1>2, <1>3, PTL DEF Spec

-----------------------------------------------------------------------------
(* The totals and the order of the cases, and with them the campaign.        *)

\* The cases the totals have in them: not the one that is being judged.
Tallied == IF pc \in Judging THEN Len(walked) - 1 ELSE Len(walked)

\* What was recorded of the current case is what its run directory holds ...
CurrentSeen ==
  pc \in Judging /\ ~(pc = "unset" /\ err) =>
    LET current == walked[Len(walked)] IN
    /\ current.hit = Hit(directory.faults)
    /\ current.hit => current.name = HitName(directory.faults)
    /\ current.findings = directory.analysis.findings

\* ... and so is what the program has read of the fault log.
HitKnown ==
  pc = "summaries" \/ (pc \in {"unset", "baseline", "tally"} /\ ~err) =>
    /\ result.hit = Hit(directory.faults)
    /\ result.hit => result.name = HitName(directory.faults)

Starting == {"paths", "clear", "set", "run"}

\* The walk goes on only after a fault that fired.
AllHit ==
  /\ \A i \in 2 .. Len(walked) - 1 : walked[i].hit
  /\ pc \in Starting /\ Len(walked) > 1 => walked[Len(walked)].hit

Found(i) == (i = 1 \/ walked[i].hit) /\ walked[i].findings > 0

\* The findings of the tallied cases are counted.
FindingsCounted ==
  ~err /\ ~trouble => (findings > 0 <=> \E i \in 1 .. Tallied : Found(i))

\* The name under which a case is listed.
Label(name) == IF name = NoName THEN "?" ELSE name

Named(w, n, k) == {i \in 2 .. k : w[i].hit /\ n = Label(w[i].name)}

Share(w, n, i) == IF i \in Named(w, n, i) THEN w[i].findings ELSE 0

\* v is the sum of the findings of the first k cases that are listed under n.
IsRunning(w, n, k, g) ==
  /\ g \in [0 .. k -> Nat] /\ g[0] = 0
  /\ \A i \in 1 .. k : g[i] = g[i - 1] + Share(w, n, i)

Sums(w, n, k, v) == \E g : IsRunning(w, n, k, g) /\ g[k] = v

\* Each group has what was tallied under its name, and a name without a group
\* was dropped when the table was full.
GroupsCounted ==
  ~err /\ ~trouble =>
    /\ \A n \in DOMAIN groups : /\ groups[n].runs = Cardinality(Named(walked, n, Tallied))
                                /\ Sums(walked, n, Tallied, groups[n].findings)
    /\ \A i \in 2 .. Tallied :
         walked[i].hit => \/ Label(walked[i].name) \in DOMAIN groups
                          \/ ~(Cardinality(DOMAIN groups) < GroupLimit)

\* While the options are read there is no error.
NoErrorYet == pc \in Opening => ~err

\* A series that came to its end ...
Ended ==
  /\ Len(walked) > 0
  /\ \/ Len(walked) = request.max + 1
     \/ Len(walked) > 1 /\ ~walked[Len(walked)].hit

AnyFound == \E i \in 1 .. Len(walked) : Found(i)

\* ... and the verdict on it.
Closed ==
  /\ pc = "usage" => request.help
  /\ pc \in {"summary", "reset"} /\ ~err => Ended
  /\ pc = "report" /\ ~err /\ exit # 2 =>
       \/ request.help /\ walked = <<>> /\ exit = 0
       \/ Ended /\ exit = IF AnyFound THEN 1 ELSE 0

CampaignInv ==
  /\ TrustInv
  /\ NoErrorYet /\ CurrentSeen /\ HitKnown /\ AllHit /\ FindingsCounted /\ GroupsCounted /\ Closed

-----------------------------------------------------------------------------
(* Counting the cases of a name and adding up their findings.                *)

\* Cases that come later do not change what was counted.
LEMMA SameNamed ==
  ASSUME NEW w, NEW x, NEW k \in Nat, \A i \in 1 .. k : x[i] = w[i]
  PROVE  \A n : Named(x, n, k) = Named(w, n, k)
BY DEF Named

LEMMA SameSums ==
  ASSUME NEW w, NEW x, NEW k \in Nat, \A i \in 1 .. k : x[i] = w[i]
  PROVE  \A n, v : Sums(w, n, k, v) => Sums(x, n, k, v)
<1> SUFFICES ASSUME NEW n, NEW v, Sums(w, n, k, v) PROVE Sums(x, n, k, v)
    OBVIOUS
<1>1. PICK g : IsRunning(w, n, k, g) /\ g[k] = v
  BY DEF Sums
<1>2. \A i \in 1 .. k : Share(x, n, i) = Share(w, n, i)
  BY DEF Share, Named
<1>3. IsRunning(x, n, k, g)
  BY <1>1, <1>2 DEF IsRunning
<1> QED BY <1>1, <1>3 DEF Sums

\* One more case.
LEMMA NamedMore ==
  ASSUME NEW w, NEW n, NEW k \in Nat, k > 0, k = 1 \/ ~w[k].hit \/ n # Label(w[k].name)
  PROVE  Named(w, n, k) = Named(w, n, k - 1) /\ Share(w, n, k) = 0
<1>1. \A i : i \in 2 .. k <=> i \in 2 .. k - 1 \/ (i = k /\ k # 1)
  OBVIOUS
<1>2. k \notin 2 .. 1
  OBVIOUS
<1> QED BY <1>1, <1>2 DEF Named, Share

LEMMA NamedOne ==
  ASSUME NEW w, NEW n, NEW k \in Nat, k > 1, w[k].hit, n = Label(w[k].name)
  PROVE  /\ Named(w, n, k) = Named(w, n, k - 1) \cup {k} /\ k \notin Named(w, n, k - 1)
         /\ IsFiniteSet(Named(w, n, k - 1))
         /\ Cardinality(Named(w, n, k)) = Cardinality(Named(w, n, k - 1)) + 1
         /\ Share(w, n, k) = w[k].findings
<1>1. Named(w, n, k) = Named(w, n, k - 1) \cup {k} /\ k \notin Named(w, n, k - 1)
  BY DEF Named
<1>2. IsFiniteSet(Named(w, n, k - 1))
  <2>1. IsFiniteSet(2 .. k - 1)
    BY FS_Interval
  <2>2. Named(w, n, k - 1) \subseteq 2 .. k - 1
    BY DEF Named
  <2> QED BY <2>1, <2>2, FS_Subset
<1>3. Cardinality(Named(w, n, k)) = Cardinality(Named(w, n, k - 1)) + 1
  BY <1>1, <1>2, FS_AddElement
<1>4. Share(w, n, k) = w[k].findings
  BY DEF Named, Share
<1> QED BY <1>1, <1>2, <1>3, <1>4

LEMMA SumsMore ==
  ASSUME NEW w, NEW n, NEW k \in Nat, k > 0, NEW v \in Nat, Sums(w, n, k - 1, v),
         Share(w, n, k) \in Nat
  PROVE  Sums(w, n, k, v + Share(w, n, k))
<1>1. PICK g : IsRunning(w, n, k - 1, g) /\ g[k - 1] = v
  BY DEF Sums
<1> DEFINE s == Share(w, n, k)
           h == [i \in 0 .. k |-> IF i = k THEN v + s ELSE g[i]]
<1>2. \A i \in 0 .. k : i = k \/ i \in 0 .. k - 1
  OBVIOUS
<1>3. g \in [0 .. k - 1 -> Nat] /\ g[0] = 0
      /\ \A i \in 1 .. k - 1 : g[i] = g[i - 1] + Share(w, n, i)
  BY <1>1 DEF IsRunning
<1>4. h \in [0 .. k -> Nat]
  <2> HIDE DEF s
  <2>1. s \in Nat
    BY DEF s
  <2> QED BY <1>2, <1>3, <2>1
<1>5. h[k] = v + s /\ \A i \in 0 .. k - 1 : h[i] = g[i]
  OBVIOUS
<1> HIDE DEF h, s
<1>6. h[0] = 0
  BY <1>3, <1>5
<1>7. ASSUME NEW i \in 1 .. k PROVE h[i] = h[i - 1] + Share(w, n, i)
  <2>1. CASE i = k
    <3>1. k - 1 \in 0 .. k - 1
      OBVIOUS
    <3>2. h[k - 1] = v
      BY <1>1, <1>5, <3>1
    <3> QED BY <1>5, <2>1, <3>2 DEF s
  <2>2. CASE i # k
    <3>1. i \in 1 .. k - 1 /\ i \in 0 .. k - 1 /\ i - 1 \in 0 .. k - 1
      BY <2>2
    <3> QED BY <1>3, <1>5, <3>1
  <2> QED BY <2>1, <2>2
<1>8. IsRunning(w, n, k, h)
  BY <1>4, <1>6, <1>7 DEF IsRunning
<1> QED BY <1>5, <1>8 DEF Sums, s

\* A name that no case has.
LEMMA SumsNone ==
  ASSUME NEW w, NEW n, NEW k \in Nat, Named(w, n, k) = {}
  PROVE  Sums(w, n, k, 0)
<1> DEFINE g == [i \in 0 .. k |-> 0]
<1>1. \A i \in 1 .. k : Share(w, n, i) = 0
  BY DEF Named, Share
<1>2. IsRunning(w, n, k, g)
  BY <1>1 DEF IsRunning
<1>3. g[k] = 0
  OBVIOUS
<1> QED BY <1>2, <1>3 DEF Sums

LEMMA InitCounted == Init => CampaignInv
<1> SUFFICES ASSUME Init PROVE CampaignInv
    OBVIOUS
<1>1. /\ pc = "parse" /\ err = FALSE /\ walked = <<>> /\ findings = 0
      /\ groups = [n \in {} |-> [runs |-> 0, findings |-> 0]]
  BY DEF Init
<1>2. Tallied = 0
  BY <1>1 DEF Tallied, Judging
<1>3. DOMAIN groups = {}
  BY <1>1
<1>4. NoErrorYet /\ CurrentSeen /\ HitKnown /\ AllHit /\ Closed
  BY <1>1 DEF NoErrorYet, CurrentSeen, HitKnown, AllHit, Closed, Judging, Starting
<1>5. FindingsCounted /\ GroupsCounted
  BY <1>1, <1>2, <1>3 DEF FindingsCounted, GroupsCounted
<1> QED BY <1>4, <1>5, InitTrusted DEF CampaignInv

\* The steps that leave the cases and their totals alone.
QuietStep ==
  \/ ParseArguments \/ Usage \/ CheckArguments \/ ConvertArguments
  \/ MakeLogPaths \/ ClearBefore \/ SetControls \/ PipelineHangs
  \/ ReadFaultHit \/ ReadSummaries \/ ClearAfter
  \/ PrintSummary \/ ResetRunEnvironment \/ ReportError

\* What all of them have in common.
Quiet ==
  /\ walked' = walked /\ findings' = findings /\ groups' = groups
  /\ request' = request
  /\ err => err'
  /\ trouble => trouble'
  /\ pc' \in Judging /\ ~(pc' = "unset" /\ err') =>
       pc \in Judging /\ ~(pc = "unset" /\ err) /\ directory' = directory
  /\ pc \in Judging /\ pc' \notin Judging => err'
  /\ pc' \in Starting => pc \in Starting \cup {"convert"}
  /\ pc' \in Opening => ~err'

LEMMA QuietFacts ==
  ASSUME TrustInv, NoErrorYet, QuietStep
  PROVE  Quiet
<1>e. err \in BOOLEAN /\ trouble \in BOOLEAN
      /\ environ \in [Controls -> Nat \cup {Unset, Inherited}]
  BY DEF TrustInv, IsolationInv, TypeInv, ControlOK, EvidenceOK, TotalsOK
<1>s. pc \in Opening => ~err
  BY DEF NoErrorYet
<1> USE DEF Quiet, Judging, Starting, Opening, totals
<1>1. CASE ParseArguments
  BY <1>e, <1>s, <1>1 DEF ParseArguments
<1>2. CASE Usage
  BY <1>e, <1>s, <1>2 DEF Usage
<1>3. CASE CheckArguments
  BY <1>e, <1>s, <1>3 DEF CheckArguments
<1>4. CASE ConvertArguments
  BY <1>e, <1>s, <1>4 DEF ConvertArguments
<1>5. CASE MakeLogPaths
  BY <1>e, <1>5 DEF MakeLogPaths
<1>6. CASE ClearBefore
  <2>1. err => err'
    BY <1>e, <1>6, UnsetenvEffect DEF ClearBefore, Unsetenv
  <2> QED BY <1>e, <1>6, <2>1 DEF ClearBefore
<1>7. CASE SetControls
  BY <1>e, <1>7 DEF SetControls
<1>8. CASE PipelineHangs
  BY <1>e, <1>8 DEF PipelineHangs
<1>9. CASE ReadFaultHit
  BY <1>e, <1>9 DEF ReadFaultHit
<1>10. CASE ReadSummaries
  BY <1>e, <1>10 DEF ReadSummaries
<1>11. CASE ClearAfter
  <2>1. err => err'
    BY <1>e, <1>11 DEF ClearAfter, Unsetenv
  <2> QED BY <1>e, <1>11, <2>1 DEF ClearAfter
<1>12. CASE PrintSummary
  BY <1>e, <1>12 DEF PrintSummary
<1>13. CASE ResetRunEnvironment
  <2>1. err => err'
    BY <1>e, <1>13 DEF ResetRunEnvironment, Unsetenv
  <2> QED BY <1>e, <1>13, <2>1 DEF ResetRunEnvironment
<1>14. CASE ReportError
  BY <1>e, <1>14 DEF ReportError
<1> QED BY <1>1, <1>2, <1>3, <1>4, <1>5, <1>6, <1>7, <1>8, <1>9, <1>10, <1>11, <1>12, <1>13,
           <1>14 DEF QuietStep

\* They keep what is known of the totals.
LEMMA QuietCounts ==
  ASSUME Quiet, NoErrorYet, FindingsCounted, GroupsCounted, CurrentSeen, AllHit,
         NothingWalkedYet
  PROVE  NoErrorYet' /\ FindingsCounted' /\ GroupsCounted' /\ CurrentSeen' /\ AllHit'
<1>1. /\ walked' = walked /\ findings' = findings /\ groups' = groups
      /\ err => err'
      /\ trouble => trouble'
  BY DEF Quiet
<1>2. err' \/ Tallied' = Tallied
  BY <1>1 DEF Quiet, Tallied, Judging
<1>3. FindingsCounted'
  BY <1>1, <1>2 DEF FindingsCounted, Found
<1>4. GroupsCounted'
  <2> SUFFICES ASSUME ~err', ~trouble' PROVE GroupsCounted'
    BY DEF GroupsCounted
  <2>1. ~err /\ ~trouble /\ Tallied' = Tallied
    BY <1>1, <1>2
  <2> QED BY <1>1, <2>1 DEF GroupsCounted
<1>5. CurrentSeen'
  BY <1>1 DEF Quiet, CurrentSeen
<1>6. AllHit'
  BY <1>1 DEF Quiet, AllHit, NothingWalkedYet, Opening
<1>7. NoErrorYet'
  BY DEF Quiet, NoErrorYet
<1> QED BY <1>3, <1>4, <1>5, <1>6, <1>7

\* Reading the fault log and the totals at the end.
LEMMA QuietKnows ==
  ASSUME "faults" \notin Missable, TrustInv, NoErrorYet, QuietStep, HitKnown
  PROVE  HitKnown'
<1>q. Quiet
  BY QuietFacts
<1>e. err \in BOOLEAN /\ result \in ResultType
  BY DEF TrustInv, IsolationInv, TypeInv, ControlOK, EvidenceOK
<1>1. CASE ReadFaultHit
  <2>1. PICK outcome \in {"read", "readError"} :
          LET hit == outcome = "read" /\ Hit(directory.faults) IN
          /\ err' = (err \/ outcome = "readError"
                         \/ (outcome = "read" /\ Damaged(directory.faults)))
          /\ result' = [result EXCEPT !.hit = hit,
                                      !.name = IF hit THEN HitName(directory.faults) ELSE NoName]
    BY <1>1 DEF ReadFaultHit
  <2>2. pc' = (IF err' THEN "unset" ELSE "summaries") /\ directory' = directory
    BY <1>1 DEF ReadFaultHit
  <2>3. CASE err'
    BY <2>2, <2>3 DEF HitKnown
  <2>4. CASE ~err'
    <3>1. outcome = "read"
      BY <2>1, <2>4
    <3>2. Hit(directory.faults) \in BOOLEAN
      BY DEF Hit
    <3> DEFINE h == Hit(directory.faults)
               m == IF h THEN HitName(directory.faults) ELSE NoName
    <3> DEFINE o == outcome = "read" /\ h
               n == IF o THEN HitName(directory.faults) ELSE NoName
    <3>5. result' = [result EXCEPT !.hit = o, !.name = n]
      BY <2>1, Zenon
    <3>6. o = h
      BY <3>1, <3>2
    <3> HIDE DEF o
    <3>7. n = m
      BY <3>6, Zenon
    <3> HIDE DEF n
    <3>3. result' = [result EXCEPT !.hit = h, !.name = m]
      BY <3>5, <3>6, <3>7, Zenon
    <3> HIDE DEF m
    <3>4. result'.hit = h /\ result'.name = m
      BY <1>e, <3>3 DEF ResultType
    <3> QED BY <2>2, <3>4 DEF HitKnown, m
  <2> QED BY <2>3, <2>4
<1>2. CASE ReadSummaries
  <2>1. result'.hit = result.hit /\ result'.name = result.name
    BY <1>e, <1>2 DEF ReadSummaries, ResultType
  <2>2. pc = "summaries" /\ pc' = "unset" /\ directory' = directory
    BY <1>2 DEF ReadSummaries
  <2> QED BY <2>1, <2>2 DEF HitKnown
<1>3. CASE ClearAfter
  <2>1. result' = result /\ directory' = directory /\ pc = "unset"
        /\ (pc' = "reset" \/ pc' \in {"baseline", "tally"})
    BY <1>3 DEF ClearAfter
  <2>2. err => err'
    BY <1>q DEF Quiet
  <2> QED BY <2>1, <2>2 DEF HitKnown
<1>4. CASE QuietStep /\ ~ReadFaultHit /\ ~ReadSummaries /\ ~ClearAfter
  <2>1. ~(pc' = "summaries" \/ (pc' \in {"unset", "baseline", "tally"} /\ ~err'))
    BY <1>4 DEF QuietStep, ParseArguments, Usage, CheckArguments, ConvertArguments, MakeLogPaths,
         ClearBefore, SetControls, PipelineHangs, PrintSummary, ResetRunEnvironment, ReportError
  <2> QED BY <2>1 DEF HitKnown
<1> QED BY <1>1, <1>2, <1>3, <1>4

\* The end of a series is still its end, and the exit status is the judgement.
LEMMA QuietCloses ==
  ASSUME TrustInv, NoErrorYet, QuietStep, FindingsCounted, Closed
  PROVE  Closed'
<1>q. Quiet
  BY QuietFacts
<1>w. walked' = walked /\ request' = request /\ Ended' = Ended /\ AnyFound' = AnyFound
  BY <1>q DEF Quiet, Ended, AnyFound, Found
<1>e. err \in BOOLEAN /\ trouble \in BOOLEAN /\ findings \in Nat
      /\ (pc \in Opening => walked = <<>>)
  BY DEF TrustInv, IsolationInv, TypeInv, ControlOK, TotalsOK, NothingWalkedYet
<1>1. CASE ParseArguments
  BY <1>w, <1>1 DEF ParseArguments, Closed
<1>2. CASE Usage
  BY <1>w, <1>e, <1>2 DEF Usage, Closed, Opening
<1>3. CASE CheckArguments \/ ConvertArguments
  BY <1>w, <1>3 DEF CheckArguments, ConvertArguments, Closed
<1>4. CASE MakeLogPaths \/ ClearBefore \/ SetControls \/ PipelineHangs \/ ReadFaultHit
           \/ ReadSummaries
  BY <1>4 DEF MakeLogPaths, ClearBefore, SetControls, PipelineHangs, ReadFaultHit,
       ReadSummaries, Closed
<1>5. CASE ClearAfter
  BY <1>5 DEF ClearAfter, Closed
<1>6. CASE PrintSummary
  <2>1. err => err'
    BY <1>q DEF Quiet
  <2> QED BY <1>w, <1>6, <2>1 DEF PrintSummary, Closed
<1>7. CASE ResetRunEnvironment
  <2>1. err => err'
    BY <1>q DEF Quiet
  <2>2. pc = "reset" /\ pc' = "report" /\ exit' = ExitStatus(err')
    BY <1>7 DEF ResetRunEnvironment
  <2>3. ASSUME ~err', exit' # 2 PROVE Ended /\ exit' = IF AnyFound THEN 1 ELSE 0
    <3>1. ~err /\ ~trouble
      BY <2>1, <2>2, <2>3 DEF ExitStatus
    <3>2. Ended
      BY <2>2, <3>1 DEF Closed
    <3>3. findings > 0 <=> AnyFound
      BY <2>2, <3>1 DEF FindingsCounted, Tallied, Judging, AnyFound
    <3>4. exit' = IF findings > 0 THEN 1 ELSE 0
      BY <2>2, <2>3, <3>1 DEF ExitStatus
    <3> QED BY <3>2, <3>3, <3>4
  <2> QED BY <1>w, <2>2, <2>3 DEF Closed
<1>8. CASE ReportError
  BY <1>8 DEF ReportError, Closed
<1> QED BY <1>1, <1>2, <1>3, <1>4, <1>5, <1>6, <1>7, <1>8 DEF QuietStep

-----------------------------------------------------------------------------
(* Starting a pipeline.                                                      *)

LEMMA StartSeen ==
  ASSUME EvidenceOK, NEW world \in World, NEW ran \in BOOLEAN, NEW own \in BOOLEAN,
         Start(world, ran, own)
  PROVE  LET current == walked'[Len(walked')] IN
         /\ walked' = Append(walked, current)
         /\ current.call = environ["call"]
         /\ current.hit = Hit(world.faults)
         /\ current.hit => current.name = HitName(world.faults)
         /\ current.findings = world.analysis.findings
<1> DEFINE h == Hit(world.faults)
           m == IF h THEN HitName(world.faults) ELSE NoName
           c == [ran |-> ran, own |-> own, reused |-> index < oldCases,
                 call |-> environ["call"], sound |-> Sound(world),
                 silent |-> world.status # "success" /\ world.analysis.findings = 0,
                 hit |-> h, name |-> m, findings |-> world.analysis.findings]
<1>1. walked' = Append(walked, c)
  BY DEF Start
<1>2. /\ c.call = environ["call"] /\ c.hit = h /\ c.name = m
      /\ c.findings = world.analysis.findings
  BY Zenon
<1> HIDE DEF c
<1>3. walked'[Len(walked')] = c
  BY <1>1 DEF EvidenceOK
<1> QED BY <1>1, <1>2, <1>3

LEMMA StartCounts ==
  ASSUME CampaignInv, NEW world \in World, NEW ran \in BOOLEAN, NEW own \in BOOLEAN,
         Start(world, ran, own),
         pc = "run", pc' = "hit", err => err',
         request' = request, findings' = findings, trouble' = trouble, groups' = groups
  PROVE  /\ NoErrorYet' /\ FindingsCounted' /\ GroupsCounted' /\ CurrentSeen' /\ AllHit'
         /\ HitKnown' /\ Closed'
<1>1. EvidenceOK
  BY DEF CampaignInv, TrustInv, IsolationInv, TypeInv
<1>2. /\ Len(walked) \in Nat /\ Len(walked') = Len(walked) + 1
      /\ \A i \in 1 .. Len(walked) : walked'[i] = walked[i]
      /\ directory' = world
  BY <1>1, StartRecorded DEF EvidenceOK
<1>3. Tallied = Len(walked) /\ Tallied' = Len(walked)
  BY <1>2 DEF Tallied, Judging
<1>4. NoErrorYet' /\ HitKnown' /\ Closed'
  BY DEF NoErrorYet, HitKnown, Closed, Opening
<1>5. AllHit'
  <2>1. \A i \in 2 .. Len(walked) : walked[i].hit
    <3>1. \A i \in 2 .. Len(walked) : i \in 2 .. Len(walked) - 1 \/ (i = Len(walked) /\ i > 1)
      BY <1>2
    <3> QED BY <3>1 DEF CampaignInv, AllHit, Starting
  <2>2. \A i \in 2 .. Len(walked') - 1 : i \in 2 .. Len(walked) /\ i \in 1 .. Len(walked)
    BY <1>2
  <2>3. \A i \in 2 .. Len(walked') - 1 : walked'[i].hit
    BY <1>2, <2>1, <2>2
  <2> QED BY <2>3 DEF AllHit, Starting
<1>6. CurrentSeen'
  BY <1>1, <1>2, StartSeen DEF CurrentSeen
<1>7. FindingsCounted'
  <2>1. \A i \in 1 .. Len(walked) : Found(i)' <=> Found(i)
    BY <1>2 DEF Found
  <2> QED BY <1>3, <2>1 DEF CampaignInv, FindingsCounted
<1>8. GroupsCounted'
  <2> SUFFICES ASSUME ~err', ~trouble' PROVE GroupsCounted'
    BY DEF GroupsCounted
  <2> DEFINE k == Len(walked)
  <2>1. k \in Nat /\ Tallied = k /\ Tallied' = k /\ \A i \in 1 .. k : walked'[i] = walked[i]
    BY <1>2, <1>3
  <2>2. /\ \A n \in DOMAIN groups : /\ groups[n].runs = Cardinality(Named(walked, n, k))
                                    /\ Sums(walked, n, k, groups[n].findings)
        /\ \A i \in 2 .. k :
             walked[i].hit => \/ Label(walked[i].name) \in DOMAIN groups
                              \/ ~(Cardinality(DOMAIN groups) < GroupLimit)
    BY <1>3 DEF CampaignInv, GroupsCounted
  <2> HIDE DEF k
  <2>3. \A n : Named(walked', n, k) = Named(walked, n, k)
    BY <2>1, SameNamed
  <2>4. \A n, v : Sums(walked, n, k, v) => Sums(walked', n, k, v)
    BY <2>1, SameSums
  <2>5. \A i \in 2 .. k : walked'[i] = walked[i]
    BY <2>1
  <2> QED BY <2>1, <2>2, <2>3, <2>4, <2>5 DEF GroupsCounted
<1> QED BY <1>4, <1>5, <1>6, <1>7, <1>8

-----------------------------------------------------------------------------
(* Judging a case.                                                           *)

LEMMA TallyFacts ==
  ASSUME CampaignInv, pc \in {"baseline", "tally"}
  PROVE  LET current == walked[Len(walked)] IN
         /\ ~err /\ index \in Nat /\ index <= request.max /\ request.max \in Nat
         /\ Len(walked) = index + 1 /\ Tallied = index
         /\ pc = "baseline" => index = 0
         /\ pc = "tally" => index > 0
         /\ current \in Case
         /\ result.hit = current.hit
         /\ result.hit => result.name = current.name
         /\ ~AnalysisSummaryUnavailable => result.findings = current.findings
         /\ result.findings \in Nat /\ findings \in Nat
<1>1. ~err /\ index \in Nat /\ index <= request.max /\ request.max \in Nat
      /\ result.findings \in Nat /\ findings \in Nat /\ walked \in Seq(Case)
  BY DEF CampaignInv, TrustInv, IsolationInv, TypeInv, ControlOK, EvidenceOK, TotalsOK, ResultType,
         ErrorStops, CaseIndices, Request
<1>2. /\ Len(walked) = index + 1
      /\ pc = "baseline" => index = 0
      /\ pc = "tally" => index > 0
  BY DEF CampaignInv, TrustInv, Counting, Judging
<1>3. Tallied = index
  BY <1>1, <1>2 DEF Tallied, Judging
<1>4. walked[Len(walked)] \in Case
  BY <1>1, <1>2
<1>5. /\ walked[Len(walked)].hit = Hit(directory.faults)
      /\ walked[Len(walked)].hit => walked[Len(walked)].name = HitName(directory.faults)
      /\ walked[Len(walked)].findings = directory.analysis.findings
  BY <1>1 DEF CampaignInv, CurrentSeen, Judging
<1>6. /\ result.hit = Hit(directory.faults)
      /\ result.hit => result.name = HitName(directory.faults)
  BY <1>1 DEF CampaignInv, HitKnown
<1>7. result.analysis => result.findings = directory.analysis.findings
  BY <1>1 DEF CampaignInv, TrustInv, ReportsRead
<1>8. ~AnalysisSummaryUnavailable => result.analysis
  BY DEF AnalysisSummaryUnavailable
<1> QED BY <1>1, <1>2, <1>3, <1>4, <1>5, <1>6, <1>7, <1>8

LEMMA BaselineCounts ==
  ASSUME CampaignInv, TallyBaseline
  PROVE  /\ NoErrorYet' /\ FindingsCounted' /\ GroupsCounted' /\ CurrentSeen' /\ AllHit'
         /\ HitKnown' /\ Closed'
<1>1. /\ ~err /\ index = 0 /\ 0 <= request.max /\ request.max \in Nat
      /\ Len(walked) = 1 /\ Tallied = 0 /\ walked[1] \in Case
      /\ ~AnalysisSummaryUnavailable => result.findings = walked[1].findings
      /\ result.findings \in Nat /\ findings \in Nat
  <2>1. pc = "baseline"
    BY DEF TallyBaseline
  <2>2. /\ ~err /\ index \in Nat /\ 0 <= request.max /\ request.max \in Nat
        /\ Len(walked) = index + 1 /\ Tallied = index /\ index = 0
        /\ result.findings \in Nat /\ findings \in Nat
        /\ walked[Len(walked)] \in Case
        /\ ~AnalysisSummaryUnavailable => result.findings = walked[Len(walked)].findings
    BY <2>1, TallyFacts
  <2>3. Len(walked) = 1
    BY ONLY <2>2
  <2> QED BY <2>2, <2>3
<1>2. /\ walked' = walked /\ groups' = groups /\ request' = request
      /\ findings' = findings + result.findings
      /\ ~trouble' => ~trouble /\ ~AnalysisSummaryUnavailable
      /\ \/ pc' = "paths"
         \/ pc' = "summary" /\ (err' \/ ~(index + 1 <= request.max))
  BY DEF TallyBaseline, NextCase
<1>3. Tallied' = 1
  BY <1>1, <1>2 DEF Tallied, Judging
<1>4. NoErrorYet' /\ CurrentSeen' /\ HitKnown'
  BY <1>2 DEF NoErrorYet, CurrentSeen, HitKnown, Opening, Judging
<1>5. AllHit'
  <2>1. 2 .. Len(walked) - 1 = {} /\ ~(Len(walked) > 1)
    BY <1>1
  <2> QED BY <1>2, <2>1 DEF AllHit
<1>6. FindingsCounted'
  <2> SUFFICES ASSUME ~err', ~trouble'
               PROVE  findings' > 0 <=> (\E i \in 1 .. Tallied : Found(i))'
    BY DEF FindingsCounted
  <2>1. ~(findings > 0)
    BY <1>1, <1>2 DEF CampaignInv, FindingsCounted
  <2>2. findings' > 0 <=> walked[1].findings > 0
    BY <1>1, <1>2, <2>1
  <2>3. (\E i \in 1 .. Tallied : Found(i))' <=> walked[1].findings > 0
    BY <1>2, <1>3 DEF Found
  <2> QED BY <2>2, <2>3
<1>7. GroupsCounted'
  <2> SUFFICES ASSUME ~err', ~trouble' PROVE GroupsCounted'
    BY DEF GroupsCounted
  <2>1. \A n \in DOMAIN groups : /\ groups[n].runs = Cardinality(Named(walked, n, 0))
                                 /\ Sums(walked, n, 0, groups[n].findings)
                                 /\ groups[n].findings \in Nat
    BY <1>1, <1>2 DEF CampaignInv, GroupsCounted, TrustInv, IsolationInv, TypeInv, TotalsOK, TableOK
  <2>2. ASSUME NEW n \in DOMAIN groups
        PROVE  /\ groups[n].runs = Cardinality(Named(walked, n, 1))
               /\ Sums(walked, n, 1, groups[n].findings)
    <3>1. Named(walked, n, 1) = Named(walked, n, 1 - 1) /\ Share(walked, n, 1) = 0
      BY NamedMore
    <3>2. 1 - 1 = 0
      OBVIOUS
    <3>3. Sums(walked, n, 1 - 1, groups[n].findings) /\ groups[n].findings \in Nat
      BY <2>1, <3>2
    <3> DEFINE v == groups[n].findings
    <3>6. v \in Nat /\ Sums(walked, n, 1 - 1, v)
      BY <3>3
    <3> HIDE DEF v
    <3>4. Sums(walked, n, 1, v + Share(walked, n, 1))
      BY <3>1, <3>6, SumsMore
    <3>5. v + Share(walked, n, 1) = v
      BY <3>1, <3>6
    <3> QED BY <2>1, <3>1, <3>2, <3>4, <3>5 DEF v
  <2>3. 2 .. Tallied' = {}
    BY <1>3
  <2> QED BY <1>2, <1>3, <2>2, <2>3 DEF GroupsCounted
<1>8. Closed'
  <2>1. ASSUME ~(index + 1 <= request.max) PROVE Ended'
    <3>1. Len(walked) = request.max + 1 /\ Len(walked) > 0
      BY <1>1, <2>1
    <3> QED BY <1>2, <3>1 DEF Ended
  <2> QED BY <1>2, <2>1 DEF Closed
<1> QED BY <1>4, <1>5, <1>6, <1>7, <1>8

\* A name without a group is given one, or the table is full.
LEMMA GroupsMore ==
  ASSUME TableOK, UpdateFaultGroup, GroupLimit \in Nat, NEW k \in Nat, k > 1,
         walked[k].hit, GroupName = Label(walked[k].name),
         result.findings = walked[k].findings, walked[k].findings \in Nat,
         \A n \in DOMAIN groups : /\ groups[n].runs = Cardinality(Named(walked, n, k - 1))
                                  /\ Sums(walked, n, k - 1, groups[n].findings),
         \A i \in 2 .. k - 1 :
           walked[i].hit => \/ Label(walked[i].name) \in DOMAIN groups
                            \/ ~(Cardinality(DOMAIN groups) < GroupLimit)
  PROVE  /\ \A n \in DOMAIN groups' : /\ groups'[n].runs = Cardinality(Named(walked, n, k))
                                      /\ Sums(walked, n, k, groups'[n].findings)
         /\ \A i \in 2 .. k :
              walked[i].hit => \/ Label(walked[i].name) \in DOMAIN groups'
                               \/ ~(Cardinality(DOMAIN groups') < GroupLimit)
<1> DEFINE m == GroupName
           before == Cardinality(Named(walked, m, k - 1))
<1>0. \A i \in 2 .. k : i = k \/ i \in 2 .. k - 1
  OBVIOUS
<1>1. /\ Cardinality(Named(walked, m, k)) = Cardinality(Named(walked, m, k - 1)) + 1
      /\ Share(walked, m, k) = walked[k].findings
  BY NamedOne
<1>2. ASSUME NEW n \in DOMAIN groups, n # m
      PROVE  /\ groups[n].runs = Cardinality(Named(walked, n, k))
             /\ Sums(walked, n, k, groups[n].findings)
  <2>1. Named(walked, n, k) = Named(walked, n, k - 1) /\ Share(walked, n, k) = 0
    BY <1>2, NamedMore
  <2> DEFINE v == groups[n].findings
  <2>2. v \in Nat /\ Sums(walked, n, k - 1, v)
    BY DEF TableOK
  <2> HIDE DEF v
  <2>3. Sums(walked, n, k, v + Share(walked, n, k))
    BY <2>1, <2>2, SumsMore
  <2>4. v + Share(walked, n, k) = v
    BY <2>1, <2>2
  <2> QED BY <2>1, <2>3, <2>4 DEF v
<1>3. CASE m \in DOMAIN groups
  <2>1. DOMAIN groups' = DOMAIN groups
    BY <1>3 DEF UpdateFaultGroup
  <2>2. \A n \in DOMAIN groups : n # m => groups'[n] = groups[n]
    BY <1>3 DEF UpdateFaultGroup
  <2>3. groups[m].runs \in Nat /\ groups[m].findings \in Nat
    BY <1>3 DEF TableOK
  <2>4. /\ groups'[m].runs = groups[m].runs + 1
        /\ groups'[m].findings = groups[m].findings + result.findings
    BY <1>3 DEF UpdateFaultGroup
  <2>5. groups'[m].runs = Cardinality(Named(walked, m, k))
    BY <1>1, <1>3, <2>4
  <2>6. Sums(walked, m, k, groups'[m].findings)
    <3> DEFINE v == groups[m].findings
    <3>1. v \in Nat /\ Sums(walked, m, k - 1, v)
      BY <1>3, <2>3
    <3>2. groups'[m].findings = v + Share(walked, m, k)
      BY <1>1, <2>4
    <3> HIDE DEF v, m
    <3>3. Sums(walked, m, k, v + Share(walked, m, k))
      BY <1>1, <3>1, SumsMore
    <3> QED BY <3>2, <3>3
  <2>7. \A n \in DOMAIN groups' : /\ groups'[n].runs = Cardinality(Named(walked, n, k))
                                  /\ Sums(walked, n, k, groups'[n].findings)
    BY <1>2, <2>1, <2>2, <2>5, <2>6
  <2>8. \A i \in 2 .. k :
              walked[i].hit => \/ Label(walked[i].name) \in DOMAIN groups
                               \/ ~(Cardinality(DOMAIN groups) < GroupLimit)
    BY <1>0, <1>3
  <2> QED BY <2>1, <2>7, <2>8
<1>4. CASE m \notin DOMAIN groups /\ Cardinality(DOMAIN groups) < GroupLimit
  <2>1. DOMAIN groups' = DOMAIN groups \cup {m}
    BY <1>4 DEF UpdateFaultGroup
  <2>2. /\ \A n \in DOMAIN groups : groups'[n] = groups[n]
        /\ groups'[m] = [runs |-> 1, findings |-> result.findings]
    BY <1>4 DEF UpdateFaultGroup
  <2>3. Named(walked, m, k - 1) = {}
    BY <1>4 DEF Named
  <2>4. groups'[m].runs = Cardinality(Named(walked, m, k))
    <3>1. Cardinality(Named(walked, m, k - 1)) = 0
      BY <2>3, FS_EmptySet
    <3>2. groups'[m].runs = 1
      BY <2>2
    <3> HIDE DEF m
    <3>3. Cardinality(Named(walked, m, k)) = 1
      BY <1>1, <3>1
    <3> QED BY <3>2, <3>3
  <2>5. Sums(walked, m, k, groups'[m].findings)
    <3> HIDE DEF m
    <3>1. Sums(walked, m, k - 1, 0)
      BY <2>3, SumsNone
    <3>2. Sums(walked, m, k, 0 + Share(walked, m, k))
      BY <1>1, <3>1, SumsMore
    <3>3. groups'[m].findings = 0 + Share(walked, m, k)
      BY <1>1, <2>2
    <3> QED BY <3>2, <3>3
  <2>6. \A n \in DOMAIN groups' : /\ groups'[n].runs = Cardinality(Named(walked, n, k))
                                  /\ Sums(walked, n, k, groups'[n].findings)
    <3>1. \A n \in DOMAIN groups : n # m
      BY <1>4
    <3> QED BY <1>2, <2>1, <2>2, <2>4, <2>5, <3>1
  <2>7. \A i \in 2 .. k : walked[i].hit => Label(walked[i].name) \in DOMAIN groups'
    BY <1>0, <1>4, <2>1
  <2> QED BY <2>6, <2>7
<1>5. CASE m \notin DOMAIN groups /\ ~(Cardinality(DOMAIN groups) < GroupLimit)
  <2>1. groups' = groups
    BY <1>5 DEF UpdateFaultGroup
  <2> QED BY <1>2, <1>5, <2>1
<1> QED BY <1>3, <1>4, <1>5

\* What the judging of an injected case starts from and does.
LEMMA FaultFacts ==
  ASSUME CampaignInv, TallyFault
  PROVE  LET k == Len(walked) IN
         /\ ~err /\ k \in Nat /\ k > 1 /\ k - 1 \in Nat /\ k <= request.max + 1
         /\ request.max \in Nat /\ findings \in Nat /\ GroupLimit \in Nat
         /\ Tallied = k - 1 /\ Tallied' = k
         /\ walked[k] \in Case
         /\ walked' = walked /\ request' = request
         /\ result.hit = walked[k].hit
         /\ walked[k].hit => GroupName = Label(walked[k].name)
         /\ ~trouble' => ~trouble /\ result.findings = walked[k].findings
<1>1. pc = "tally"
  BY DEF TallyFault
<1>2. /\ ~err /\ index \in Nat /\ index <= request.max /\ request.max \in Nat
      /\ Len(walked) = index + 1 /\ Tallied = index /\ index > 0
      /\ walked[Len(walked)] \in Case
      /\ result.hit = walked[Len(walked)].hit
      /\ result.hit => result.name = walked[Len(walked)].name
      /\ ~AnalysisSummaryUnavailable => result.findings = walked[Len(walked)].findings
      /\ findings \in Nat
  BY <1>1, TallyFacts
<1>3. /\ Len(walked) \in Nat /\ Len(walked) > 1 /\ Len(walked) - 1 \in Nat
      /\ Len(walked) <= request.max + 1 /\ Tallied = Len(walked) - 1
  BY <1>2
<1>4. walked' = walked /\ request' = request /\ pc' \in {"paths", "summary"}
  BY DEF TallyFault, NextCase
<1>5. Tallied' = Len(walked)
  BY <1>4 DEF Tallied, Judging
<1>6. ~trouble' => ~trouble /\ ~AnalysisSummaryUnavailable
  BY DEF TallyFault
<1>7. walked[Len(walked)].hit => GroupName = Label(walked[Len(walked)].name)
  BY <1>2 DEF GroupName, Label
<1>8. GroupLimit \in Nat
  BY ConstantsOK
<1> QED BY <1>2, <1>3, <1>4, <1>5, <1>6, <1>7, <1>8

\* No fault fired: the walk ends, and nothing is added to the totals.
LEMMA ExhaustionCounts ==
  ASSUME CampaignInv, TallyFault, ~result.hit
  PROVE  FindingsCounted' /\ GroupsCounted' /\ AllHit' /\ Closed'
<1> DEFINE k == Len(walked)
<1>1. /\ ~err /\ k \in Nat /\ k > 1 /\ k - 1 \in Nat
      /\ Tallied = k - 1 /\ Tallied' = k
      /\ walked' = walked /\ request' = request
      /\ ~walked[k].hit
      /\ ~trouble' => ~trouble
  BY FaultFacts
<1>2. pc' = "summary" /\ findings' = findings /\ groups' = groups
  BY DEF TallyFault
<1>3. AllHit'
  BY <1>1, <1>2 DEF AllHit, Starting, CampaignInv
<1>4. Closed'
  BY <1>1, <1>2 DEF Closed, Ended
<1>5. FindingsCounted'
  <2>1. ~Found(k)
    BY <1>1 DEF Found
  <2> HIDE DEF k
  <2>2. \A i \in 1 .. k : i \in 1 .. k - 1 \/ i = k
    BY <1>1
  <2>3. \A i \in 1 .. k - 1 : i \in 1 .. k
    BY <1>1
  <2>4. (\E i \in 1 .. k - 1 : Found(i)) <=> (\E i \in 1 .. k : Found(i))
    BY <2>1, <2>2, <2>3
  <2>5. \A i : Found(i)' <=> Found(i)
    BY <1>1 DEF Found
  <2> QED BY <1>1, <1>2, <2>4, <2>5 DEF FindingsCounted, CampaignInv
<1>6. GroupsCounted'
  <2> SUFFICES ASSUME ~err', ~trouble' PROVE GroupsCounted'
    BY DEF GroupsCounted
  <2>1. /\ \A n \in DOMAIN groups : /\ groups[n].runs = Cardinality(Named(walked, n, k - 1))
                                    /\ Sums(walked, n, k - 1, groups[n].findings)
                                    /\ groups[n].findings \in Nat
        /\ \A i \in 2 .. k - 1 :
             walked[i].hit => \/ Label(walked[i].name) \in DOMAIN groups
                              \/ ~(Cardinality(DOMAIN groups) < GroupLimit)
    BY <1>1 DEF CampaignInv, GroupsCounted, TrustInv, IsolationInv, TypeInv, TotalsOK, TableOK
  <2>2. ASSUME NEW n \in DOMAIN groups
        PROVE  /\ groups[n].runs = Cardinality(Named(walked, n, k))
               /\ Sums(walked, n, k, groups[n].findings)
    <3> HIDE DEF k
    <3>1. Named(walked, n, k) = Named(walked, n, k - 1) /\ Share(walked, n, k) = 0
      BY <1>1, NamedMore
    <3> DEFINE v == groups[n].findings
    <3>2. v \in Nat /\ Sums(walked, n, k - 1, v)
      BY <2>1
    <3> HIDE DEF v
    <3>3. Sums(walked, n, k, v + Share(walked, n, k))
      BY <1>1, <3>1, <3>2, SumsMore
    <3>4. v + Share(walked, n, k) = v
      BY <3>1, <3>2
    <3> QED BY <2>1, <3>1, <3>3, <3>4 DEF v
  <2> HIDE DEF k
  <2>3. \A i \in 2 .. k : i \in 2 .. k - 1 \/ i = k
    BY <1>1
  <2> QED BY <1>1, <1>2, <2>1, <2>2, <2>3 DEF GroupsCounted
<1> QED BY <1>3, <1>4, <1>5, <1>6

\* A fault fired: the findings are added, and to its group if there is one.
LEMMA HitCounts ==
  ASSUME CampaignInv, TallyFault, result.hit
  PROVE  FindingsCounted' /\ GroupsCounted' /\ AllHit' /\ Closed'
<1> DEFINE k == Len(walked)
<1>1. /\ ~err /\ k \in Nat /\ k > 1 /\ k - 1 \in Nat /\ k <= request.max + 1
      /\ request.max \in Nat /\ findings \in Nat /\ GroupLimit \in Nat
      /\ Tallied = k - 1 /\ Tallied' = k
      /\ walked[k] \in Case
      /\ walked' = walked /\ request' = request
      /\ walked[k].hit
      /\ GroupName = Label(walked[k].name)
      /\ ~trouble' => ~trouble /\ result.findings = walked[k].findings
  BY FaultFacts
<1>f. walked[k].findings \in Nat
  BY <1>1 DEF Case
<1>2. /\ findings' = findings + result.findings
      /\ UpdateFaultGroup
      /\ \/ pc' = "paths"
         \/ pc' = "summary" /\ (err' \/ ~(index + 1 <= request.max))
  BY DEF TallyFault, NextCase
<1>n. index + 1 = k /\ pc = "tally"
  <2>1. pc = "tally"
    BY DEF TallyFault
  <2>2. Len(walked) = index + 1
    BY <2>1, TallyFacts
  <2> QED BY <2>1, <2>2
<1>3. AllHit'
  BY <1>1, <1>2 DEF AllHit, Starting, CampaignInv
<1>4. Closed'
  <2>1. ASSUME ~(index + 1 <= request.max) PROVE Ended'
    <3> HIDE DEF k
    <3>1. k = request.max + 1 /\ k > 0
      BY <1>1, <1>n, <2>1
    <3> QED BY <1>1, <3>1 DEF Ended, k
  <2> QED BY <1>2, <2>1 DEF Closed
<1>5. FindingsCounted'
  <2> SUFFICES ASSUME ~err', ~trouble'
               PROVE  findings' > 0 <=> (\E i \in 1 .. Tallied : Found(i))'
    BY DEF FindingsCounted
  <2>1. findings > 0 <=> \E i \in 1 .. k - 1 : Found(i)
    BY <1>1 DEF FindingsCounted, CampaignInv
  <2>2. Found(k) <=> walked[k].findings > 0
    BY <1>1 DEF Found
  <2>3. findings' = findings + walked[k].findings
    BY <1>1, <1>2
  <2> DEFINE f == walked[k].findings
  <2>4. f \in Nat /\ findings' = findings + f /\ (Found(k) <=> f > 0)
    BY <1>f, <2>2, <2>3
  <2> HIDE DEF f
  <2>5. findings' > 0 <=> findings > 0 \/ Found(k)
    BY <1>1, <2>4
  <2> HIDE DEF k
  <2>6. \A i \in 1 .. k : i \in 1 .. k - 1 \/ i = k
    BY <1>1
  <2>7. k \in 1 .. k /\ \A i \in 1 .. k - 1 : i \in 1 .. k
    BY <1>1
  <2>8. (\E i \in 1 .. k : Found(i)) <=> (\E i \in 1 .. k - 1 : Found(i)) \/ Found(k)
    BY <2>6, <2>7
  <2>9. \A i : Found(i)' <=> Found(i)
    BY <1>1 DEF Found
  <2> QED BY <1>1, <2>1, <2>5, <2>8, <2>9
<1>6. GroupsCounted'
  <2> SUFFICES ASSUME ~err', ~trouble' PROVE GroupsCounted'
    BY DEF GroupsCounted
  <2>1. /\ \A n \in DOMAIN groups : /\ groups[n].runs = Cardinality(Named(walked, n, k - 1))
                                    /\ Sums(walked, n, k - 1, groups[n].findings)
        /\ \A i \in 2 .. k - 1 :
             walked[i].hit => \/ Label(walked[i].name) \in DOMAIN groups
                              \/ ~(Cardinality(DOMAIN groups) < GroupLimit)
    BY <1>1 DEF CampaignInv, GroupsCounted
  <2>2. TableOK
    BY DEF CampaignInv, TrustInv, IsolationInv, TypeInv, TotalsOK
  <2>3. ~trouble /\ result.findings = walked[k].findings
    BY <1>1
  <2> HIDE DEF k
  <2>4. /\ \A n \in DOMAIN groups' : /\ groups'[n].runs = Cardinality(Named(walked, n, k))
                                     /\ Sums(walked, n, k, groups'[n].findings)
        /\ \A i \in 2 .. k :
             walked[i].hit => \/ Label(walked[i].name) \in DOMAIN groups'
                              \/ ~(Cardinality(DOMAIN groups') < GroupLimit)
    BY <1>1, <1>f, <1>2, <2>1, <2>2, <2>3, GroupsMore
  <2> QED BY <1>1, <2>4 DEF GroupsCounted
<1> QED BY <1>3, <1>4, <1>5, <1>6

LEMMA FaultCounts ==
  ASSUME CampaignInv, TallyFault
  PROVE  /\ NoErrorYet' /\ FindingsCounted' /\ GroupsCounted' /\ CurrentSeen' /\ AllHit'
         /\ HitKnown' /\ Closed'
<1>1. pc' \in {"paths", "summary"}
  BY DEF TallyFault, NextCase
<1>2. NoErrorYet' /\ CurrentSeen' /\ HitKnown'
  BY <1>1 DEF NoErrorYet, CurrentSeen, HitKnown, Opening, Judging
<1>3. FindingsCounted' /\ GroupsCounted' /\ AllHit' /\ Closed'
  <2>1. CASE result.hit
    BY <2>1, HitCounts
  <2>2. CASE ~result.hit
    BY <2>2, ExhaustionCounts
  <2> QED BY <2>1, <2>2
<1> QED BY <1>2, <1>3

LEMMA StepCounted ==
  ASSUME "faults" \notin Missable, CampaignInv, [Next]_vars
  PROVE  CampaignInv'
<1>t. TrustInv /\ TrustInv'
  BY StepTrusted DEF CampaignInv
<1>n. NothingWalkedYet /\ EvidenceOK
  BY <1>t DEF TrustInv, IsolationInv, TypeInv
<1>1. CASE QuietStep
  <2>1. Quiet
    BY <1>1, <1>t, QuietFacts DEF CampaignInv
  <2>2. NoErrorYet' /\ FindingsCounted' /\ GroupsCounted' /\ CurrentSeen' /\ AllHit'
    BY <1>n, <2>1, QuietCounts DEF CampaignInv
  <2>3. HitKnown'
    BY <1>1, <1>t, QuietKnows DEF CampaignInv
  <2>4. Closed'
    BY <1>1, <1>t, QuietCloses DEF CampaignInv
  <2> QED BY <1>t, <2>2, <2>3, <2>4 DEF CampaignInv
<1>2. CASE RunPipeline
  <2>1. PICK found \in World, own \in BOOLEAN : Start(found, TRUE, own)
    BY <1>n, <1>2, RunStarts DEF EvidenceOK
  <2>3. /\ pc = "run" /\ pc' = "hit" /\ (err => err')
        /\ request' = request /\ findings' = findings /\ trouble' = trouble /\ groups' = groups
    BY <1>2 DEF RunPipeline, totals
  <2> QED BY <1>t, <2>1, <2>3, StartCounts DEF CampaignInv
<1>3. CASE PipelineNotStarted
  <2> DEFINE stale == [directory EXCEPT !.status = "other"]
  <2>1. stale \in World
    BY <1>n, WorldParts DEF EvidenceOK, Statuses
  <2>2. Start(stale, FALSE, FALSE)
    BY <1>3 DEF PipelineNotStarted
  <2>3. /\ pc = "run" /\ pc' = "hit"
        /\ request' = request /\ findings' = findings /\ trouble' = trouble /\ groups' = groups
    BY <1>3 DEF PipelineNotStarted, totals
  <2>4. err => err'
    BY <1>3 DEF PipelineNotStarted
  <2> HIDE DEF stale
  <2> QED BY <1>t, <2>1, <2>2, <2>3, <2>4, StartCounts DEF CampaignInv
<1>4. CASE TallyBaseline
  BY <1>4, <1>t, BaselineCounts DEF CampaignInv
<1>5. CASE TallyFault
  BY <1>5, <1>t, FaultCounts DEF CampaignInv
<1>6. CASE UNCHANGED vars
  <2>1. Tallied' = Tallied /\ Ended' = Ended /\ AnyFound' = AnyFound
    BY <1>6 DEF vars, Tallied, Ended, AnyFound, Found
  <2>2. NoErrorYet' /\ CurrentSeen' /\ HitKnown' /\ AllHit' /\ FindingsCounted' /\ Closed'
    BY <1>6, <2>1 DEF CampaignInv, vars, NoErrorYet, CurrentSeen, HitKnown, AllHit,
         FindingsCounted, Found, Closed
  <2>3. GroupsCounted'
    BY <1>6, <2>1 DEF CampaignInv, vars, GroupsCounted
  <2> QED BY <1>t, <2>2, <2>3 DEF CampaignInv
<1> QED BY <1>1, <1>2, <1>3, <1>4, <1>5, <1>6 DEF Next, Step, Finished, QuietStep

-----------------------------------------------------------------------------
(* The summary.                                                              *)

Below == {p \in Nat \X Nat : p[1] < p[2]}

LEMMA Least ==
  ASSUME NEW S \in SUBSET Nat, S # {}
  PROVE  \E x \in S : \A y \in S : x <= y
<1>1. IsWellFoundedOn(Below, Nat)
  BY NatLessThanWellFounded DEF OpToRel, Below
<1>2. \E x \in S : \A y \in S : ~ (<<y, x>> \in Below)
  <2>1. S \subseteq Nat /\ S # {}
    OBVIOUS
  <2> QED BY ONLY <1>1, <2>1, WFMin
<1> PICK x \in S : \A y \in S : ~ (<<y, x>> \in Below)
  BY <1>2
<1>3. ASSUME NEW y \in S PROVE x <= y
  <2>1. ~ (<<y, x>> \in Below)
    OBVIOUS
  <2>2. ~ (y < x)
    BY <2>1, Zenon DEF Below
  <2> QED BY <2>2
<1> QED BY <1>3

\* Two tables that start alike and grow alike are the same.
LEMMA OneRunning ==
  ASSUME NEW w, NEW n, NEW k \in Nat, NEW f, NEW g, IsRunning(w, n, k, g),
         f[0] = 0, \A i \in 1 .. k : f[i] = f[i - 1] + Share(w, n, i)
  PROVE  \A i \in 0 .. k : f[i] = g[i]
<1> DEFINE Apart == {i \in 0 .. k : f[i] # g[i]}
<1>1. /\ g[0] = 0
      /\ \A i \in 1 .. k : g[i] = g[i - 1] + Share(w, n, i)
  BY DEF IsRunning
<1> SUFFICES ASSUME Apart # {} PROVE FALSE
    OBVIOUS
<1>2. Apart \in SUBSET Nat
  OBVIOUS
<1>3. PICK i \in Apart : \A j \in Apart : i <= j
  <2> HIDE DEF Apart
  <2> QED BY <1>2, Least
<1>4. i \in 0 .. k /\ f[i] # g[i]
  OBVIOUS
<1>5. i # 0
  BY <1>1, <1>4
<1>6. i \in 1 .. k /\ i - 1 \in 0 .. k /\ ~(i <= i - 1)
  BY <1>4, <1>5
<1>7. i - 1 \notin Apart
  BY <1>3, <1>6
<1>8. f[i - 1] = g[i - 1]
  BY <1>6, <1>7
<1> QED BY <1>1, <1>4, <1>6, <1>8

\* The sum of the invariant is the one that the summary is compared with.
LEMMA SumIsFindings ==
  ASSUME NEW n, NEW v, Len(walked) \in Nat, Sums(walked, n, Len(walked), v)
  PROVE  v = FindingsNamed(n)
<1> DEFINE N == Len(walked)
           Step1(f) == [k \in 0 .. N |->
                          IF k = 0 THEN 0
                          ELSE f[k - 1] + IF k \in CasesNamed(n) THEN walked[k].findings ELSE 0]
           upTo == CHOOSE f : f = Step1(f)
<1>1. FindingsNamed(n) = upTo[N]
  BY DEF FindingsNamed
<1>2. PICK g : IsRunning(walked, n, N, g) /\ g[N] = v
  BY DEF Sums
<1>3. /\ g \in [0 .. N -> Nat] /\ g[0] = 0
      /\ \A i \in 1 .. N : g[i] = g[i - 1] + Share(walked, n, i)
  BY <1>2 DEF IsRunning
<1>4. \A i \in 1 .. N : i \in CasesNamed(n) <=> i \in Named(walked, n, i)
  BY DEF CasesNamed, Named, Label
<1>5. \A i \in 1 .. N :
        Share(walked, n, i) = IF i \in CasesNamed(n) THEN walked[i].findings ELSE 0
  BY <1>4 DEF Share
<1>6. g = Step1(g)
  <2>1. \A i \in 0 .. N : i = 0 \/ (i # 0 /\ i \in 1 .. N)
    OBVIOUS
  <2>2. \A i \in 0 .. N : g[i] = Step1(g)[i]
    BY <1>3, <1>5, <2>1
  <2>3. g = [i \in 0 .. N |-> g[i]]
    BY <1>3
  <2>4. Step1(g) = [i \in 0 .. N |-> Step1(g)[i]]
    OBVIOUS
  <2> HIDE DEF Step1
  <2> QED BY <2>2, <2>3, <2>4
<1>7. upTo = Step1(upTo)
  <2> HIDE DEF Step1
  <2>1. \E f : f = Step1(f)
    BY <1>6
  <2> QED BY <2>1
<1> DEFINE f == upTo
<1>8. f = Step1(f) /\ FindingsNamed(n) = f[N]
  BY <1>1, <1>7
<1> HIDE DEF f
<1>9. f[0] = 0
  BY <1>8
<1>10. ASSUME NEW i \in 1 .. N PROVE f[i] = f[i - 1] + Share(walked, n, i)
  <2>1. i \in 0 .. N /\ i # 0
    OBVIOUS
  <2>2. f[i] = Step1(f)[i]
    BY <1>8
  <2>3. Step1(f)[i] = f[i - 1] + IF i \in CasesNamed(n) THEN walked[i].findings ELSE 0
    BY <2>1
  <2> QED BY <1>5, <2>2, <2>3
<1>11. N \in Nat /\ N \in 0 .. N
  OBVIOUS
<1> HIDE DEF N, Step1
<1>12. \A i \in 0 .. N : f[i] = g[i]
  BY <1>2, <1>9, <1>10, <1>11, OneRunning
<1> QED BY <1>2, <1>8, <1>11, <1>12

\* When the summary is printed its groups hold, each for its own name, all the
\* cases that hit and all their findings, and none of another name; however
\* many names there are, and however few fit in the table.
THEOREM ExactGroups ==
  ASSUME "faults" \notin Missable
  PROVE  Spec => []GroupsAreExact
<1>1. Init => CampaignInv
  BY InitCounted
<1>2. CampaignInv /\ [Next]_vars => CampaignInv'
  BY StepCounted
<1>3. CampaignInv => GroupsAreExact
  <2> SUFFICES ASSUME CampaignInv, pc = "summary", ~trouble, ~err, NEW n \in DOMAIN groups
               PROVE  /\ groups[n].runs = Cardinality(CasesNamed(n))
                      /\ groups[n].findings = FindingsNamed(n)
    BY DEF GroupsAreExact
  <2>1. Len(walked) \in Nat
    BY DEF CampaignInv, TrustInv, IsolationInv, TypeInv, EvidenceOK
  <2>2. /\ groups[n].runs = Cardinality(Named(walked, n, Len(walked)))
        /\ Sums(walked, n, Len(walked), groups[n].findings)
    BY DEF CampaignInv, GroupsCounted, Tallied, Judging
  <2>3. CasesNamed(n) = Named(walked, n, Len(walked))
    BY DEF CasesNamed, Named, Label
  <2> QED BY <2>1, <2>2, <2>3, SumIsFindings
<1> QED BY <1>1, <1>2, <1>3, PTL DEF Spec

-----------------------------------------------------------------------------
(* The walk is a campaign.                                                   *)

Verdict == IF pc = "done" THEN exit ELSE Running

\* A pipeline is started: the next case of the series, with its own fault armed.
LEMMA StartIsRunCase ==
  ASSUME CampaignInv, NEW world \in World, NEW ran \in BOOLEAN, NEW own \in BOOLEAN,
         Start(world, ran, own),
         pc = "run", pc' = "hit", request' = request
  PROVE  Abstract!RunCase
<1> DEFINE c == walked'[Len(walked')]
<1>1. EvidenceOK /\ CaseIsolated /\ ControlOK
  BY DEF CampaignInv, TrustInv, IsolationInv, TypeInv
<1>2. walked' = Append(walked, c) /\ c.call = environ["call"]
  BY <1>1, StartSeen
<1>3. index \in Nat /\ index <= request.max /\ request.max \in Nat /\ Len(walked) = index
      /\ Len(walked) \in Nat
  BY <1>1 DEF CampaignInv, TrustInv, Counting, ControlOK, CaseIndices, Request, EvidenceOK
<1>4. Len(walked') = Len(walked) + 1
  BY <1>1, StartRecorded DEF EvidenceOK
<1>5. \A i \in 2 .. Len(walked) : walked[i].hit
  <2>1. \A i \in 2 .. Len(walked) : i \in 2 .. Len(walked) - 1 \/ (i = Len(walked) /\ i > 1)
    BY <1>3
  <2> QED BY <2>1 DEF CampaignInv, AllHit, Starting
<1>6. environ["call"] = IF index > 0 THEN index ELSE Unset
  <2>1. "call" \in Cleared
    BY DEF Cleared
  <2>2. "call" \in CaseControls <=> index > 0
    BY DEF CaseControls
  <2> QED BY <1>1, <2>1, <2>2 DEF CaseIsolated
<1>7. Abstract!InPlace(c, Len(walked'))
  <2> HIDE DEF c
  <2>1. CASE index = 0
    <3>1. Len(walked') = 1 /\ ~(index > 0)
      BY <1>3, <1>4, <2>1
    <3> QED BY <1>2, <1>6, <3>1 DEF Abstract!InPlace
  <2>2. CASE index # 0
    <3>1. Len(walked') # 1 /\ Len(walked') - 1 = index /\ index > 0
      BY <1>3, <1>4, <2>2
    <3> QED BY <1>2, <1>6, <3>1 DEF Abstract!InPlace
  <2> QED BY <2>1, <2>2
<1>8. Verdict = 3 /\ Verdict' = Verdict
  BY DEF Verdict, Running
<1>9. Len(walked) <= request.max
  BY <1>3
<1> QED BY <1>2, <1>4, <1>5, <1>7, <1>8, <1>9 DEF Abstract!RunCase, Abstract!Open, Verdict

\* The program ends: its status is a judgement, or help was asked for, or it is 2.
LEMMA ReportIsVerdict ==
  ASSUME CampaignInv, ReportError
  PROVE  Abstract!Judge \/ Abstract!GiveHelp \/ Abstract!GiveUp
<1>1. /\ pc = "report" /\ pc' = "done" /\ exit' = (IF err THEN 2 ELSE exit)
      /\ walked' = walked /\ request' = request
  BY DEF ReportError
<1>2. Verdict = 3 /\ Verdict' = exit'
  BY <1>1 DEF Verdict, Running
<1>3. CASE err \/ exit = 2
  <2>1. Verdict' = 2
    BY <1>1, <1>2, <1>3
  <2> QED BY <1>1, <1>2, <2>1 DEF Abstract!GiveUp, Abstract!Open, Verdict
<1>4. CASE ~err /\ exit # 2
  <2>1. Verdict' = exit
    BY <1>1, <1>2, <1>4
  <2>2. CASE request.help /\ walked = <<>> /\ exit = 0
    BY <1>1, <1>2, <2>1, <2>2 DEF Abstract!GiveHelp, Abstract!Open, Verdict
  <2>3. CASE Ended /\ exit = IF AnyFound THEN 1 ELSE 0
    <3>1. Abstract!Complete
      <4>1. walked # <<>>
        BY <2>3 DEF Ended
      <4> QED BY <2>3, <4>1 DEF Abstract!Complete, Ended, CampaignInv, AllHit
    <3>2. ASSUME NEW i \in DOMAIN walked PROVE Abstract!Trusted(i)
      <4>1. ~Excused(i)
        BY <1>1, <1>4 DEF Excused, Judging
      <4>2. ~Untrusted(i)
        BY <4>1 DEF CampaignInv, TrustInv, UntrustedExcused
      <4> QED BY <4>2 DEF Untrusted, Abstract!Trusted
    <3>3. AnyFound <=> Abstract!AnyFinding
      <4>1. DOMAIN walked = 1 .. Len(walked)
        BY DEF CampaignInv, TrustInv, IsolationInv, TypeInv, EvidenceOK
      <4> QED BY <4>1 DEF AnyFound, Found, Abstract!AnyFinding, Abstract!Counts
    <3>4. Verdict' = IF Abstract!AnyFinding THEN 1 ELSE 0
      BY <2>1, <2>3, <3>3
    <3> QED BY <1>1, <1>2, <3>1, <3>2, <3>4 DEF Abstract!Judge, Abstract!Open, Verdict
  <2> QED BY <1>1, <1>4, <2>2, <2>3 DEF CampaignInv, Closed
<1> QED BY <1>3, <1>4

\* Every other step leaves the series and the verdict alone.
LEMMA OtherStutters ==
  ASSUME TrustInv, NoErrorYet,
         QuietStep \/ TallyBaseline \/ TallyFault \/ UNCHANGED vars, ~ReportError
  PROVE  request' = request /\ walked' = walked /\ Verdict' = Verdict
<1>1. CASE QuietStep
  <2>1. request' = request /\ walked' = walked
    BY <1>1, QuietFacts DEF Quiet
  <2>2. pc # "done" /\ pc' # "done"
    BY <1>1 DEF QuietStep, ParseArguments, Usage, CheckArguments, ConvertArguments, MakeLogPaths,
         ClearBefore, SetControls, PipelineHangs, ReadFaultHit, ReadSummaries, ClearAfter,
         PrintSummary, ResetRunEnvironment
  <2> QED BY <2>1, <2>2 DEF Verdict, Running
<1>2. CASE TallyBaseline
  BY <1>2 DEF TallyBaseline, NextCase, Verdict, Running
<1>3. CASE TallyFault
  BY <1>3 DEF TallyFault, NextCase, Verdict, Running
<1>4. CASE UNCHANGED vars
  BY <1>4 DEF vars, Verdict
<1> QED BY <1>1, <1>2, <1>3, <1>4

LEMMA StepIsCampaign ==
  ASSUME CampaignInv, [Next]_vars
  PROVE  [Abstract!CampaignNext]_(Abstract!campaignVars)
<1>t. TrustInv /\ NoErrorYet /\ EvidenceOK
  BY DEF CampaignInv, TrustInv, IsolationInv, TypeInv
<1>1. CASE RunPipeline
  <2>1. PICK found \in World, own \in BOOLEAN : Start(found, TRUE, own)
    BY <1>t, <1>1, RunStarts DEF EvidenceOK
  <2>3. pc = "run" /\ pc' = "hit" /\ request' = request
    BY <1>1 DEF RunPipeline
  <2> QED BY <2>1, <2>3, StartIsRunCase DEF Abstract!CampaignNext
<1>2. CASE PipelineNotStarted
  <2> DEFINE stale == [directory EXCEPT !.status = "other"]
  <2>1. stale \in World
    BY <1>t, WorldParts DEF EvidenceOK, Statuses
  <2>2. Start(stale, FALSE, FALSE)
    BY <1>2 DEF PipelineNotStarted
  <2>3. pc = "run" /\ pc' = "hit" /\ request' = request
    BY <1>2 DEF PipelineNotStarted
  <2> HIDE DEF stale
  <2> QED BY <2>1, <2>2, <2>3, StartIsRunCase DEF Abstract!CampaignNext
<1>3. CASE ReportError
  BY <1>3, ReportIsVerdict DEF Abstract!CampaignNext
<1>4. CASE (QuietStep \/ TallyBaseline \/ TallyFault \/ UNCHANGED vars) /\ ~ReportError
  <2>1. request' = request /\ walked' = walked /\ Verdict' = Verdict
    BY <1>4, <1>t, OtherStutters
  <2> QED BY <2>1 DEF Abstract!campaignVars, Verdict
<1> QED BY <1>1, <1>2, <1>3, <1>4 DEF Next, Step, Finished, QuietStep

\* test-faults implements the fault campaign: its cases are the campaign's, in
\* order and each with its own fault armed, and its exit status is a verdict
\* that the campaign allows for them.  A case is what was found in its run
\* directory, which is the pipeline's own unless the directory already existed.
THEOREM Implementation ==
  ASSUME "faults" \notin Missable
  PROVE  Spec => ImplementsCampaign
<1>1. Init => CampaignInv
  BY InitCounted
<1>2. CampaignInv /\ [Next]_vars => CampaignInv'
  BY StepCounted
<1>3. Init => Abstract!CampaignInit
  BY DEF Init, Abstract!CampaignInit, Abstract!Open, Running
<1>4. CampaignInv /\ [Next]_vars => [Abstract!CampaignNext]_(Abstract!campaignVars)
  BY StepIsCampaign
<1> QED BY <1>1, <1>2, <1>3, <1>4, PTL DEF Spec, ImplementsCampaign, Abstract!CampaignSpec
=============================================================================
