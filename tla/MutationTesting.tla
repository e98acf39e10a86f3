-------------------------- MODULE MutationTesting --------------------------
(***************************************************************************)
(* What a mutation campaign promises, without files, copies or error        *)
(* objects: once the tests have passed on the project itself, a number of   *)
(* mutants is selected for good, they are tested one after the other, each  *)
(* once, and the campaign ends with one verdict.  0 and 1 are judgements on *)
(* all the mutants; 2 may be given at any time and accuses nobody.          *)
(***************************************************************************)
EXTENDS Naturals, Sequences

CONSTANTS MaxMutants

VARIABLES
  request,  \* "unread", then "run", "list", "help" or "misuse"
  selected, \* how many mutants are under test, 0 before the baseline has passed
  fates,    \* what became of the test command on each mutant so far
  verdict   \* Open, or the exit status

testingVars == <<request, selected, fates, verdict>>

Open == 3

Undecided(fate) == fate \in {"none", "cut"}

TestingInit == request = "unread" /\ selected = 0 /\ fates = <<>> /\ verdict = Open

ReadRequest ==
  /\ request = "unread" /\ request' \in {"run", "list", "help", "misuse"}
  /\ UNCHANGED <<selected, fates, verdict>>

PassBaseline ==
  /\ verdict = Open /\ request = "run"
  /\ selected = 0 /\ selected' \in 1 .. MaxMutants
  /\ UNCHANGED <<request, fates, verdict>>

\* "none" is a mutant that did not compile, "cut" one whose test took too long.
TestMutant ==
  /\ verdict = Open
  /\ Len(fates) < selected
  /\ \E fate \in {"none", "cut", "passed", "failed", "lost"} : fates' = Append(fates, fate)
  /\ UNCHANGED <<request, selected, verdict>>

\* A mutant whose test was lost counts as killed, as in the code.
Judgement ==
  IF \E i \in DOMAIN fates : Undecided(fates[i]) THEN 2
  ELSE IF \E i \in DOMAIN fates : fates[i] = "passed" THEN 1 ELSE 0

Conclude ==
  /\ verdict = Open
  /\ selected > 0 /\ Len(fates) = selected
  /\ verdict' = Judgement
  /\ UNCHANGED <<request, selected, fates>>

Inform ==
  /\ verdict = Open
  /\ request \in {"list", "help"}
  /\ verdict' = 0
  /\ UNCHANGED <<request, selected, fates>>

GiveUp ==
  /\ verdict = Open
  /\ verdict' = 2
  /\ UNCHANGED <<request, selected, fates>>

TestingNext == ReadRequest \/ PassBaseline \/ TestMutant \/ Conclude \/ Inform \/ GiveUp

TestingSteps == TestingInit /\ [][TestingNext]_testingVars

\* A campaign ends: something can always be done until there is a verdict.
TestingEnds == WF_testingVars(TestingNext)
=============================================================================
