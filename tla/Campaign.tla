------------------------------ MODULE Campaign ------------------------------
(***************************************************************************)
(* What a fault campaign promises, without environment variables, files or  *)
(* error objects: cases are run one after the other, case 1 is the baseline *)
(* and case i + 1 arms the fault at call i; the campaign ends with one      *)
(* verdict.  0 and 1 are judgements on a complete and trusted series of     *)
(* cases; 2 may be given at any time and says nothing about the command.    *)
(***************************************************************************)
EXTENDS Naturals, Sequences

CONSTANT Unset

VARIABLES
  request, \* .help asks for the usage text, .max bounds the injected cases
  cases,   \* the cases run so far
  verdict  \* Open, or the exit status

campaignVars == <<request, cases, verdict>>

Open == 3

\* Armed with the call index of its place in the series.
InPlace(c, i) == c.call = IF i = 1 THEN Unset ELSE i - 1

\* The case was run and its evidence is complete; it is the case's own, unless
\* its run directory is one that existed before the campaign; and a baseline that
\* failed has a finding that explains the failure.
Trusted(i) ==
  /\ cases[i].ran /\ cases[i].sound
  /\ cases[i].own \/ cases[i].reused
  /\ ~(i = 1 /\ cases[i].silent)

\* The last case of a series that ends by exhaustion injected nothing.
Counts(i) == i = 1 \/ cases[i].hit

Complete ==
  /\ cases # <<>>
  /\ \A i \in 2 .. Len(cases) - 1 : cases[i].hit
  /\ \/ Len(cases) = request.max + 1
     \/ Len(cases) > 1 /\ ~cases[Len(cases)].hit

AnyFinding == \E i \in DOMAIN cases : Counts(i) /\ cases[i].findings > 0

CampaignInit == cases = <<>> /\ verdict = Open

RunCase ==
  /\ verdict = Open
  /\ Len(cases) <= request.max
  /\ \A i \in 2 .. Len(cases) : cases[i].hit
  /\ Len(cases') = Len(cases) + 1
  /\ cases' = Append(cases, cases'[Len(cases')])
  /\ InPlace(cases'[Len(cases')], Len(cases'))
  /\ UNCHANGED <<request, verdict>>

Judge ==
  /\ verdict = Open
  /\ Complete
  /\ \A i \in DOMAIN cases : Trusted(i)
  /\ verdict' = IF AnyFinding THEN 1 ELSE 0
  /\ UNCHANGED <<request, cases>>

GiveHelp ==
  /\ verdict = Open
  /\ request.help /\ cases = <<>>
  /\ verdict' = 0
  /\ UNCHANGED <<request, cases>>

GiveUp ==
  /\ verdict = Open
  /\ verdict' = 2
  /\ UNCHANGED <<request, cases>>

CampaignNext == RunCase \/ Judge \/ GiveHelp \/ GiveUp

CampaignSpec == CampaignInit /\ [][CampaignNext]_campaignVars
=============================================================================
