--------------------------- MODULE CommandOutcome ---------------------------
(***************************************************************************)
(* What p101_mutation_run_command may tell its caller: the exit code, the   *)
(* timed_out flag, and whether it left an error in the error object.  The   *)
(* module RunCommand shows that the function keeps to these outcomes; the   *)
(* campaign in MutationCampaign relies on nothing else.                     *)
(***************************************************************************)
EXTENDS Integers

CONSTANT Codes  \* exit statuses a command can have

ASSUME CodesOK == Codes \subseteq Nat /\ 0 \in Codes

NoCode == -1

\* The command ended by itself (an error may be pending beside a valid code) ...
Ended == [code : Codes, timedOut : {FALSE}, err : BOOLEAN]

\* ... or was killed at its deadline ...
Killed == [code : {NoCode}, timedOut : {TRUE}, err : BOOLEAN]

\* ... or the tool could not run it or lost sight of it.
Lost == [code : {NoCode}, timedOut : {FALSE}, err : {TRUE}]

\* With an error pending at the call, the command is not even started.
OutcomesGiven(pending) == IF pending THEN Lost ELSE Ended \cup Killed \cup Lost
=============================================================================
