---------------------------- MODULE TestMutation ----------------------------
(***************************************************************************)
(* test-mutation as it is called: the campaign does what its command line   *)
(* asks for.                                                                *)
(***************************************************************************)
EXTENDS MutationCampaign, MutationOptions

CONSTANTS Lines \* command lines, without the name of the program

ASSUME OptionsOK ==
  /\ MaxNumber = MaxMutants /\ DefaultCount \in 1 .. MaxMutants
  /\ MaxOperators \in Nat

\* A word is one thing only, and never the null pointer that stands for no word.
ASSUME WordsOK ==
  /\ LET own == Valued \cup Help \cup {"--list", "--"} IN
       /\ Formats \cap (own \cup BadFormats \cup Dashed) = {}
       /\ BadFormats \cap (own \cup Dashed) = {}
       /\ Dashed \cap own = {}
  /\ \A words \in Lines : words \in Seq(ToSet(words) \ {Unset})

VARIABLES line

testVars == <<vars, line>>

TestInit == Init /\ line \in Lines

\* The request and the capacity come from the line, and with an error of the
\* parser's own nothing else is tried.
ReadsLine ==
  /\ request' = Request(line)
  /\ capacity' = Arguments(line).max
  /\ Arguments(line).raised => err'

TestNext ==
  /\ Next
  /\ pc = "parse" => ReadsLine
  /\ UNCHANGED line

TestSpec == TestInit /\ [][TestNext]_testVars /\ WF_vars(Step /\ ~Waiting)

-----------------------------------------------------------------------------
(* What a command line says, without the loop.                               *)

\* Where the phrases of the line begin: each is one word, or an option and its value.
Begins ==
  LET begins[i \in DOMAIN line] == i = 1 \/ ~(begins[i - 1] /\ line[i - 1] \in Valued)
  IN {i \in DOMAIN line : begins[i]}

\* Those before the first "--", which the test command follows.
Phrases ==
  LET separators == {i \in Begins : line[i] = "--"}
  IN {i \in Begins : \A j \in separators : i < j}

HasCommand == \E i \in Begins : line[i] = "--" /\ i < Len(line)

Said(option) == {i \in Phrases : line[i] = option}

Projects == {i \in Phrases : line[i] \notin Valued \cup Formats \cup {"--list"}}

AcceptedValue(option, word) ==
  CASE option = "--compile-db" -> TRUE
    [] option = "--operator" -> word \in Operators
    [] option = "--max-mutants" -> IsCount(word)
    [] option = "--timeout" -> word \in Seconds

WellFormed ==
  /\ \A i \in Phrases :
       /\ line[i] \notin Help \cup BadFormats \cup Dashed
       /\ line[i] \in Valued => i < Len(line) /\ AcceptedValue(line[i], line[i + 1])
  /\ Cardinality(Projects) = 1 /\ Said("--compile-db") # {}
  /\ Cardinality(Said("--operator")) <= MaxOperators

AsksForRun  == WellFormed /\ Said("--list") = {} /\ HasCommand
AsksForList == WellFormed /\ Said("--list") # {}

\* The last of several counts holds.
Limit ==
  IF Said("--max-mutants") = {} THEN DefaultCount
  ELSE Numbers[line[1 + CHOOSE i \in Said("--max-mutants") :
                          \A j \in Said("--max-mutants") : j <= i]]

-----------------------------------------------------------------------------
(* Properties. *)

\* Commands are run only for a line that says so outside the words of the test
\* command, on as many candidates as it allows; such a line is never refused
\* without an error; and success without a test is for a list or help alone.
CommandLineObeyed ==
  /\ baseline # "none" => AsksForRun /\ count <= Limit
  /\ pc = "done" /\ ~err /\ AsksForRun /\ sites > 0 => baseline # "none"
  /\ pc = "done" /\ exit = 0 /\ tests = <<>> =>
       AsksForList \/ (Len(line) = 1 /\ line[1] \in Help)
  /\ pc = "done" /\ ~err /\ AsksForList => exit = 0
=============================================================================
