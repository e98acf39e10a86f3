-------------------------- MODULE MutationOptions --------------------------
(***************************************************************************)
(* The command line of test-mutation: cli.c, and what main makes of it.     *)
(* A line is a sequence of words.  The loop of p101_mutation_parse_arguments*)
(* is a fold over them; the turn that takes an option together with its     *)
(* value is two steps of the fold, and an option that never gets its value  *)
(* falls through to the test for words that begin with "-".                 *)
(***************************************************************************)
EXTENDS Naturals, Sequences, SequencesExt, FiniteSets

CONSTANTS
  Numbers,      \* [word |-> number]: the words p101_strtoul reads to their end
  Seconds,      \* words p101_strtod reads to their end, as a positive number
  Operators,    \* names of mutation operators
  Formats,      \* -d: words that name diagnostic outputs
  BadFormats,   \* -d: words that do not
  Dashed,       \* words that begin with "-" and are no option
  MaxNumber,    \* MAX_MUTANTS
  DefaultCount, \* DEFAULT_MAX_MUTANTS
  MaxOperators  \* P101_MUTATION_MAX_OPERATORS

Valued == {"--compile-db", "--operator", "--max-mutants", "--timeout"}
Help   == {"-h", "--help"}

Unset == "(null)"

Begin ==
  [going |-> TRUE, valid |-> TRUE, raised |-> FALSE, awaits |-> Unset,
   project |-> Unset, database |-> Unset, operators |-> <<>>, max |-> DefaultCount,
   list |-> FALSE, test |-> <<>>, atTest |-> FALSE]

Invalid(a) == [a EXCEPT !.going = FALSE, !.valid = FALSE]

\* An unknown operator is an error of its own; main then prints no usage.
Raise(a) == [Invalid(a) EXCEPT !.raised = TRUE]

\* parse_size
IsCount(word) == word \in DOMAIN Numbers /\ Numbers[word] \in 1 .. MaxNumber

Value(a, word) ==
  LET b == [a EXCEPT !.awaits = Unset] IN
  CASE a.awaits = "--compile-db" -> [b EXCEPT !.database = word]
    [] a.awaits = "--operator" ->
         IF word \in Operators THEN [b EXCEPT !.operators = Append(@, word)] ELSE Raise(b)
    [] a.awaits = "--max-mutants" ->
         IF IsCount(word) THEN [b EXCEPT !.max = Numbers[word]] ELSE Invalid(b)
    [] a.awaits = "--timeout" -> IF word \in Seconds THEN b ELSE Invalid(b)

\* Mutant: the words of the test command are read as options, too.
SeparateOnce(a) == [a EXCEPT !.test = <<"--">>]

\* Every word after "--" is the test command's.
Separate(a) == [a EXCEPT !.atTest = TRUE]

Takes(a, word) ==
  word \in Valued /\ (word = "--operator" => Len(a.operators) < MaxOperators)

Option(a, word) ==
  CASE word = "--" -> Separate(a)
    [] word \in Help -> Invalid(a)
    [] Takes(a, word) -> [a EXCEPT !.awaits = word]
    [] word = "--list" -> [a EXCEPT !.list = TRUE]
    [] word \in Formats -> a
    [] word \in BadFormats -> Raise(a)
    [] word \in Dashed \cup Valued /\ ~Takes(a, word) -> Invalid(a)
    [] OTHER -> IF a.project = Unset THEN [a EXCEPT !.project = word] ELSE Invalid(a)

Turn(a, word) ==
  CASE ~a.going -> a
    [] a.going /\ a.atTest -> [a EXCEPT !.test = Append(@, word)]
    [] a.going /\ ~a.atTest /\ a.awaits # Unset -> Value(a, word)
    [] OTHER -> Option(a, word)

Arguments(line) == FoldLeft(Turn, Begin, line)

\* The test at the end of p101_mutation_parse_arguments.
IsValid(a) ==
  /\ a.valid /\ a.awaits = Unset
  /\ a.project # Unset /\ a.database # Unset
  /\ a.list \/ a.test # <<>>

\* What main does with it: help is a success only on its own.
Request(line) ==
  LET a == Arguments(line) IN
  CASE IsValid(a) -> IF a.list THEN "list" ELSE "run"
    [] ~IsValid(a) /\ Len(line) = 1 /\ line[1] \in Help -> "help"
    [] OTHER -> "misuse"
=============================================================================
