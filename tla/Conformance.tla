----------------------------- MODULE Conformance -----------------------------
(***************************************************************************)
(* The wrapper conformance tool (components/conformance): seven files are   *)
(* read row by row, each refining a table of public APIs and a table of     *)
(* expected fault outcomes; then the tables are validated and a receipt is  *)
(* written.  Any open, read, close or write may fail.  A read that fails    *)
(* looks like the end of the file: the error is noticed only at the end.    *)
(***************************************************************************)
EXTENDS Naturals, Sequences, FiniteSets, Functions

CONSTANTS
  Inputs,    \* contents of the seven files
  MaxApis,   \* MAX_APIS
  MaxFaults  \* MAX_FAULTS

Text == STRING

\* Rows after the header.  A malformed row is [bad |-> TRUE].
Bad == [bad |-> TRUE]

ApiRow      == [bad : {FALSE}, name : Text, usr : Text]
TestRow     == [bad : {FALSE}, usr : Text, fault : BOOLEAN]
ContractRow == [bad : {FALSE}, usr : Text, arguments : BOOLEAN, result : BOOLEAN]
FaultRow    == [bad : {FALSE}, usr : Text, wrapper : Text,
                symbols : Seq([symbol : Text, conditional : BOOLEAN])]
TraceRow    == [bad : {FALSE}, ours : BOOLEAN, usr : Text, env : BOOLEAN]
\* logged is FALSE if the field is missing, "-" or empty; present only if not missing.
CallRow     == {r \in [bad : {FALSE}, name : Text, kind : {"enter", "exit", "other"},
                       present : BOOLEAN, logged : BOOLEAN] : r.logged => r.present}
OutcomeRow  == [bad : {FALSE}, wrapper : Text, symbol : Text, pass : BOOLEAN]

Rows(R) == Seq(R \cup {Bad})

Input == [help : BOOLEAN, refused : BOOLEAN, known : BOOLEAN, audited : BOOLEAN,
          macros : SUBSET Text,
          apis : Rows(ApiRow), tests : Rows(TestRow), contracts : Rows(ContractRow),
          faults : Rows(FaultRow), traces : Rows(TraceRow), calls : Rows(CallRow),
          outcomes : Rows(OutcomeRow)]

ASSUME ConstantsOK ==
  /\ Inputs \subseteq Input
  /\ MaxApis \in Nat /\ MaxFaults \in Nat

VARIABLES
  input,      \* the command line and the files
  pc,         \* the file being read, or where main stands
  opened, row, \* the file is open; the next row
  apis,       \* struct api_record
  faults,     \* struct expected_fault
  observed,   \* fault_outcomes_observed
  findings,
  err, status,
  receipt     \* the receipt of this run, or None

vars == <<input, pc, opened, row, apis, faults, observed, findings, err, status, receipt>>

tables  == <<apis, faults, observed, findings>>
outcome == <<status, receipt>>

Running == 3
None == [written |-> FALSE]

Files == <<"apis", "tests", "contracts", "faults", "traces", "calls", "outcomes">>

Json == {"traces", "calls"}

Reading == \E i \in DOMAIN Files : Files[i] = pc

After(file) ==
  LET i == CHOOSE i \in DOMAIN Files : Files[i] = file
  IN IF i = Len(Files) THEN "validate" ELSE Files[i + 1]

Init ==
  /\ input \in Inputs
  /\ pc = "parse"
  /\ opened = FALSE /\ row = 1
  /\ apis = <<>> /\ faults = <<>> /\ observed = 0 /\ findings = 0
  /\ err = FALSE /\ status = Running /\ receipt = None

\* An unknown option is an error, the help is not.
ParseArguments ==
  /\ pc = "parse"
  /\ \E allocated \in BOOLEAN :
       /\ err' = (~allocated \/ input.refused)
       /\ status' = IF input.help THEN 0 ELSE 2
       /\ pc' = IF input.help \/ input.refused \/ ~allocated THEN "report error" ELSE Files[1]
  /\ UNCHANGED <<input, opened, row, tables, receipt>>

\* Opening a file fails, or is refused: an unknown platform, a JSON document
\* that is no receipt of a passed audit or cannot be parsed.
Refused(file) ==
  \/ file = "faults" /\ ~input.known
  \/ file = "traces" /\ ~input.audited

Open ==
  /\ Reading /\ ~opened
  /\ row' = 1
  /\ \/ /\ ~Refused(pc)
        /\ opened' = TRUE
        /\ UNCHANGED <<pc, err>>
     \/ /\ err' = TRUE
        /\ pc' = "report error"
        /\ UNCHANGED opened
  /\ UNCHANGED <<input, tables, outcome>>

\* The end of the file, or a read error that looks like it (a JSON document is
\* read before its rows are); then fclose, which may fail.
EndOfFile ==
  /\ Reading /\ opened
  /\ \E readFails \in BOOLEAN, closeFails \in BOOLEAN :
       /\ pc \in Json => ~readFails /\ ~closeFails
       /\ readFails \/ row > Len(input[pc])
       /\ err' = (err \/ readFails \/ closeFails)
       /\ pc' = IF closeFails THEN "report error" ELSE After(pc)
  /\ opened' = FALSE
  /\ UNCHANGED <<input, row, tables, outcome>>

-----------------------------------------------------------------------------
(* Rows.  An operator per table; RowOf takes the next row of a file.         *)

HasUsr(usr)   == {i \in DOMAIN apis : apis[i].usr = usr}
HasName(name) == {i \in DOMAIN apis : apis[i].name = name}
First(S)      == CHOOSE i \in S : \A j \in S : i <= j

RowOf(file) ==
  /\ pc = file /\ opened /\ row <= Len(input[file])
  /\ row' = row + 1

Accept ==
  UNCHANGED <<input, pc, opened, err, outcome>>

\* The row is refused: the load fails, and with it the run.
Refuse ==
  /\ err' = TRUE
  /\ pc' = "report error"
  /\ UNCHANGED <<input, opened, tables, outcome>>

NewApi(r) ==
  [name |-> r.name, usr |-> r.usr, tested |-> FALSE, faultTest |-> FALSE, contract |-> FALSE,
   instrumented |-> FALSE, traced |-> FALSE, needsArguments |-> FALSE, needsResult |-> FALSE,
   enters |-> 0, exits |-> 0, arguments |-> FALSE, result |-> FALSE]

\* Mutant: the end of the array is not looked at.
LoadApiUnbounded ==
  /\ RowOf("apis")
  /\ LET r == input.apis[row] IN
     \/ r.bad /\ Refuse
     \/ /\ ~r.bad
        /\ apis' = Append(apis, NewApi(r))
        /\ UNCHANGED <<faults, observed, findings>>
        /\ Accept

LoadApi ==
  /\ RowOf("apis")
  /\ LET r == input.apis[row] IN
     \/ /\ r.bad \/ Len(apis) = MaxApis
        /\ Refuse
     \/ /\ ~r.bad /\ Len(apis) < MaxApis
        /\ apis' = Append(apis, NewApi(r))
        /\ UNCHANGED <<faults, observed, findings>>
        /\ Accept

LoadTest ==
  /\ RowOf("tests")
  /\ LET r == input.tests[row]
         known == ~r.bad /\ HasUsr(r.usr) # {} /\ ~apis[First(HasUsr(r.usr))].tested
     IN \/ ~known /\ Refuse
        \/ /\ known
           /\ apis' = [apis EXCEPT ![First(HasUsr(r.usr))] =
                         [@ EXCEPT !.tested = TRUE, !.faultTest = r.fault]]
           /\ UNCHANGED <<faults, observed, findings>>
           /\ Accept

LoadContract ==
  /\ RowOf("contracts")
  /\ LET r == input.contracts[row]
         known == ~r.bad /\ HasUsr(r.usr) # {} /\ ~apis[First(HasUsr(r.usr))].contract
     IN \/ ~known /\ Refuse
        \/ /\ known
           /\ apis' = [apis EXCEPT ![First(HasUsr(r.usr))] =
                         [@ EXCEPT !.contract = TRUE, !.needsArguments = r.arguments,
                                   !.needsResult = r.result]]
           /\ UNCHANGED <<faults, observed, findings>>
           /\ Accept

\* The platform has a fault: a conditional symbol needs its macro.  missed are
\* symbols whose macro could not be looked up.
Available(s, missed) ==
  ~s.conditional \/ (s.symbol \in input.macros /\ s.symbol \notin missed)

Entry(r, k) == [wrapper |-> r.wrapper, symbol |-> r.symbols[k].symbol, observed |-> FALSE]

\* The entries for the symbols of a row, one after the other.
Expected(r, missed) ==
  LET table[k \in 0 .. Len(r.symbols)] ==
        IF k = 0 THEN <<>>
        ELSE IF Available(r.symbols[k], missed) THEN Append(table[k - 1], Entry(r, k))
        ELSE table[k - 1]
  IN table[Len(r.symbols)]

LoadFault ==
  /\ RowOf("faults")
  /\ LET r == input.faults[row]
         known == ~r.bad /\ HasUsr(r.usr) # {} /\ apis[First(HasUsr(r.usr))].faultTest
     IN \/ ~known /\ Refuse
        \/ /\ known
           /\ \E missed \in SUBSET {r.symbols[i].symbol :
                                      i \in {j \in DOMAIN r.symbols : r.symbols[j].conditional}} :
                LET more == Expected(r, missed) IN
                \/ /\ Len(faults) + Len(more) > MaxFaults
                   /\ Refuse
                \/ /\ Len(faults) + Len(more) <= MaxFaults
                   /\ faults' = faults \o more
                   /\ err' = (err \/ missed # {})
                   /\ UNCHANGED <<input, pc, opened, apis, observed, findings, outcome>>

\* Rows of other libraries are passed over.
LoadTrace ==
  /\ RowOf("traces")
  /\ LET r == input.traces[row]
         known == ~r.bad /\ (r.ours => HasUsr(r.usr) # {})
     IN \/ ~known /\ Refuse
        \/ /\ known
           /\ apis' = IF ~r.ours THEN apis
                      ELSE [apis EXCEPT ![First(HasUsr(r.usr))] =
                              [@ EXCEPT !.instrumented = TRUE, !.traced = r.env]]
           /\ UNCHANGED <<faults, observed, findings>>
           /\ Accept

\* Mutant: entering and leaving are counted on one counter.
TallyOneCounter(a, r) ==
  IF r.kind = "other" THEN a
  ELSE [a EXCEPT !.enters = @ + 1, !.exits = @ + 1,
                 !.arguments = IF r.kind = "enter" /\ r.present THEN r.logged ELSE @,
                 !.result = IF r.kind = "exit" /\ r.present THEN r.logged ELSE @]

\* The last record that has the field decides whether it was logged.
Tally(a, r) ==
  CASE r.kind = "enter" ->
         [a EXCEPT !.enters = @ + 1, !.arguments = IF r.present THEN r.logged ELSE @]
    [] r.kind = "exit" ->
         [a EXCEPT !.exits = @ + 1, !.result = IF r.present THEN r.logged ELSE @]
    [] OTHER -> a

LoadCall ==
  /\ RowOf("calls")
  /\ LET r == input.calls[row] IN
     \/ r.bad /\ Refuse
     \/ /\ ~r.bad
        /\ apis' = IF HasName(r.name) = {} THEN apis
                   ELSE [apis EXCEPT ![First(HasName(r.name))] = Tally(@, r)]
        /\ UNCHANGED <<faults, observed, findings>>
        /\ Accept

Matching(r) == {i \in DOMAIN faults : faults[i].wrapper = r.wrapper /\ faults[i].symbol = r.symbol}

\* The first entry for the outcome, if it has none yet.
Awaiting(r) == {i \in Matching(r) : i = First(Matching(r)) /\ ~faults[i].observed}

\* An unexpected or a second outcome is a finding and leaves the table alone;
\* a failed one is a finding, but the fault was observed.
LoadOutcome ==
  /\ RowOf("outcomes")
  /\ LET r == input.outcomes[row] IN
     \/ r.bad /\ Refuse
     \/ /\ ~r.bad
        /\ \/ /\ Awaiting(r) = {}
              /\ findings' = findings + 1
              /\ UNCHANGED <<faults, observed>>
           \/ /\ Awaiting(r) # {}
              /\ findings' = IF r.pass THEN findings ELSE findings + 1
              /\ faults' = [faults EXCEPT ![First(Matching(r))].observed = TRUE]
              /\ observed' = observed + 1
        /\ UNCHANGED apis
        /\ Accept

-----------------------------------------------------------------------------
(* validate_conformance, write_receipt and the end of main.                  *)

Count(P(_), table) == Cardinality({i \in DOMAIN table : P(table[i])})

Gaps ==
    Count(LAMBDA a : ~a.tested, apis)
  + Count(LAMBDA a : ~a.contract, apis)
  + Count(LAMBDA a : ~a.instrumented, apis)
  + Count(LAMBDA a : a.traced /\ a.enters = 0, apis)
  + Count(LAMBDA a : a.traced /\ a.enters # a.exits, apis)
  + Count(LAMBDA a : a.faultTest /\ a.enters = 0, apis)
  + Count(LAMBDA a : a.needsArguments /\ ~a.arguments, apis)
  + Count(LAMBDA a : a.needsResult /\ ~a.result, apis)
  + Count(LAMBDA f : ~f.observed, faults)

ValidateConformance ==
  /\ pc = "validate"
  /\ findings' = findings + Gaps
  /\ pc' = "receipt"
  /\ UNCHANGED <<input, opened, row, apis, faults, observed, err, outcome>>

Receipt ==
  [written |-> TRUE, apis |-> Len(apis),
   traced |-> Count(LAMBDA a : a.traced, apis),
   invoked |-> Count(LAMBDA a : a.traced /\ a.enters > 0, apis),
   faultCases |-> observed, outcomesObserved |-> Len(faults), \* in the order of the arguments
   findings |-> findings, passed |-> findings = 0]

\* Mutant: a receipt that was written is success.
StatusOfWritten == 0

StatusWritten == IF findings = 0 THEN 0 ELSE 1

WriteReceipt ==
  /\ pc = "receipt"
  /\ \/ /\ receipt' = Receipt
        /\ status' = StatusWritten
        /\ UNCHANGED err
     \/ /\ receipt' \in {None, Receipt}
        /\ err' = TRUE
        /\ UNCHANGED status
  /\ pc' = "report error"
  /\ UNCHANGED <<input, opened, row, tables>>

ReportError ==
  /\ pc = "report error"
  /\ status' = IF err THEN 2 ELSE status
  /\ pc' = "done"
  /\ UNCHANGED <<input, opened, row, tables, err, receipt>>

Finished == pc = "done" /\ UNCHANGED vars

Next ==
  \/ ParseArguments \/ Open \/ EndOfFile
  \/ LoadApi \/ LoadTest \/ LoadContract \/ LoadFault \/ LoadTrace \/ LoadCall \/ LoadOutcome
  \/ ValidateConformance \/ WriteReceipt \/ ReportError \/ Finished

Spec == Init /\ [][Next]_vars

-----------------------------------------------------------------------------
(* Properties, said of the files alone.                                      *)

RowsOf(s, P(_)) == {i \in DOMAIN s : ~s[i].bad /\ P(s[i])}

Calls(a, kind) == RowsOf(input.calls, LAMBDA r : r.name = a.name /\ r.kind = kind)
TestsOf(a)     == RowsOf(input.tests, LAMBDA r : r.usr = a.usr)
ContractsOf(a) == RowsOf(input.contracts, LAMBDA r : r.usr = a.usr)
TracesOf(a)    == RowsOf(input.traces, LAMBDA r : r.ours /\ r.usr = a.usr)

\* The faults of the platform, by row and symbol, and what identifies them.
Expectations ==
  UNION {{<<i, k>> : k \in {k \in DOMAIN input.faults[i].symbols :
                              Available(input.faults[i].symbols[k], {})}} :
         i \in RowsOf(input.faults, LAMBDA r : TRUE)}

Pair(e) == <<input.faults[e[1]].wrapper, input.faults[e[1]].symbols[e[2]].symbol>>

OutcomesOf(p) == RowsOf(input.outcomes, LAMBDA r : <<r.wrapper, r.symbol>> = p)

\* Each API has exactly one test and one contract and was seen by the audit.
Identified(a) ==
  Cardinality(TestsOf(a)) = 1 /\ Cardinality(ContractsOf(a)) = 1 /\ TracesOf(a) # {}

\* It was called, and every call that was entered was left.
Balanced(a) ==
  Calls(a, "enter") # {} /\ Cardinality(Calls(a, "enter")) = Cardinality(Calls(a, "exit"))

\* The audit says that it is traced: in some of its rows, or in every one.
TracedBySome(a) == \E i \in TracesOf(a) : input.traces[i].env
TracedByAll(a)  == \A i \in TracesOf(a) : input.traces[i].env

\* A fault test made a call.
Exercised(a) == (\E i \in TestsOf(a) : input.tests[i].fault) => Calls(a, "enter") # {}

\* What the contract wants logged was logged by some call, or by every call.
LoggedBySome(a) ==
  \A c \in ContractsOf(a) :
    /\ input.contracts[c].arguments => \E i \in Calls(a, "enter") : input.calls[i].logged
    /\ input.contracts[c].result => \E i \in Calls(a, "exit") : input.calls[i].logged

LoggedByAll(a) ==
  \A c \in ContractsOf(a) :
    /\ input.contracts[c].arguments => /\ Calls(a, "enter") # {}
                                       /\ \A i \in Calls(a, "enter") : input.calls[i].logged
    /\ input.contracts[c].result => /\ Calls(a, "exit") # {}
                                    /\ \A i \in Calls(a, "exit") : input.calls[i].logged

\* Each fault of the platform has one outcome, it passed, and there are no others.
FaultsShown ==
  /\ \A e \in Expectations :
       \E i \in DOMAIN input.outcomes : OutcomesOf(Pair(e)) = {i} /\ input.outcomes[i].pass
  /\ \A i \in DOMAIN input.outcomes :
       \E e \in Expectations : i \in OutcomesOf(Pair(e))

\* No API and no fault is listed twice.
Unrepeated ==
  /\ \A i, j \in DOMAIN input.apis :
       input.apis[i].usr = input.apis[j].usr \/ input.apis[i].name = input.apis[j].name => i = j
  /\ \A e, f \in Expectations : Pair(e) = Pair(f) => e = f

\* The types, and that the tables stay within their arrays.
TypeOK ==
  /\ input \in Input
  /\ pc \in {"parse", "validate", "receipt", "report error", "done"} \cup Range(Files)
  /\ opened \in BOOLEAN /\ err \in BOOLEAN
  /\ row \in Nat \ {0}
  /\ Len(apis) <= MaxApis /\ Len(faults) <= MaxFaults
  /\ observed \in 0 .. Len(faults) /\ findings \in Nat
  /\ status \in {0, 1, 2, Running}

\* A run that passes has looked at every row of every file, and what they say
\* together is that every API is identified, called and logged and every fault
\* of the platform is shown.
PassMeansCovered ==
  pc = "done" /\ status = 0 /\ ~input.help =>
    /\ \A a \in Range(input.apis) :
         /\ Identified(a) /\ Exercised(a) /\ LoggedBySome(a)
         /\ TracedByAll(a) => Balanced(a)
    /\ FaultsShown

\* A run that fails without trouble found something missing or listed twice.
FailMeansGap ==
  pc = "done" /\ status = 1 =>
    ~ /\ \A a \in Range(input.apis) :
           /\ Identified(a) /\ Exercised(a) /\ LoggedByAll(a)
           /\ TracedBySome(a) => Balanced(a)
      /\ Unrepeated
      /\ FaultsShown

\* Neither verdict is given against what the files say.
VerdictIsFounded == PassMeansCovered /\ FailMeansGap

\* A verdict stands in the receipt as well, and is the same there.
ReceiptAgrees ==
  pc = "done" /\ status # 2 /\ ~input.help =>
    receipt.written /\ receipt.passed = (status = 0)

(* The names in the format string of write_receipt: "fault_cases" and        *)
(* "fault_outcomes_observed".                                                *)
ReceiptNamesItsCounters ==
  receipt.written => receipt.faultCases = Len(faults) /\ receipt.outcomesObserved = observed
=============================================================================
