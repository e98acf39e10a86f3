--------------------------- MODULE ConformanceProofs ---------------------------
(***************************************************************************)
(* Proofs about Conformance, for every content of the seven files, every    *)
(* size of the two tables and every failing call.  Each table is described  *)
(* by what the rows read so far say of it; a verdict then compares the      *)
(* complete tables, and the lemmas before it turn that into a statement     *)
(* about the files.                                                         *)
(***************************************************************************)
EXTENDS Conformance, FiniteSetTheorems, SequenceTheorems, WellFoundedInduction, TLAPS

-----------------------------------------------------------------------------
(* The least of a set of numbers.                                            *)

Below == {p \in Nat \X Nat : p[1] < p[2]}

LEMMA Least ==
  ASSUME NEW S \in SUBSET Nat, S # {}
  PROVE  \E x \in S : \A y \in S : x <= y
<1>1. IsWellFoundedOn(Below, Nat)
  BY NatLessThanWellFounded DEF OpToRel, Below
<1>2. PICK x \in S : \A y \in S : ~ (<<y, x>> \in Below)
  BY <1>1, WFMin, Zenon
<1>3. ASSUME NEW y \in S PROVE x <= y
  <2>1. ~ (<<y, x>> \in Below)
    BY <1>2
  <2>2. ~ (y < x)
    BY <2>1, Zenon DEF Below
  <2> QED BY <2>2
<1> QED BY <1>3

LEMMA FirstIs ==
  ASSUME NEW S \in SUBSET Nat, S # {}
  PROVE  First(S) \in S /\ \A j \in S : First(S) <= j
<1>1. \E i \in S : \A j \in S : i <= j
  BY Least
<1> QED BY <1>1 DEF First

-----------------------------------------------------------------------------
(* What the tables hold, and what the rows of the files are.                 *)

ApiRecord ==
  [name : Text, usr : Text, tested : BOOLEAN, faultTest : BOOLEAN, contract : BOOLEAN,
   instrumented : BOOLEAN, traced : BOOLEAN, needsArguments : BOOLEAN, needsResult : BOOLEAN,
   enters : Nat, exits : Nat, arguments : BOOLEAN, result : BOOLEAN]

FaultRecord == [wrapper : Text, symbol : Text, observed : BOOLEAN]

\* A row is one of its file's unless it is malformed.
LEMMA GoodRow ==
  ASSUME NEW R, NEW r \in R \cup {Bad}, ~r.bad
  PROVE  r \in R
BY DEF Bad

LEMMA FileType ==
  ASSUME NEW x \in Inputs
  PROVE  /\ x.apis \in Rows(ApiRow) /\ x.tests \in Rows(TestRow)
         /\ x.contracts \in Rows(ContractRow) /\ x.faults \in Rows(FaultRow)
         /\ x.traces \in Rows(TraceRow) /\ x.calls \in Rows(CallRow)
         /\ x.outcomes \in Rows(OutcomeRow)
BY ConstantsOK DEF Input

LEMMA RowsType ==
  ASSUME NEW R, NEW s \in Rows(R)
  PROVE  /\ Len(s) \in Nat /\ DOMAIN s = 1 .. Len(s)
         /\ \A i \in DOMAIN s : ~s[i].bad => s[i] \in R
<1>1. Len(s) \in Nat /\ DOMAIN s = 1 .. Len(s) /\ \A i \in DOMAIN s : s[i] \in R \cup {Bad}
  BY DEF Rows
<1> QED BY <1>1, GoodRow

LEMMA ApiRows ==
  ASSUME NEW x \in Inputs
  PROVE  /\ Len(x.apis) \in Nat /\ DOMAIN x.apis = 1 .. Len(x.apis)
         /\ \A i \in DOMAIN x.apis : ~x.apis[i].bad =>
              x.apis[i].name \in Text /\ x.apis[i].usr \in Text
<1>1. x.apis \in Rows(ApiRow)
  BY FileType
<1>2. /\ Len(x.apis) \in Nat /\ DOMAIN x.apis = 1 .. Len(x.apis)
      /\ \A i \in DOMAIN x.apis : ~x.apis[i].bad => x.apis[i] \in ApiRow
  BY <1>1, RowsType
<1> QED BY <1>2 DEF ApiRow

LEMMA TestRows ==
  ASSUME NEW x \in Inputs
  PROVE  /\ Len(x.tests) \in Nat /\ DOMAIN x.tests = 1 .. Len(x.tests)
         /\ \A i \in DOMAIN x.tests : ~x.tests[i].bad =>
              x.tests[i].usr \in Text /\ x.tests[i].fault \in BOOLEAN
<1>1. x.tests \in Rows(TestRow)
  BY FileType
<1>2. /\ Len(x.tests) \in Nat /\ DOMAIN x.tests = 1 .. Len(x.tests)
      /\ \A i \in DOMAIN x.tests : ~x.tests[i].bad => x.tests[i] \in TestRow
  BY <1>1, RowsType
<1> QED BY <1>2 DEF TestRow

LEMMA ContractRows ==
  ASSUME NEW x \in Inputs
  PROVE  /\ Len(x.contracts) \in Nat /\ DOMAIN x.contracts = 1 .. Len(x.contracts)
         /\ \A i \in DOMAIN x.contracts : ~x.contracts[i].bad =>
              /\ x.contracts[i].usr \in Text
              /\ x.contracts[i].arguments \in BOOLEAN /\ x.contracts[i].result \in BOOLEAN
<1>1. x.contracts \in Rows(ContractRow)
  BY FileType
<1>2. /\ Len(x.contracts) \in Nat /\ DOMAIN x.contracts = 1 .. Len(x.contracts)
      /\ \A i \in DOMAIN x.contracts : ~x.contracts[i].bad => x.contracts[i] \in ContractRow
  BY <1>1, RowsType
<1> QED BY <1>2 DEF ContractRow

LEMMA FaultRows ==
  ASSUME NEW x \in Inputs
  PROVE  /\ Len(x.faults) \in Nat /\ DOMAIN x.faults = 1 .. Len(x.faults)
         /\ \A i \in DOMAIN x.faults : ~x.faults[i].bad => x.faults[i] \in FaultRow
<1>1. x.faults \in Rows(FaultRow)
  BY FileType
<1> QED BY <1>1, RowsType

LEMMA TraceRows ==
  ASSUME NEW x \in Inputs
  PROVE  /\ Len(x.traces) \in Nat /\ DOMAIN x.traces = 1 .. Len(x.traces)
         /\ \A i \in DOMAIN x.traces : ~x.traces[i].bad =>
              /\ x.traces[i].usr \in Text
              /\ x.traces[i].ours \in BOOLEAN /\ x.traces[i].env \in BOOLEAN
<1>1. x.traces \in Rows(TraceRow)
  BY FileType
<1>2. /\ Len(x.traces) \in Nat /\ DOMAIN x.traces = 1 .. Len(x.traces)
      /\ \A i \in DOMAIN x.traces : ~x.traces[i].bad => x.traces[i] \in TraceRow
  BY <1>1, RowsType
<1> QED BY <1>2 DEF TraceRow

LEMMA CallRows ==
  ASSUME NEW x \in Inputs
  PROVE  /\ Len(x.calls) \in Nat /\ DOMAIN x.calls = 1 .. Len(x.calls)
         /\ \A i \in DOMAIN x.calls : ~x.calls[i].bad =>
              /\ x.calls[i].name \in Text /\ x.calls[i].kind \in {"enter", "exit", "other"}
              /\ x.calls[i].present \in BOOLEAN /\ x.calls[i].logged \in BOOLEAN
              /\ x.calls[i].logged => x.calls[i].present
<1>1. x.calls \in Rows(CallRow)
  BY FileType
<1>2. /\ Len(x.calls) \in Nat /\ DOMAIN x.calls = 1 .. Len(x.calls)
      /\ \A i \in DOMAIN x.calls : ~x.calls[i].bad => x.calls[i] \in CallRow
  BY <1>1, RowsType
<1> QED BY <1>2 DEF CallRow

LEMMA OutcomeRows ==
  ASSUME NEW x \in Inputs
  PROVE  /\ Len(x.outcomes) \in Nat /\ DOMAIN x.outcomes = 1 .. Len(x.outcomes)
         /\ \A i \in DOMAIN x.outcomes : ~x.outcomes[i].bad =>
              /\ x.outcomes[i].wrapper \in Text /\ x.outcomes[i].symbol \in Text
              /\ x.outcomes[i].pass \in BOOLEAN
<1>1. x.outcomes \in Rows(OutcomeRow)
  BY FileType
<1>2. /\ Len(x.outcomes) \in Nat /\ DOMAIN x.outcomes = 1 .. Len(x.outcomes)
      /\ \A i \in DOMAIN x.outcomes : ~x.outcomes[i].bad => x.outcomes[i] \in OutcomeRow
  BY <1>1, RowsType
<1> QED BY <1>2 DEF OutcomeRow

-----------------------------------------------------------------------------
(* The APIs, and the API a row is about.                                     *)

ByUsr(x, u)  == {i \in DOMAIN x.apis : x.apis[i].usr = u}
ByName(x, m) == {i \in DOMAIN x.apis : x.apis[i].name = m}

\* The first rows of the manifest are in the table, in their order.
ApisAt(x, t, n) ==
  /\ Len(t) = n /\ n <= Len(x.apis)
  /\ \A i \in 1 .. n :
       ~x.apis[i].bad /\ t[i].usr = x.apis[i].usr /\ t[i].name = x.apis[i].name

LEMMA Owners ==
  ASSUME NEW x \in Inputs, NEW u
  PROVE  /\ ByUsr(x, u) # {} => First(ByUsr(x, u)) \in ByUsr(x, u)
         /\ ByName(x, u) # {} => First(ByName(x, u)) \in ByName(x, u)
         /\ ByUsr(x, u) \subseteq 1 .. Len(x.apis) /\ ByName(x, u) \subseteq 1 .. Len(x.apis)
<1>1. /\ ByUsr(x, u) \subseteq 1 .. Len(x.apis) /\ ByName(x, u) \subseteq 1 .. Len(x.apis)
      /\ ByUsr(x, u) \in SUBSET Nat /\ ByName(x, u) \in SUBSET Nat
  BY ApiRows DEF ByUsr, ByName
<1> QED BY <1>1, FirstIs, Zenon

LEMMA FoundInTable ==
  ASSUME NEW x \in Inputs, x = input, ApisAt(x, apis, Len(x.apis)), apis \in Seq(ApiRecord),
         NEW u
  PROVE  HasUsr(u) = ByUsr(x, u) /\ HasName(u) = ByName(x, u)
<1>1. DOMAIN apis = 1 .. Len(x.apis) /\ DOMAIN x.apis = 1 .. Len(x.apis)
  BY ApiRows DEF ApisAt
<1> QED BY <1>1 DEF HasUsr, HasName, ByUsr, ByName, ApisAt

-----------------------------------------------------------------------------
(* The tests and the contracts: one row for an API, and its columns from it. *)

TestsAt(x, t, n) ==
  /\ n <= Len(x.tests)
  /\ \A j \in 1 .. n : /\ ~x.tests[j].bad /\ ByUsr(x, x.tests[j].usr) # {}
                       /\ t[First(ByUsr(x, x.tests[j].usr))].tested
  /\ \A j, k \in 1 .. n : x.tests[j].usr = x.tests[k].usr => j = k
  /\ \A i \in DOMAIN t :
       IF t[i].tested THEN \E j \in 1 .. n : /\ First(ByUsr(x, x.tests[j].usr)) = i
                                             /\ t[i].faultTest = x.tests[j].fault
       ELSE ~t[i].faultTest

LEMMA TestRead ==
  ASSUME NEW x \in Inputs, NEW t \in Seq(ApiRecord), NEW n \in Nat, n < Len(x.tests),
         ApisAt(x, t, Len(x.apis)), TestsAt(x, t, n), ~x.tests[n + 1].bad,
         NEW k, k = First(ByUsr(x, x.tests[n + 1].usr)), ByUsr(x, x.tests[n + 1].usr) # {},
         ~t[k].tested
  PROVE  TestsAt(x, [t EXCEPT ![k] = [@ EXCEPT !.tested = TRUE,
                                               !.faultTest = x.tests[n + 1].fault]], n + 1)
<1> DEFINE r == x.tests[n + 1]
           u == [t EXCEPT ![k] = [@ EXCEPT !.tested = TRUE, !.faultTest = r.fault]]
<1>1. /\ DOMAIN t = 1 .. Len(x.apis) /\ Len(x.apis) \in Nat /\ Len(x.tests) \in Nat
      /\ DOMAIN x.apis = 1 .. Len(x.apis)
  BY ApiRows, TestRows DEF ApisAt
<1>2. k \in DOMAIN t
  BY <1>1, Owners
<1>3. /\ DOMAIN u = DOMAIN t /\ u[k].tested = TRUE /\ u[k].faultTest = r.fault
      /\ \A i \in DOMAIN t : i # k => u[i] = t[i]
  <2>1. t[k] \in ApiRecord /\ u[k] = [t[k] EXCEPT !.tested = TRUE, !.faultTest = r.fault]
    BY <1>2
  <2>2. u[k].tested = TRUE /\ u[k].faultTest = r.fault
    BY <2>1 DEF ApiRecord
  <2> QED BY <2>2
<1>4. n + 1 <= Len(x.tests) /\ 1 .. n + 1 = (1 .. n) \cup {n + 1}
  BY <1>1
<1>5. \A j \in 1 .. n : First(ByUsr(x, x.tests[j].usr)) \in DOMAIN t
  BY <1>1, Owners DEF TestsAt
<1> HIDE DEF u
<1>6. \A j \in 1 .. n + 1 : /\ ~x.tests[j].bad /\ ByUsr(x, x.tests[j].usr) # {}
                            /\ u[First(ByUsr(x, x.tests[j].usr))].tested
  BY <1>3, <1>4, <1>5 DEF TestsAt
<1>7. \A i, j \in 1 .. n + 1 : x.tests[i].usr = x.tests[j].usr => i = j
  <2>1. \A j \in 1 .. n : x.tests[j].usr # r.usr
    BY DEF TestsAt
  <2> QED BY <1>4, <2>1 DEF TestsAt
<1>8. ASSUME NEW i \in DOMAIN u
      PROVE  IF u[i].tested THEN \E j \in 1 .. n + 1 : /\ First(ByUsr(x, x.tests[j].usr)) = i
                                                       /\ u[i].faultTest = x.tests[j].fault
             ELSE ~u[i].faultTest
  <2>1. CASE i = k
    BY <1>3, <1>4, <2>1
  <2>2. CASE i # k
    BY <1>3, <1>4, <2>2 DEF TestsAt
  <2> QED BY <2>1, <2>2
<1>9. TestsAt(x, u, n + 1)
  BY <1>4, <1>6, <1>7, <1>8 DEF TestsAt
<1> QED BY <1>9 DEF u

LEMMA TestsKept ==
  ASSUME NEW x, NEW n, NEW t, NEW u, TestsAt(x, t, n), DOMAIN u = DOMAIN t,
         \A j \in 1 .. n : First(ByUsr(x, x.tests[j].usr)) \in DOMAIN t,
         \A i \in DOMAIN t : u[i].tested = t[i].tested /\ u[i].faultTest = t[i].faultTest
  PROVE  TestsAt(x, u, n)
BY DEF TestsAt

ContractsAt(x, t, n) ==
  /\ n <= Len(x.contracts)
  /\ \A j \in 1 .. n : /\ ~x.contracts[j].bad /\ ByUsr(x, x.contracts[j].usr) # {}
                       /\ t[First(ByUsr(x, x.contracts[j].usr))].contract
  /\ \A j, k \in 1 .. n : x.contracts[j].usr = x.contracts[k].usr => j = k
  /\ \A i \in DOMAIN t :
       IF t[i].contract THEN \E j \in 1 .. n : /\ First(ByUsr(x, x.contracts[j].usr)) = i
                                               /\ t[i].needsArguments = x.contracts[j].arguments
                                               /\ t[i].needsResult = x.contracts[j].result
       ELSE ~t[i].needsArguments /\ ~t[i].needsResult

LEMMA ContractRead ==
  ASSUME NEW x \in Inputs, NEW t \in Seq(ApiRecord), NEW n \in Nat, n < Len(x.contracts),
         ApisAt(x, t, Len(x.apis)), ContractsAt(x, t, n), ~x.contracts[n + 1].bad,
         NEW k, k = First(ByUsr(x, x.contracts[n + 1].usr)),
         ByUsr(x, x.contracts[n + 1].usr) # {}, ~t[k].contract
  PROVE  ContractsAt(x, [t EXCEPT ![k] = [@ EXCEPT !.contract = TRUE,
                                            !.needsArguments = x.contracts[n + 1].arguments,
                                            !.needsResult = x.contracts[n + 1].result]], n + 1)
<1> DEFINE r == x.contracts[n + 1]
           u == [t EXCEPT ![k] = [@ EXCEPT !.contract = TRUE, !.needsArguments = r.arguments,
                                           !.needsResult = r.result]]
<1>1. /\ DOMAIN t = 1 .. Len(x.apis) /\ Len(x.apis) \in Nat /\ Len(x.contracts) \in Nat
      /\ DOMAIN x.apis = 1 .. Len(x.apis)
  BY ApiRows, ContractRows DEF ApisAt
<1>2. k \in DOMAIN t
  BY <1>1, Owners
<1>3. /\ DOMAIN u = DOMAIN t /\ u[k].contract = TRUE
      /\ u[k].needsArguments = r.arguments /\ u[k].needsResult = r.result
      /\ \A i \in DOMAIN t : i # k => u[i] = t[i]
  <2>1. /\ t[k] \in ApiRecord
        /\ u[k] = [t[k] EXCEPT !.contract = TRUE, !.needsArguments = r.arguments,
                               !.needsResult = r.result]
    BY <1>2
  <2> HIDE DEF u, r
  <2>2. u[k].contract = TRUE /\ u[k].needsArguments = r.arguments /\ u[k].needsResult = r.result
    BY <2>1 DEF ApiRecord
  <2> QED BY <1>2, <2>2 DEF u
<1>4. n + 1 <= Len(x.contracts) /\ 1 .. n + 1 = (1 .. n) \cup {n + 1}
  BY <1>1
<1>5. \A j \in 1 .. n : First(ByUsr(x, x.contracts[j].usr)) \in DOMAIN t
  BY <1>1, Owners DEF ContractsAt
<1> HIDE DEF u
<1>6. \A j \in 1 .. n + 1 : /\ ~x.contracts[j].bad /\ ByUsr(x, x.contracts[j].usr) # {}
                            /\ u[First(ByUsr(x, x.contracts[j].usr))].contract
  BY <1>3, <1>4, <1>5 DEF ContractsAt
<1>7. \A i, j \in 1 .. n + 1 : x.contracts[i].usr = x.contracts[j].usr => i = j
  <2>1. \A j \in 1 .. n : x.contracts[j].usr # r.usr
    BY DEF ContractsAt
  <2> QED BY <1>4, <2>1 DEF ContractsAt
<1>8. ASSUME NEW i \in DOMAIN u
      PROVE  IF u[i].contract
             THEN \E j \in 1 .. n + 1 : /\ First(ByUsr(x, x.contracts[j].usr)) = i
                                        /\ u[i].needsArguments = x.contracts[j].arguments
                                        /\ u[i].needsResult = x.contracts[j].result
             ELSE ~u[i].needsArguments /\ ~u[i].needsResult
  <2>1. CASE i = k
    BY <1>3, <1>4, <2>1
  <2>2. CASE i # k
    BY <1>3, <1>4, <2>2 DEF ContractsAt
  <2> QED BY <2>1, <2>2
<1>9. ContractsAt(x, u, n + 1)
  BY <1>4, <1>6, <1>7, <1>8 DEF ContractsAt
<1> QED BY <1>9 DEF u

LEMMA ContractsKept ==
  ASSUME NEW x, NEW n, NEW t, NEW u, ContractsAt(x, t, n), DOMAIN u = DOMAIN t,
         \A j \in 1 .. n : First(ByUsr(x, x.contracts[j].usr)) \in DOMAIN t,
         \A i \in DOMAIN t : /\ u[i].contract = t[i].contract
                             /\ u[i].needsArguments = t[i].needsArguments
                             /\ u[i].needsResult = t[i].needsResult
  PROVE  ContractsAt(x, u, n)
BY DEF ContractsAt

-----------------------------------------------------------------------------
(* The audit: the last of an API's rows decides whether it is traced.        *)

TraceRowsOf(x, i, n) ==
  {j \in 1 .. n : /\ x.traces[j].ours /\ ByUsr(x, x.traces[j].usr) # {}
                  /\ First(ByUsr(x, x.traces[j].usr)) = i}

TracesAt(x, t, n) ==
  /\ n <= Len(x.traces)
  /\ \A j \in 1 .. n : ~x.traces[j].bad /\ (x.traces[j].ours => ByUsr(x, x.traces[j].usr) # {})
  /\ \A i \in DOMAIN t :
       /\ t[i].instrumented <=> TraceRowsOf(x, i, n) # {}
       /\ IF t[i].traced THEN \E j \in TraceRowsOf(x, i, n) : x.traces[j].env
          ELSE TraceRowsOf(x, i, n) = {} \/ \E j \in TraceRowsOf(x, i, n) : ~x.traces[j].env

LEMMA TraceRead ==
  ASSUME NEW x \in Inputs, NEW t \in Seq(ApiRecord), NEW n \in Nat, n < Len(x.traces),
         TracesAt(x, t, n), ~x.traces[n + 1].bad, NEW u,
         NEW k, k = First(ByUsr(x, x.traces[n + 1].usr)),
         x.traces[n + 1].ours => ByUsr(x, x.traces[n + 1].usr) # {} /\ k \in DOMAIN t,
         u = (IF ~x.traces[n + 1].ours THEN t
              ELSE [t EXCEPT ![k] = [@ EXCEPT !.instrumented = TRUE,
                                              !.traced = x.traces[n + 1].env]])
  PROVE  TracesAt(x, u, n + 1)
<1> DEFINE r == x.traces[n + 1]
<1>1. Len(x.traces) \in Nat /\ r.ours \in BOOLEAN /\ r.env \in BOOLEAN
  <2>1. n + 1 \in DOMAIN x.traces
    BY TraceRows
  <2> QED BY <2>1, TraceRows
<1>2. n + 1 <= Len(x.traces) /\ 1 .. n + 1 = (1 .. n) \cup {n + 1}
  BY <1>1
<1>3. DOMAIN u = DOMAIN t
  OBVIOUS
<1>4. \A j \in 1 .. n + 1 :
        ~x.traces[j].bad /\ (x.traces[j].ours => ByUsr(x, x.traces[j].usr) # {})
  BY <1>2 DEF TracesAt
<1>5. ASSUME NEW i \in DOMAIN t
      PROVE  /\ u[i].instrumented <=> TraceRowsOf(x, i, n + 1) # {}
             /\ IF u[i].traced THEN \E j \in TraceRowsOf(x, i, n + 1) : x.traces[j].env
                ELSE \/ TraceRowsOf(x, i, n + 1) = {}
                     \/ \E j \in TraceRowsOf(x, i, n + 1) : ~x.traces[j].env
  <2>1. CASE r.ours /\ i = k
    <3>1. u[i].instrumented = TRUE /\ u[i].traced = r.env
      <4>1. /\ t[k] \in ApiRecord
            /\ u[i] = [t[k] EXCEPT !.instrumented = TRUE, !.traced = r.env]
        BY <2>1
      <4> QED BY <4>1 DEF ApiRecord
    <3>2. n + 1 \in TraceRowsOf(x, i, n + 1)
      BY <1>2, <2>1 DEF TraceRowsOf
    <3> QED BY <3>1, <3>2
  <2>2. CASE ~(r.ours /\ i = k)
    <3>1. u[i] = t[i]
      BY <2>2
    <3>2. TraceRowsOf(x, i, n + 1) = TraceRowsOf(x, i, n)
      BY <1>2, <2>2 DEF TraceRowsOf
    <3> QED BY <3>1, <3>2 DEF TracesAt
  <2> QED BY <2>1, <2>2
<1> QED BY <1>2, <1>3, <1>4, <1>5 DEF TracesAt

LEMMA TracesKept ==
  ASSUME NEW x, NEW n, NEW t, NEW u, TracesAt(x, t, n), DOMAIN u = DOMAIN t,
         \A i \in DOMAIN t : u[i].instrumented = t[i].instrumented /\ u[i].traced = t[i].traced
  PROVE  TracesAt(x, u, n)
BY DEF TracesAt

-----------------------------------------------------------------------------
(* The calls: how often an API was entered and left, and whether that was    *)
(* logged, which the last record that has the field decides.                 *)

CallRowsOf(x, i, n, kind) ==
  {j \in 1 .. n : /\ ByName(x, x.calls[j].name) # {} /\ First(ByName(x, x.calls[j].name)) = i
                  /\ x.calls[j].kind = kind}

Logging(x, S, flag) ==
  IF flag THEN \E j \in S : x.calls[j].logged
  ELSE S = {} \/ \E j \in S : ~x.calls[j].logged

CallsAt(x, t, n) ==
  /\ n <= Len(x.calls)
  /\ \A j \in 1 .. n : ~x.calls[j].bad
  /\ \A i \in DOMAIN t :
       /\ t[i].enters = Cardinality(CallRowsOf(x, i, n, "enter"))
       /\ t[i].exits = Cardinality(CallRowsOf(x, i, n, "exit"))
       /\ Logging(x, CallRowsOf(x, i, n, "enter"), t[i].arguments)
       /\ Logging(x, CallRowsOf(x, i, n, "exit"), t[i].result)

LEMMA TallyIs ==
  ASSUME NEW a \in ApiRecord, NEW r
  PROVE  /\ r.kind = "enter" =>
              Tally(a, r) = [a EXCEPT !.enters = @ + 1,
                                      !.arguments = IF r.present THEN r.logged ELSE @]
         /\ r.kind = "exit" =>
              Tally(a, r) = [a EXCEPT !.exits = @ + 1,
                                      !.result = IF r.present THEN r.logged ELSE @]
         /\ r.kind \notin {"enter", "exit"} => Tally(a, r) = a
<1>1. "enter" # "exit"
  OBVIOUS
<1>2. CASE r.kind = "enter"
  BY <1>1, <1>2, Zenon DEF Tally
<1>3. CASE r.kind = "exit"
  BY <1>1, <1>3, Zenon DEF Tally
<1>4. CASE r.kind \notin {"enter", "exit"}
  BY <1>4, Zenon DEF Tally
<1> QED BY <1>1, <1>2, <1>3, <1>4

\* The columns after one more record.
LEMMA TallyColumns ==
  ASSUME NEW a \in ApiRecord, NEW r, r.logged \in BOOLEAN, r.present \in BOOLEAN
  PROVE  /\ Tally(a, r) \in ApiRecord
         /\ Tally(a, r).enters = (IF r.kind = "enter" THEN a.enters + 1 ELSE a.enters)
         /\ Tally(a, r).exits = (IF r.kind = "exit" THEN a.exits + 1 ELSE a.exits)
         /\ Tally(a, r).arguments = (IF r.kind = "enter" /\ r.present THEN r.logged
                                     ELSE a.arguments)
         /\ Tally(a, r).result = (IF r.kind = "exit" /\ r.present THEN r.logged ELSE a.result)
         /\ Tally(a, r).usr = a.usr /\ Tally(a, r).name = a.name
         /\ Tally(a, r).tested = a.tested /\ Tally(a, r).faultTest = a.faultTest
         /\ Tally(a, r).contract = a.contract
         /\ Tally(a, r).needsArguments = a.needsArguments
         /\ Tally(a, r).needsResult = a.needsResult
         /\ Tally(a, r).instrumented = a.instrumented /\ Tally(a, r).traced = a.traced
<1> DEFINE b == Tally(a, r)
<1>1. CASE r.kind = "enter"
  <2>1. b = [a EXCEPT !.enters = @ + 1, !.arguments = IF r.present THEN r.logged ELSE @]
    BY <1>1, TallyIs
  <2> HIDE DEF b
  <2>2. r.kind # "exit"
    BY <1>1
  <2>3. /\ b \in ApiRecord /\ b.enters = a.enters + 1 /\ b.exits = a.exits
        /\ b.arguments = (IF r.present THEN r.logged ELSE a.arguments) /\ b.result = a.result
        /\ b.usr = a.usr /\ b.name = a.name
        /\ b.tested = a.tested /\ b.faultTest = a.faultTest /\ b.contract = a.contract
        /\ b.needsArguments = a.needsArguments /\ b.needsResult = a.needsResult
        /\ b.instrumented = a.instrumented /\ b.traced = a.traced
    <3> DEFINE flag == IF r.present THEN r.logged ELSE a.arguments
    <3>1. flag \in BOOLEAN /\ a.enters + 1 \in Nat
      BY DEF ApiRecord
    <3>2. b = [a EXCEPT !.enters = a.enters + 1, !.arguments = flag]
      BY <2>1
    <3> HIDE DEF flag
    <3>3. /\ b.enters = a.enters + 1 /\ b.exits = a.exits
          /\ b.arguments = flag /\ b.result = a.result
      BY <3>2 DEF ApiRecord
    <3>4. /\ b.usr = a.usr /\ b.name = a.name
          /\ b.tested = a.tested /\ b.faultTest = a.faultTest /\ b.contract = a.contract
          /\ b.needsArguments = a.needsArguments /\ b.needsResult = a.needsResult
          /\ b.instrumented = a.instrumented /\ b.traced = a.traced
      BY <3>2 DEF ApiRecord
    <3>5. b \in ApiRecord
      BY <3>1, <3>2 DEF ApiRecord
    <3> QED BY <3>3, <3>4, <3>5 DEF flag
  <2> QED BY <1>1, <2>2, <2>3 DEF b
<1>2. CASE r.kind = "exit"
  <2>1. b = [a EXCEPT !.exits = @ + 1, !.result = IF r.present THEN r.logged ELSE @]
    BY <1>2, TallyIs
  <2> HIDE DEF b
  <2>2. r.kind # "enter"
    BY <1>2
  <2>3. /\ b \in ApiRecord /\ b.enters = a.enters /\ b.exits = a.exits + 1
        /\ b.result = (IF r.present THEN r.logged ELSE a.result) /\ b.arguments = a.arguments
        /\ b.usr = a.usr /\ b.name = a.name
        /\ b.tested = a.tested /\ b.faultTest = a.faultTest /\ b.contract = a.contract
        /\ b.needsArguments = a.needsArguments /\ b.needsResult = a.needsResult
        /\ b.instrumented = a.instrumented /\ b.traced = a.traced
    <3> DEFINE flag == IF r.present THEN r.logged ELSE a.result
    <3>1. flag \in BOOLEAN /\ a.exits + 1 \in Nat
      BY DEF ApiRecord
    <3>2. b = [a EXCEPT !.exits = a.exits + 1, !.result = flag]
      BY <2>1
    <3> HIDE DEF flag
    <3>3. /\ b.enters = a.enters /\ b.exits = a.exits + 1
          /\ b.arguments = a.arguments /\ b.result = flag
      BY <3>2 DEF ApiRecord
    <3>4. /\ b.usr = a.usr /\ b.name = a.name
          /\ b.tested = a.tested /\ b.faultTest = a.faultTest /\ b.contract = a.contract
          /\ b.needsArguments = a.needsArguments /\ b.needsResult = a.needsResult
          /\ b.instrumented = a.instrumented /\ b.traced = a.traced
      BY <3>2 DEF ApiRecord
    <3>5. b \in ApiRecord
      BY <3>1, <3>2 DEF ApiRecord
    <3> QED BY <3>3, <3>4, <3>5 DEF flag
  <2> QED BY <1>2, <2>2, <2>3 DEF b
<1>3. CASE r.kind \notin {"enter", "exit"}
  <2>1. b = a
    BY <1>3, TallyIs
  <2> QED BY <1>3, <2>1
<1> QED BY <1>1, <1>2, <1>3

\* One more row of an API's, or of another's.
LEMMA MoreCalls ==
  ASSUME NEW x \in Inputs, NEW n \in Nat, n < Len(x.calls), NEW i, NEW kind
  PROVE  /\ IsFiniteSet(CallRowsOf(x, i, n, kind)) /\ n + 1 \notin CallRowsOf(x, i, n, kind)
         /\ CallRowsOf(x, i, n + 1, kind) =
              (IF /\ ByName(x, x.calls[n + 1].name) # {}
                  /\ First(ByName(x, x.calls[n + 1].name)) = i /\ x.calls[n + 1].kind = kind
               THEN CallRowsOf(x, i, n, kind) \cup {n + 1} ELSE CallRowsOf(x, i, n, kind))
<1>1. 1 .. n + 1 = (1 .. n) \cup {n + 1} /\ n + 1 \notin 1 .. n
  OBVIOUS
<1>2. CallRowsOf(x, i, n, kind) \subseteq 1 .. n
  BY DEF CallRowsOf
<1>3. IsFiniteSet(1 .. n)
  BY FS_Interval
<1>4. IsFiniteSet(CallRowsOf(x, i, n, kind))
  BY <1>2, <1>3, FS_Subset
<1>5. CallRowsOf(x, i, n + 1, kind) =
        (IF /\ ByName(x, x.calls[n + 1].name) # {}
            /\ First(ByName(x, x.calls[n + 1].name)) = i /\ x.calls[n + 1].kind = kind
         THEN CallRowsOf(x, i, n, kind) \cup {n + 1} ELSE CallRowsOf(x, i, n, kind))
  BY <1>1 DEF CallRowsOf
<1> QED BY <1>1, <1>2, <1>4, <1>5

\* A record that the API and the kind own, and one they do not.
Owned(x, n, i, kind) ==
  /\ ByName(x, x.calls[n + 1].name) # {}
  /\ First(ByName(x, x.calls[n + 1].name)) = i /\ x.calls[n + 1].kind = kind

LEMMA OneMoreCall ==
  ASSUME NEW x \in Inputs, NEW n \in Nat, n < Len(x.calls), ~x.calls[n + 1].bad,
         NEW i, NEW kind, Owned(x, n, i, kind),
         NEW flag, Logging(x, CallRowsOf(x, i, n, kind), flag)
  PROVE  /\ Cardinality(CallRowsOf(x, i, n + 1, kind))
              = Cardinality(CallRowsOf(x, i, n, kind)) + 1
         /\ x.calls[n + 1].present =>
              Logging(x, CallRowsOf(x, i, n + 1, kind), x.calls[n + 1].logged)
         /\ ~x.calls[n + 1].present => Logging(x, CallRowsOf(x, i, n + 1, kind), flag)
<1> DEFINE r == x.calls[n + 1]
           E == CallRowsOf(x, i, n, kind)
<1>1. r.present \in BOOLEAN /\ r.logged \in BOOLEAN /\ (r.logged => r.present)
  <2>1. n + 1 \in DOMAIN x.calls
    BY CallRows
  <2> QED BY <2>1, CallRows
<1>2. /\ IsFiniteSet(E) /\ n + 1 \notin E
      /\ CallRowsOf(x, i, n + 1, kind) = E \cup {n + 1}
  BY MoreCalls DEF Owned
<1>3. Cardinality(E \cup {n + 1}) = Cardinality(E) + 1
  BY <1>2, FS_AddElement
<1> HIDE DEF E
<1>4. r.present => Logging(x, E \cup {n + 1}, r.logged)
  BY <1>1 DEF Logging
<1>5. ~r.present => Logging(x, E \cup {n + 1}, flag)
  BY <1>1 DEF Logging, E
<1> QED BY <1>2, <1>3, <1>4, <1>5 DEF E

LEMMA OthersCall ==
  ASSUME NEW x \in Inputs, NEW n \in Nat, n < Len(x.calls), NEW i, NEW kind,
         ~Owned(x, n, i, kind)
  PROVE  CallRowsOf(x, i, n + 1, kind) = CallRowsOf(x, i, n, kind)
<1>1. 1 .. n + 1 = (1 .. n) \cup {n + 1}
  OBVIOUS
<1> QED BY <1>1 DEF CallRowsOf, Owned

LEMMA CallRead ==
  ASSUME NEW x \in Inputs, NEW t \in Seq(ApiRecord), NEW n \in Nat, n < Len(x.calls),
         CallsAt(x, t, n), ~x.calls[n + 1].bad, NEW u,
         NEW k, k = First(ByName(x, x.calls[n + 1].name)),
         ByName(x, x.calls[n + 1].name) # {} => k \in DOMAIN t,
         u = (IF ByName(x, x.calls[n + 1].name) = {} THEN t
              ELSE [t EXCEPT ![k] = Tally(@, x.calls[n + 1])])
  PROVE  CallsAt(x, u, n + 1)
<1> DEFINE r == x.calls[n + 1]
           known == ByName(x, x.calls[n + 1].name) # {}
<1>1. Len(x.calls) \in Nat /\ r.present \in BOOLEAN /\ r.logged \in BOOLEAN
  <2>1. n + 1 \in DOMAIN x.calls
    BY CallRows
  <2> QED BY <2>1, CallRows
<1>2. n + 1 <= Len(x.calls) /\ 1 .. n + 1 = (1 .. n) \cup {n + 1}
  BY <1>1
<1>3. DOMAIN u = DOMAIN t
  OBVIOUS
<1>4. \A j \in 1 .. n + 1 : ~x.calls[j].bad
  BY <1>2 DEF CallsAt
<1>5. ASSUME NEW i \in DOMAIN t
      PROVE  /\ u[i].enters = Cardinality(CallRowsOf(x, i, n + 1, "enter"))
             /\ u[i].exits = Cardinality(CallRowsOf(x, i, n + 1, "exit"))
             /\ Logging(x, CallRowsOf(x, i, n + 1, "enter"), u[i].arguments)
             /\ Logging(x, CallRowsOf(x, i, n + 1, "exit"), u[i].result)
  <2>1. t[i] \in ApiRecord
    OBVIOUS
  <2>2. /\ known /\ k = i /\ r.kind = "enter" =>
             /\ u[i].enters = t[i].enters + 1
             /\ u[i].arguments = (IF r.present THEN r.logged ELSE t[i].arguments)
        /\ ~(known /\ k = i /\ r.kind = "enter") =>
             u[i].enters = t[i].enters /\ u[i].arguments = t[i].arguments
        /\ known /\ k = i /\ r.kind = "exit" =>
             /\ u[i].exits = t[i].exits + 1
             /\ u[i].result = (IF r.present THEN r.logged ELSE t[i].result)
        /\ ~(known /\ k = i /\ r.kind = "exit") =>
             u[i].exits = t[i].exits /\ u[i].result = t[i].result
    <3>1. CASE known /\ k = i
      <4>1. u[i] = Tally(t[i], r)
        BY <3>1
      <4> HIDE DEF r
      <4> QED BY <1>1, <2>1, <3>1, <4>1, TallyColumns
    <3>2. CASE ~(known /\ k = i)
      <4>1. u[i] = t[i]
        BY <3>2
      <4> QED BY <3>2, <4>1
    <3> QED BY <3>1, <3>2
  <2>3. /\ t[i].enters = Cardinality(CallRowsOf(x, i, n, "enter"))
        /\ t[i].exits = Cardinality(CallRowsOf(x, i, n, "exit"))
        /\ Logging(x, CallRowsOf(x, i, n, "enter"), t[i].arguments)
        /\ Logging(x, CallRowsOf(x, i, n, "exit"), t[i].result)
    BY DEF CallsAt
  <2>4. /\ u[i].enters = Cardinality(CallRowsOf(x, i, n + 1, "enter"))
        /\ Logging(x, CallRowsOf(x, i, n + 1, "enter"), u[i].arguments)
    <3> DEFINE kind == "enter"
    <3> HIDE DEF kind
    <3>1. CASE Owned(x, n, i, kind)
      <4>1. /\ u[i].enters = t[i].enters + 1
            /\ u[i].arguments = (IF r.present THEN r.logged ELSE t[i].arguments)
        BY <2>2, <3>1 DEF Owned, kind
      <4>2. t[i].enters = Cardinality(CallRowsOf(x, i, n, kind))
        BY <2>3 DEF kind
      <4>3. Logging(x, CallRowsOf(x, i, n, kind), t[i].arguments)
        BY <2>3 DEF kind
      <4>4. u[i].enters = Cardinality(CallRowsOf(x, i, n + 1, kind))
        BY <3>1, <4>1, <4>2, <4>3, OneMoreCall
      <4>5. Logging(x, CallRowsOf(x, i, n + 1, kind), u[i].arguments)
        BY <1>1, <3>1, <4>1, <4>3, OneMoreCall
      <4> QED BY <4>4, <4>5 DEF kind
    <3>2. CASE ~Owned(x, n, i, kind)
      <4>1. u[i].enters = t[i].enters /\ u[i].arguments = t[i].arguments
        BY <2>2, <3>2 DEF Owned, kind
      <4> QED BY <2>3, <3>2, <4>1, OthersCall DEF kind
    <3> QED BY <3>1, <3>2
  <2>5. /\ u[i].exits = Cardinality(CallRowsOf(x, i, n + 1, "exit"))
        /\ Logging(x, CallRowsOf(x, i, n + 1, "exit"), u[i].result)
    <3> DEFINE kind == "exit"
    <3> HIDE DEF kind
    <3>1. CASE Owned(x, n, i, kind)
      <4>1. /\ u[i].exits = t[i].exits + 1
            /\ u[i].result = (IF r.present THEN r.logged ELSE t[i].result)
        BY <2>2, <3>1 DEF Owned, kind
      <4>2. t[i].exits = Cardinality(CallRowsOf(x, i, n, kind))
        BY <2>3 DEF kind
      <4>3. Logging(x, CallRowsOf(x, i, n, kind), t[i].result)
        BY <2>3 DEF kind
      <4>4. u[i].exits = Cardinality(CallRowsOf(x, i, n + 1, kind))
        BY <3>1, <4>1, <4>2, <4>3, OneMoreCall
      <4>5. Logging(x, CallRowsOf(x, i, n + 1, kind), u[i].result)
        BY <1>1, <3>1, <4>1, <4>3, OneMoreCall
      <4> QED BY <4>4, <4>5 DEF kind
    <3>2. CASE ~Owned(x, n, i, kind)
      <4>1. u[i].exits = t[i].exits /\ u[i].result = t[i].result
        BY <2>2, <3>2 DEF Owned, kind
      <4> QED BY <2>3, <3>2, <4>1, OthersCall DEF kind
    <3> QED BY <3>1, <3>2
  <2> QED BY <2>4, <2>5
<1> QED BY <1>2, <1>3, <1>4, <1>5 DEF CallsAt

LEMMA CallsKept ==
  ASSUME NEW x, NEW n, NEW t, NEW u, CallsAt(x, t, n), DOMAIN u = DOMAIN t,
         \A i \in DOMAIN t : /\ u[i].enters = t[i].enters /\ u[i].exits = t[i].exits
                             /\ u[i].arguments = t[i].arguments /\ u[i].result = t[i].result
  PROVE  CallsAt(x, u, n)
BY DEF CallsAt

-----------------------------------------------------------------------------
(* An API that was just listed is in no other file yet.                      *)

FreshAt(x, t) == \A i \in DOMAIN t : t[i] = NewApi(x.apis[i])

LEMMA FreshTables ==
  ASSUME NEW x \in Inputs, NEW t, FreshAt(x, t)
  PROVE  TestsAt(x, t, 0) /\ ContractsAt(x, t, 0) /\ TracesAt(x, t, 0) /\ CallsAt(x, t, 0)
<1>1. /\ Len(x.tests) \in Nat /\ Len(x.contracts) \in Nat
      /\ Len(x.traces) \in Nat /\ Len(x.calls) \in Nat
  BY TestRows, ContractRows, TraceRows, CallRows
<1>2. 1 .. 0 = {}
  OBVIOUS
<1>3. ASSUME NEW i \in DOMAIN t
      PROVE  /\ ~t[i].tested /\ ~t[i].faultTest /\ ~t[i].contract /\ ~t[i].needsArguments
             /\ ~t[i].needsResult /\ ~t[i].instrumented /\ ~t[i].traced
             /\ t[i].enters = 0 /\ t[i].exits = 0 /\ ~t[i].arguments /\ ~t[i].result
  BY DEF FreshAt, NewApi
<1>4. TestsAt(x, t, 0) /\ ContractsAt(x, t, 0)
  BY <1>1, <1>2, <1>3 DEF TestsAt, ContractsAt
<1>5. \A i, kind : TraceRowsOf(x, i, 0) = {} /\ CallRowsOf(x, i, 0, kind) = {}
  BY <1>2 DEF TraceRowsOf, CallRowsOf
<1>6. TracesAt(x, t, 0)
  BY <1>1, <1>2, <1>3, <1>5 DEF TracesAt
<1>7. Cardinality({}) = 0
  BY FS_EmptySet
<1>8. ASSUME NEW i \in DOMAIN t
      PROVE  /\ t[i].enters = Cardinality(CallRowsOf(x, i, 0, "enter"))
             /\ t[i].exits = Cardinality(CallRowsOf(x, i, 0, "exit"))
             /\ Logging(x, CallRowsOf(x, i, 0, "enter"), t[i].arguments)
             /\ Logging(x, CallRowsOf(x, i, 0, "exit"), t[i].result)
  <2>1. CallRowsOf(x, i, 0, "enter") = {} /\ CallRowsOf(x, i, 0, "exit") = {}
    BY <1>5
  <2>2. \A flag : ~flag => Logging(x, {}, flag)
    BY DEF Logging
  <2> QED BY <1>3, <1>7, <2>1, <2>2, Zenon
<1>9. CallsAt(x, t, 0)
  BY <1>1, <1>2, <1>8 DEF CallsAt
<1> QED BY <1>4, <1>6, <1>9
-----------------------------------------------------------------------------
(* The expected faults: one entry for each symbol of a row that the platform *)
(* has.                                                                      *)

IsTable(f, r, missed, m) ==
  f = [k \in 0 .. m |->
         IF k = 0 THEN <<>>
         ELSE IF Available(r.symbols[k], missed) THEN Append(f[k - 1], Entry(r, k))
         ELSE f[k - 1]]

LEMMA TableExists ==
  ASSUME NEW r, NEW missed, NEW n \in Nat
  PROVE  \E f : IsTable(f, r, missed, n)
<1> SUFFICES ASSUME ~ \E f : IsTable(f, r, missed, n)
             PROVE  FALSE
  OBVIOUS
<1> DEFINE S == {m \in Nat : ~ \E f : IsTable(f, r, missed, m)}
<1>1. PICK m \in S : \A j \in S : m <= j
  <2>1. n \in S /\ S \in SUBSET Nat
    OBVIOUS
  <2> HIDE DEF S
  <2> QED BY <2>1, Least
<1>2. CASE m = 0
  <2>1. IsTable([k \in 0 .. 0 |-> <<>>], r, missed, 0)
    BY DEF IsTable
  <2> QED BY <1>2, <2>1
<1>3. CASE m # 0
  <2>1. m - 1 \in Nat /\ m - 1 \notin S
    BY <1>1, <1>3
  <2>2. PICK f : IsTable(f, r, missed, m - 1)
    BY <2>1
  <2> DEFINE last == IF Available(r.symbols[m], missed) THEN Append(f[m - 1], Entry(r, m))
                     ELSE f[m - 1]
             g == [k \in 0 .. m |-> IF k = m THEN last ELSE f[k]]
             body(h, k) == IF k = 0 THEN <<>>
                           ELSE IF Available(r.symbols[k], missed)
                           THEN Append(h[k - 1], Entry(r, k)) ELSE h[k - 1]
  <2>3. \A k \in 0 .. m - 1 : f[k] = body(f, k)
    BY <2>2 DEF IsTable
  <2>4. \A k \in 0 .. m - 1 : g[k] = f[k]
    OBVIOUS
  <2>5. ASSUME NEW k \in 0 .. m PROVE g[k] = body(g, k)
    <3>1. CASE k = m
      <4>1. g[k] = last /\ k # 0 /\ g[k - 1] = f[k - 1]
        BY <1>3, <2>4, <3>1
      <4> HIDE DEF g
      <4> QED BY <3>1, <4>1
    <3>2. CASE k # m
      <4>1. k \in 0 .. m - 1 /\ g[k] = f[k] /\ (k # 0 => g[k - 1] = f[k - 1])
        BY <2>4, <3>2
      <4>2. f[k] = body(f, k)
        BY <2>3, <4>1
      <4> HIDE DEF g
      <4> QED BY <4>1, <4>2
    <3> QED BY <3>1, <3>2
  <2>6. g = [k \in 0 .. m |-> g[k]]
    OBVIOUS
  <2> HIDE DEF g
  <2>7. g = [k \in 0 .. m |-> body(g, k)]
    BY <2>5, <2>6
  <2>8. IsTable(g, r, missed, m)
    BY <2>7 DEF IsTable
  <2> QED BY <2>8
<1> QED BY <1>2, <1>3

\* The entries m stand for the symbols among the first n, one each.
Stands(m, r, missed, n, o) ==
  /\ m \in Seq(FaultRecord) /\ o \in [DOMAIN m -> 1 .. n]
  /\ \A y, z \in DOMAIN m : o[y] = o[z] => y = z
  /\ \A y \in DOMAIN m : m[y] = Entry(r, o[y]) /\ Available(r.symbols[o[y]], missed)
  /\ \A k \in 1 .. n : Available(r.symbols[k], missed) => \E y \in DOMAIN m : o[y] = k

LEMMA StandsMore ==
  ASSUME NEW r \in FaultRow, NEW missed, NEW n \in Nat, n < Len(r.symbols),
         NEW m, NEW o, Stands(m, r, missed, n, o), Available(r.symbols[n + 1], missed)
  PROVE  \E o2 : Stands(Append(m, Entry(r, n + 1)), r, missed, n + 1, o2)
<1> DEFINE e == Entry(r, n + 1)
           w == Append(m, e)
           o2 == [y \in 1 .. Len(m) + 1 |-> IF y = Len(m) + 1 THEN n + 1 ELSE o[y]]
<1>1. Len(m) \in Nat /\ DOMAIN m = 1 .. Len(m) /\ m \in Seq(FaultRecord)
  BY DEF Stands
<1>2. e \in FaultRecord
  <2> DEFINE Symbol == [symbol : Text, conditional : BOOLEAN]
  <2>1. r.symbols \in Seq(Symbol)
    BY DEF FaultRow
  <2> HIDE DEF Symbol
  <2>2. r.symbols[n + 1] \in Symbol
    BY <2>1
  <2>3. r.symbols[n + 1].symbol \in Text
    BY <2>2 DEF Symbol
  <2> QED BY <2>3 DEF Entry, FaultRecord, FaultRow
<1> HIDE DEF e
<1>3. /\ w \in Seq(FaultRecord) /\ DOMAIN w = 1 .. Len(m) + 1
      /\ w[Len(m) + 1] = e /\ \A y \in 1 .. Len(m) : w[y] = m[y]
  BY <1>1, <1>2
<1> HIDE DEF w
<1>4. /\ o2 \in [DOMAIN w -> 1 .. n + 1] /\ o2[Len(m) + 1] = n + 1
      /\ \A y \in 1 .. Len(m) : o2[y] = o[y] /\ o[y] \in 1 .. n
  BY <1>1, <1>3 DEF Stands
<1> HIDE DEF o2
<1>5. \A y \in DOMAIN w : y = Len(m) + 1 \/ y \in 1 .. Len(m)
  BY <1>1, <1>3
<1>6. \A y, z \in DOMAIN w : o2[y] = o2[z] => y = z
  <2>1. \A y \in 1 .. Len(m) : o2[y] # n + 1
    BY <1>4
  <2>2. \A y, z \in 1 .. Len(m) : o2[y] = o2[z] => y = z
    BY <1>1, <1>4 DEF Stands
  <2> QED BY <1>4, <1>5, <2>1, <2>2
<1>7. \A y \in DOMAIN w : w[y] = Entry(r, o2[y]) /\ Available(r.symbols[o2[y]], missed)
  <2>1. \A y \in 1 .. Len(m) : w[y] = Entry(r, o2[y]) /\ Available(r.symbols[o2[y]], missed)
    BY <1>1, <1>3, <1>4 DEF Stands
  <2>2. w[Len(m) + 1] = Entry(r, n + 1)
    BY <1>3 DEF e
  <2> QED BY <1>4, <1>5, <2>1, <2>2
<1>8. \A k \in 1 .. n + 1 : Available(r.symbols[k], missed) => \E y \in DOMAIN w : o2[y] = k
  <2>1. ASSUME NEW k \in 1 .. n, Available(r.symbols[k], missed)
        PROVE  \E y \in DOMAIN w : o2[y] = k
    <3>1. PICK y \in DOMAIN m : o[y] = k
      BY <2>1 DEF Stands
    <3> QED BY <1>1, <1>3, <1>4, <3>1
  <2>2. Len(m) + 1 \in DOMAIN w
    BY <1>1, <1>3
  <2>3. \A k \in 1 .. n + 1 : k = n + 1 \/ k \in 1 .. n
    OBVIOUS
  <2> QED BY <1>4, <2>1, <2>2, <2>3
<1>9. Stands(w, r, missed, n + 1, o2)
  BY <1>3, <1>4, <1>6, <1>7, <1>8 DEF Stands
<1> QED BY <1>9 DEF w, e

LEMMA StandsStill ==
  ASSUME NEW r, NEW missed, NEW n \in Nat,
         NEW m, NEW o, Stands(m, r, missed, n, o), ~Available(r.symbols[n + 1], missed)
  PROVE  Stands(m, r, missed, n + 1, o)
<1>1. \A k \in 1 .. n + 1 : k = n + 1 \/ k \in 1 .. n
  OBVIOUS
<1>2. o \in [DOMAIN m -> 1 .. n + 1]
  BY DEF Stands
<1> QED BY <1>1, <1>2 DEF Stands

\* What the loop over the symbols of a row appends.
LEMMA ExpectedIs ==
  ASSUME NEW r \in FaultRow, NEW missed
  PROVE  \E o : Stands(Expected(r, missed), r, missed, Len(r.symbols), o)
<1> DEFINE n == Len(r.symbols)
           table == CHOOSE f : IsTable(f, r, missed, n)
           S == {k \in 0 .. n : ~ \E o : Stands(table[k], r, missed, k, o)}
<1>1. n \in Nat
  BY DEF FaultRow
<1>2. IsTable(table, r, missed, n)
  BY <1>1, TableExists
<1>3. Expected(r, missed) = table[n]
  BY DEF Expected, IsTable
<1> HIDE DEF table
<1>4. S = {}
  <2> SUFFICES ASSUME S # {} PROVE FALSE
    OBVIOUS
  <2>1. S \in SUBSET Nat
    BY <1>1
  <2>2. PICK k \in S : \A j \in S : k <= j
    <3> HIDE DEF S
    <3> QED BY <2>1, Least
  <2>3. k \in 0 .. n /\ ~ \E o : Stands(table[k], r, missed, k, o)
    BY <2>2
  <2>4. CASE k = 0
    <3>1. table[k] = <<>>
      BY <1>1, <1>2, <2>4 DEF IsTable
    <3>2. Stands(<<>>, r, missed, 0, <<>>)
      BY DEF Stands
    <3> QED BY <2>3, <2>4, <3>1, <3>2
  <2>5. CASE k # 0
    <3>1. k - 1 \in Nat /\ k - 1 < n /\ k - 1 \in 0 .. n /\ k - 1 \notin S /\ (k - 1) + 1 = k
      BY <1>1, <2>2, <2>3, <2>5
    <3>2. PICK o : Stands(table[k - 1], r, missed, k - 1, o)
      BY <3>1
    <3>3. table[k] = IF Available(r.symbols[k], missed) THEN Append(table[k - 1], Entry(r, k))
                     ELSE table[k - 1]
      BY <1>2, <2>3, <2>5 DEF IsTable
    <3> DEFINE j == k - 1
               before == table[j]
    <3>4. j \in Nat /\ j < n /\ j + 1 = k /\ Stands(before, r, missed, j, o)
      BY <3>1, <3>2
    <3> HIDE DEF j, before
    <3>5. CASE Available(r.symbols[k], missed)
      <4>1. \E o2 : Stands(Append(before, Entry(r, j + 1)), r, missed, j + 1, o2)
        BY <3>4, <3>5, StandsMore
      <4>2. table[k] = Append(before, Entry(r, j + 1))
        BY <3>3, <3>4, <3>5 DEF before, j
      <4> QED BY <2>3, <3>4, <4>1, <4>2
    <3>6. CASE ~Available(r.symbols[k], missed)
      <4>1. Stands(before, r, missed, j + 1, o)
        BY <3>4, <3>6, StandsStill
      <4>2. table[k] = before
        BY <3>3, <3>6 DEF before, j
      <4> QED BY <2>3, <3>4, <4>1, <4>2
    <3> QED BY <3>5, <3>6
  <2> QED BY <2>4, <2>5
<1>5. n \in 0 .. n /\ n \notin S
  BY <1>1, <1>4
<1> QED BY <1>3, <1>5

\* The faults of the platform in the first rows, and the table that holds them.
AvailableIn(x, s) == ~s.conditional \/ s.symbol \in x.macros

Due(x, n) ==
  {e \in (1 .. n) \X Nat : /\ e[2] \in DOMAIN x.faults[e[1]].symbols
                           /\ AvailableIn(x, x.faults[e[1]].symbols[e[2]])}

Key(x, e) == <<x.faults[e[1]].wrapper, x.faults[e[1]].symbols[e[2]].symbol>>

Indexed(x, f, n, o) ==
  /\ o \in [DOMAIN f -> Due(x, n)]
  /\ \A y, z \in DOMAIN f : o[y] = o[z] => y = z
  /\ \A y \in DOMAIN f : <<f[y].wrapper, f[y].symbol>> = Key(x, o[y])
  /\ \A e \in Due(x, n) : \E y \in DOMAIN f : o[y] = e

FaultsAt(x, f, n) ==
  /\ n <= Len(x.faults) /\ \A j \in 1 .. n : ~x.faults[j].bad
  /\ \E o : Indexed(x, f, n, o)

LEMMA FaultRead ==
  ASSUME NEW x \in Inputs, x = input, NEW f \in Seq(FaultRecord), NEW n \in Nat,
         n < Len(x.faults), FaultsAt(x, f, n), ~x.faults[n + 1].bad,
         NEW m, m = Expected(x.faults[n + 1], {})
  PROVE  FaultsAt(x, f \o m, n + 1)
<1> DEFINE r == x.faults[n + 1]
           w == f \o m
<1>1. Len(x.faults) \in Nat /\ r \in FaultRow
  <2>1. n + 1 \in DOMAIN x.faults
    BY FaultRows
  <2> QED BY <2>1, FaultRows
<1>2. PICK o : Indexed(x, f, n, o)
  BY DEF FaultsAt
<1>3. PICK p : Stands(m, r, {}, Len(r.symbols), p)
  BY <1>1, ExpectedIs
<1>4. \A s : Available(s, {}) <=> AvailableIn(x, s)
  BY DEF Available, AvailableIn
<1>5. Len(r.symbols) \in Nat /\ DOMAIN r.symbols = 1 .. Len(r.symbols)
  BY <1>1 DEF FaultRow
<1>6. /\ Len(f) \in Nat /\ DOMAIN f = 1 .. Len(f) /\ Len(m) \in Nat /\ DOMAIN m = 1 .. Len(m)
      /\ m \in Seq(FaultRecord)
  BY <1>3 DEF Stands
<1>7. /\ DOMAIN w = 1 .. Len(f) + Len(m)
      /\ \A y \in 1 .. Len(f) : w[y] = f[y]
      /\ \A y \in 1 .. Len(m) : w[Len(f) + y] = m[y]
  BY <1>6
<1> DEFINE q == [y \in 1 .. Len(f) + Len(m) |->
                   IF y <= Len(f) THEN o[y] ELSE <<n + 1, p[y - Len(f)]>>]
<1>8. /\ \A y \in 1 .. Len(f) : q[y] = o[y]
      /\ \A y \in 1 .. Len(m) : q[Len(f) + y] = <<n + 1, p[y]>>
      /\ DOMAIN q = 1 .. Len(f) + Len(m) /\ q = [y \in 1 .. Len(f) + Len(m) |-> q[y]]
  BY <1>6
<1>9. \A y \in DOMAIN w : y \in 1 .. Len(f) \/ \E z \in 1 .. Len(m) : y = Len(f) + z
  <2>1. ASSUME NEW y \in 1 .. Len(f) + Len(m), y \notin 1 .. Len(f)
        PROVE  y - Len(f) \in 1 .. Len(m) /\ y = Len(f) + (y - Len(f))
    BY <1>6, <2>1
  <2> QED BY <1>7, <2>1
<1> HIDE DEF w, q
<1>10. /\ \A y \in 1 .. Len(f) : o[y] \in Due(x, n)
       /\ \A y \in 1 .. Len(m) : p[y] \in 1 .. Len(r.symbols)
  BY <1>2, <1>3, <1>6 DEF Indexed, Stands
<1>11. \A e : e \in Due(x, n + 1) <=>
                \/ e \in Due(x, n)
                \/ \E k \in 1 .. Len(r.symbols) : e = <<n + 1, k>> /\ AvailableIn(x, r.symbols[k])
  <2>1. 1 .. n + 1 = (1 .. n) \cup {n + 1} /\ n + 1 \notin 1 .. n
    OBVIOUS
  <2>2. ASSUME NEW e \in Due(x, n + 1), e \notin Due(x, n)
        PROVE  \E k \in 1 .. Len(r.symbols) : e = <<n + 1, k>> /\ AvailableIn(x, r.symbols[k])
    <3>1. /\ e \in (1 .. n + 1) \X Nat /\ e[2] \in DOMAIN x.faults[e[1]].symbols
          /\ AvailableIn(x, x.faults[e[1]].symbols[e[2]])
      BY DEF Due
    <3>2. e[1] = n + 1
      BY <2>1, <2>2, <3>1 DEF Due
    <3>3. e = <<n + 1, e[2]>>
      BY <3>1, <3>2
    <3> QED BY <1>5, <3>1, <3>2, <3>3
  <2>3. ASSUME NEW e \in Due(x, n) PROVE e \in Due(x, n + 1)
    BY <2>1 DEF Due
  <2>4. ASSUME NEW k \in 1 .. Len(r.symbols), AvailableIn(x, r.symbols[k])
        PROVE  <<n + 1, k>> \in Due(x, n + 1)
    <3>1. k \in DOMAIN x.faults[n + 1].symbols /\ k \in Nat
      BY <1>5
    <3> QED BY <2>1, <2>4, <3>1 DEF Due
  <2> QED BY <2>2, <2>3, <2>4
<1>12. ASSUME NEW y \in 1 .. Len(m)
       PROVE  q[Len(f) + y] \in Due(x, n + 1) /\ q[Len(f) + y] \notin Due(x, n)
  <2>1. AvailableIn(x, r.symbols[p[y]])
    BY <1>3, <1>4, <1>6 DEF Stands
  <2>2. <<n + 1, p[y]>> \notin Due(x, n)
    BY DEF Due
  <2>3. p[y] \in 1 .. Len(r.symbols)
    BY <1>10
  <2>4. <<n + 1, p[y]>> \in Due(x, n + 1)
    BY <1>11, <2>1, <2>3, Zenon
  <2>5. q[Len(f) + y] = <<n + 1, p[y]>>
    BY <1>8
  <2> QED BY <2>2, <2>4, <2>5, Zenon
<1>13. q \in [DOMAIN w -> Due(x, n + 1)]
  <2>1. ASSUME NEW y \in DOMAIN w PROVE q[y] \in Due(x, n + 1)
    <3>1. CASE y \in 1 .. Len(f)
      <4>1. q[y] = o[y] /\ o[y] \in Due(x, n)
        BY <1>8, <1>10, <3>1
      <4> QED BY <1>11, <4>1, Zenon
    <3>2. CASE y \notin 1 .. Len(f)
      BY <1>9, <1>12, <3>2, Zenon
    <3> QED BY <3>1, <3>2
  <2> QED BY <1>7, <1>8, <2>1
<1>14. ASSUME NEW y \in DOMAIN w, NEW z \in DOMAIN w, q[y] = q[z]
       PROVE  y = z
  <2>1. CASE y \in 1 .. Len(f) /\ z \in 1 .. Len(f)
    BY <1>2, <1>6, <1>8, <1>14, <2>1 DEF Indexed
  <2>2. CASE y \in 1 .. Len(f) /\ z \notin 1 .. Len(f)
    <3>1. q[y] \in Due(x, n)
      BY <1>8, <1>10, <2>2
    <3>2. q[z] \notin Due(x, n)
      BY <1>9, <1>12, <2>2, Zenon
    <3> QED BY <1>14, <3>1, <3>2, Zenon
  <2>3. CASE y \notin 1 .. Len(f) /\ z \in 1 .. Len(f)
    <3>1. q[z] \in Due(x, n)
      BY <1>8, <1>10, <2>3
    <3>2. q[y] \notin Due(x, n)
      BY <1>9, <1>12, <2>3, Zenon
    <3> QED BY <1>14, <3>1, <3>2, Zenon
  <2>4. CASE y \notin 1 .. Len(f) /\ z \notin 1 .. Len(f)
    <3>1. PICK a \in 1 .. Len(m) : y = Len(f) + a
      BY <1>9, <2>4
    <3>2. PICK b \in 1 .. Len(m) : z = Len(f) + b
      BY <1>9, <2>4
    <3>3. <<n + 1, p[a]>> = <<n + 1, p[b]>>
      BY <1>8, <1>14, <3>1, <3>2
    <3>4. p[a] = p[b]
      BY <3>3
    <3>5. a = b
      BY <1>3, <1>6, <3>4 DEF Stands
    <3> QED BY <3>1, <3>2, <3>5
  <2> QED BY <2>1, <2>2, <2>3, <2>4
<1>15. ASSUME NEW y \in DOMAIN w
       PROVE  <<w[y].wrapper, w[y].symbol>> = Key(x, q[y])
  <2>1. CASE y \in 1 .. Len(f)
    BY <1>2, <1>6, <1>7, <1>8, <2>1 DEF Indexed
  <2>2. CASE y \notin 1 .. Len(f)
    <3>1. PICK a \in 1 .. Len(m) : y = Len(f) + a
      BY <1>9, <2>2
    <3>2. w[y] = Entry(r, p[a]) /\ q[y] = <<n + 1, p[a]>>
      <4>1. m[a] = Entry(r, p[a])
        BY <1>3, <1>6, <3>1 DEF Stands
      <4> QED BY <1>7, <1>8, <3>1, <4>1, Zenon
    <3>3. w[y].wrapper = r.wrapper /\ w[y].symbol = r.symbols[p[a]].symbol
      BY <3>2 DEF Entry
    <3>4. q[y][1] = n + 1 /\ q[y][2] = p[a]
      BY <3>2
    <3> QED BY <3>3, <3>4 DEF Key
  <2> QED BY <2>1, <2>2
<1>16. ASSUME NEW e \in Due(x, n + 1)
       PROVE  \E y \in DOMAIN w : q[y] = e
  <2>1. CASE e \in Due(x, n)
    <3>1. PICK y \in DOMAIN f : o[y] = e
      BY <1>2, <2>1 DEF Indexed
    <3>2. y \in 1 .. Len(f) /\ y \in DOMAIN w
      BY <1>6, <1>7, <3>1
    <3> QED BY <1>8, <3>1, <3>2, Zenon
  <2>2. CASE e \notin Due(x, n)
    <3>1. PICK k \in 1 .. Len(r.symbols) : e = <<n + 1, k>> /\ AvailableIn(x, r.symbols[k])
      BY <1>11, <2>2
    <3>2. PICK y \in DOMAIN m : p[y] = k
      BY <1>3, <1>4, <3>1 DEF Stands
    <3>3. Len(f) + y \in DOMAIN w
      BY <1>6, <1>7, <3>2
    <3> QED BY <1>6, <1>8, <3>1, <3>2, <3>3
  <2> QED BY <2>1, <2>2
<1>17. Indexed(x, w, n + 1, q)
  BY <1>13, <1>14, <1>15, <1>16 DEF Indexed
<1>18. n + 1 <= Len(x.faults) /\ \A j \in 1 .. n + 1 : ~x.faults[j].bad
  BY <1>1 DEF FaultsAt
<1> QED BY <1>17, <1>18 DEF FaultsAt, w

LEMMA FaultsKept ==
  ASSUME NEW x, NEW f, NEW g, NEW n, FaultsAt(x, f, n), DOMAIN f = DOMAIN g,
         \A y \in DOMAIN f : f[y].wrapper = g[y].wrapper /\ f[y].symbol = g[y].symbol
  PROVE  FaultsAt(x, g, n)
<1>1. PICK o : Indexed(x, f, n, o)
  BY DEF FaultsAt
<1>2. Indexed(x, g, n, o)
  BY <1>1 DEF Indexed
<1> QED BY <1>2 DEF FaultsAt

LEMMA NoFaults ==
  ASSUME NEW x \in Inputs
  PROVE  FaultsAt(x, <<>>, 0)
<1>1. Due(x, 0) = {}
  BY DEF Due
<1>2. Indexed(x, <<>>, 0, <<>>)
  BY <1>1 DEF Indexed
<1>3. Len(x.faults) \in Nat
  BY FaultRows
<1> QED BY <1>2, <1>3 DEF FaultsAt

-----------------------------------------------------------------------------
(* The outcomes: each is that of the first entry for its fault.              *)

Match(f, r) == {i \in DOMAIN f : f[i].wrapper = r.wrapper /\ f[i].symbol = r.symbol}

OutcomesAt(x, f, n) ==
  /\ n <= Len(x.outcomes) /\ \A j \in 1 .. n : ~x.outcomes[j].bad
  /\ \A y \in DOMAIN f :
       f[y].observed <=> \E j \in 1 .. n : /\ Match(f, x.outcomes[j]) # {}
                                           /\ First(Match(f, x.outcomes[j])) = y

SameFault(r, s) == r.wrapper = s.wrapper /\ r.symbol = s.symbol

\* Each outcome so far passed, was expected and was the only one of its fault.
Clean(x, f, n) ==
  \A j \in 1 .. n : /\ x.outcomes[j].pass /\ Match(f, x.outcomes[j]) # {}
                    /\ \A k \in 1 .. n : SameFault(x.outcomes[j], x.outcomes[k]) => j = k

LEMMA MatchIs ==
  ASSUME NEW f \in Seq(FaultRecord), NEW r, Match(f, r) # {}
  PROVE  First(Match(f, r)) \in Match(f, r)
<1>1. Match(f, r) \in SUBSET Nat
  BY DEF Match
<1> QED BY <1>1, FirstIs, Zenon

LEMMA SameMatch ==
  ASSUME NEW f, NEW r, NEW s, SameFault(r, s)
  PROVE  Match(f, r) = Match(f, s)
BY DEF Match, SameFault

\* The first entry has no outcome yet: it is observed.
LEMMA AwaitedOutcome ==
  ASSUME NEW x \in Inputs, NEW f \in Seq(FaultRecord), NEW n \in Nat, n < Len(x.outcomes),
         OutcomesAt(x, f, n), ~x.outcomes[n + 1].bad,
         NEW y, y = First(Match(f, x.outcomes[n + 1])), Match(f, x.outcomes[n + 1]) # {},
         ~f[y].observed,
         NEW g, g = [f EXCEPT ![y].observed = TRUE]
  PROVE  /\ OutcomesAt(x, g, n + 1) /\ y \in DOMAIN f /\ g \in Seq(FaultRecord)
         /\ Len(g) = Len(f) /\ DOMAIN g = DOMAIN f /\ g[y].observed
         /\ \A z \in DOMAIN f : z # y => g[z] = f[z]
         /\ \A z \in DOMAIN f : g[z].wrapper = f[z].wrapper /\ g[z].symbol = f[z].symbol
<1> DEFINE r == x.outcomes[n + 1]
<1>1. Len(x.outcomes) \in Nat /\ 1 .. n + 1 = (1 .. n) \cup {n + 1} /\ n + 1 \notin 1 .. n
  BY OutcomeRows
<1>2. y \in Match(f, r) /\ y \in DOMAIN f
  <2>1. y \in Match(f, r)
    BY MatchIs
  <2> QED BY <2>1 DEF Match
<1>3. f[y] \in FaultRecord /\ g[y] = [f[y] EXCEPT !.observed = TRUE]
  BY <1>2
<1>4. /\ g[y] \in FaultRecord /\ g[y].observed
      /\ g[y].wrapper = f[y].wrapper /\ g[y].symbol = f[y].symbol
  <2> DEFINE e == f[y]
             h == g[y]
  <2>1. e \in FaultRecord /\ h = [e EXCEPT !.observed = TRUE]
    BY <1>3
  <2> HIDE DEF e, h
  <2>2. h.observed = TRUE
    BY <2>1 DEF FaultRecord
  <2>3. h.wrapper = e.wrapper /\ h.symbol = e.symbol
    BY <2>1 DEF FaultRecord
  <2>4. h \in FaultRecord
    BY <2>1 DEF FaultRecord
  <2> QED BY <2>2, <2>3, <2>4 DEF e, h
<1>5. /\ DOMAIN g = DOMAIN f /\ Len(g) = Len(f)
      /\ \A z \in DOMAIN f : z # y => g[z] = f[z]
  BY <1>2
<1>6. g \in Seq(FaultRecord)
  <2>1. Len(f) \in Nat /\ DOMAIN f = 1 .. Len(f) /\ \A z \in DOMAIN f : f[z] \in FaultRecord
    OBVIOUS
  <2>2. \A z \in 1 .. Len(f) : g[z] \in FaultRecord
    BY <1>4, <1>5, <2>1
  <2>3. g \in [1 .. Len(f) -> FaultRecord]
    BY <2>1, <2>2
  <2> QED BY <2>1, <2>3, SeqDef
<1>7. \A z \in DOMAIN f : g[z].wrapper = f[z].wrapper /\ g[z].symbol = f[z].symbol
  BY <1>4, <1>5
<1>8. \A s : Match(g, s) = Match(f, s)
  BY <1>5, <1>7 DEF Match
<1>9. OutcomesAt(x, g, n + 1)
  <2>1. \A j \in 1 .. n + 1 : ~x.outcomes[j].bad
    BY <1>1 DEF OutcomesAt
  <2>2. ASSUME NEW z \in DOMAIN g
        PROVE  g[z].observed <=> \E j \in 1 .. n + 1 : /\ Match(g, x.outcomes[j]) # {}
                                                       /\ First(Match(g, x.outcomes[j])) = z
    <3>1. CASE z = y
      BY <1>1, <1>4, <1>8, <3>1
    <3>2. CASE z # y
      <4>1. g[z] = f[z]
        BY <1>5, <3>2
      <4> QED BY <1>1, <1>5, <1>8, <3>2, <4>1 DEF OutcomesAt
    <3> QED BY <3>1, <3>2
  <2>3. n + 1 <= Len(x.outcomes)
    BY <1>1
  <2> QED BY <2>1, <2>2, <2>3, Zenon DEF OutcomesAt
<1> QED BY <1>2, <1>4, <1>5, <1>6, <1>7, <1>9

LEMMA AwaitedClean ==
  ASSUME NEW x \in Inputs, NEW f \in Seq(FaultRecord), NEW n \in Nat, n < Len(x.outcomes),
         OutcomesAt(x, f, n), Match(f, x.outcomes[n + 1]) # {},
         ~f[First(Match(f, x.outcomes[n + 1]))].observed
  PROVE  Clean(x, f, n + 1) <=> Clean(x, f, n) /\ x.outcomes[n + 1].pass
<1> DEFINE r == x.outcomes[n + 1]
<1>1. 1 .. n + 1 = (1 .. n) \cup {n + 1} /\ n + 1 \notin 1 .. n
  OBVIOUS
<1>2. First(Match(f, r)) \in DOMAIN f
  <2>1. First(Match(f, r)) \in Match(f, r)
    BY MatchIs
  <2> QED BY <2>1 DEF Match
<1>3. ASSUME NEW j \in 1 .. n, SameFault(r, x.outcomes[j]) PROVE FALSE
  <2>1. Match(f, x.outcomes[j]) = Match(f, r)
    BY <1>3, SameMatch
  <2> QED BY <1>2, <2>1 DEF OutcomesAt
<1>4. \A j \in 1 .. n : ~SameFault(r, x.outcomes[j]) /\ ~SameFault(x.outcomes[j], r)
  BY <1>3 DEF SameFault
<1>5. ASSUME Clean(x, f, n + 1) PROVE Clean(x, f, n) /\ r.pass
  BY <1>1, <1>5 DEF Clean
<1>6. ASSUME Clean(x, f, n), r.pass PROVE Clean(x, f, n + 1)
  BY <1>1, <1>4, <1>6 DEF Clean
<1> QED BY <1>5, <1>6

LEMMA CleanKept ==
  ASSUME NEW x, NEW f, NEW g, NEW n, DOMAIN g = DOMAIN f,
         \A z \in DOMAIN f : g[z].wrapper = f[z].wrapper /\ g[z].symbol = f[z].symbol
  PROVE  Clean(x, g, n) <=> Clean(x, f, n)
<1>1. \A s : Match(g, s) = Match(f, s)
  BY DEF Match
<1> QED BY <1>1 DEF Clean

\* No entry, or one that was observed: the table stays, and is not clean.
LEMMA UnawaitedOutcome ==
  ASSUME NEW x \in Inputs, NEW f \in Seq(FaultRecord), NEW n \in Nat, n < Len(x.outcomes),
         OutcomesAt(x, f, n), ~x.outcomes[n + 1].bad,
         NEW y, y = First(Match(f, x.outcomes[n + 1])),
         Match(f, x.outcomes[n + 1]) = {} \/ f[y].observed
  PROVE  OutcomesAt(x, f, n + 1) /\ ~Clean(x, f, n + 1)
<1> DEFINE r == x.outcomes[n + 1]
<1>1. Len(x.outcomes) \in Nat /\ 1 .. n + 1 = (1 .. n) \cup {n + 1} /\ n + 1 \notin 1 .. n
  BY OutcomeRows
<1>2. \A j \in 1 .. n + 1 : ~x.outcomes[j].bad
  BY <1>1 DEF OutcomesAt
<1>3. CASE Match(f, r) = {}
  <2>1. ASSUME NEW z \in DOMAIN f
        PROVE  f[z].observed <=> \E j \in 1 .. n + 1 : /\ Match(f, x.outcomes[j]) # {}
                                                       /\ First(Match(f, x.outcomes[j])) = z
    <3>1. f[z].observed <=> \E j \in 1 .. n : /\ Match(f, x.outcomes[j]) # {}
                                              /\ First(Match(f, x.outcomes[j])) = z
      BY DEF OutcomesAt
    <3> QED BY <1>1, <1>3, <3>1
  <2>2. n + 1 <= Len(x.outcomes)
    BY <1>1
  <2>3. OutcomesAt(x, f, n + 1)
    BY <1>2, <2>1, <2>2, Zenon DEF OutcomesAt
  <2> QED BY <1>1, <1>3, <2>3 DEF Clean
<1>4. CASE Match(f, r) # {}
  <2>1. y \in Match(f, r)
    BY <1>4, MatchIs
  <2>2. y \in DOMAIN f /\ f[y].wrapper = r.wrapper /\ f[y].symbol = r.symbol
    BY <2>1 DEF Match
  <2>3. PICK j \in 1 .. n : Match(f, x.outcomes[j]) # {} /\ First(Match(f, x.outcomes[j])) = y
    BY <1>4, <2>2 DEF OutcomesAt
  <2>4. y \in Match(f, x.outcomes[j])
    BY <2>3, MatchIs
  <2>5. SameFault(x.outcomes[j], r)
    BY <2>2, <2>4 DEF Match, SameFault
  <2>6. ~Clean(x, f, n + 1)
    BY <1>1, <2>5 DEF Clean
  <2>7. ASSUME NEW z \in DOMAIN f
        PROVE  f[z].observed <=> \E i \in 1 .. n + 1 : /\ Match(f, x.outcomes[i]) # {}
                                                       /\ First(Match(f, x.outcomes[i])) = z
    <3>1. f[z].observed <=> \E i \in 1 .. n : /\ Match(f, x.outcomes[i]) # {}
                                              /\ First(Match(f, x.outcomes[i])) = z
      BY DEF OutcomesAt
    <3>2. j \in 1 .. n + 1 /\ \A i \in 1 .. n + 1 : i \in 1 .. n \/ i = n + 1
      BY <1>1
    <3> QED BY <1>1, <2>3, <3>1, <3>2
  <2>8. n + 1 <= Len(x.outcomes)
    BY <1>1
  <2>9. OutcomesAt(x, f, n + 1)
    BY <1>2, <2>7, <2>8, Zenon DEF OutcomesAt
  <2> QED BY <2>6, <2>9
<1> QED BY <1>3, <1>4

-----------------------------------------------------------------------------
(* The types, in every state.                                                *)

Typed ==
  /\ input \in Inputs
  /\ pc \in {"parse", "apis", "tests", "contracts", "faults", "traces", "calls", "outcomes",
             "validate", "receipt", "report error", "done"}
  /\ opened \in BOOLEAN /\ err \in BOOLEAN
  /\ row \in Nat \ {0}
  /\ apis \in Seq(ApiRecord) /\ Len(apis) <= MaxApis
  /\ faults \in Seq(FaultRecord) /\ Len(faults) <= MaxFaults
  /\ observed = Cardinality({y \in DOMAIN faults : faults[y].observed})
  /\ findings \in Nat
  /\ status \in {0, 1, 2, Running}

LEMMA FilesAre ==
  /\ Reading <=> pc \in {"apis", "tests", "contracts", "faults", "traces", "calls", "outcomes"}
  /\ After("apis") = "tests" /\ After("tests") = "contracts"
  /\ After("contracts") = "faults" /\ After("faults") = "traces"
  /\ After("traces") = "calls" /\ After("calls") = "outcomes"
  /\ After("outcomes") = "validate"
<1>1. Reading <=> pc \in {"apis", "tests", "contracts", "faults", "traces", "calls", "outcomes"}
  BY DEF Reading, Files
<1>2. After("apis") = "tests" /\ After("tests") = "contracts" /\ After("contracts") = "faults"
  BY DEF After, Files
<1>3. After("faults") = "traces" /\ After("traces") = "calls"
  BY DEF After, Files
<1>4. After("calls") = "outcomes" /\ After("outcomes") = "validate"
  BY DEF After, Files
<1> QED BY <1>1, <1>2, <1>3, <1>4

LEMMA Updated ==
  ASSUME NEW R, NEW t \in Seq(R), NEW k \in DOMAIN t, NEW v \in R
  PROVE  [t EXCEPT ![k] = v] \in Seq(R) /\ Len([t EXCEPT ![k] = v]) = Len(t)
<1>1. [t EXCEPT ![k] = v] \in [1 .. Len(t) -> R] /\ Len(t) \in Nat
  OBVIOUS
<1> QED BY <1>1, SeqDef

LEMMA OwnerInTable ==
  ASSUME apis \in Seq(ApiRecord), NEW u
  PROVE  /\ HasUsr(u) # {} => First(HasUsr(u)) \in DOMAIN apis
         /\ HasName(u) # {} => First(HasName(u)) \in DOMAIN apis
<1>1. HasUsr(u) \in SUBSET Nat /\ HasName(u) \in SUBSET Nat
  BY DEF HasUsr, HasName
<1>2. /\ HasUsr(u) # {} => First(HasUsr(u)) \in HasUsr(u)
      /\ HasName(u) # {} => First(HasName(u)) \in HasName(u)
  BY <1>1, FirstIs, Zenon
<1> QED BY <1>2 DEF HasUsr, HasName

LEMMA ObservedFinite ==
  ASSUME NEW f \in Seq(FaultRecord)
  PROVE  /\ IsFiniteSet({y \in DOMAIN f : f[y].observed})
         /\ Cardinality({y \in DOMAIN f : f[y].observed}) \in 0 .. Len(f)
<1> DEFINE S == {y \in DOMAIN f : f[y].observed}
<1>1. S \subseteq 1 .. Len(f) /\ Len(f) \in Nat
  OBVIOUS
<1> HIDE DEF S
<1>2. IsFiniteSet(1 .. Len(f)) /\ Cardinality(1 .. Len(f)) = Len(f)
  <2> DEFINE n == Len(f)
  <2>1. n \in Nat
    BY <1>1
  <2> HIDE DEF n
  <2>2. IsFiniteSet(1 .. n) /\ Cardinality(1 .. n) = n
    BY <2>1, FS_Interval
  <2> QED BY <2>2 DEF n
<1>3. IsFiniteSet(S) /\ Cardinality(S) <= Cardinality(1 .. Len(f))
  BY <1>1, <1>2, FS_Subset
<1>4. Cardinality(S) \in Nat
  BY <1>3, FS_CardinalityType
<1> QED BY <1>1, <1>2, <1>3, <1>4 DEF S

\* The parts of the types.
LEMMA TypedParts ==
  ASSUME Typed
  PROVE  /\ input \in Inputs /\ row \in Nat \ {0} /\ row + 1 \in Nat \ {0}
         /\ apis \in Seq(ApiRecord) /\ Len(apis) \in Nat /\ DOMAIN apis = 1 .. Len(apis)
         /\ Len(apis) <= MaxApis
         /\ faults \in Seq(FaultRecord) /\ Len(faults) \in Nat
         /\ DOMAIN faults = 1 .. Len(faults) /\ Len(faults) <= MaxFaults
         /\ observed = Cardinality({y \in DOMAIN faults : faults[y].observed})
         /\ findings \in Nat /\ findings + 1 \in Nat
<1>1. /\ input \in Inputs /\ row \in Nat \ {0} /\ apis \in Seq(ApiRecord)
      /\ Len(apis) <= MaxApis /\ faults \in Seq(FaultRecord) /\ Len(faults) <= MaxFaults
      /\ observed = Cardinality({y \in DOMAIN faults : faults[y].observed})
      /\ findings \in Nat
  BY Zenon DEF Typed
<1>2. row + 1 \in Nat \ {0} /\ findings + 1 \in Nat
  BY <1>1
<1>3. /\ Len(apis) \in Nat /\ DOMAIN apis = 1 .. Len(apis)
      /\ Len(faults) \in Nat /\ DOMAIN faults = 1 .. Len(faults)
  BY <1>1
<1> QED BY <1>1, <1>2, <1>3

LEMMA TypedInit == Init => Typed
<1> SUFFICES ASSUME Init PROVE Typed
  OBVIOUS
<1>1. {y \in DOMAIN << >> : faults[y].observed} = {}
  OBVIOUS
<1>2. observed = Cardinality({y \in DOMAIN faults : faults[y].observed})
  BY FS_EmptySet DEF Init
<1>3. /\ apis \in Seq(ApiRecord) /\ Len(apis) <= MaxApis
      /\ faults \in Seq(FaultRecord) /\ Len(faults) <= MaxFaults
  BY ConstantsOK DEF Init
<1>4. /\ input \in Inputs /\ pc = "parse" /\ opened \in BOOLEAN /\ err \in BOOLEAN
      /\ status = Running
  BY DEF Init
<1>5. row = 1 /\ findings = 0
  BY DEF Init
<1>6. row \in Nat \ {0} /\ findings \in Nat
  BY ONLY <1>5
<1> QED BY <1>2, <1>3, <1>4, <1>6 DEF Typed

\* The steps that read no row.
LEMMA TypedElsewhere ==
  ASSUME Typed,
         \/ ParseArguments \/ Open \/ EndOfFile
         \/ Refuse /\ row' = row + 1
         \/ ValidateConformance \/ WriteReceipt \/ ReportError \/ UNCHANGED vars,
         Gaps \in Nat
  PROVE  Typed'
<1>1. CASE ParseArguments
  <2>1. pc' \in {"report error", "apis"}
    BY <1>1 DEF ParseArguments, Files
  <2>2. input' = input /\ opened' = opened /\ row' = row /\ apis' = apis /\ faults' = faults
        /\ observed' = observed /\ findings' = findings
    BY <1>1 DEF ParseArguments, tables
  <2>3. err' \in BOOLEAN /\ status' \in {0, 1, 2, Running}
    BY <1>1 DEF ParseArguments
  <2> QED BY <2>1, <2>2, <2>3 DEF Typed
<1>2. CASE Open
  <2>1. /\ pc' \in {pc, "report error"} /\ err' \in {err, TRUE} /\ opened' \in {opened, TRUE}
        /\ row' = 1
    BY <1>2 DEF Open
  <2>2. input' = input /\ apis' = apis /\ faults' = faults /\ observed' = observed
        /\ findings' = findings /\ status' = status
    BY <1>2 DEF Open, tables, outcome
  <2>3. row' = 1
    BY <1>2 DEF Open
  <2>4. row' \in Nat \ {0}
    BY ONLY <2>3
  <2> QED BY <2>1, <2>2, <2>4 DEF Typed
<1>3. CASE EndOfFile
  <2>1. pc' \in {"report error", After(pc)} /\ Reading
    BY <1>3 DEF EndOfFile
  <2>2. After(pc) \in {"tests", "contracts", "faults", "traces", "calls", "outcomes", "validate"}
    BY <2>1, FilesAre
  <2>3. input' = input /\ apis' = apis /\ faults' = faults /\ observed' = observed
        /\ findings' = findings /\ status' = status /\ row' = row /\ opened' = FALSE
    BY <1>3 DEF EndOfFile, tables, outcome
  <2>4. err' \in BOOLEAN
    BY <1>3 DEF EndOfFile
  <2> QED BY <2>1, <2>2, <2>3, <2>4 DEF Typed
<1>4. CASE Refuse /\ row' = row + 1
  <2>1. input' = input /\ apis' = apis /\ faults' = faults /\ observed' = observed
        /\ findings' = findings /\ status' = status /\ opened' = opened
        /\ err' = TRUE /\ pc' = "report error" /\ row' \in Nat \ {0}
    BY <1>4, TypedParts DEF Refuse, tables, outcome
  <2> QED BY <2>1 DEF Typed
<1>5. CASE ValidateConformance
  <2>1. findings' \in Nat /\ pc' = "receipt"
    BY <1>5 DEF ValidateConformance, Typed
  <2>2. input' = input /\ apis' = apis /\ faults' = faults /\ observed' = observed
        /\ status' = status /\ opened' = opened /\ row' = row /\ err' = err
    BY <1>5 DEF ValidateConformance, outcome
  <2> QED BY <2>1, <2>2 DEF Typed
<1>6. CASE WriteReceipt
  <2>1. /\ status' \in {status, 0, 1} /\ err' \in {err, TRUE} /\ pc' = "report error"
        /\ input' = input /\ apis' = apis /\ faults' = faults /\ observed' = observed
        /\ findings' = findings /\ opened' = opened /\ row' = row
    BY <1>6 DEF WriteReceipt, tables, StatusWritten
  <2> QED BY <2>1 DEF Typed
<1>7. CASE ReportError
  <2>1. /\ status' \in {status, 2} /\ pc' = "done" /\ err' = err
        /\ input' = input /\ apis' = apis /\ faults' = faults /\ observed' = observed
        /\ findings' = findings /\ opened' = opened /\ row' = row
    BY <1>7 DEF ReportError, tables
  <2> QED BY <2>1 DEF Typed
<1>8. CASE UNCHANGED vars
  BY <1>8 DEF vars, Typed
<1> QED BY <1>1, <1>2, <1>3, <1>4, <1>5, <1>6, <1>7, <1>8

\* A row of the manifest or of a file about the APIs leaves the rest as it was.
LEMMA TypedApis ==
  ASSUME Typed, Accept, row' = row + 1, UNCHANGED <<faults, observed, findings>>,
         apis' \in Seq(ApiRecord), Len(apis') <= MaxApis
  PROVE  Typed'
<1>1. input' = input /\ pc' = pc /\ opened' = opened /\ err' = err /\ status' = status
      /\ faults' = faults /\ observed' = observed /\ findings' = findings
  BY DEF Accept, outcome
<1>2. row' \in Nat \ {0}
  BY TypedParts
<1> QED BY <1>1, <1>2 DEF Typed

LEMMA RowInFile ==
  ASSUME Typed
  PROVE  /\ RowOf("apis") => row \in DOMAIN input.apis /\ row \in Nat \ {0}
         /\ RowOf("tests") => row \in DOMAIN input.tests
         /\ RowOf("contracts") => row \in DOMAIN input.contracts
         /\ RowOf("faults") => row \in DOMAIN input.faults
         /\ RowOf("traces") => row \in DOMAIN input.traces
         /\ RowOf("calls") => row \in DOMAIN input.calls
         /\ RowOf("outcomes") => row \in DOMAIN input.outcomes
<1>1. input \in Inputs /\ row \in Nat \ {0}
  BY DEF Typed
<1>2. (RowOf("apis") => row \in DOMAIN input.apis) /\ (RowOf("tests") => row \in DOMAIN input.tests)
  BY <1>1, ApiRows, TestRows DEF RowOf
<1>3. /\ RowOf("contracts") => row \in DOMAIN input.contracts
      /\ RowOf("faults") => row \in DOMAIN input.faults
  BY <1>1, ContractRows, FaultRows DEF RowOf
<1>4. /\ RowOf("traces") => row \in DOMAIN input.traces
      /\ RowOf("calls") => row \in DOMAIN input.calls
  BY <1>1, TraceRows, CallRows DEF RowOf
<1>5. RowOf("outcomes") => row \in DOMAIN input.outcomes
  BY <1>1, OutcomeRows DEF RowOf
<1> QED BY <1>1, <1>2, <1>3, <1>4, <1>5

LEMMA TypedLoadApi ==
  ASSUME Typed, LoadApi, Gaps \in Nat
  PROVE  Typed'
<1> DEFINE r == input.apis[row]
<1>1. RowOf("apis") /\ row' = row + 1 /\ input \in Inputs
  BY DEF LoadApi, RowOf, Typed
<1>2. CASE Refuse
  BY <1>1, <1>2, TypedElsewhere
<1>3. CASE /\ ~r.bad /\ Len(apis) < MaxApis
           /\ apis' = Append(apis, NewApi(r))
           /\ UNCHANGED <<faults, observed, findings>>
           /\ Accept
  <2>1. r.name \in Text /\ r.usr \in Text
    BY <1>1, <1>3, RowInFile, ApiRows
  <2>2. NewApi(r) \in ApiRecord
    BY <2>1 DEF NewApi, ApiRecord
  <2>3. apis \in Seq(ApiRecord) /\ MaxApis \in Nat
    BY ConstantsOK DEF Typed
  <2>4. apis' \in Seq(ApiRecord) /\ Len(apis') <= MaxApis
    BY <1>3, <2>2, <2>3
  <2> QED BY <1>1, <1>3, <2>4, TypedApis
<1> QED BY <1>2, <1>3 DEF LoadApi

LEMMA TypedLoadTest ==
  ASSUME Typed, LoadTest, Gaps \in Nat
  PROVE  Typed'
<1> DEFINE r == input.tests[row]
           k == First(HasUsr(r.usr))
           v == [apis[k] EXCEPT !.tested = TRUE, !.faultTest = r.fault]
<1>1. RowOf("tests") /\ row' = row + 1 /\ input \in Inputs /\ apis \in Seq(ApiRecord)
  BY DEF LoadTest, RowOf, Typed
<1>2. CASE Refuse
  BY <1>1, <1>2, TypedElsewhere
<1>3. CASE /\ ~r.bad /\ HasUsr(r.usr) # {}
           /\ apis' = [apis EXCEPT ![k] = v]
           /\ UNCHANGED <<faults, observed, findings>>
           /\ Accept
  <2>1. r.fault \in BOOLEAN
    BY <1>1, <1>3, RowInFile, TestRows
  <2>2. k \in DOMAIN apis
    BY <1>1, <1>3, OwnerInTable
  <2>3. apis[k] \in ApiRecord
    BY <1>1, <2>2
  <2>4. v \in ApiRecord
    BY <2>1, <2>3 DEF ApiRecord
  <2> HIDE DEF v, k
  <2>5. apis' \in Seq(ApiRecord) /\ Len(apis') <= MaxApis
    BY <1>1, <1>3, <2>2, <2>4, Updated, TypedParts
  <2> QED BY <1>1, <1>3, <2>5, TypedApis
<1> QED BY <1>2, <1>3 DEF LoadTest

LEMMA TypedLoadContract ==
  ASSUME Typed, LoadContract, Gaps \in Nat
  PROVE  Typed'
<1> DEFINE r == input.contracts[row]
           k == First(HasUsr(r.usr))
           v == [apis[k] EXCEPT !.contract = TRUE, !.needsArguments = r.arguments,
                                !.needsResult = r.result]
<1>1. RowOf("contracts") /\ row' = row + 1 /\ input \in Inputs /\ apis \in Seq(ApiRecord)
  BY DEF LoadContract, RowOf, Typed
<1>2. CASE Refuse
  BY <1>1, <1>2, TypedElsewhere
<1>3. CASE /\ ~r.bad /\ HasUsr(r.usr) # {}
           /\ apis' = [apis EXCEPT ![k] = v]
           /\ UNCHANGED <<faults, observed, findings>>
           /\ Accept
  <2>1. r.arguments \in BOOLEAN /\ r.result \in BOOLEAN
    BY <1>1, <1>3, RowInFile, ContractRows
  <2>2. k \in DOMAIN apis
    BY <1>1, <1>3, OwnerInTable
  <2>3. apis[k] \in ApiRecord
    BY <1>1, <2>2
  <2>4. v \in ApiRecord
    BY <2>1, <2>3 DEF ApiRecord
  <2> HIDE DEF v, k
  <2>5. apis' \in Seq(ApiRecord) /\ Len(apis') <= MaxApis
    BY <1>1, <1>3, <2>2, <2>4, Updated, TypedParts
  <2> QED BY <1>1, <1>3, <2>5, TypedApis
<1> QED BY <1>2, <1>3 DEF LoadContract

LEMMA TypedLoadTrace ==
  ASSUME Typed, LoadTrace, Gaps \in Nat
  PROVE  Typed'
<1> DEFINE r == input.traces[row]
           k == First(HasUsr(r.usr))
           v == [apis[k] EXCEPT !.instrumented = TRUE, !.traced = r.env]
<1>1. RowOf("traces") /\ row' = row + 1 /\ input \in Inputs /\ apis \in Seq(ApiRecord)
  BY DEF LoadTrace, RowOf, Typed
<1>2. CASE Refuse
  BY <1>1, <1>2, TypedElsewhere
<1>3. CASE /\ ~r.bad /\ (r.ours => HasUsr(r.usr) # {})
           /\ apis' = IF ~r.ours THEN apis ELSE [apis EXCEPT ![k] = v]
           /\ UNCHANGED <<faults, observed, findings>>
           /\ Accept
  <2>1. CASE r.ours
    <3>1. r.env \in BOOLEAN
      BY <1>1, <1>3, RowInFile, TraceRows
    <3>2. k \in DOMAIN apis
      BY <1>1, <1>3, <2>1, OwnerInTable
    <3>3. apis[k] \in ApiRecord
      BY <1>1, <3>2
    <3>4. v \in ApiRecord
      BY <3>1, <3>3 DEF ApiRecord
    <3>5. apis' = [apis EXCEPT ![k] = v]
      BY <1>3, <2>1
    <3> HIDE DEF v, k
    <3>6. apis' \in Seq(ApiRecord) /\ Len(apis') <= MaxApis
      BY <1>1, <3>2, <3>4, <3>5, Updated, TypedParts
    <3> QED BY <1>1, <1>3, <3>6, TypedApis
  <2>2. CASE ~r.ours
    <3>1. apis' \in Seq(ApiRecord) /\ Len(apis') <= MaxApis
      BY <1>3, <2>2 DEF Typed
    <3> QED BY <1>1, <1>3, <3>1, TypedApis
  <2> QED BY <2>1, <2>2
<1> QED BY <1>2, <1>3 DEF LoadTrace

LEMMA TypedLoadCall ==
  ASSUME Typed, LoadCall, Gaps \in Nat
  PROVE  Typed'
<1> DEFINE r == input.calls[row]
           k == First(HasName(r.name))
           v == Tally(apis[k], r)
<1>1. RowOf("calls") /\ row' = row + 1 /\ input \in Inputs /\ apis \in Seq(ApiRecord)
  BY DEF LoadCall, RowOf, Typed
<1>2. CASE Refuse
  BY <1>1, <1>2, TypedElsewhere
<1>3. CASE /\ ~r.bad
           /\ apis' = IF HasName(r.name) = {} THEN apis ELSE [apis EXCEPT ![k] = v]
           /\ UNCHANGED <<faults, observed, findings>>
           /\ Accept
  <2>1. CASE HasName(r.name) # {}
    <3>1. r.logged \in BOOLEAN /\ r.present \in BOOLEAN
      BY <1>1, <1>3, RowInFile, CallRows
    <3>2. k \in DOMAIN apis
      BY <1>1, <2>1, OwnerInTable
    <3>3. apis[k] \in ApiRecord
      BY <1>1, <3>2
    <3>4. v \in ApiRecord
      BY <3>1, <3>3, TallyColumns
    <3>5. apis' = [apis EXCEPT ![k] = v]
      BY <1>3, <2>1
    <3> HIDE DEF v, k
    <3>6. apis' \in Seq(ApiRecord) /\ Len(apis') <= MaxApis
      BY <1>1, <3>2, <3>4, <3>5, Updated, TypedParts
    <3> QED BY <1>1, <1>3, <3>6, TypedApis
  <2>2. CASE HasName(r.name) = {}
    <3>1. apis' \in Seq(ApiRecord) /\ Len(apis') <= MaxApis
      BY <1>3, <2>2 DEF Typed
    <3> QED BY <1>1, <1>3, <3>1, TypedApis
  <2> QED BY <2>1, <2>2
<1> QED BY <1>2, <1>3 DEF LoadCall

LEMMA TypedLoadFault ==
  ASSUME Typed, LoadFault, Gaps \in Nat
  PROVE  Typed'
<1> DEFINE r == input.faults[row]
<1>1. RowOf("faults") /\ row' = row + 1 /\ input \in Inputs
  BY DEF LoadFault, RowOf, Typed
<1>2. CASE Refuse
  BY <1>1, <1>2, TypedElsewhere
<1>3. ASSUME NEW missed, ~r.bad,
             Len(faults) + Len(Expected(r, missed)) <= MaxFaults,
             faults' = faults \o Expected(r, missed),
             err' = (err \/ missed # {}),
             UNCHANGED <<input, pc, opened, apis, observed, findings, outcome>>
      PROVE  Typed'
  <2> DEFINE m == Expected(r, missed)
  <2>1. r \in FaultRow
    BY <1>1, <1>3, RowInFile, FaultRows
  <2>2. PICK o : Stands(m, r, missed, Len(r.symbols), o)
    BY <2>1, ExpectedIs
  <2>3. m \in Seq(FaultRecord) /\ \A y \in DOMAIN m : m[y] = Entry(r, o[y])
    BY <2>2 DEF Stands
  <2>4. ASSUME NEW y \in DOMAIN m PROVE ~m[y].observed
    <3>1. m[y] = Entry(r, o[y])
      BY <2>3
    <3>2. Entry(r, o[y]).observed = FALSE
      BY ONLY TRUE DEF Entry
    <3> QED BY <3>1, <3>2
  <2>5. faults' = faults \o m /\ Len(faults) + Len(m) <= MaxFaults /\ faults \in Seq(FaultRecord)
    BY <1>3 DEF Typed
  <2> HIDE DEF m
  <2>6. faults' \in Seq(FaultRecord) /\ Len(faults') <= MaxFaults
    BY <2>3, <2>5
  <2>7. {y \in DOMAIN faults' : faults'[y].observed} = {y \in DOMAIN faults : faults[y].observed}
    <3>1. /\ Len(faults) \in Nat /\ DOMAIN faults = 1 .. Len(faults)
          /\ Len(m) \in Nat /\ DOMAIN m = 1 .. Len(m)
          /\ DOMAIN faults' = 1 .. Len(faults) + Len(m)
      BY <2>3, <2>5
    <3>2. \A y \in 1 .. Len(faults) : faults'[y] = faults[y]
      BY <2>3, <2>5
    <3>3. ASSUME NEW y \in 1 .. Len(faults) + Len(m), y \notin 1 .. Len(faults)
          PROVE  ~faults'[y].observed
      <4>1. y - Len(faults) \in DOMAIN m /\ faults'[y] = m[y - Len(faults)]
        BY <2>3, <2>5, <3>1, <3>3
      <4> QED BY <2>4, <4>1
    <3>4. 1 .. Len(faults) \subseteq 1 .. Len(faults) + Len(m)
      BY <3>1
    <3> QED BY <3>1, <3>2, <3>3, <3>4
  <2>8. input' = input /\ pc' = pc /\ opened' = opened /\ apis' = apis /\ observed' = observed
        /\ findings' = findings /\ status' = status /\ err' \in BOOLEAN
    BY <1>3 DEF outcome
  <2>9. row' \in Nat \ {0}
    BY <1>1, TypedParts
  <2>10. observed' = Cardinality({y \in DOMAIN faults' : faults'[y].observed})
    BY <2>7, <2>8 DEF Typed
  <2> QED BY <2>6, <2>8, <2>9, <2>10 DEF Typed
<1> QED BY <1>2, <1>3 DEF LoadFault

LEMMA TypedLoadOutcome ==
  ASSUME Typed, LoadOutcome, Gaps \in Nat
  PROVE  Typed'
<1> DEFINE r == input.outcomes[row]
           y == First(Matching(r))
<1>1. RowOf("outcomes") /\ row' = row + 1 /\ input \in Inputs /\ row' \in Nat \ {0}
  BY DEF LoadOutcome, RowOf, Typed
<1>2. CASE Refuse
  BY <1>1, <1>2, TypedElsewhere
<1>3. CASE ~r.bad /\ Accept /\ UNCHANGED apis /\ Awaiting(r) = {}
           /\ findings' = findings + 1 /\ UNCHANGED <<faults, observed>>
  <2>1. input' = input /\ pc' = pc /\ opened' = opened /\ err' = err /\ status' = status
        /\ apis' = apis /\ faults' = faults /\ observed' = observed /\ findings' \in Nat
    BY <1>3, TypedParts DEF Accept, outcome
  <2> QED BY <1>1, <2>1 DEF Typed
<1>4. CASE ~r.bad /\ Accept /\ UNCHANGED apis /\ Awaiting(r) # {}
           /\ findings' = (IF r.pass THEN findings ELSE findings + 1)
           /\ faults' = [faults EXCEPT ![y].observed = TRUE] /\ observed' = observed + 1
  <2>1. input' = input /\ pc' = pc /\ opened' = opened /\ err' = err /\ status' = status
        /\ apis' = apis
    BY <1>4 DEF Accept, outcome
  <2>10. findings' \in Nat
    BY <1>4, TypedParts
  <2>2. y \in DOMAIN faults /\ ~faults[y].observed /\ faults \in Seq(FaultRecord)
    BY <1>4 DEF Awaiting, Matching, Typed
  <2> DEFINE v == [faults[y] EXCEPT !.observed = TRUE]
             S == {z \in DOMAIN faults : faults[z].observed}
  <2>3. v \in FaultRecord /\ v.observed = TRUE
    <3>1. faults[y] \in FaultRecord
      BY <2>2
    <3> QED BY <3>1 DEF FaultRecord
  <2>4. faults' = [faults EXCEPT ![y] = v]
    BY <1>4
  <2>5. faults' \in Seq(FaultRecord) /\ Len(faults') = Len(faults)
    <3> HIDE DEF v, y
    <3> QED BY <2>2, <2>3, <2>4, Updated
  <2>6. {z \in DOMAIN faults' : faults'[z].observed} = S \cup {y} /\ y \notin S
    <3> HIDE DEF v, y
    <3> QED BY <2>2, <2>3, <2>4
  <2>7. observed = Cardinality(S) /\ IsFiniteSet(S)
    BY <2>2, ObservedFinite DEF Typed
  <2>8. Cardinality(S \cup {y}) = Cardinality(S) + 1
    <3> HIDE DEF S, y
    <3> QED BY <2>6, <2>7, FS_AddElement
  <2>9. observed' = Cardinality({z \in DOMAIN faults' : faults'[z].observed})
    BY <1>4, <2>6, <2>7, <2>8
  <2> QED BY <1>1, <2>1, <2>5, <2>9, <2>10 DEF Typed
<1> QED BY <1>2, <1>3, <1>4 DEF LoadOutcome

\* The sum of the gaps is a number, and is 0 only if every one of them is.
LEMMA CountIs ==
  ASSUME NEW S, IsFiniteSet(S)
  PROVE  Cardinality(S) \in Nat /\ (Cardinality(S) = 0 <=> S = {})
BY FS_CardinalityType, FS_EmptySet

NoGap(a) ==
  /\ a.tested /\ a.contract /\ a.instrumented
  /\ a.traced => a.enters # 0 /\ a.enters = a.exits
  /\ a.faultTest => a.enters # 0
  /\ a.needsArguments => a.arguments
  /\ a.needsResult => a.result

LEMMA GapsAre ==
  ASSUME Typed
  PROVE  /\ Gaps \in Nat
         /\ Gaps = 0 <=> /\ \A i \in DOMAIN apis : NoGap(apis[i])
                         /\ \A y \in DOMAIN faults : faults[y].observed
<1>1. IsFiniteSet(DOMAIN apis) /\ IsFiniteSet(DOMAIN faults)
  <2>1. Len(apis) \in Nat /\ DOMAIN apis = 1 .. Len(apis)
        /\ Len(faults) \in Nat /\ DOMAIN faults = 1 .. Len(faults)
    BY TypedParts
  <2> QED BY <2>1, FS_Interval
<1> DEFINE A == {i \in DOMAIN apis : ~apis[i].tested}
           B == {i \in DOMAIN apis : ~apis[i].contract}
           C == {i \in DOMAIN apis : ~apis[i].instrumented}
           D == {i \in DOMAIN apis : apis[i].traced /\ apis[i].enters = 0}
           E == {i \in DOMAIN apis : apis[i].traced /\ apis[i].enters # apis[i].exits}
           F == {i \in DOMAIN apis : apis[i].faultTest /\ apis[i].enters = 0}
           G == {i \in DOMAIN apis : apis[i].needsArguments /\ ~apis[i].arguments}
           H == {i \in DOMAIN apis : apis[i].needsResult /\ ~apis[i].result}
           I == {y \in DOMAIN faults : ~faults[y].observed}
<1>2. Gaps = Cardinality(A) + Cardinality(B) + Cardinality(C) + Cardinality(D) + Cardinality(E)
             + Cardinality(F) + Cardinality(G) + Cardinality(H) + Cardinality(I)
  BY DEF Gaps, Count
<1>3. /\ IsFiniteSet(A) /\ IsFiniteSet(B) /\ IsFiniteSet(C) /\ IsFiniteSet(D) /\ IsFiniteSet(E)
      /\ IsFiniteSet(F) /\ IsFiniteSet(G) /\ IsFiniteSet(H) /\ IsFiniteSet(I)
  <2>1. /\ A \subseteq DOMAIN apis /\ B \subseteq DOMAIN apis /\ C \subseteq DOMAIN apis
        /\ D \subseteq DOMAIN apis /\ E \subseteq DOMAIN apis /\ F \subseteq DOMAIN apis
        /\ G \subseteq DOMAIN apis /\ H \subseteq DOMAIN apis /\ I \subseteq DOMAIN faults
    OBVIOUS
  <2> HIDE DEF A, B, C, D, E, F, G, H, I
  <2> QED BY <1>1, <2>1, FS_Subset
<1>4. /\ \A i \in DOMAIN apis : NoGap(apis[i])
      /\ \A y \in DOMAIN faults : faults[y].observed
      <=> /\ A = {} /\ B = {} /\ C = {} /\ D = {} /\ E = {} /\ F = {} /\ G = {} /\ H = {}
          /\ I = {}
  BY DEF NoGap
<1> HIDE DEF A, B, C, D, E, F, G, H, I
<1>5. /\ Cardinality(A) \in Nat /\ (Cardinality(A) = 0 <=> A = {})
      /\ Cardinality(B) \in Nat /\ (Cardinality(B) = 0 <=> B = {})
      /\ Cardinality(C) \in Nat /\ (Cardinality(C) = 0 <=> C = {})
      /\ Cardinality(D) \in Nat /\ (Cardinality(D) = 0 <=> D = {})
      /\ Cardinality(E) \in Nat /\ (Cardinality(E) = 0 <=> E = {})
      /\ Cardinality(F) \in Nat /\ (Cardinality(F) = 0 <=> F = {})
      /\ Cardinality(G) \in Nat /\ (Cardinality(G) = 0 <=> G = {})
      /\ Cardinality(H) \in Nat /\ (Cardinality(H) = 0 <=> H = {})
      /\ Cardinality(I) \in Nat /\ (Cardinality(I) = 0 <=> I = {})
  BY <1>3, CountIs
<1> DEFINE a == Cardinality(A)
           b == Cardinality(B)
           c == Cardinality(C)
           d == Cardinality(D)
           e == Cardinality(E)
           f == Cardinality(F)
           g == Cardinality(G)
           h == Cardinality(H)
           j == Cardinality(I)
<1>6. Gaps = a + b + c + d + e + f + g + h + j
  BY <1>2
<1>7. /\ a \in Nat /\ b \in Nat /\ c \in Nat /\ d \in Nat /\ e \in Nat
      /\ f \in Nat /\ g \in Nat /\ h \in Nat /\ j \in Nat
  BY <1>5
<1>8. /\ a = 0 /\ b = 0 /\ c = 0 /\ d = 0 /\ e = 0 /\ f = 0 /\ g = 0 /\ h = 0 /\ j = 0
      <=> /\ A = {} /\ B = {} /\ C = {} /\ D = {} /\ E = {} /\ F = {} /\ G = {} /\ H = {}
          /\ I = {}
  BY <1>5
<1> HIDE DEF a, b, c, d, e, f, g, h, j
<1>9. /\ Gaps \in Nat
      /\ Gaps = 0 <=> /\ a = 0 /\ b = 0 /\ c = 0 /\ d = 0 /\ e = 0 /\ f = 0 /\ g = 0
                      /\ h = 0 /\ j = 0
  BY <1>6, <1>7
<1> QED BY <1>4, <1>8, <1>9

LEMMA TypedStep == Typed /\ [Next]_vars => Typed'
<1> SUFFICES ASSUME Typed, [Next]_vars PROVE Typed'
  OBVIOUS
<1>1. Gaps \in Nat
  BY GapsAre
<1>2. CASE ParseArguments \/ Open \/ EndOfFile
  <2>1. CASE ParseArguments
    BY <1>1, <2>1, TypedElsewhere
  <2>2. CASE Open
    BY <1>1, <2>2, TypedElsewhere
  <2>3. CASE EndOfFile
    BY <1>1, <2>3, TypedElsewhere
  <2> QED BY <1>2, <2>1, <2>2, <2>3
<1>3. CASE LoadApi
  BY <1>1, <1>3, TypedLoadApi
<1>4. CASE LoadTest
  BY <1>1, <1>4, TypedLoadTest
<1>5. CASE LoadContract
  BY <1>1, <1>5, TypedLoadContract
<1>6. CASE LoadFault
  BY <1>1, <1>6, TypedLoadFault
<1>7. CASE LoadTrace
  BY <1>1, <1>7, TypedLoadTrace
<1>8. CASE LoadCall
  BY <1>1, <1>8, TypedLoadCall
<1>9. CASE LoadOutcome
  BY <1>1, <1>9, TypedLoadOutcome
<1>10. CASE ValidateConformance \/ WriteReceipt \/ ReportError
  BY <1>1, <1>10, TypedElsewhere
<1>11. CASE Finished \/ UNCHANGED vars
  BY <1>1, <1>11, TypedElsewhere DEF Finished
<1> QED BY <1>2, <1>3, <1>4, <1>5, <1>6, <1>7, <1>8, <1>9, <1>10, <1>11 DEF Next

LEMMA TypedSuffices == Typed => TypeOK
<1> SUFFICES ASSUME Typed PROVE TypeOK
  OBVIOUS
<1>1. Range(Files) = {"apis", "tests", "contracts", "faults", "traces", "calls", "outcomes"}
  BY DEF Range, Files
<1>2. observed \in 0 .. Len(faults)
  BY ObservedFinite DEF Typed
<1>3. input \in Input
  BY ConstantsOK DEF Typed
<1> QED BY <1>1, <1>2, <1>3 DEF Typed, TypeOK

\* Every state is typed, and the tables never outgrow their arrays (load_apis,
\* load_fault_contracts).
THEOREM TypeCorrectness == Spec => []TypeOK
BY TypedInit, TypedStep, TypedSuffices, PTL DEF Spec

-----------------------------------------------------------------------------
(* The inductive invariant: as long as no error was noticed, each column of  *)
(* the tables is what the rows read so far say, findings is 0 exactly if     *)
(* nothing was wrong, and a verdict is that of findings.                     *)

Here == IF opened THEN row - 1 ELSE 0

\* How many rows of a file have been read.
ReadApis ==
  IF pc = "parse" THEN 0 ELSE IF pc = "apis" THEN Here ELSE Len(input.apis)
ReadTests ==
  IF pc \in {"parse", "apis"} THEN 0 ELSE IF pc = "tests" THEN Here ELSE Len(input.tests)
ReadContracts ==
  IF pc \in {"parse", "apis", "tests"} THEN 0
  ELSE IF pc = "contracts" THEN Here ELSE Len(input.contracts)
ReadFaults ==
  IF pc \in {"parse", "apis", "tests", "contracts"} THEN 0
  ELSE IF pc = "faults" THEN Here ELSE Len(input.faults)
ReadTraces ==
  IF pc \in {"parse", "apis", "tests", "contracts", "faults"} THEN 0
  ELSE IF pc = "traces" THEN Here ELSE Len(input.traces)
ReadCalls ==
  IF pc \in {"parse", "apis", "tests", "contracts", "faults", "traces"} THEN 0
  ELSE IF pc = "calls" THEN Here ELSE Len(input.calls)
ReadOutcomes ==
  IF pc \in {"parse", "apis", "tests", "contracts", "faults", "traces", "calls"} THEN 0
  ELSE IF pc = "outcomes" THEN Here ELSE Len(input.outcomes)

ApiTable ==
  /\ ApisAt(input, apis, ReadApis)
  /\ TestsAt(input, apis, ReadTests) /\ ContractsAt(input, apis, ReadContracts)
  /\ TracesAt(input, apis, ReadTraces) /\ CallsAt(input, apis, ReadCalls)

FaultTable ==
  FaultsAt(input, faults, ReadFaults) /\ OutcomesAt(input, faults, ReadOutcomes)

Judged == pc \in {"receipt", "report error", "done"}

Described ==
  /\ pc = "parse" => ~opened
  /\ pc \in {"parse", "apis"} => FreshAt(input, apis)
  /\ ApiTable /\ FaultTable
  /\ findings = 0 <=> Clean(input, faults, ReadOutcomes) /\ (Judged => Gaps = 0)
  /\ pc \in {"report error", "done"} => status = StatusWritten /\ receipt = Receipt

Sound == ~err /\ ~input.help

Ended ==
  /\ pc = "parse" => ~err
  /\ input.help => pc \in {"parse", "report error", "done"} /\ status # 1
  /\ pc = "done" /\ err => status = 2

IInv == Typed /\ Ended /\ (Sound => Described)

\* The reads after a step that takes no row.
Reads ==
  <<ReadApis, ReadTests, ReadContracts, ReadFaults, ReadTraces, ReadCalls, ReadOutcomes>>

LEMMA SameReads ==
  ASSUME Reads' = Reads
  PROVE  /\ ReadApis' = ReadApis /\ ReadTests' = ReadTests /\ ReadContracts' = ReadContracts
         /\ ReadFaults' = ReadFaults /\ ReadTraces' = ReadTraces /\ ReadCalls' = ReadCalls
         /\ ReadOutcomes' = ReadOutcomes
<1> DEFINE a == ReadApis
           b == ReadTests
           c == ReadContracts
           d == ReadFaults
           e == ReadTraces
           f == ReadCalls
           g == ReadOutcomes
<1>1. <<a, b, c, d, e, f, g>>' = <<a, b, c, d, e, f, g>>
  BY DEF Reads
<1> HIDE DEF a, b, c, d, e, f, g
<1>2. a' = a /\ b' = b /\ c' = c /\ d' = d /\ e' = e /\ f' = f /\ g' = g
  BY <1>1
<1> QED BY <1>2 DEF a, b, c, d, e, f, g

LEMMA KeptTables ==
  ASSUME ApiTable, FaultTable, Reads' = Reads,
         input' = input, apis' = apis, faults' = faults
  PROVE  ApiTable' /\ FaultTable'
BY SameReads DEF ApiTable, FaultTable

\* How many rows are in the files, and that no more were read.
LEMMA WithinFiles ==
  ASSUME Typed, ApiTable, FaultTable
  PROVE  /\ ReadApis <= Len(input.apis) /\ ReadTests <= Len(input.tests)
         /\ ReadContracts <= Len(input.contracts) /\ ReadFaults <= Len(input.faults)
         /\ ReadTraces <= Len(input.traces) /\ ReadCalls <= Len(input.calls)
         /\ ReadOutcomes <= Len(input.outcomes)
BY DEF ApiTable, FaultTable, ApisAt, TestsAt, ContractsAt, FaultsAt, TracesAt, CallsAt,
       OutcomesAt

LEMMA ReadsAtEnd ==
  ASSUME Typed, ApiTable, FaultTable, EndOfFile, ~err'
  PROVE  Reads' = Reads
<1>1. /\ Reading /\ opened /\ row > Len(input[pc]) /\ pc' = After(pc)
      /\ opened' = FALSE /\ input' = input /\ row' = row
  BY DEF EndOfFile
<1>2. row \in Nat /\ Here = row - 1 /\ Here' = 0
  BY <1>1, TypedParts DEF Here
<1>3. /\ Len(input.apis) \in Nat /\ Len(input.tests) \in Nat /\ Len(input.contracts) \in Nat
      /\ Len(input.faults) \in Nat /\ Len(input.traces) \in Nat /\ Len(input.calls) \in Nat
      /\ Len(input.outcomes) \in Nat
  BY TypedParts, ApiRows, TestRows, ContractRows, FaultRows, TraceRows, CallRows, OutcomeRows
<1>4. CASE pc = "apis"
  <2>1. pc' = "tests" /\ row > Len(input.apis) /\ ReadApis = Here
    BY <1>1, <1>4, FilesAre DEF ReadApis
  <2>2. Here = Len(input.apis)
    BY <1>2, <1>3, <2>1, WithinFiles
  <2> QED BY <1>1, <1>2, <1>4, <2>1, <2>2 DEF Reads, ReadApis, ReadTests, ReadContracts,
             ReadFaults, ReadTraces, ReadCalls, ReadOutcomes
<1>5. CASE pc = "tests"
  <2>1. pc' = "contracts" /\ row > Len(input.tests) /\ ReadTests = Here
    BY <1>1, <1>5, FilesAre DEF ReadTests
  <2>2. Here = Len(input.tests)
    BY <1>2, <1>3, <2>1, WithinFiles
  <2> QED BY <1>1, <1>2, <1>5, <2>1, <2>2 DEF Reads, ReadApis, ReadTests, ReadContracts,
             ReadFaults, ReadTraces, ReadCalls, ReadOutcomes
<1>6. CASE pc = "contracts"
  <2>1. pc' = "faults" /\ row > Len(input.contracts) /\ ReadContracts = Here
    BY <1>1, <1>6, FilesAre DEF ReadContracts
  <2>2. Here = Len(input.contracts)
    BY <1>2, <1>3, <2>1, WithinFiles
  <2> QED BY <1>1, <1>2, <1>6, <2>1, <2>2 DEF Reads, ReadApis, ReadTests, ReadContracts,
             ReadFaults, ReadTraces, ReadCalls, ReadOutcomes
<1>7. CASE pc = "faults"
  <2>1. pc' = "traces" /\ row > Len(input.faults) /\ ReadFaults = Here
    BY <1>1, <1>7, FilesAre DEF ReadFaults
  <2>2. Here = Len(input.faults)
    BY <1>2, <1>3, <2>1, WithinFiles
  <2> QED BY <1>1, <1>2, <1>7, <2>1, <2>2 DEF Reads, ReadApis, ReadTests, ReadContracts,
             ReadFaults, ReadTraces, ReadCalls, ReadOutcomes
<1>8. CASE pc = "traces"
  <2>1. pc' = "calls" /\ row > Len(input.traces) /\ ReadTraces = Here
    BY <1>1, <1>8, FilesAre DEF ReadTraces
  <2>2. Here = Len(input.traces)
    BY <1>2, <1>3, <2>1, WithinFiles
  <2> QED BY <1>1, <1>2, <1>8, <2>1, <2>2 DEF Reads, ReadApis, ReadTests, ReadContracts,
             ReadFaults, ReadTraces, ReadCalls, ReadOutcomes
<1>9. CASE pc = "calls"
  <2>1. pc' = "outcomes" /\ row > Len(input.calls) /\ ReadCalls = Here
    BY <1>1, <1>9, FilesAre DEF ReadCalls
  <2>2. Here = Len(input.calls)
    BY <1>2, <1>3, <2>1, WithinFiles
  <2> QED BY <1>1, <1>2, <1>9, <2>1, <2>2 DEF Reads, ReadApis, ReadTests, ReadContracts,
             ReadFaults, ReadTraces, ReadCalls, ReadOutcomes
<1>10. CASE pc = "outcomes"
  <2>1. pc' = "validate" /\ row > Len(input.outcomes) /\ ReadOutcomes = Here
    BY <1>1, <1>10, FilesAre DEF ReadOutcomes
  <2>2. Here = Len(input.outcomes)
    BY <1>2, <1>3, <2>1, WithinFiles
  <2> QED BY <1>1, <1>2, <1>10, <2>1, <2>2 DEF Reads, ReadApis, ReadTests, ReadContracts,
             ReadFaults, ReadTraces, ReadCalls, ReadOutcomes
<1> QED BY <1>1, <1>4, <1>5, <1>6, <1>7, <1>8, <1>9, <1>10, FilesAre

\* A row of a file is one more of it, and of no other.
LEMMA ReadsOn ==
  ASSUME Typed, NEW file \in {"apis", "tests", "contracts", "faults", "traces", "calls",
                              "outcomes"},
         RowOf(file), input' = input, pc' = pc, opened' = opened
  PROVE  /\ row - 1 \in Nat /\ (row - 1) + 1 = row /\ row - 1 < Len(input[file])
         /\ file = "apis" => ReadApis = row - 1 /\ ReadApis' = row
         /\ file # "apis" => ReadApis' = ReadApis
         /\ file # "apis" => ReadApis = Len(input.apis)
         /\ file = "tests" => ReadTests = row - 1 /\ ReadTests' = row
         /\ file # "tests" => ReadTests' = ReadTests
         /\ file = "apis" => ReadTests = 0
         /\ file = "contracts" => ReadContracts = row - 1 /\ ReadContracts' = row
         /\ file # "contracts" => ReadContracts' = ReadContracts
         /\ file = "apis" => ReadContracts = 0
         /\ file = "faults" => ReadFaults = row - 1 /\ ReadFaults' = row
         /\ file # "faults" => ReadFaults' = ReadFaults
         /\ file = "traces" => ReadTraces = row - 1 /\ ReadTraces' = row
         /\ file # "traces" => ReadTraces' = ReadTraces
         /\ file = "apis" => ReadTraces = 0
         /\ file = "calls" => ReadCalls = row - 1 /\ ReadCalls' = row
         /\ file # "calls" => ReadCalls' = ReadCalls
         /\ file = "apis" => ReadCalls = 0
         /\ file = "outcomes" => ReadOutcomes = row - 1 /\ ReadOutcomes' = row
         /\ file # "outcomes" => ReadOutcomes' = ReadOutcomes
         /\ file # "outcomes" => ReadOutcomes = 0
<1>1. pc = file /\ opened /\ row <= Len(input[file]) /\ row' = row + 1
  BY DEF RowOf
<1>2. row \in Nat \ {0}
  BY TypedParts
<1>3. row - 1 \in Nat /\ (row - 1) + 1 = row /\ row - 1 < Len(input[file])
  <2>1. Len(input[file]) \in Nat
    BY TypedParts, ApiRows, TestRows, ContractRows, FaultRows, TraceRows, CallRows, OutcomeRows
  <2> QED BY <1>1, <1>2, <2>1
<1>4. Here = row - 1 /\ Here' = row
  BY <1>1, <1>2 DEF Here
<1>5. /\ file = "apis" => ReadApis = row - 1 /\ ReadApis' = row
      /\ file # "apis" => ReadApis' = ReadApis
      /\ file # "apis" => ReadApis = Len(input.apis)
  BY <1>1, <1>4 DEF ReadApis
<1>6. /\ file = "tests" => ReadTests = row - 1 /\ ReadTests' = row
      /\ file # "tests" => ReadTests' = ReadTests
      /\ file = "apis" => ReadTests = 0
  BY <1>1, <1>4 DEF ReadTests
<1>7. /\ file = "contracts" => ReadContracts = row - 1 /\ ReadContracts' = row
      /\ file # "contracts" => ReadContracts' = ReadContracts
      /\ file = "apis" => ReadContracts = 0
  BY <1>1, <1>4 DEF ReadContracts
<1>8. /\ file = "faults" => ReadFaults = row - 1 /\ ReadFaults' = row
      /\ file # "faults" => ReadFaults' = ReadFaults
  BY <1>1, <1>4 DEF ReadFaults
<1>9. /\ file = "traces" => ReadTraces = row - 1 /\ ReadTraces' = row
      /\ file # "traces" => ReadTraces' = ReadTraces
      /\ file = "apis" => ReadTraces = 0
  BY <1>1, <1>4 DEF ReadTraces
<1>10. /\ file = "calls" => ReadCalls = row - 1 /\ ReadCalls' = row
       /\ file # "calls" => ReadCalls' = ReadCalls
       /\ file = "apis" => ReadCalls = 0
  BY <1>1, <1>4 DEF ReadCalls
<1>11. /\ file = "outcomes" => ReadOutcomes = row - 1 /\ ReadOutcomes' = row
       /\ file # "outcomes" => ReadOutcomes' = ReadOutcomes
       /\ file # "outcomes" => ReadOutcomes = 0
  BY <1>1, <1>4 DEF ReadOutcomes
<1> QED BY <1>3, <1>5, <1>6, <1>7, <1>8, <1>9, <1>10, <1>11

-----------------------------------------------------------------------------
(* What a row does to the description of the tables.                         *)

LEMMA CleanAtStart ==
  ASSUME NEW x, NEW f
  PROVE  Clean(x, f, 0)
BY DEF Clean

\* A row of a file other than the outcomes.
LEMMA DescribedEarly ==
  ASSUME Typed, Described,
         NEW file \in {"apis", "tests", "contracts", "faults", "traces", "calls"},
         RowOf(file), input' = input, pc' = pc, opened' = opened, findings' = findings,
         ApiTable', FaultTable', file = "apis" => FreshAt(input', apis')
  PROVE  Described'
<1>1. pc = file /\ pc' = file
  BY DEF RowOf
<1>2. ReadOutcomes = 0 /\ ReadOutcomes' = 0
  BY ReadsOn
<1>3. findings = 0
  BY <1>1, <1>2, CleanAtStart DEF Described, Judged
<1>4. findings' = 0 <=> Clean(input, faults, ReadOutcomes)' /\ (Judged' => (Gaps = 0)')
  BY <1>1, <1>2, <1>3, CleanAtStart DEF Judged
<1>5. pc' \in {"parse", "apis"} => FreshAt(input, apis)'
  BY <1>1
<1>6. pc' # "parse" /\ pc' \notin {"report error", "done"}
  BY <1>1
<1> QED BY <1>4, <1>5, <1>6 DEF Described

\* The manifest was read, so an API is found as it is there.
LEMMA Known ==
  ASSUME Typed, ApiTable, ReadApis = Len(input.apis), NEW u
  PROVE  /\ HasUsr(u) = ByUsr(input, u) /\ HasName(u) = ByName(input, u)
         /\ ApisAt(input, apis, Len(input.apis))
         /\ DOMAIN apis = 1 .. Len(input.apis)
<1>1. ApisAt(input, apis, Len(input.apis))
  BY DEF ApiTable
<1>2. HasUsr(u) = ByUsr(input, u) /\ HasName(u) = ByName(input, u)
  BY <1>1, TypedParts, FoundInTable
<1>3. DOMAIN apis = 1 .. Len(input.apis)
  BY <1>1, TypedParts DEF ApisAt
<1> QED BY <1>1, <1>2, <1>3

LEMMA OwnersIn ==
  ASSUME NEW x \in Inputs, NEW t, DOMAIN t = 1 .. Len(x.apis), NEW n
  PROVE  /\ TestsAt(x, t, n) =>
              \A j \in 1 .. n : First(ByUsr(x, x.tests[j].usr)) \in DOMAIN t
         /\ ContractsAt(x, t, n) =>
              \A j \in 1 .. n : First(ByUsr(x, x.contracts[j].usr)) \in DOMAIN t
<1>1. \A u : ByUsr(x, u) # {} => First(ByUsr(x, u)) \in DOMAIN t
  BY Owners
<1> QED BY <1>1 DEF TestsAt, ContractsAt

LEMMA ApisKept ==
  ASSUME NEW x, NEW n, NEW t, NEW u, ApisAt(x, t, n), Len(u) = Len(t), DOMAIN t = 1 .. n,
         \A i \in DOMAIN t : u[i].usr = t[i].usr /\ u[i].name = t[i].name
  PROVE  ApisAt(x, u, n)
BY DEF ApisAt

LEMMA DescribedLoadApi ==
  ASSUME Typed, Described, LoadApi, ~err'
  PROVE  Described'
<1> DEFINE r == input.apis[row]
           n == row - 1
<1>1. /\ RowOf("apis") /\ ~r.bad /\ apis' = Append(apis, NewApi(r))
      /\ input' = input /\ pc' = pc /\ opened' = opened /\ faults' = faults
      /\ findings' = findings
  BY DEF LoadApi, Refuse, Accept
<1>2. /\ n \in Nat /\ n + 1 = row /\ n < Len(input.apis)
      /\ ReadApis = n /\ ReadApis' = row /\ ReadFaults' = ReadFaults
      /\ ReadOutcomes' = ReadOutcomes
      /\ ReadTests' = 0 /\ ReadContracts' = 0 /\ ReadTraces' = 0 /\ ReadCalls' = 0
  BY <1>1, ReadsOn
<1>3. ApisAt(input, apis, n) /\ FreshAt(input, apis)
  <2>1. pc = "apis"
    BY <1>1 DEF RowOf
  <2> QED BY <1>2, <2>1 DEF Described, ApiTable
<1>4. input \in Inputs /\ Len(input.apis) \in Nat /\ apis \in Seq(ApiRecord) /\ Len(apis) = n
  BY <1>3, TypedParts, ApiRows DEF ApisAt
<1>5. r.name \in Text /\ r.usr \in Text
  BY <1>1, <1>4, RowInFile, ApiRows
<1> DEFINE a == NewApi(r)
           w == Append(apis, a)
<1>6. a \in ApiRecord /\ a.usr = r.usr /\ a.name = r.name
  BY <1>5 DEF NewApi, ApiRecord
<1>7. a = NewApi(input.apis[row])
  OBVIOUS
<1> HIDE DEF a, n
<1>8. /\ Len(w) = row /\ DOMAIN w = 1 .. row /\ w[row] = a
      /\ \A i \in 1 .. n : w[i] = apis[i] /\ i \in DOMAIN apis
      /\ \A i \in 1 .. row : i = row \/ i \in 1 .. n
  BY <1>2, <1>4, <1>6
<1>9. w = apis'
  BY <1>1, <1>7
<1> HIDE DEF w
<1>10. ApisAt(input, w, row)
  <2>1. row <= Len(input.apis)
    BY <1>2, <1>4
  <2>2. ASSUME NEW i \in 1 .. row
        PROVE  /\ ~input.apis[i].bad /\ w[i].usr = input.apis[i].usr
               /\ w[i].name = input.apis[i].name
    <3>1. CASE i = row
      BY <1>1, <1>6, <1>8, <3>1
    <3>2. CASE i \in 1 .. n
      BY <1>3, <1>8, <3>2 DEF ApisAt
    <3> QED BY <1>8, <3>1, <3>2
  <2> QED BY <1>8, <2>1, <2>2, Zenon DEF ApisAt
<1>11. FreshAt(input, w)
  BY <1>3, <1>7, <1>8 DEF FreshAt
<1>12. /\ TestsAt(input, w, 0) /\ ContractsAt(input, w, 0) /\ TracesAt(input, w, 0)
       /\ CallsAt(input, w, 0)
  BY <1>4, <1>11, FreshTables
<1>13. ApiTable'
  BY <1>1, <1>2, <1>9, <1>10, <1>12 DEF ApiTable
<1>14. FaultTable'
  BY <1>1, <1>2 DEF Described, FaultTable
<1> QED BY <1>1, <1>9, <1>11, <1>13, <1>14, DescribedEarly

LEMMA DescribedLoadTest ==
  ASSUME Typed, Described, LoadTest, ~err'
  PROVE  Described'
<1> DEFINE r == input.tests[row]
           n == row - 1
           k == First(HasUsr(r.usr))
<1>1. /\ RowOf("tests") /\ ~r.bad /\ HasUsr(r.usr) # {} /\ ~apis[k].tested
      /\ apis' = [apis EXCEPT ![k] = [@ EXCEPT !.tested = TRUE, !.faultTest = r.fault]]
      /\ input' = input /\ pc' = pc /\ opened' = opened /\ faults' = faults
      /\ findings' = findings
  BY DEF LoadTest, Refuse, Accept
<1>2. /\ n \in Nat /\ n + 1 = row /\ n < Len(input.tests)
      /\ ReadTests = n /\ ReadTests' = row
      /\ ReadApis = Len(input.apis) /\ ReadApis' = ReadApis
      /\ ReadContracts' = ReadContracts /\ ReadTraces' = ReadTraces /\ ReadCalls' = ReadCalls
      /\ ReadFaults' = ReadFaults /\ ReadOutcomes' = ReadOutcomes
  BY <1>1, ReadsOn
<1>3. ApiTable /\ FaultTable
  BY DEF Described
<1>4. /\ HasUsr(r.usr) = ByUsr(input, r.usr) /\ ApisAt(input, apis, Len(input.apis))
      /\ DOMAIN apis = 1 .. Len(input.apis)
  BY <1>2, <1>3, Known
<1>5. input \in Inputs /\ apis \in Seq(ApiRecord)
  BY TypedParts
<1>6. k \in DOMAIN apis
  BY <1>1, <1>5, OwnerInTable
<1> DEFINE w == [apis EXCEPT ![k] = [@ EXCEPT !.tested = TRUE, !.faultTest = r.fault]]
<1>7. TestsAt(input, w, row)
  <2>1. k = First(ByUsr(input, input.tests[n + 1].usr)) /\ ~input.tests[n + 1].bad
        /\ ByUsr(input, input.tests[n + 1].usr) # {}
    BY <1>1, <1>2, <1>4
  <2>2. TestsAt(input, apis, n)
    BY <1>2, <1>3 DEF ApiTable
  <2> HIDE DEF k, n
  <2>3. TestsAt(input, [apis EXCEPT ![k] = [@ EXCEPT !.tested = TRUE,
                                             !.faultTest = input.tests[n + 1].fault]], n + 1)
    BY <1>1, <1>2, <1>4, <1>5, <2>1, <2>2, TestRead
  <2> QED BY <1>2, <2>3
<1>8. /\ DOMAIN w = DOMAIN apis /\ Len(w) = Len(apis)
      /\ \A i \in DOMAIN apis : i # k => w[i] = apis[i]
  BY <1>5, <1>6
<1>9. ASSUME NEW i \in DOMAIN apis
      PROVE  /\ w[i].usr = apis[i].usr /\ w[i].name = apis[i].name
             /\ w[i].contract = apis[i].contract
             /\ w[i].needsArguments = apis[i].needsArguments
             /\ w[i].needsResult = apis[i].needsResult
             /\ w[i].instrumented = apis[i].instrumented /\ w[i].traced = apis[i].traced
             /\ w[i].enters = apis[i].enters /\ w[i].exits = apis[i].exits
             /\ w[i].arguments = apis[i].arguments /\ w[i].result = apis[i].result
  <2>1. CASE i = k
    <3> DEFINE a == apis[k]
               f == r.fault
    <3>1. a \in ApiRecord /\ w[k] = [a EXCEPT !.tested = TRUE, !.faultTest = f]
      BY <1>5, <1>6
    <3> HIDE DEF a, f, w
    <3>2. /\ w[k].usr = a.usr /\ w[k].name = a.name /\ w[k].contract = a.contract
          /\ w[k].needsArguments = a.needsArguments /\ w[k].needsResult = a.needsResult
          /\ w[k].instrumented = a.instrumented /\ w[k].traced = a.traced
          /\ w[k].enters = a.enters /\ w[k].exits = a.exits
          /\ w[k].arguments = a.arguments /\ w[k].result = a.result
      BY <3>1 DEF ApiRecord
    <3> QED BY <2>1, <3>2 DEF a
  <2>2. CASE i # k
    BY <1>8, <2>2
  <2> QED BY <2>1, <2>2
<1>10. w = apis'
  BY <1>1
<1> HIDE DEF w
<1>11. ApisAt(input, w, Len(input.apis))
  BY <1>4, <1>8, <1>9, ApisKept
<1>12. ContractsAt(input, w, ReadContracts)
  <2>1. ContractsAt(input, apis, ReadContracts)
    BY <1>3 DEF ApiTable
  <2> QED BY <1>4, <1>5, <1>8, <1>9, <2>1, OwnersIn, ContractsKept
<1>13. TracesAt(input, w, ReadTraces)
  <2>1. TracesAt(input, apis, ReadTraces)
    BY <1>3 DEF ApiTable
  <2> QED BY <1>8, <1>9, <2>1, TracesKept
<1>14. CallsAt(input, w, ReadCalls)
  <2>1. CallsAt(input, apis, ReadCalls)
    BY <1>3 DEF ApiTable
  <2> QED BY <1>8, <1>9, <2>1, CallsKept
<1>15. ApiTable'
  BY <1>1, <1>2, <1>7, <1>10, <1>11, <1>12, <1>13, <1>14 DEF ApiTable
<1>16. FaultTable'
  BY <1>1, <1>2, <1>3 DEF FaultTable
<1> QED BY <1>1, <1>15, <1>16, DescribedEarly

LEMMA DescribedLoadContract ==
  ASSUME Typed, Described, LoadContract, ~err'
  PROVE  Described'
<1> DEFINE r == input.contracts[row]
           n == row - 1
           k == First(HasUsr(r.usr))
<1>1. /\ RowOf("contracts") /\ ~r.bad /\ HasUsr(r.usr) # {} /\ ~apis[k].contract
      /\ apis' = [apis EXCEPT ![k] = [@ EXCEPT !.contract = TRUE, !.needsArguments = r.arguments,
                                             !.needsResult = r.result]]
      /\ input' = input /\ pc' = pc /\ opened' = opened /\ faults' = faults
      /\ findings' = findings
  BY DEF LoadContract, Refuse, Accept
<1>2. /\ n \in Nat /\ n + 1 = row /\ n < Len(input.contracts)
      /\ ReadContracts = n /\ ReadContracts' = row
      /\ ReadApis = Len(input.apis) /\ ReadApis' = ReadApis
      /\ ReadTests' = ReadTests /\ ReadTraces' = ReadTraces /\ ReadCalls' = ReadCalls
      /\ ReadFaults' = ReadFaults /\ ReadOutcomes' = ReadOutcomes
  BY <1>1, ReadsOn
<1>3. ApiTable /\ FaultTable
  BY DEF Described
<1>4. /\ HasUsr(r.usr) = ByUsr(input, r.usr) /\ ApisAt(input, apis, Len(input.apis))
      /\ DOMAIN apis = 1 .. Len(input.apis)
  BY <1>2, <1>3, Known
<1>5. input \in Inputs /\ apis \in Seq(ApiRecord)
  BY TypedParts
<1>6. k \in DOMAIN apis
  BY <1>1, <1>5, OwnerInTable
<1> DEFINE w == [apis EXCEPT ![k] = [@ EXCEPT !.contract = TRUE,
                                              !.needsArguments = r.arguments,
                                              !.needsResult = r.result]]
<1>7. ContractsAt(input, w, row)
  <2>1. k = First(ByUsr(input, input.contracts[n + 1].usr)) /\ ~input.contracts[n + 1].bad
        /\ ByUsr(input, input.contracts[n + 1].usr) # {}
    BY <1>1, <1>2, <1>4
  <2>2. ContractsAt(input, apis, n)
    BY <1>2, <1>3 DEF ApiTable
  <2> HIDE DEF k, n
  <2>3. ContractsAt(input, [apis EXCEPT ![k] = [@ EXCEPT !.contract = TRUE,
                                    !.needsArguments = input.contracts[n + 1].arguments,
                                    !.needsResult = input.contracts[n + 1].result]], n + 1)
    BY <1>1, <1>2, <1>4, <1>5, <2>1, <2>2, ContractRead
  <2> QED BY <1>2, <2>3
<1>8. /\ DOMAIN w = DOMAIN apis /\ Len(w) = Len(apis)
      /\ \A i \in DOMAIN apis : i # k => w[i] = apis[i]
  BY <1>5, <1>6
<1>9. ASSUME NEW i \in DOMAIN apis
      PROVE  /\ w[i].usr = apis[i].usr /\ w[i].name = apis[i].name
             /\ w[i].tested = apis[i].tested /\ w[i].faultTest = apis[i].faultTest
             /\ w[i].instrumented = apis[i].instrumented /\ w[i].traced = apis[i].traced
             /\ w[i].enters = apis[i].enters /\ w[i].exits = apis[i].exits
             /\ w[i].arguments = apis[i].arguments /\ w[i].result = apis[i].result
  <2>1. CASE i = k
    <3> DEFINE a == apis[k]
               f == r.arguments
               g == r.result
    <3>1. /\ a \in ApiRecord
          /\ w[k] = [a EXCEPT !.contract = TRUE, !.needsArguments = f, !.needsResult = g]
      BY <1>5, <1>6
    <3> HIDE DEF a, f, g, w
    <3>2. /\ w[k].usr = a.usr /\ w[k].name = a.name
          /\ w[k].tested = a.tested /\ w[k].faultTest = a.faultTest
          /\ w[k].instrumented = a.instrumented /\ w[k].traced = a.traced
          /\ w[k].enters = a.enters /\ w[k].exits = a.exits
          /\ w[k].arguments = a.arguments /\ w[k].result = a.result
      BY <3>1 DEF ApiRecord
    <3> QED BY <2>1, <3>2 DEF a
  <2>2. CASE i # k
    BY <1>8, <2>2
  <2> QED BY <2>1, <2>2
<1>10. w = apis'
  BY <1>1
<1> HIDE DEF w
<1>11. ApisAt(input, w, Len(input.apis))
  BY <1>4, <1>8, <1>9, ApisKept
<1>12. TestsAt(input, w, ReadTests)
  <2>1. TestsAt(input, apis, ReadTests)
    BY <1>3 DEF ApiTable
  <2> QED BY <1>4, <1>5, <1>8, <1>9, <2>1, OwnersIn, TestsKept
<1>13. TracesAt(input, w, ReadTraces)
  <2>1. TracesAt(input, apis, ReadTraces)
    BY <1>3 DEF ApiTable
  <2> QED BY <1>8, <1>9, <2>1, TracesKept
<1>14. CallsAt(input, w, ReadCalls)
  <2>1. CallsAt(input, apis, ReadCalls)
    BY <1>3 DEF ApiTable
  <2> QED BY <1>8, <1>9, <2>1, CallsKept
<1>15. ApiTable'
  BY <1>1, <1>2, <1>7, <1>10, <1>11, <1>12, <1>13, <1>14 DEF ApiTable
<1>16. FaultTable'
  BY <1>1, <1>2, <1>3 DEF FaultTable
<1> QED BY <1>1, <1>15, <1>16, DescribedEarly

LEMMA DescribedLoadTrace ==
  ASSUME Typed, Described, LoadTrace, ~err'
  PROVE  Described'
<1> DEFINE r == input.traces[row]
           n == row - 1
           k == First(HasUsr(r.usr))
           w == IF ~r.ours THEN apis
                ELSE [apis EXCEPT ![k] = [@ EXCEPT !.instrumented = TRUE, !.traced = r.env]]
<1>1. /\ RowOf("traces") /\ ~r.bad /\ (r.ours => HasUsr(r.usr) # {})
      /\ apis' = w
      /\ input' = input /\ pc' = pc /\ opened' = opened /\ faults' = faults
      /\ findings' = findings
  BY DEF LoadTrace, Refuse, Accept
<1>2. /\ n \in Nat /\ n + 1 = row /\ n < Len(input.traces)
      /\ ReadTraces = n /\ ReadTraces' = row
      /\ ReadApis = Len(input.apis) /\ ReadApis' = ReadApis
      /\ ReadTests' = ReadTests /\ ReadContracts' = ReadContracts /\ ReadCalls' = ReadCalls
      /\ ReadFaults' = ReadFaults /\ ReadOutcomes' = ReadOutcomes
  BY <1>1, ReadsOn
<1>3. ApiTable /\ FaultTable
  BY DEF Described
<1>4. /\ HasUsr(r.usr) = ByUsr(input, r.usr) /\ ApisAt(input, apis, Len(input.apis))
      /\ DOMAIN apis = 1 .. Len(input.apis)
  BY <1>2, <1>3, Known
<1>5. input \in Inputs /\ apis \in Seq(ApiRecord)
  BY TypedParts
<1>6. r.ours => k \in DOMAIN apis
  BY <1>1, <1>5, OwnerInTable
<1>7. TracesAt(input, w, row)
  <2>1. /\ k = First(ByUsr(input, input.traces[n + 1].usr)) /\ ~input.traces[n + 1].bad
        /\ input.traces[n + 1].ours =>
             ByUsr(input, input.traces[n + 1].usr) # {} /\ k \in DOMAIN apis
    BY <1>1, <1>2, <1>4, <1>6
  <2>2. TracesAt(input, apis, n)
    BY <1>2, <1>3 DEF ApiTable
  <2>3. w = IF ~input.traces[n + 1].ours THEN apis
            ELSE [apis EXCEPT ![k] = [@ EXCEPT !.instrumented = TRUE,
                                               !.traced = input.traces[n + 1].env]]
    BY <1>2
  <2> HIDE DEF k, n, w
  <2>4. TracesAt(input, w, n + 1)
    BY <1>1, <1>2, <1>5, <2>1, <2>2, <2>3, TraceRead
  <2> QED BY <1>2, <2>4
<1>8. /\ DOMAIN w = DOMAIN apis /\ Len(w) = Len(apis)
      /\ \A i \in DOMAIN apis : ~(r.ours /\ i = k) => w[i] = apis[i]
  <2>1. CASE r.ours
    <3>1. w = [apis EXCEPT ![k] = [@ EXCEPT !.instrumented = TRUE, !.traced = r.env]]
      BY <2>1
    <3> HIDE DEF w, k
    <3> QED BY <1>5, <2>1, <3>1
  <2>2. CASE ~r.ours
    BY <2>2
  <2> QED BY <2>1, <2>2
<1>9. ASSUME NEW i \in DOMAIN apis
      PROVE  /\ w[i].usr = apis[i].usr /\ w[i].name = apis[i].name
             /\ w[i].tested = apis[i].tested /\ w[i].faultTest = apis[i].faultTest
             /\ w[i].contract = apis[i].contract
             /\ w[i].needsArguments = apis[i].needsArguments
             /\ w[i].needsResult = apis[i].needsResult
             /\ w[i].enters = apis[i].enters /\ w[i].exits = apis[i].exits
             /\ w[i].arguments = apis[i].arguments /\ w[i].result = apis[i].result
  <2>1. CASE r.ours /\ i = k
    <3> DEFINE a == apis[k]
               f == r.env
    <3>1. a \in ApiRecord /\ w[k] = [a EXCEPT !.instrumented = TRUE, !.traced = f]
      BY <1>5, <1>6, <2>1
    <3> HIDE DEF a, f, w
    <3>2. /\ w[k].usr = a.usr /\ w[k].name = a.name
          /\ w[k].tested = a.tested /\ w[k].faultTest = a.faultTest
          /\ w[k].contract = a.contract
          /\ w[k].needsArguments = a.needsArguments /\ w[k].needsResult = a.needsResult
          /\ w[k].enters = a.enters /\ w[k].exits = a.exits
          /\ w[k].arguments = a.arguments /\ w[k].result = a.result
      BY <3>1 DEF ApiRecord
    <3> QED BY <2>1, <3>2 DEF a
  <2>2. CASE ~(r.ours /\ i = k)
    BY <1>8, <2>2
  <2> QED BY <2>1, <2>2
<1>10. w = apis'
  BY <1>1
<1> HIDE DEF w
<1>11. ApisAt(input, w, Len(input.apis))
  BY <1>4, <1>8, <1>9, ApisKept
<1>12. TestsAt(input, w, ReadTests) /\ ContractsAt(input, w, ReadContracts)
  <2>1. TestsAt(input, apis, ReadTests) /\ ContractsAt(input, apis, ReadContracts)
    BY <1>3 DEF ApiTable
  <2>2. TestsAt(input, w, ReadTests)
    BY <1>4, <1>5, <1>8, <1>9, <2>1, OwnersIn, TestsKept
  <2>3. ContractsAt(input, w, ReadContracts)
    BY <1>4, <1>5, <1>8, <1>9, <2>1, OwnersIn, ContractsKept
  <2> QED BY <2>2, <2>3
<1>13. CallsAt(input, w, ReadCalls)
  <2>1. CallsAt(input, apis, ReadCalls)
    BY <1>3 DEF ApiTable
  <2> QED BY <1>8, <1>9, <2>1, CallsKept
<1>14. ApiTable'
  BY <1>1, <1>2, <1>7, <1>10, <1>11, <1>12, <1>13 DEF ApiTable
<1>15. FaultTable'
  BY <1>1, <1>2, <1>3 DEF FaultTable
<1> QED BY <1>1, <1>14, <1>15, DescribedEarly

LEMMA DescribedLoadCall ==
  ASSUME Typed, Described, LoadCall, ~err'
  PROVE  Described'
<1> DEFINE r == input.calls[row]
           n == row - 1
           k == First(HasName(r.name))
           w == IF HasName(r.name) = {} THEN apis ELSE [apis EXCEPT ![k] = Tally(@, r)]
<1>1. /\ RowOf("calls") /\ ~r.bad /\ apis' = w
      /\ input' = input /\ pc' = pc /\ opened' = opened /\ faults' = faults
      /\ findings' = findings
  BY DEF LoadCall, Refuse, Accept
<1>2. /\ n \in Nat /\ n + 1 = row /\ n < Len(input.calls)
      /\ ReadCalls = n /\ ReadCalls' = row
      /\ ReadApis = Len(input.apis) /\ ReadApis' = ReadApis
      /\ ReadTests' = ReadTests /\ ReadContracts' = ReadContracts /\ ReadTraces' = ReadTraces
      /\ ReadFaults' = ReadFaults /\ ReadOutcomes' = ReadOutcomes
  BY <1>1, ReadsOn
<1>3. ApiTable /\ FaultTable
  BY DEF Described
<1>4. /\ HasName(r.name) = ByName(input, r.name) /\ ApisAt(input, apis, Len(input.apis))
      /\ DOMAIN apis = 1 .. Len(input.apis)
  BY <1>2, <1>3, Known
<1>5. input \in Inputs /\ apis \in Seq(ApiRecord)
  BY TypedParts
<1>6. HasName(r.name) # {} => k \in DOMAIN apis
  BY <1>1, <1>5, OwnerInTable
<1>7. CallsAt(input, w, row)
  <2>1. /\ k = First(ByName(input, input.calls[n + 1].name)) /\ ~input.calls[n + 1].bad
        /\ ByName(input, input.calls[n + 1].name) # {} => k \in DOMAIN apis
    BY <1>1, <1>2, <1>4, <1>6
  <2>2. CallsAt(input, apis, n)
    BY <1>2, <1>3 DEF ApiTable
  <2>3. w = IF ByName(input, input.calls[n + 1].name) = {} THEN apis
            ELSE [apis EXCEPT ![k] = Tally(@, input.calls[n + 1])]
    BY <1>2, <1>4
  <2> HIDE DEF k, n, w
  <2>4. CallsAt(input, w, n + 1)
    BY <1>1, <1>2, <1>5, <2>1, <2>2, <2>3, CallRead
  <2> QED BY <1>2, <2>4
<1>8. /\ DOMAIN w = DOMAIN apis /\ Len(w) = Len(apis)
      /\ \A i \in DOMAIN apis : ~(HasName(r.name) # {} /\ i = k) => w[i] = apis[i]
  <2>1. CASE HasName(r.name) # {}
    <3>1. w = [apis EXCEPT ![k] = Tally(@, r)]
      BY <2>1
    <3> HIDE DEF w, k
    <3> QED BY <1>5, <2>1, <3>1
  <2>2. CASE HasName(r.name) = {}
    BY <2>2
  <2> QED BY <2>1, <2>2
<1>9. ASSUME NEW i \in DOMAIN apis
      PROVE  /\ w[i].usr = apis[i].usr /\ w[i].name = apis[i].name
             /\ w[i].tested = apis[i].tested /\ w[i].faultTest = apis[i].faultTest
             /\ w[i].contract = apis[i].contract
             /\ w[i].needsArguments = apis[i].needsArguments
             /\ w[i].needsResult = apis[i].needsResult
             /\ w[i].instrumented = apis[i].instrumented /\ w[i].traced = apis[i].traced
  <2>1. CASE HasName(r.name) # {} /\ i = k
    <3>1. apis[i] \in ApiRecord /\ w[i] = Tally(apis[i], r)
      BY <1>5, <2>1
    <3>2. r.logged \in BOOLEAN /\ r.present \in BOOLEAN
      BY <1>1, <1>5, RowInFile, CallRows
    <3> HIDE DEF w, r
    <3> QED BY <3>1, <3>2, TallyColumns
  <2>2. CASE ~(HasName(r.name) # {} /\ i = k)
    BY <1>8, <2>2
  <2> QED BY <2>1, <2>2
<1>10. w = apis'
  BY <1>1
<1> HIDE DEF w
<1>11. ApisAt(input, w, Len(input.apis))
  BY <1>4, <1>8, <1>9, ApisKept
<1>12. TestsAt(input, w, ReadTests) /\ ContractsAt(input, w, ReadContracts)
  <2>1. TestsAt(input, apis, ReadTests) /\ ContractsAt(input, apis, ReadContracts)
    BY <1>3 DEF ApiTable
  <2>2. TestsAt(input, w, ReadTests)
    BY <1>4, <1>5, <1>8, <1>9, <2>1, OwnersIn, TestsKept
  <2>3. ContractsAt(input, w, ReadContracts)
    BY <1>4, <1>5, <1>8, <1>9, <2>1, OwnersIn, ContractsKept
  <2> QED BY <2>2, <2>3
<1>13. TracesAt(input, w, ReadTraces)
  <2>1. TracesAt(input, apis, ReadTraces)
    BY <1>3 DEF ApiTable
  <2> QED BY <1>8, <1>9, <2>1, TracesKept
<1>14. ApiTable'
  BY <1>1, <1>2, <1>7, <1>10, <1>11, <1>12, <1>13 DEF ApiTable
<1>15. FaultTable'
  BY <1>1, <1>2, <1>3 DEF FaultTable
<1> QED BY <1>1, <1>14, <1>15, DescribedEarly

\* No symbol was missed, or the run has failed: the faults of the row are due.
LEMMA DescribedLoadFault ==
  ASSUME Typed, Described, LoadFault, ~err'
  PROVE  Described'
<1> DEFINE r == input.faults[row]
           n == row - 1
           m == Expected(r, {})
<1>1. /\ RowOf("faults") /\ ~r.bad /\ faults' = faults \o m
      /\ input' = input /\ pc' = pc /\ opened' = opened /\ apis' = apis
      /\ findings' = findings
  BY DEF LoadFault, Refuse
<1>2. /\ n \in Nat /\ n + 1 = row /\ n < Len(input.faults)
      /\ ReadFaults = n /\ ReadFaults' = row /\ ReadApis' = ReadApis
      /\ ReadTests' = ReadTests /\ ReadContracts' = ReadContracts
      /\ ReadTraces' = ReadTraces /\ ReadCalls' = ReadCalls
      /\ ReadOutcomes = 0 /\ ReadOutcomes' = 0
  BY <1>1, ReadsOn
<1>3. FaultsAt(input, faults, n) /\ OutcomesAt(input, faults, 0) /\ ApiTable
  BY <1>2 DEF Described, FaultTable
<1>4. input \in Inputs /\ faults \in Seq(FaultRecord)
  BY TypedParts
<1>5. FaultsAt(input, faults \o m, row)
  <2>1. m = Expected(input.faults[n + 1], {}) /\ ~input.faults[n + 1].bad
    BY <1>1, <1>2
  <2> HIDE DEF m, n
  <2>2. FaultsAt(input, faults \o m, n + 1)
    BY <1>2, <1>3, <1>4, <2>1, FaultRead
  <2> QED BY <1>2, <2>2
<1>6. OutcomesAt(input, faults \o m, 0)
  <2>1. r \in FaultRow
    BY <1>1, <1>4, RowInFile, FaultRows
  <2>2. PICK o : Stands(m, r, {}, Len(r.symbols), o)
    BY <2>1, ExpectedIs
  <2>3. m \in Seq(FaultRecord) /\ \A y \in DOMAIN m : m[y] = Entry(r, o[y])
    BY <2>2 DEF Stands
  <2>4. ASSUME NEW y \in DOMAIN m PROVE ~m[y].observed
    <3>1. Entry(r, o[y]).observed = FALSE
      BY ONLY TRUE DEF Entry
    <3> QED BY <2>3, <3>1
  <2>5. \A y \in DOMAIN faults : ~faults[y].observed
    BY <1>3 DEF OutcomesAt
  <2> DEFINE w == faults \o m
  <2>6. ASSUME NEW y \in DOMAIN w PROVE ~w[y].observed
    <3> HIDE DEF m
    <3>1. CASE y \in DOMAIN faults
      BY <1>4, <2>3, <2>5, <3>1
    <3>2. CASE y \notin DOMAIN faults
      <4>1. y - Len(faults) \in DOMAIN m /\ w[y] = m[y - Len(faults)]
        BY <1>4, <2>3, <3>2
      <4> QED BY <2>4, <4>1
    <3> QED BY <3>1, <3>2
  <2>7. 0 <= Len(input.outcomes) /\ 1 .. 0 = {}
    BY <1>4, OutcomeRows
  <2> HIDE DEF w, m
  <2>8. OutcomesAt(input, w, 0)
    BY <2>6, <2>7 DEF OutcomesAt
  <2> QED BY <2>8 DEF w
<1>7. FaultTable'
  BY <1>1, <1>2, <1>5, <1>6 DEF FaultTable
<1>8. ApiTable'
  BY <1>1, <1>2, <1>3 DEF ApiTable
<1> QED BY <1>1, <1>7, <1>8, DescribedEarly

LEMMA DescribedLoadOutcome ==
  ASSUME Typed, Described, LoadOutcome, ~err'
  PROVE  Described'
<1> DEFINE r == input.outcomes[row]
           n == row - 1
           y == First(Match(faults, r))
<1>1. /\ RowOf("outcomes") /\ ~r.bad /\ input' = input /\ pc' = pc /\ opened' = opened
      /\ apis' = apis
      /\ \/ /\ Awaiting(r) = {} /\ findings' = findings + 1 /\ faults' = faults
         \/ /\ Awaiting(r) # {}
            /\ findings' = (IF r.pass THEN findings ELSE findings + 1)
            /\ faults' = [faults EXCEPT ![First(Matching(r))].observed = TRUE]
  BY DEF LoadOutcome, Refuse, Accept
<1>2. /\ n \in Nat /\ n + 1 = row /\ n < Len(input.outcomes)
      /\ ReadOutcomes = n /\ ReadOutcomes' = row /\ ReadApis' = ReadApis
      /\ ReadTests' = ReadTests /\ ReadContracts' = ReadContracts
      /\ ReadTraces' = ReadTraces /\ ReadCalls' = ReadCalls /\ ReadFaults' = ReadFaults
  BY <1>1, ReadsOn
<1>3. pc = "outcomes"
  BY <1>1 DEF RowOf
<1>4. /\ ApiTable /\ FaultsAt(input, faults, ReadFaults) /\ OutcomesAt(input, faults, n)
      /\ findings = 0 <=> Clean(input, faults, n)
  BY <1>2, <1>3 DEF Described, FaultTable, Judged
<1>5. /\ input \in Inputs /\ faults \in Seq(FaultRecord) /\ findings \in Nat
      /\ findings + 1 # 0
  <2>1. input \in Inputs /\ faults \in Seq(FaultRecord) /\ findings \in Nat
    BY TypedParts
  <2> QED BY <2>1
<1>6. r = input.outcomes[n + 1]
  BY <1>2
<1>7. Matching(r) = Match(faults, r)
  BY DEF Matching, Match
<1>8. ApiTable'
  BY <1>1, <1>2, <1>4 DEF ApiTable
<1>9. FaultTable' /\ (findings' = 0 <=> Clean(input', faults', row))
  <2>1. CASE Awaiting(r) = {}
    <3>1. Match(faults, r) = {} \/ faults[y].observed
      <4>1. ASSUME Match(faults, r) # {}, ~faults[y].observed PROVE FALSE
        <5>1. y \in Match(faults, r)
          BY <1>5, <4>1, MatchIs
        <5> QED BY <1>7, <2>1, <4>1, <5>1 DEF Awaiting
      <4> QED BY <4>1
    <3>2. y = First(Match(faults, input.outcomes[n + 1])) /\ ~input.outcomes[n + 1].bad
          /\ (Match(faults, input.outcomes[n + 1]) = {} \/ faults[y].observed)
      BY <1>1, <1>6, <3>1
    <3> HIDE DEF n, y
    <3>3. OutcomesAt(input, faults, n + 1) /\ ~Clean(input, faults, n + 1)
      BY <1>2, <1>4, <1>5, <3>2, UnawaitedOutcome
    <3>4. OutcomesAt(input, faults, row) /\ ~Clean(input, faults, row)
      BY <1>2, <3>3
    <3>5. findings' # 0 /\ faults' = faults
      BY <1>1, <1>5, <2>1
    <3> QED BY <1>1, <1>2, <1>4, <3>4, <3>5 DEF FaultTable
  <2>2. CASE Awaiting(r) # {}
    <3>1. Match(faults, r) # {} /\ ~faults[y].observed
      BY <1>7, <2>2 DEF Awaiting
    <3> DEFINE g == [faults EXCEPT ![y].observed = TRUE]
    <3>2. /\ y = First(Match(faults, input.outcomes[n + 1])) /\ ~input.outcomes[n + 1].bad
          /\ Match(faults, input.outcomes[n + 1]) # {} /\ ~faults[y].observed
          /\ g = [faults EXCEPT ![y].observed = TRUE]
      BY <1>1, <1>6, <3>1
    <3>3. faults' = g /\ findings' = (IF r.pass THEN findings ELSE findings + 1)
      BY <1>1, <1>7, <2>2
    <3> HIDE DEF n, y, g
    <3>4. /\ OutcomesAt(input, g, n + 1) /\ DOMAIN g = DOMAIN faults
          /\ \A z \in DOMAIN faults : /\ g[z].wrapper = faults[z].wrapper
                                      /\ g[z].symbol = faults[z].symbol
          /\ Clean(input, g, n + 1) <=> Clean(input, faults, n) /\ input.outcomes[n + 1].pass
      <4>1. OutcomesAt(input, faults, n)
        BY <1>4
      <4>2. OutcomesAt(input, g, n + 1) /\ DOMAIN g = DOMAIN faults
        BY <1>2, <1>5, <3>2, <4>1, AwaitedOutcome
      <4>3. \A z \in DOMAIN faults : /\ g[z].wrapper = faults[z].wrapper
                                     /\ g[z].symbol = faults[z].symbol
        BY <1>2, <1>5, <3>2, <4>1, AwaitedOutcome
      <4>4. Clean(input, faults, n + 1) <=> Clean(input, faults, n) /\ input.outcomes[n + 1].pass
        BY <1>2, <1>5, <3>2, <4>1, AwaitedClean
      <4>5. Clean(input, g, n + 1) <=> Clean(input, faults, n + 1)
        BY <4>2, <4>3, CleanKept
      <4> QED BY <4>2, <4>3, <4>4, <4>5
    <3>5. FaultsAt(input, g, ReadFaults)
      BY <1>4, <3>4, FaultsKept
    <3>6. FaultTable'
      BY <1>1, <1>2, <3>3, <3>4, <3>5 DEF FaultTable
    <3>7. Clean(input, g, row) <=> Clean(input, faults, n) /\ r.pass
      BY <1>2, <3>4
    <3>8. findings' = 0 <=> findings = 0 /\ r.pass
      BY <1>5, <3>3
    <3> QED BY <1>1, <1>4, <3>3, <3>6, <3>7, <3>8
  <2> QED BY <2>1, <2>2
<1>10. pc' = "outcomes"
  BY <1>1, <1>3
<1>11. findings' = 0 <=> Clean(input, faults, ReadOutcomes)' /\ (Judged' => (Gaps = 0)')
  BY <1>2, <1>9, <1>10 DEF Judged
<1>12. /\ pc' # "parse" /\ pc' \notin {"parse", "apis"}
       /\ pc' \notin {"report error", "done"}
  BY <1>10
<1> QED BY <1>8, <1>9, <1>11, <1>12 DEF Described

-----------------------------------------------------------------------------
(* The steps that read no row, and the invariant.                            *)

LEMMA SameGaps ==
  ASSUME apis' = apis, faults' = faults
  PROVE  Gaps' = Gaps
BY DEF Gaps, Count

LEMMA KeptDescription ==
  ASSUME Described, Reads' = Reads, input' = input, apis' = apis, faults' = faults,
         findings' = findings, Judged' <=> Judged
  PROVE  /\ ApiTable' /\ FaultTable'
         /\ findings' = 0 <=> Clean(input, faults, ReadOutcomes)' /\ (Judged' => (Gaps = 0)')
<1>1. ApiTable' /\ FaultTable'
  BY KeptTables DEF Described
<1>2. ReadOutcomes' = ReadOutcomes
  BY SameReads
<1>3. Gaps' = Gaps
  BY SameGaps
<1>4. findings = 0 <=> Clean(input, faults, ReadOutcomes) /\ (Judged => Gaps = 0)
  BY DEF Described
<1> HIDE DEF Judged
<1> QED BY <1>1, <1>2, <1>3, <1>4

LEMMA DescribedParse ==
  ASSUME Typed, Described, ParseArguments, ~err', ~input'.help
  PROVE  Described'
<1>1. /\ pc = "parse" /\ pc' = "apis" /\ input' = input /\ opened' = opened /\ row' = row
      /\ apis' = apis /\ faults' = faults /\ findings' = findings
  BY DEF ParseArguments, tables, Files
<1>2. opened = FALSE /\ opened' = FALSE
  BY <1>1 DEF Described, Typed
<1>3. Here = 0 /\ Here' = 0
  BY <1>2 DEF Here
<1>4. Reads' = Reads
  BY <1>1, <1>3 DEF Reads, ReadApis, ReadTests, ReadContracts, ReadFaults, ReadTraces, ReadCalls,
     ReadOutcomes
<1>5. Judged' <=> Judged
  BY <1>1 DEF Judged
<1>6. FreshAt(input, apis)'
  BY <1>1 DEF Described
<1>7. pc' # "parse" /\ pc' \notin {"report error", "done"}
  BY <1>1
<1> QED BY <1>1, <1>4, <1>5, <1>6, <1>7, KeptDescription DEF Described

LEMMA DescribedOpen ==
  ASSUME Typed, Described, Open, ~err'
  PROVE  Described'
<1>1. /\ Reading /\ pc' = pc /\ input' = input /\ opened = FALSE /\ opened' = TRUE /\ row' = 1
      /\ apis' = apis /\ faults' = faults /\ findings' = findings
  BY DEF Open, tables, Typed
<1>2. pc \in {"apis", "tests", "contracts", "faults", "traces", "calls", "outcomes"}
  BY <1>1, FilesAre
<1>3. Here = 0 /\ Here' = 0
  <2>1. Here = 0
    BY <1>1 DEF Here
  <2>2. Here' = row' - 1
    BY <1>1 DEF Here
  <2>3. row' = 1
    BY <1>1
  <2> QED BY <2>1, <2>2, <2>3
<1>4. Reads' = Reads
  BY <1>1, <1>3 DEF Reads, ReadApis, ReadTests, ReadContracts, ReadFaults, ReadTraces, ReadCalls,
     ReadOutcomes
<1>5. Judged' <=> Judged
  BY <1>1 DEF Judged
<1>6. pc' \in {"parse", "apis"} => FreshAt(input, apis)'
  BY <1>1 DEF Described
<1>7. pc' # "parse" /\ pc' \notin {"report error", "done"}
  BY <1>1, <1>2
<1> QED BY <1>1, <1>4, <1>5, <1>6, <1>7, KeptDescription DEF Described

LEMMA DescribedEndOfFile ==
  ASSUME Typed, Described, EndOfFile, ~err'
  PROVE  Described'
<1>1. /\ Reading /\ pc' = After(pc) /\ input' = input
      /\ apis' = apis /\ faults' = faults /\ findings' = findings
  BY DEF EndOfFile, tables
<1>2. pc \in {"apis", "tests", "contracts", "faults", "traces", "calls", "outcomes"}
  BY <1>1, FilesAre
<1>3. pc' \in {"tests", "contracts", "faults", "traces", "calls", "outcomes", "validate"}
  BY <1>1, <1>2, FilesAre
<1>4. Reads' = Reads
  BY ReadsAtEnd DEF Described
<1>5. Judged' <=> Judged
  BY <1>2, <1>3 DEF Judged
<1>6. pc' \notin {"parse", "apis"} /\ pc' # "parse" /\ pc' \notin {"report error", "done"}
  BY <1>3
<1> QED BY <1>1, <1>4, <1>5, <1>6, KeptDescription DEF Described

LEMMA DescribedValidate ==
  ASSUME Typed, Described, ValidateConformance
  PROVE  Described'
<1>1. /\ pc = "validate" /\ pc' = "receipt" /\ input' = input /\ apis' = apis
      /\ faults' = faults /\ findings' = findings + Gaps
  BY DEF ValidateConformance
<1>2. Reads' = Reads
  BY <1>1 DEF Reads, ReadApis, ReadTests, ReadContracts, ReadFaults, ReadTraces, ReadCalls,
     ReadOutcomes
<1>3. ApiTable' /\ FaultTable' /\ ReadOutcomes' = ReadOutcomes
  BY <1>1, <1>2, KeptTables, SameReads DEF Described
<1>4. Gaps' = Gaps /\ Gaps \in Nat
  BY <1>1, SameGaps, GapsAre
<1>5. findings = 0 <=> Clean(input, faults, ReadOutcomes)
  BY <1>1 DEF Described, Judged
<1>6. findings' = 0 <=> findings = 0 /\ Gaps = 0
  BY <1>1, <1>4, TypedParts
<1>7. findings' = 0 <=> Clean(input, faults, ReadOutcomes)' /\ (Judged' => (Gaps = 0)')
  BY <1>1, <1>3, <1>4, <1>5, <1>6 DEF Judged
<1>8. pc' \notin {"parse", "apis"} /\ pc' # "parse" /\ pc' \notin {"report error", "done"}
  BY <1>1
<1> QED BY <1>3, <1>7, <1>8 DEF Described

LEMMA DescribedWriteReceipt ==
  ASSUME Typed, Described, WriteReceipt, ~err'
  PROVE  Described'
<1>1. /\ pc = "receipt" /\ pc' = "report error" /\ input' = input /\ apis' = apis
      /\ faults' = faults /\ findings' = findings /\ observed' = observed
      /\ receipt' = Receipt /\ status' = StatusWritten
  BY DEF WriteReceipt, tables
<1>2. Reads' = Reads
  BY <1>1 DEF Reads, ReadApis, ReadTests, ReadContracts, ReadFaults, ReadTraces, ReadCalls,
     ReadOutcomes
<1>3. Judged' <=> Judged
  BY <1>1 DEF Judged
<1>4. StatusWritten' = StatusWritten
  BY <1>1 DEF StatusWritten
<1>5. Receipt' = Receipt
  BY <1>1 DEF Receipt, Count
<1>6. pc' \notin {"parse", "apis"} /\ pc' # "parse"
  BY <1>1
<1> QED BY <1>1, <1>2, <1>3, <1>4, <1>5, <1>6, KeptDescription DEF Described

LEMMA DescribedReportError ==
  ASSUME Typed, Described, ReportError, ~err'
  PROVE  Described'
<1>1. /\ pc = "report error" /\ pc' = "done" /\ input' = input /\ apis' = apis
      /\ faults' = faults /\ findings' = findings /\ observed' = observed
      /\ receipt' = receipt /\ status' = status
  BY DEF ReportError, tables
<1>2. Reads' = Reads
  BY <1>1 DEF Reads, ReadApis, ReadTests, ReadContracts, ReadFaults, ReadTraces, ReadCalls,
     ReadOutcomes
<1>3. Judged' <=> Judged
  BY <1>1 DEF Judged
<1>4. StatusWritten' = StatusWritten
  BY <1>1 DEF StatusWritten
<1>5. Receipt' = Receipt
  BY <1>1 DEF Receipt, Count
<1>6. status = StatusWritten /\ receipt = Receipt
  BY <1>1 DEF Described
<1>7. pc' \notin {"parse", "apis"} /\ pc' # "parse"
  BY <1>1
<1> QED BY <1>1, <1>2, <1>3, <1>4, <1>5, <1>6, <1>7, KeptDescription DEF Described

LEMMA DescribedStutter ==
  ASSUME Described, UNCHANGED vars
  PROVE  Described'
<1>1. /\ pc' = pc /\ input' = input /\ apis' = apis /\ faults' = faults
      /\ findings' = findings /\ observed' = observed /\ opened' = opened /\ row' = row
      /\ receipt' = receipt /\ status' = status
  BY DEF vars
<1>2. Here' = Here
  BY <1>1 DEF Here
<1>3. Reads' = Reads
  BY <1>1, <1>2 DEF Reads, ReadApis, ReadTests, ReadContracts, ReadFaults, ReadTraces, ReadCalls,
     ReadOutcomes
<1>4. Judged' <=> Judged
  BY <1>1 DEF Judged
<1>5. StatusWritten' = StatusWritten
  BY <1>1 DEF StatusWritten
<1>6. Receipt' = Receipt
  BY <1>1 DEF Receipt, Count
<1>7. /\ pc' = "parse" => ~opened'
      /\ pc' \in {"parse", "apis"} => FreshAt(input, apis)'
      /\ pc' \in {"report error", "done"} => status' = StatusWritten' /\ receipt' = Receipt'
  BY <1>1, <1>5, <1>6 DEF Described
<1> QED BY <1>1, <1>3, <1>4, <1>7, KeptDescription DEF Described

LEMMA InitIInv == Init => IInv
<1> SUFFICES ASSUME Init PROVE IInv
  OBVIOUS
<1>1. Typed
  BY TypedInit
<1>2. /\ pc = "parse" /\ opened = FALSE /\ apis = <<>> /\ faults = <<>> /\ err = FALSE
      /\ input \in Inputs /\ status = Running
  BY DEF Init
<1>3. /\ ReadApis = 0 /\ ReadTests = 0 /\ ReadContracts = 0 /\ ReadFaults = 0 /\ ReadTraces = 0
      /\ ReadCalls = 0 /\ ReadOutcomes = 0
  BY <1>2 DEF ReadApis, ReadTests, ReadContracts, ReadFaults, ReadTraces, ReadCalls,
     ReadOutcomes
<1>4. FreshAt(input, apis)
  BY <1>2 DEF FreshAt
<1>5. ApisAt(input, apis, 0)
  <2>1. Len(apis) = 0 /\ Len(input.apis) \in Nat
    BY <1>2, ApiRows
  <2> QED BY <2>1 DEF ApisAt
<1>6. ApiTable
  BY <1>2, <1>3, <1>4, <1>5, FreshTables DEF ApiTable
<1>7. OutcomesAt(input, faults, 0)
  <2>1. Len(input.outcomes) \in Nat
    BY <1>2, OutcomeRows
  <2>2. DOMAIN faults = {}
    BY <1>2
  <2> QED BY <2>1, <2>2 DEF OutcomesAt
<1>8. FaultTable
  BY <1>2, <1>3, <1>7, NoFaults DEF FaultTable
<1>9. findings = 0 /\ Clean(input, faults, ReadOutcomes) /\ ~Judged
  BY <1>2, <1>3, CleanAtStart DEF Init, Judged
<1>10. pc \notin {"report error", "done"}
  BY <1>2
<1>11. Described
  BY <1>2, <1>4, <1>6, <1>8, <1>9, <1>10 DEF Described
<1>12. Ended
  <2>1. status # 1
    BY <1>2 DEF Running
  <2> QED BY <1>2, <2>1 DEF Ended
<1> QED BY <1>1, <1>11, <1>12 DEF IInv

LEMMA EndedStep ==
  ASSUME Typed, Ended, [Next]_vars
  PROVE  Ended'
<1>1. CASE ParseArguments
  <2>1. input' = input /\ pc' \in {"report error", "apis"} /\ (input.help => pc' = "report error")
    BY <1>1 DEF ParseArguments, Files
  <2>2. status' = IF input.help THEN 0 ELSE 2
    BY <1>1 DEF ParseArguments
  <2>3. input.help => status' # 1
    BY <2>2
  <2> QED BY <2>1, <2>3 DEF Ended
<1>2. CASE Open
  <2>1. Reading /\ input' = input /\ status' = status /\ pc' \in {pc, "report error"}
    BY <1>2 DEF Open, outcome
  <2> QED BY <2>1, FilesAre DEF Ended
<1>3. CASE EndOfFile
  <2>1. Reading /\ input' = input /\ status' = status /\ pc' \in {After(pc), "report error"}
    BY <1>3 DEF EndOfFile, outcome
  <2>2. pc \in {"apis", "tests", "contracts", "faults", "traces", "calls", "outcomes"}
    BY <2>1, FilesAre
  <2>3. pc' # "parse" /\ pc' # "done"
    BY <2>1, <2>2, FilesAre
  <2>4. ~input.help
    BY <2>2 DEF Ended
  <2> QED BY <2>1, <2>3, <2>4 DEF Ended
<1>4. CASE LoadApi \/ LoadTest \/ LoadContract \/ LoadFault \/ LoadTrace \/ LoadCall \/ LoadOutcome
  <2>1. pc \in {"apis", "tests", "contracts", "faults", "traces", "calls", "outcomes"}
    BY <1>4 DEF LoadApi, LoadTest, LoadContract, LoadFault, LoadTrace, LoadCall, LoadOutcome, RowOf
  <2>2. input' = input /\ pc' \in {pc, "report error"}
    BY <1>4 DEF LoadApi, LoadTest, LoadContract, LoadFault, LoadTrace, LoadCall, LoadOutcome,
       Refuse, Accept
  <2>3. ~input.help /\ pc' # "parse" /\ pc' # "done"
    BY <2>1, <2>2 DEF Ended
  <2> QED BY <2>2, <2>3 DEF Ended
<1>5. CASE ValidateConformance \/ WriteReceipt
  <2>1. pc \in {"validate", "receipt"} /\ input' = input /\ pc' \in {"receipt", "report error"}
    BY <1>5 DEF ValidateConformance, WriteReceipt
  <2>2. ~input.help
    BY <2>1 DEF Ended
  <2> QED BY <2>1, <2>2 DEF Ended
<1>6. CASE ReportError
  <2>1. pc = "report error" /\ pc' = "done" /\ input' = input /\ err' = err
        /\ status' = IF err THEN 2 ELSE status
    BY <1>6 DEF ReportError
  <2>2. 2 # 1
    OBVIOUS
  <2> QED BY <2>1, <2>2 DEF Ended
<1>7. CASE Finished \/ UNCHANGED vars
  <2>1. input' = input /\ pc' = pc /\ err' = err /\ status' = status
    BY <1>7 DEF Finished, vars
  <2> QED BY <2>1 DEF Ended
<1> QED BY <1>1, <1>2, <1>3, <1>4, <1>5, <1>6, <1>7 DEF Next

\* An error that was noticed stays noticed.
LEMMA ErrorStays ==
  ASSUME Ended, [Next]_vars, Sound'
  PROVE  Sound
<1>1. CASE ParseArguments
  BY <1>1 DEF ParseArguments, Sound, Ended
<1>2. CASE Open \/ EndOfFile
  <2>1. CASE Open
    <3>1. input' = input /\ (err' = err \/ err' = TRUE)
      BY <2>1 DEF Open
    <3> QED BY <3>1 DEF Sound
  <2>2. CASE EndOfFile
    <3>1. PICK readFails \in BOOLEAN, closeFails \in BOOLEAN :
            err' = (err \/ readFails \/ closeFails)
      BY <2>2 DEF EndOfFile
    <3>2. input' = input
      BY <2>2 DEF EndOfFile
    <3> QED BY <3>1, <3>2 DEF Sound
  <2> QED BY <1>2, <2>1, <2>2
<1>3. CASE LoadApi \/ LoadTest \/ LoadContract \/ LoadTrace \/ LoadCall \/ LoadOutcome
  <2>1. input' = input /\ (err' = err \/ err' = TRUE)
    BY <1>3 DEF LoadApi, LoadTest, LoadContract, LoadTrace, LoadCall, LoadOutcome, Refuse, Accept
  <2> QED BY <2>1 DEF Sound
<1>4. CASE LoadFault
  <2>1. input' = input /\ (err => err')
    BY <1>4 DEF LoadFault, Refuse
  <2> QED BY <2>1 DEF Sound
<1>5. CASE ValidateConformance \/ WriteReceipt \/ ReportError
  <2>1. input' = input /\ (err' = err \/ err' = TRUE)
    BY <1>5 DEF ValidateConformance, WriteReceipt, ReportError
  <2> QED BY <2>1 DEF Sound
<1>6. CASE Finished \/ UNCHANGED vars
  <2>1. input' = input /\ err' = err
    BY <1>6 DEF Finished, vars
  <2> QED BY <2>1 DEF Sound
<1> QED BY <1>1, <1>2, <1>3, <1>4, <1>5, <1>6 DEF Next

LEMMA StepIInv == IInv /\ [Next]_vars => IInv'
<1> SUFFICES ASSUME IInv, [Next]_vars PROVE IInv'
  OBVIOUS
<1>1. Typed /\ Ended /\ (Sound => Described)
  BY DEF IInv
<1>2. Typed' /\ Ended'
  BY <1>1, TypedStep, EndedStep
<1>3. ASSUME Sound' PROVE Described'
  <2>1. Described /\ ~err' /\ ~input'.help
    BY <1>1, <1>3, ErrorStays DEF Sound
  <2>2. CASE ParseArguments
    BY <1>1, <2>1, <2>2, DescribedParse
  <2>3. CASE Open
    BY <1>1, <2>1, <2>3, DescribedOpen
  <2>4. CASE EndOfFile
    BY <1>1, <2>1, <2>4, DescribedEndOfFile
  <2>5. CASE LoadApi
    BY <1>1, <2>1, <2>5, DescribedLoadApi
  <2>6. CASE LoadTest
    BY <1>1, <2>1, <2>6, DescribedLoadTest
  <2>7. CASE LoadContract
    BY <1>1, <2>1, <2>7, DescribedLoadContract
  <2>8. CASE LoadFault
    BY <1>1, <2>1, <2>8, DescribedLoadFault
  <2>9. CASE LoadTrace
    BY <1>1, <2>1, <2>9, DescribedLoadTrace
  <2>10. CASE LoadCall
    BY <1>1, <2>1, <2>10, DescribedLoadCall
  <2>11. CASE LoadOutcome
    BY <1>1, <2>1, <2>11, DescribedLoadOutcome
  <2>12. CASE ValidateConformance
    BY <1>1, <2>1, <2>12, DescribedValidate
  <2>13. CASE WriteReceipt
    BY <1>1, <2>1, <2>13, DescribedWriteReceipt
  <2>14. CASE ReportError
    BY <1>1, <2>1, <2>14, DescribedReportError
  <2>15. CASE Finished \/ UNCHANGED vars
    BY <2>1, <2>15, DescribedStutter DEF Finished
  <2> QED BY <2>2, <2>3, <2>4, <2>5, <2>6, <2>7, <2>8, <2>9, <2>10, <2>11, <2>12, <2>13,
             <2>14, <2>15 DEF Next
<1> QED BY <1>2, <1>3 DEF IInv

LEMMA Invariance == Spec => []IInv
BY InitIInv, StepIInv, PTL DEF Spec

LEMMA ReceiptIsJudged == IInv => ReceiptAgrees
<1> SUFFICES ASSUME IInv, pc = "done", status # 2, ~input.help
             PROVE  receipt.written /\ receipt.passed = (status = 0)
  BY DEF ReceiptAgrees
<1>1. receipt = Receipt /\ status = StatusWritten
  BY DEF IInv, Ended, Sound, Described, Typed
<1>2. Receipt.written = TRUE /\ Receipt.passed = (findings = 0)
  BY DEF Receipt
<1>3. status = 0 <=> findings = 0
  BY <1>1 DEF StatusWritten
<1> QED BY <1>1, <1>2, <1>3

\* A verdict stands in the receipt as well, and is the same there (write_receipt).
THEOREM Agreement == Spec => []ReceiptAgrees
BY Invariance, ReceiptIsJudged, PTL

-----------------------------------------------------------------------------
(* What the complete tables say, said of the files.                          *)

\* Every row of every file was read and is in the tables.
Complete ==
  /\ ApisAt(input, apis, Len(input.apis))
  /\ TestsAt(input, apis, Len(input.tests)) /\ ContractsAt(input, apis, Len(input.contracts))
  /\ TracesAt(input, apis, Len(input.traces)) /\ CallsAt(input, apis, Len(input.calls))
  /\ FaultsAt(input, faults, Len(input.faults))
  /\ OutcomesAt(input, faults, Len(input.outcomes))

LEMMA DoneIsComplete ==
  ASSUME Described, pc = "done"
  PROVE  Complete /\ (findings = 0 <=> Clean(input, faults, Len(input.outcomes)) /\ Gaps = 0)
<1>1. /\ ReadApis = Len(input.apis) /\ ReadTests = Len(input.tests)
      /\ ReadContracts = Len(input.contracts) /\ ReadFaults = Len(input.faults)
      /\ ReadTraces = Len(input.traces) /\ ReadCalls = Len(input.calls)
      /\ ReadOutcomes = Len(input.outcomes)
  BY DEF ReadApis, ReadTests, ReadContracts, ReadFaults, ReadTraces, ReadCalls, ReadOutcomes
<1>2. Complete
  BY <1>1 DEF Described, ApiTable, FaultTable, Complete
<1>3. findings = 0 <=> Clean(input, faults, Len(input.outcomes)) /\ Gaps = 0
  BY <1>1 DEF Described, Judged
<1> QED BY <1>2, <1>3

\* The rows about an API, of files without a malformed row.
LEMMA RowsAre ==
  ASSUME Typed, Complete, NEW a
  PROVE  /\ DOMAIN apis = DOMAIN input.apis
         /\ TestsOf(a) = {j \in 1 .. Len(input.tests) : input.tests[j].usr = a.usr}
         /\ ContractsOf(a) = {j \in 1 .. Len(input.contracts) : input.contracts[j].usr = a.usr}
         /\ TracesOf(a) = {j \in 1 .. Len(input.traces) :
                             input.traces[j].ours /\ input.traces[j].usr = a.usr}
         /\ \A kind : Calls(a, kind) =
                         {j \in 1 .. Len(input.calls) :
                            input.calls[j].name = a.name /\ input.calls[j].kind = kind}
<1>1. input \in Inputs /\ apis \in Seq(ApiRecord)
  BY TypedParts
<1>2. DOMAIN apis = DOMAIN input.apis
  BY <1>1, ApiRows DEF Complete, ApisAt
<1>3. TestsOf(a) = {j \in 1 .. Len(input.tests) : input.tests[j].usr = a.usr}
  <2>1. DOMAIN input.tests = 1 .. Len(input.tests)
    BY <1>1, TestRows
  <2>2. \A j \in 1 .. Len(input.tests) : ~input.tests[j].bad
    BY DEF Complete, TestsAt
  <2> QED BY <2>1, <2>2 DEF TestsOf, RowsOf
<1>4. ContractsOf(a) = {j \in 1 .. Len(input.contracts) : input.contracts[j].usr = a.usr}
  <2>1. DOMAIN input.contracts = 1 .. Len(input.contracts)
    BY <1>1, ContractRows
  <2>2. \A j \in 1 .. Len(input.contracts) : ~input.contracts[j].bad
    BY DEF Complete, ContractsAt
  <2> QED BY <2>1, <2>2 DEF ContractsOf, RowsOf
<1>5. TracesOf(a) = {j \in 1 .. Len(input.traces) :
                       input.traces[j].ours /\ input.traces[j].usr = a.usr}
  <2>1. DOMAIN input.traces = 1 .. Len(input.traces)
    BY <1>1, TraceRows
  <2>2. \A j \in 1 .. Len(input.traces) : ~input.traces[j].bad
    BY DEF Complete, TracesAt
  <2> QED BY <2>1, <2>2 DEF TracesOf, RowsOf
<1>6. ASSUME NEW kind
      PROVE  Calls(a, kind) = {j \in 1 .. Len(input.calls) :
                                 input.calls[j].name = a.name /\ input.calls[j].kind = kind}
  <2>1. DOMAIN input.calls = 1 .. Len(input.calls)
    BY <1>1, CallRows
  <2>2. \A j \in 1 .. Len(input.calls) : ~input.calls[j].bad
    BY DEF Complete, CallsAt
  <2> QED BY <2>1, <2>2 DEF Calls, RowsOf
<1> QED BY <1>2, <1>3, <1>4, <1>5, <1>6

\* The entry of an API that is the first of its name counts its calls.
LEMMA CallsOfFirst ==
  ASSUME Typed, Complete, NEW i \in DOMAIN input.apis, NEW kind,
         i = First(ByName(input, input.apis[i].name))
  PROVE  CallRowsOf(input, i, Len(input.calls), kind) = Calls(input.apis[i], kind)
<1> DEFINE a == input.apis[i]
           N == Len(input.calls)
<1>1. Calls(a, kind) = {j \in 1 .. N : input.calls[j].name = a.name /\ input.calls[j].kind = kind}
  BY RowsAre
<1>2. input \in Inputs
  BY TypedParts
<1>3. i \in ByName(input, a.name)
  BY DEF ByName
<1>4. ASSUME NEW j \in 1 .. N, ByName(input, input.calls[j].name) # {},
             First(ByName(input, input.calls[j].name)) = i
      PROVE  input.calls[j].name = a.name
  <2>1. i \in ByName(input, input.calls[j].name)
    BY <1>2, <1>4, Owners
  <2> QED BY <2>1 DEF ByName
<1>5. ASSUME NEW j \in 1 .. N, input.calls[j].name = a.name
      PROVE  ByName(input, input.calls[j].name) # {}
             /\ First(ByName(input, input.calls[j].name)) = i
  BY <1>3, <1>5
<1> QED BY <1>1, <1>4, <1>5 DEF CallRowsOf

\* An entry with calls is the first of its name.
LEMMA CalledIsFirst ==
  ASSUME Typed, Complete, NEW i \in DOMAIN input.apis, NEW kind,
         CallRowsOf(input, i, Len(input.calls), kind) # {}
  PROVE  i = First(ByName(input, input.apis[i].name))
<1>1. PICK j \in 1 .. Len(input.calls) : /\ ByName(input, input.calls[j].name) # {}
                                         /\ First(ByName(input, input.calls[j].name)) = i
  BY DEF CallRowsOf
<1>2. i \in ByName(input, input.calls[j].name)
  BY <1>1, TypedParts, Owners
<1>3. input.calls[j].name = input.apis[i].name
  BY <1>2 DEF ByName
<1> QED BY <1>1, <1>3

\* A count of calls is a number, and 0 only if there are none.
LEMMA CallCount ==
  ASSUME Typed, NEW i, NEW kind
  PROVE  Cardinality(CallRowsOf(input, i, Len(input.calls), kind)) = 0 <=>
           CallRowsOf(input, i, Len(input.calls), kind) = {}
<1> DEFINE S == CallRowsOf(input, i, Len(input.calls), kind)
           N == Len(input.calls)
<1>1. S \subseteq 1 .. N
  BY DEF CallRowsOf
<1>2. N \in Nat
  BY TypedParts, CallRows
<1> HIDE DEF S, N
<1>3. IsFiniteSet(S)
  <2>1. IsFiniteSet(1 .. N)
    BY <1>2, FS_Interval
  <2> QED BY <1>1, <2>1, FS_Subset
<1>4. Cardinality(S) = 0 <=> S = {}
  BY <1>3, CountIs
<1> QED BY <1>4 DEF S, N

LEMMA ApiPasses ==
  ASSUME Typed, Complete, NEW i \in DOMAIN input.apis, NoGap(apis[i]),
         NEW a, a = input.apis[i]
  PROVE  /\ Identified(a) /\ Exercised(a) /\ LoggedBySome(a)
         /\ TracedByAll(a) => Balanced(a)
<1>1. input \in Inputs
  BY TypedParts
<1>2. /\ i \in DOMAIN apis /\ apis[i].tested /\ apis[i].contract /\ apis[i].instrumented
      /\ apis[i].traced => apis[i].enters # 0 /\ apis[i].enters = apis[i].exits
      /\ apis[i].faultTest => apis[i].enters # 0
      /\ apis[i].needsArguments => apis[i].arguments
      /\ apis[i].needsResult => apis[i].result
  BY RowsAre DEF NoGap
<1>3. \A u : ByUsr(input, u) # {} /\ First(ByUsr(input, u)) = i => a.usr = u
  <2>1. ASSUME NEW u, ByUsr(input, u) # {}, First(ByUsr(input, u)) = i PROVE a.usr = u
    <3>1. i \in ByUsr(input, u)
      BY <1>1, <2>1, Owners
    <3> QED BY <3>1 DEF ByUsr
  <2> QED BY <2>1
<1>4. PICK j \in 1 .. Len(input.tests) :
        /\ First(ByUsr(input, input.tests[j].usr)) = i
        /\ apis[i].faultTest = input.tests[j].fault
  BY <1>2 DEF Complete, TestsAt
<1>5. input.tests[j].usr = a.usr
  BY <1>3, <1>4 DEF Complete, TestsAt
<1>6. TestsOf(a) = {j}
  <2>1. \A k \in 1 .. Len(input.tests) : input.tests[k].usr = a.usr => k = j
    BY <1>5 DEF Complete, TestsAt
  <2> QED BY <1>5, <2>1, RowsAre
<1>7. PICK c \in 1 .. Len(input.contracts) :
        /\ First(ByUsr(input, input.contracts[c].usr)) = i
        /\ apis[i].needsArguments = input.contracts[c].arguments
        /\ apis[i].needsResult = input.contracts[c].result
  BY <1>2 DEF Complete, ContractsAt
<1>8. input.contracts[c].usr = a.usr
  BY <1>3, <1>7 DEF Complete, ContractsAt
<1>9. ContractsOf(a) = {c}
  <2>1. \A k \in 1 .. Len(input.contracts) : input.contracts[k].usr = a.usr => k = c
    BY <1>8 DEF Complete, ContractsAt
  <2> QED BY <1>8, <2>1, RowsAre
<1>10. TracesOf(a) # {} /\ TraceRowsOf(input, i, Len(input.traces)) \subseteq TracesOf(a)
  <2>1. TraceRowsOf(input, i, Len(input.traces)) # {}
    BY <1>2 DEF Complete, TracesAt
  <2>2. ASSUME NEW k \in TraceRowsOf(input, i, Len(input.traces)) PROVE k \in TracesOf(a)
    <3>1. /\ k \in 1 .. Len(input.traces) /\ input.traces[k].ours
          /\ ByUsr(input, input.traces[k].usr) # {} /\ First(ByUsr(input, input.traces[k].usr)) = i
      BY DEF TraceRowsOf
    <3>2. input.traces[k].usr = a.usr
      BY <1>3, <3>1
    <3> QED BY <3>1, <3>2, RowsAre
  <2> QED BY <2>1, <2>2
<1>11. Identified(a)
  <2>1. Cardinality({j}) = 1 /\ Cardinality({c}) = 1
    BY FS_Singleton
  <2> QED BY <1>6, <1>9, <1>10, <2>1 DEF Identified
<1> DEFINE enters == CallRowsOf(input, i, Len(input.calls), "enter")
           exits == CallRowsOf(input, i, Len(input.calls), "exit")
<1>12. /\ apis[i].enters = Cardinality(enters) /\ apis[i].exits = Cardinality(exits)
       /\ Logging(input, enters, apis[i].arguments) /\ Logging(input, exits, apis[i].result)
  BY <1>2 DEF Complete, CallsAt
<1>13. /\ Cardinality(enters) = 0 <=> enters = {}
       /\ Cardinality(exits) = 0 <=> exits = {}
  BY CallCount
<1>14. /\ enters # {} => enters = Calls(a, "enter") /\ exits = Calls(a, "exit")
       /\ exits # {} => exits = Calls(a, "exit")
  BY CalledIsFirst, CallsOfFirst
<1> HIDE DEF enters, exits
<1>15. Exercised(a)
  <2>1. (\E k \in TestsOf(a) : input.tests[k].fault) => apis[i].faultTest
    BY <1>4, <1>6
  <2>2. apis[i].faultTest => Calls(a, "enter") # {}
    BY <1>2, <1>12, <1>13, <1>14
  <2> QED BY <2>1, <2>2 DEF Exercised
<1>16. LoggedBySome(a)
  <2>1. apis[i].arguments => \E k \in Calls(a, "enter") : input.calls[k].logged
    <3>1. apis[i].arguments => \E k \in enters : input.calls[k].logged
      BY <1>12 DEF Logging
    <3> QED BY <1>14, <3>1
  <2>2. apis[i].result => \E k \in Calls(a, "exit") : input.calls[k].logged
    <3>1. apis[i].result => \E k \in exits : input.calls[k].logged
      BY <1>12 DEF Logging
    <3> QED BY <1>14, <3>1
  <2> QED BY <1>2, <1>7, <1>9, <2>1, <2>2 DEF LoggedBySome
<1>17. TracedByAll(a) => Balanced(a)
  <2>1. TracedByAll(a) => apis[i].traced
    <3>1. ~apis[i].traced =>
            \E k \in TraceRowsOf(input, i, Len(input.traces)) : ~input.traces[k].env
      BY <1>2 DEF Complete, TracesAt
    <3> QED BY <1>10, <3>1 DEF TracedByAll
  <2>2. apis[i].traced => Balanced(a)
    BY <1>2, <1>12, <1>13, <1>14 DEF Balanced
  <2> QED BY <2>1, <2>2
<1> QED BY <1>11, <1>15, <1>16, <1>17

\* And an API that is listed once and lacks nothing leaves no gap.
LEMMA ApiLacksNothing ==
  ASSUME Typed, Complete, NEW i \in DOMAIN input.apis, NEW a, a = input.apis[i],
         \A k \in DOMAIN input.apis :
           input.apis[i].usr = input.apis[k].usr \/ input.apis[i].name = input.apis[k].name =>
             i = k,
         Identified(a), Exercised(a), LoggedByAll(a), TracedBySome(a) => Balanced(a)
  PROVE  NoGap(apis[i])
<1>1. input \in Inputs /\ i \in DOMAIN apis
  BY TypedParts, RowsAre
<1>2. i = First(ByUsr(input, a.usr)) /\ i = First(ByName(input, a.name))
      /\ ByUsr(input, a.usr) # {}
  <2>1. ByUsr(input, a.usr) = {i} /\ ByName(input, a.name) = {i}
    BY DEF ByUsr, ByName
  <2> QED BY <1>1, <2>1, Owners
<1>3. /\ Calls(a, "enter") = CallRowsOf(input, i, Len(input.calls), "enter")
      /\ Calls(a, "exit") = CallRowsOf(input, i, Len(input.calls), "exit")
  BY <1>2, CallsOfFirst
<1>4. /\ apis[i].enters = Cardinality(Calls(a, "enter"))
      /\ apis[i].exits = Cardinality(Calls(a, "exit"))
      /\ Logging(input, Calls(a, "enter"), apis[i].arguments)
      /\ Logging(input, Calls(a, "exit"), apis[i].result)
  BY <1>1, <1>3 DEF Complete, CallsAt
<1>5. apis[i].enters = 0 <=> Calls(a, "enter") = {}
  BY <1>3, <1>4, CallCount
<1>6. TestsOf(a) # {} /\ ContractsOf(a) # {} /\ TracesOf(a) # {}
  <2>1. \A S : Cardinality(S) = 1 => S # {}
    BY FS_EmptySet
  <2>2. Cardinality(TestsOf(a)) = 1 /\ Cardinality(ContractsOf(a)) = 1 /\ TracesOf(a) # {}
    BY DEF Identified
  <2>3. TestsOf(a) # {}
    BY <2>1, <2>2, Zenon
  <2>4. ContractsOf(a) # {}
    BY <2>1, <2>2, Zenon
  <2> QED BY <2>2, <2>3, <2>4
<1>7. apis[i].tested /\ (apis[i].faultTest => apis[i].enters # 0)
  <2>1. PICK j \in 1 .. Len(input.tests) : input.tests[j].usr = a.usr
    BY <1>6, RowsAre
  <2>2. apis[i].tested
    BY <1>2, <2>1 DEF Complete, TestsAt
  <2>3. PICK k \in 1 .. Len(input.tests) :
          /\ First(ByUsr(input, input.tests[k].usr)) = i
          /\ apis[i].faultTest = input.tests[k].fault
    BY <1>1, <2>2 DEF Complete, TestsAt
  <2>4. i \in ByUsr(input, input.tests[k].usr)
    BY <1>1, <2>3, Owners DEF Complete, TestsAt
  <2>5. k \in TestsOf(a)
    BY <2>4, RowsAre DEF ByUsr
  <2>6. apis[i].faultTest => Calls(a, "enter") # {}
    BY <2>3, <2>5 DEF Exercised
  <2> QED BY <1>5, <2>2, <2>6
<1>8. /\ apis[i].contract /\ (apis[i].needsArguments => apis[i].arguments)
      /\ apis[i].needsResult => apis[i].result
  <2>1. PICK j \in 1 .. Len(input.contracts) : input.contracts[j].usr = a.usr
    BY <1>6, RowsAre
  <2>2. apis[i].contract
    BY <1>2, <2>1 DEF Complete, ContractsAt
  <2>3. PICK k \in 1 .. Len(input.contracts) :
          /\ First(ByUsr(input, input.contracts[k].usr)) = i
          /\ apis[i].needsArguments = input.contracts[k].arguments
          /\ apis[i].needsResult = input.contracts[k].result
    BY <1>1, <2>2 DEF Complete, ContractsAt
  <2>4. i \in ByUsr(input, input.contracts[k].usr)
    BY <1>1, <2>3, Owners DEF Complete, ContractsAt
  <2>5. k \in ContractsOf(a)
    BY <2>4, RowsAre DEF ByUsr
  <2>6. apis[i].needsArguments => /\ Calls(a, "enter") # {}
                                  /\ \A c \in Calls(a, "enter") : input.calls[c].logged
    BY <2>3, <2>5 DEF LoggedByAll
  <2>7. apis[i].needsResult => /\ Calls(a, "exit") # {}
                               /\ \A c \in Calls(a, "exit") : input.calls[c].logged
    BY <2>3, <2>5 DEF LoggedByAll
  <2>8. (apis[i].needsArguments => apis[i].arguments) /\ (apis[i].needsResult => apis[i].result)
    BY <1>4, <2>6, <2>7 DEF Logging
  <2> QED BY <2>2, <2>8
<1>9. /\ apis[i].instrumented
      /\ apis[i].traced => apis[i].enters # 0 /\ apis[i].enters = apis[i].exits
  <2>1. ASSUME NEW k \in TraceRowsOf(input, i, Len(input.traces)) PROVE k \in TracesOf(a)
    <3>1. /\ k \in 1 .. Len(input.traces) /\ input.traces[k].ours
          /\ ByUsr(input, input.traces[k].usr) # {} /\ First(ByUsr(input, input.traces[k].usr)) = i
      BY DEF TraceRowsOf
    <3>2. i \in ByUsr(input, input.traces[k].usr)
      BY <1>1, <3>1, Owners
    <3> QED BY <3>1, <3>2, RowsAre DEF ByUsr
  <2>2. TraceRowsOf(input, i, Len(input.traces)) # {}
    <3>1. PICK k \in 1 .. Len(input.traces) : input.traces[k].ours /\ input.traces[k].usr = a.usr
      BY <1>6, RowsAre
    <3>2. k \in TraceRowsOf(input, i, Len(input.traces))
      BY <1>2, <3>1 DEF TraceRowsOf
    <3> QED BY <3>2
  <2>3. apis[i].instrumented
    BY <1>1, <2>2 DEF Complete, TracesAt
  <2>4. apis[i].traced => TracedBySome(a)
    <3>1. apis[i].traced => \E k \in TraceRowsOf(input, i, Len(input.traces)) : input.traces[k].env
      BY <1>1 DEF Complete, TracesAt
    <3> QED BY <2>1, <3>1 DEF TracedBySome
  <2>5. Balanced(a) => apis[i].enters # 0 /\ apis[i].enters = apis[i].exits
    BY <1>4, <1>5 DEF Balanced
  <2> QED BY <2>3, <2>4, <2>5
<1> QED BY <1>7, <1>8, <1>9 DEF NoGap

LEMMA ExpectationsAre ==
  ASSUME Typed, Complete
  PROVE  Expectations = Due(input, Len(input.faults)) /\ \A e : Pair(e) = Key(input, e)
<1> DEFINE N == Len(input.faults)
           Due1 == Due(input, N)
<1>1. /\ N \in Nat /\ DOMAIN input.faults = 1 .. N
      /\ \A i \in 1 .. N : ~input.faults[i].bad /\ input.faults[i] \in FaultRow
  BY TypedParts, FaultRows DEF Complete, FaultsAt
<1>2. RowsOf(input.faults, LAMBDA r : TRUE) = 1 .. N
  BY <1>1 DEF RowsOf
<1>3. \A i \in 1 .. N : DOMAIN input.faults[i].symbols \subseteq Nat
  <2>1. \A i \in 1 .. N : \E S : input.faults[i].symbols \in Seq(S)
    BY <1>1 DEF FaultRow
  <2>2. ASSUME NEW i \in 1 .. N PROVE DOMAIN input.faults[i].symbols \subseteq Nat
    <3> DEFINE s == input.faults[i].symbols
    <3>1. PICK S : s \in Seq(S)
      BY <2>1
    <3> HIDE DEF s
    <3>2. DOMAIN s = 1 .. Len(s) /\ Len(s) \in Nat
      BY <3>1
    <3>3. DOMAIN s \subseteq Nat
      BY <3>2
    <3> QED BY <3>3 DEF s
  <2> QED BY <2>2
<1>4. \A s : Available(s, {}) <=> AvailableIn(input, s)
  BY DEF Available, AvailableIn
<1>5. Expectations =
        UNION {{<<i, k>> : k \in {k \in DOMAIN input.faults[i].symbols :
                                    AvailableIn(input, input.faults[i].symbols[k])}} : i \in 1 .. N}
  BY <1>2, <1>4 DEF Expectations
<1>6. ASSUME NEW e \in Expectations PROVE e \in Due(input, N)
  <2>0. PICK i \in 1 .. N :
          e \in {<<i, k>> : k \in {k \in DOMAIN input.faults[i].symbols :
                                   AvailableIn(input, input.faults[i].symbols[k])}}
    BY <1>5
  <2>1. PICK k \in DOMAIN input.faults[i].symbols :
          e = <<i, k>> /\ AvailableIn(input, input.faults[i].symbols[k])
    BY <2>0
  <2>2. k \in Nat
    BY <1>3
  <2> QED BY <2>1, <2>2 DEF Due
<1>7. ASSUME NEW e \in Due(input, N) PROVE e \in Expectations
  <2>1. /\ e[1] \in 1 .. N /\ e[2] \in DOMAIN input.faults[e[1]].symbols
        /\ AvailableIn(input, input.faults[e[1]].symbols[e[2]]) /\ e = <<e[1], e[2]>>
    BY DEF Due
  <2> QED BY <1>5, <2>1
<1>8. ASSUME NEW e PROVE Pair(e) = Key(input, e)
  BY DEF Pair, Key
<1> QED BY <1>6, <1>7, <1>8

LEMMA OutcomesAre ==
  ASSUME Typed, Complete, NEW p
  PROVE  /\ DOMAIN input.outcomes = 1 .. Len(input.outcomes)
         /\ OutcomesOf(p) = {j \in 1 .. Len(input.outcomes) :
                               <<input.outcomes[j].wrapper, input.outcomes[j].symbol>> = p}
<1>1. DOMAIN input.outcomes = 1 .. Len(input.outcomes)
  BY TypedParts, OutcomeRows
<1>2. \A j \in 1 .. Len(input.outcomes) : ~input.outcomes[j].bad
  BY DEF Complete, OutcomesAt
<1> QED BY <1>1, <1>2 DEF OutcomesOf, RowsOf

LEMMA FaultsPass ==
  ASSUME Typed, Complete, Clean(input, faults, Len(input.outcomes)),
         \A y \in DOMAIN faults : faults[y].observed
  PROVE  FaultsShown
<1> DEFINE N == Len(input.outcomes)
           out(j) == input.outcomes[j]
<1>1. PICK o : Indexed(input, faults, Len(input.faults), o)
  BY DEF Complete, FaultsAt
<1>2. faults \in Seq(FaultRecord)
  BY TypedParts
<1>3. ASSUME NEW e \in Expectations
      PROVE  \E i \in DOMAIN input.outcomes : OutcomesOf(Pair(e)) = {i} /\ input.outcomes[i].pass
  <2>1. PICK y \in DOMAIN faults : o[y] = e
    BY <1>1, <1>3, ExpectationsAre DEF Indexed
  <2>2. <<faults[y].wrapper, faults[y].symbol>> = Pair(e)
    BY <1>1, <2>1, ExpectationsAre DEF Indexed
  <2>3. PICK j \in 1 .. N : Match(faults, out(j)) # {} /\ First(Match(faults, out(j))) = y
    BY <2>1 DEF Complete, OutcomesAt
  <2>4. y \in Match(faults, out(j))
    BY <1>2, <2>3, MatchIs
  <2>5. <<out(j).wrapper, out(j).symbol>> = Pair(e)
    BY <2>2, <2>4 DEF Match
  <2>6. ASSUME NEW k \in 1 .. N, <<out(k).wrapper, out(k).symbol>> = Pair(e) PROVE k = j
    <3>1. out(k).wrapper = out(j).wrapper /\ out(k).symbol = out(j).symbol
      BY <2>5, <2>6
    <3>2. SameFault(out(j), out(k))
      BY <3>1 DEF SameFault
    <3> QED BY <3>2 DEF Clean
  <2>7. OutcomesOf(Pair(e)) = {j}
    BY <2>5, <2>6, OutcomesAre
  <2>8. input.outcomes[j].pass /\ j \in DOMAIN input.outcomes
    BY OutcomesAre DEF Clean
  <2> QED BY <2>7, <2>8
<1>4. ASSUME NEW i \in DOMAIN input.outcomes
      PROVE  \E e \in Expectations : i \in OutcomesOf(Pair(e))
  <2>1. i \in 1 .. N
    BY OutcomesAre
  <2> DEFINE y == First(Match(faults, out(i)))
  <2>2. y \in Match(faults, out(i))
    BY <1>2, <2>1, MatchIs DEF Clean
  <2>3. y \in DOMAIN faults /\ faults[y].wrapper = out(i).wrapper
        /\ faults[y].symbol = out(i).symbol
    BY <2>2 DEF Match
  <2> HIDE DEF y
  <2>4. o[y] \in Expectations /\ Pair(o[y]) = <<faults[y].wrapper, faults[y].symbol>>
    BY <1>1, <2>3, ExpectationsAre DEF Indexed
  <2>5. i \in OutcomesOf(Pair(o[y]))
    BY <2>1, <2>3, <2>4, OutcomesAre
  <2> QED BY <2>4, <2>5
<1> QED BY <1>3, <1>4 DEF FaultsShown

LEMMA FaultsLackNothing ==
  ASSUME Typed, Complete, FaultsShown,
         \A e, f \in Expectations : Pair(e) = Pair(f) => e = f
  PROVE  /\ Clean(input, faults, Len(input.outcomes))
         /\ \A y \in DOMAIN faults : faults[y].observed
<1> DEFINE N == Len(input.outcomes)
           out(j) == input.outcomes[j]
<1>1. PICK o : Indexed(input, faults, Len(input.faults), o)
  BY DEF Complete, FaultsAt
<1>2. faults \in Seq(FaultRecord)
  BY TypedParts
<1>3. \A y \in DOMAIN faults : /\ o[y] \in Expectations
                               /\ Pair(o[y]) = <<faults[y].wrapper, faults[y].symbol>>
  BY <1>1, ExpectationsAre DEF Indexed
<1>4. \A y, z \in DOMAIN faults :
        faults[y].wrapper = faults[z].wrapper /\ faults[y].symbol = faults[z].symbol => y = z
  <2>1. ASSUME NEW y \in DOMAIN faults, NEW z \in DOMAIN faults,
               faults[y].wrapper = faults[z].wrapper, faults[y].symbol = faults[z].symbol
        PROVE  y = z
    <3>1. Pair(o[y]) = Pair(o[z])
      BY <1>3, <2>1
    <3>2. o[y] = o[z]
      BY <1>3, <3>1
    <3> QED BY <1>1, <3>2 DEF Indexed
  <2> QED BY <2>1
<1>5. ASSUME NEW j \in 1 .. N
      PROVE  /\ out(j).pass /\ Match(faults, out(j)) # {}
             /\ \A k \in 1 .. N : SameFault(out(j), out(k)) => j = k
  <2>1. PICK e \in Expectations : j \in OutcomesOf(Pair(e))
    BY OutcomesAre DEF FaultsShown
  <2>2. PICK i \in DOMAIN input.outcomes : OutcomesOf(Pair(e)) = {i} /\ input.outcomes[i].pass
    BY <2>1 DEF FaultsShown
  <2>3. i = j /\ out(j).pass
    BY <2>1, <2>2
  <2>4. <<out(j).wrapper, out(j).symbol>> = Pair(e)
    BY <2>1, OutcomesAre
  <2>5. PICK y \in DOMAIN faults : o[y] = e
    BY <1>1, ExpectationsAre DEF Indexed
  <2>6. faults[y].wrapper = out(j).wrapper /\ faults[y].symbol = out(j).symbol
    BY <1>3, <2>4, <2>5
  <2>7. y \in Match(faults, out(j))
    BY <2>6 DEF Match
  <2>8. ASSUME NEW k \in 1 .. N, SameFault(out(j), out(k)) PROVE j = k
    <3>1. <<out(k).wrapper, out(k).symbol>> = Pair(e)
      BY <2>4, <2>8 DEF SameFault
    <3>2. k \in OutcomesOf(Pair(e))
      BY <3>1, OutcomesAre
    <3> QED BY <2>2, <2>3, <3>2
  <2> QED BY <2>3, <2>7, <2>8
<1>6. Clean(input, faults, N)
  BY <1>5 DEF Clean
<1>7. ASSUME NEW y \in DOMAIN faults PROVE faults[y].observed
  <2>1. PICK i \in DOMAIN input.outcomes : OutcomesOf(Pair(o[y])) = {i}
    BY <1>3 DEF FaultsShown
  <2>2. i \in 1 .. N /\ <<out(i).wrapper, out(i).symbol>> = Pair(o[y])
    BY <2>1, OutcomesAre
  <2>3. out(i).wrapper = faults[y].wrapper /\ out(i).symbol = faults[y].symbol
    BY <1>3, <2>2
  <2>4. y \in Match(faults, out(i))
    BY <2>3 DEF Match
  <2>5. First(Match(faults, out(i))) \in Match(faults, out(i))
    BY <1>2, <2>4, MatchIs
  <2>6. First(Match(faults, out(i))) = y
    BY <1>4, <2>3, <2>5 DEF Match
  <2> QED BY <2>2, <2>4, <2>6 DEF Complete, OutcomesAt
<1> QED BY <1>6, <1>7

LEMMA VerdictStands == IInv => VerdictIsFounded
<1> SUFFICES ASSUME IInv, pc = "done" PROVE VerdictIsFounded
  BY DEF VerdictIsFounded, PassMeansCovered, FailMeansGap
<1>1. Typed
  BY DEF IInv
<1>2. ASSUME status # 2, ~input.help
      PROVE  /\ Described /\ Complete
             /\ status = StatusWritten
             /\ findings = 0 <=> Clean(input, faults, Len(input.outcomes)) /\ Gaps = 0
  <2>1. Described
    BY <1>1, <1>2 DEF IInv, Ended, Sound, Typed
  <2>2. status = StatusWritten
    BY <2>1 DEF Described
  <2> QED BY <2>1, <2>2, DoneIsComplete
<1>3. PassMeansCovered
  <2> SUFFICES ASSUME status = 0, ~input.help
               PROVE  /\ \A a \in Range(input.apis) :
                           /\ Identified(a) /\ Exercised(a) /\ LoggedBySome(a)
                           /\ TracedByAll(a) => Balanced(a)
                      /\ FaultsShown
    BY DEF PassMeansCovered
  <2>1. status # 2
    OBVIOUS
  <2>2. Complete /\ Clean(input, faults, Len(input.outcomes)) /\ Gaps = 0
    BY <1>2, <2>1 DEF StatusWritten
  <2>3. /\ \A i \in DOMAIN apis : NoGap(apis[i])
        /\ \A y \in DOMAIN faults : faults[y].observed
    BY <1>1, <2>2, GapsAre
  <2>4. FaultsShown
    BY <1>1, <2>2, <2>3, FaultsPass
  <2>5. ASSUME NEW a \in Range(input.apis)
        PROVE  /\ Identified(a) /\ Exercised(a) /\ LoggedBySome(a)
               /\ TracedByAll(a) => Balanced(a)
    <3>1. PICK i \in DOMAIN input.apis : a = input.apis[i]
      BY DEF Range
    <3>2. NoGap(apis[i])
      BY <1>1, <2>2, <2>3, RowsAre
    <3> QED BY <1>1, <2>2, <3>1, <3>2, ApiPasses
  <2> QED BY <2>4, <2>5
<1>4. FailMeansGap
  <2> SUFFICES ASSUME status = 1,
                      \A a \in Range(input.apis) :
                        /\ Identified(a) /\ Exercised(a) /\ LoggedByAll(a)
                        /\ TracedBySome(a) => Balanced(a),
                      Unrepeated, FaultsShown
               PROVE  FALSE
    BY DEF FailMeansGap
  <2>1. status # 2 /\ ~input.help
    BY DEF IInv, Ended
  <2>2. /\ Complete
        /\ findings # 0
        /\ findings = 0 <=> Clean(input, faults, Len(input.outcomes)) /\ Gaps = 0
    BY <1>2, <2>1 DEF StatusWritten
  <2>3. /\ Clean(input, faults, Len(input.outcomes))
        /\ \A y \in DOMAIN faults : faults[y].observed
    BY <1>1, <2>2, FaultsLackNothing DEF Unrepeated
  <2>4. ASSUME NEW i \in DOMAIN apis PROVE NoGap(apis[i])
    <3>1. i \in DOMAIN input.apis
      BY <1>1, <2>2, RowsAre
    <3> DEFINE a == input.apis[i]
    <3>2. a \in Range(input.apis)
      BY <3>1 DEF Range
    <3>3. /\ Identified(a) /\ Exercised(a) /\ LoggedByAll(a)
          /\ TracedBySome(a) => Balanced(a)
      BY <3>2
    <3>4. \A k \in DOMAIN input.apis :
            input.apis[i].usr = input.apis[k].usr \/ input.apis[i].name = input.apis[k].name
              => i = k
      BY <3>1 DEF Unrepeated
    <3>5. a = input.apis[i]
      OBVIOUS
    <3> HIDE DEF a
    <3> QED BY <1>1, <2>2, <3>1, <3>3, <3>4, <3>5, ApiLacksNothing
  <2>5. Gaps = 0
    BY <1>1, <2>3, <2>4, GapsAre
  <2> QED BY <2>2, <2>3, <2>5
<1> QED BY <1>3, <1>4 DEF VerdictIsFounded

\* A pass is given only if the files together cover every API and every fault of
\* the platform, a failure only if something is missing from them or listed
\* twice, whatever was read and whichever calls failed (validate_conformance).
THEOREM Foundation == Spec => []VerdictIsFounded
BY Invariance, VerdictStands, PTL
=============================================================================
