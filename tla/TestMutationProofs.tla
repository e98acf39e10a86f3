-------------------------- MODULE TestMutationProofs --------------------------
(***************************************************************************)
(* Proofs about MutationCampaign and TestMutation, in four parts: the       *)
(* invariants of the campaign, for every capacity, every number of mutation *)
(* sites, every set of exit codes and every failing step; that it takes     *)
(* only the steps of MutationTesting; that all of it holds of test-mutation *)
(* as it is called; and that its loop over the words understands a command  *)
(* line as it is meant.  That a campaign ends is left to TLC.               *)
(***************************************************************************)
EXTENDS TestMutation, SequenceTheorems, FiniteSetTheorems, WellFoundedInduction, TLAPS

-----------------------------------------------------------------------------
(* The inductive invariant.                                                  *)

Opening == {"parse", "scan", "found", "baseline"}

\* A candidate has a directory of its own.
InTree == {"copy", "apply", "build", "compile", "rewrite", "test", "remove"}

\* p101_mutation_execute is at work, or has just returned.
InCandidate == InTree \cup {"next"}

Working == InCandidate \cup {"make tree", "report", "judge"}

Closing == {"report error", "done"}

\* The types of what does not change its type.
Typed ==
  /\ request \in Requests /\ capacity \in 1 .. MaxMutants /\ sites \in 0 .. MaxSites
  /\ report.exit \in {0, 1, 2, Running}
  /\ pc \in Opening \cup Working \cup Closing
  /\ err \in BOOLEAN /\ completed \in BOOLEAN
  /\ exit \in {0, 1, 2, Running}
  /\ baseline \in Fates
  /\ results \in Seq({"inconclusive", "survived", "killed"})
  /\ tests \in Seq(Fates)

\* The scan keeps what it has seen up to the capacity, and is complete unless
\* there is an error.
Scanned ==
  /\ seen \in 0 .. sites
  /\ count = IF seen < capacity THEN seen ELSE capacity
  /\ pc = "parse" => seen = 0
  /\ pc = "scan" => ~err
  /\ pc \in {"found", "baseline"} => err \/ seen = sites
  /\ pc = "baseline" => count > 0

\* Only a campaign that was asked for and whose baseline passed gets to work.
Founded ==
  /\ pc \in Working => request = "run" /\ baseline = "passed" /\ seen = sites /\ count > 0
  /\ pc = "baseline" => request = "run"
  /\ request # "run" => tests = <<>> /\ results = <<>>
  /\ pc \in Opening => tests = <<>> /\ results = <<>>

\* One test per candidate that was begun, one result per candidate completed.
Counted ==
  /\ index \in 1 .. count + 1
  /\ pc \in Opening => index = 1
  /\ pc = "make tree" => /\ index <= count
                         /\ Len(tests) = index - 1 /\ Len(results) = index - 1
  /\ pc \in InCandidate => index <= count /\ Len(tests) = index
  /\ pc \in InTree \ {"remove"} => ~completed
  /\ pc \in InCandidate => Len(results) = IF completed THEN index ELSE index - 1
  /\ pc \in {"report", "judge"} => Len(tests) = count /\ Len(results) = count

\* A result is what became of the test, and what has no result has no test.
Matched ==
  /\ \A i \in DOMAIN results :
       /\ i \in DOMAIN tests
       /\ results[i] = "survived" <=> tests[i] = "passed"
       /\ tests[i] \in {"none", "cut"} => results[i] = "inconclusive"
  /\ \A i \in DOMAIN tests : i \in DOMAIN results \/ tests[i] = "none"

\* Directories that exist are those that could not be removed and the one at work.
Trees ==
  /\ stuck \subseteq 1 .. count
  /\ pc \in Opening => stuck = {}
  /\ pc \in InTree \cup {"make tree"} => \A i \in stuck : i < index
  /\ pc = "next" => \A i \in stuck : i <= index
  /\ trees = IF pc \in InTree THEN stuck \cup {index} ELSE stuck

\* The exit status before, at and after the judgement.
Judged ==
  /\ baseline = "passed" /\ seen = sites /\ count > 0
  /\ Len(tests) = count /\ Len(results) = count
  /\ exit = Verdict

Decided ==
  /\ pc = "parse" => exit = Running
  /\ pc \in (Opening \ {"parse"}) \cup Working => exit = 2
  /\ pc \in Closing /\ request = "run" => exit = 2 \/ Judged
  /\ request # "run" => exit # 1

IInv == Typed /\ Scanned /\ Founded /\ Counted /\ Matched /\ Trees /\ Decided

-----------------------------------------------------------------------------
\* The invariant holds before the command line is read.
LEMMA InitEstablishes == Init => IInv
<1> SUFFICES ASSUME Init PROVE IInv
    OBVIOUS
<1> USE DEF Init, Opening, InTree, InCandidate, Working, Closing
<1>1. Typed
  <2>1. /\ request \in Requests /\ sites \in 0 .. MaxSites
        /\ report.exit \in {0, 1, 2, Running}
    BY DEF Requests, NoReport
  <2>0. capacity \in 1 .. MaxMutants
    BY LimitsOK
  <2>2. err \in BOOLEAN /\ completed \in BOOLEAN /\ pc = "parse" /\ exit = Running
    BY Zenon
  <2>3. baseline \in Fates
    BY DEF Fates
  <2>4. results \in Seq({"inconclusive", "survived", "killed"}) /\ tests \in Seq(Fates)
    OBVIOUS
  <2> QED BY <2>0, <2>1, <2>2, <2>3, <2>4, Zenon DEF Typed
<1>2. Scanned
  <2>1. sites \in Nat /\ seen = 0 /\ count = 0
    BY LimitsOK
  <2>2. seen \in 0 .. sites /\ count = IF seen < capacity THEN seen ELSE capacity
    BY <2>1, LimitsOK
  <2> QED BY <2>2, Zenon DEF Scanned
<1>3. Founded /\ Counted /\ Matched
  BY DEF Founded, Counted, Matched
<1>4. Trees
  BY DEF Trees
<1>5. Decided
  BY DEF Decided, Running
<1> QED BY <1>1, <1>2, <1>3, <1>4, <1>5 DEF IInv

\* What became of a command is one of the fates.
LEMMA FateIsAFate ==
  ASSUME NEW o
  PROVE  Fate(o) \in Fates \ {"none"}
BY DEF Fate, Fates

\* A command that ended with 0 has passed.
LEMMA PassedOutcome ==
  ASSUME NEW o, ~o.timedOut, o.code = 0
  PROVE  Fate(o) = "passed"
<1>1. o.code # NoCode
  BY DEF NoCode
<1> QED BY <1>1 DEF Fate

\* The classification of a test agrees with what became of it.
LEMMA ClassifyMatches ==
  ASSUME NEW pending \in BOOLEAN, NEW o \in OutcomesGiven(pending)
  PROVE  /\ Classify(o) \in {"inconclusive", "survived", "killed"}
         /\ Classify(o) = "survived" <=> Fate(o) = "passed"
         /\ Fate(o) = "cut" => Classify(o) = "inconclusive"
<1>1. o.timedOut \in BOOLEAN
  BY DEF OutcomesGiven, Ended, Killed, Lost
<1>2. NoCode # 0
  BY DEF NoCode
<1>3. CASE o.timedOut
  BY <1>3 DEF Classify, Fate
<1>4. CASE ~o.timedOut /\ o.code = 0
  BY <1>2, <1>4 DEF Classify, Fate
<1>5. CASE ~o.timedOut /\ o.code # 0
  BY <1>2, <1>5 DEF Classify, Fate
<1> QED BY <1>1, <1>3, <1>4, <1>5

\* The verdict depends on the results alone.
LEMMA SameVerdict == UNCHANGED results => Verdict' = Verdict
BY DEF Verdict, Has

LEMMA VerdictType == Verdict \in {0, 1, 2}
BY DEF Verdict

\* The counters of the campaign are natural numbers.
LEMMA NumbersAreNatural ==
  ASSUME IInv
  PROVE  /\ index \in Nat /\ count \in Nat /\ sites \in Nat /\ seen \in Nat
         /\ capacity \in 1 .. MaxMutants /\ capacity \in Nat
<1>1. sites \in 0 .. MaxSites
  BY Zenon DEF IInv, Typed
<1>2. sites \in Nat
  BY <1>1, LimitsOK
<1>3. /\ seen \in 0 .. sites
      /\ count = IF seen < capacity THEN seen ELSE capacity
  BY Zenon DEF IInv, Scanned
<1>0. capacity \in 1 .. MaxMutants
  BY Zenon DEF IInv, Typed
<1>4. seen \in Nat /\ capacity \in Nat /\ count \in Nat
  BY <1>0, <1>2, <1>3, LimitsOK
<1>5. index \in 1 .. count + 1
  BY Zenon DEF IInv, Counted
<1> QED BY <1>0, <1>2, <1>4, <1>5

\* A sequence that has grown by one element.
LEMMA Grown ==
  ASSUME NEW S, NEW s \in Seq(S), NEW x \in S
  PROVE  /\ Append(s, x) \in Seq(S)
         /\ Len(Append(s, x)) = Len(s) + 1
         /\ DOMAIN Append(s, x) = DOMAIN s \cup {Len(s) + 1}
         /\ \A i \in DOMAIN s : Append(s, x)[i] = s[i]
         /\ Append(s, x)[Len(s) + 1] = x
OBVIOUS

\* A sequence in which one element was replaced.
LEMMA Replaced ==
  ASSUME NEW S, NEW s \in Seq(S), NEW i, NEW x \in S
  PROVE  [s EXCEPT ![i] = x] \in Seq(S)
<1> DEFINE t == [s EXCEPT ![i] = x]
<1>1. Len(s) \in Nat /\ s \in [1 .. Len(s) -> S]
  OBVIOUS
<1>2. t \in [1 .. Len(s) -> S]
  BY <1>1
<1> QED BY <1>1, <1>2, SeqDef

\* The candidate at work is the last of tests and not yet in results.
LEMMA NextIndex ==
  ASSUME IInv, Len(tests) = index, Len(results) + 1 = index
  PROVE  index \in DOMAIN tests /\ index \notin DOMAIN results
<1>1. tests \in Seq(Fates) /\ results \in Seq({"inconclusive", "survived", "killed"})
  BY Zenon DEF IInv, Typed
<1>2. /\ Len(tests) \in Nat /\ DOMAIN tests = 1 .. Len(tests)
      /\ Len(results) \in Nat /\ DOMAIN results = 1 .. Len(results)
  BY <1>1
<1> QED BY <1>2

\* Every step preserves the invariant.
LEMMA StepPreserves ==
  ASSUME IInv, [Next]_vars
  PROVE  IInv'
<1> USE DEF IInv, Opening, InTree, InCandidate, Working, Closing, arguments, scan, candidate,
            history
<1>t. /\ index \in Nat /\ count \in Nat /\ sites \in Nat /\ seen \in Nat
      /\ capacity \in 1 .. MaxMutants /\ capacity \in Nat
  BY NumbersAreNatural
<1>e. err \in BOOLEAN
  BY DEF Typed
<1>1. CASE ParseArguments
  <2>0. /\ request' \in {"run", "list", "help", "misuse"} /\ capacity' \in 1 .. MaxMutants
        /\ exit' \in {0, 2} /\ err' \in BOOLEAN /\ pc = "parse"
        /\ \/ pc' = "report error"
           \/ pc' = "scan" /\ exit' = 2 /\ ~err'
        /\ request' = "run" => exit' = 2
    BY <1>1 DEF ParseArguments
  <2>1. Typed'
    <3>1. request' \in Requests
      BY <2>0 DEF Requests
    <3> QED BY <1>1, <2>0, <3>1 DEF ParseArguments, Typed
  <2>2. Scanned'
    <3>1. seen = 0 /\ count = 0 /\ UNCHANGED <<seen, count, sites>>
      <4>1. seen = 0 /\ count = IF seen < capacity THEN seen ELSE capacity
        BY <2>0 DEF Scanned
      <4>2. count = 0
        BY <1>t, <4>1, LimitsOK
      <4> QED BY <1>1, <4>1, <4>2 DEF ParseArguments
    <3>2. count' = IF seen' < capacity' THEN seen' ELSE capacity'
      <4>1. capacity' \in 1 .. MaxMutants /\ seen' = 0 /\ count' = 0
        BY <2>0, <3>1
      <4> QED BY <4>1, LimitsOK
    <3> QED BY <1>t, <2>0, <3>1, <3>2 DEF Scanned
  <2>3. Founded'
    BY <1>1 DEF ParseArguments, Founded, Typed
  <2>4. Counted'
    BY <1>t, <1>1 DEF ParseArguments, Counted, Scanned
  <2>5. Matched'
    BY <1>1 DEF ParseArguments, Matched
  <2>6. Trees'
    BY <1>t, <1>1 DEF ParseArguments, Trees
  <2>7. Decided'
    <3>0. exit' \in {0, 2}
      BY <2>0, Zenon
    <3>1. exit' # 1
      BY <3>0
    <3>3. pc' # "parse"
      BY <2>0
    <3>2. pc' \in Opening \cup Working => exit' = 2
      BY <2>0
    <3> QED BY <2>0, <3>1, <3>2, <3>3, Zenon DEF Decided
  <2> QED BY <2>1, <2>2, <2>3, <2>4, <2>5, <2>6, <2>7
<1>2. CASE Observe
  <2>1. Typed'
    BY <1>2 DEF Observe, Typed
  <2>2. Scanned'
    <3>1. /\ seen < sites /\ seen' = seen + 1 /\ pc = "scan"
          /\ sites' = sites /\ capacity' = capacity
      BY <1>2, Zenon DEF Observe
    <3>2. \/ count = capacity /\ count' = count
          \/ count < capacity /\ count' = count + 1
      BY <1>2, Zenon DEF Observe
    <3>3. count = IF seen < capacity THEN seen ELSE capacity
      BY Zenon DEF Scanned
    <3>4. seen' \in 0 .. sites'
      BY <1>t, <3>1
    <3>5. count' = IF seen' < capacity' THEN seen' ELSE capacity'
      BY <1>t, <3>1, <3>2, <3>3, LimitsOK
    <3>6. \/ pc' = "scan" /\ err' = err
          \/ pc' \in {"found", "report error"} /\ err'
      BY <1>2, <3>1 DEF Observe
    <3>7. ~err
      BY <3>1 DEF Scanned
    <3>8. CASE pc' = "scan" /\ err' = err
      BY <3>4, <3>5, <3>7, <3>8 DEF Scanned
    <3>9. CASE pc' \in {"found", "report error"} /\ err'
      BY <3>4, <3>5, <3>9 DEF Scanned
    <3> QED BY <3>6, <3>8, <3>9
  <2>3. Founded'
    BY <1>2 DEF Observe, Founded, Typed
  <2>4. Counted'
    <3>1. index = 1 /\ index' = index /\ pc' \in Opening \cup Closing
      BY <1>2 DEF Observe, Counted
    <3>2. count' = count \/ count' = count + 1
      BY <1>2 DEF Observe
    <3>3. index' \in 1 .. count' + 1 /\ index' = 1
      <4>1. index' = 1
        BY <3>1
      <4> QED BY <1>t, <3>2, <4>1
    <3> QED BY <3>1, <3>3 DEF Counted
  <2>5. Matched'
    BY <1>2 DEF Observe, Matched
  <2>6. Trees'
    BY <1>t, <1>2 DEF Observe, Trees
  <2>7. Decided'
    BY SameVerdict, <1>2 DEF Observe, Decided, Judged, Founded
  <2> QED BY <2>1, <2>2, <2>3, <2>4, <2>5, <2>6, <2>7
<1>3. CASE EndScan
  <2>1. Typed'
    BY <1>3 DEF EndScan, Typed
  <2>2. Scanned'
    BY <1>t, <1>3 DEF EndScan, Typed, Scanned
  <2>3. Founded'
    BY <1>3 DEF EndScan, Founded, Typed
  <2>4. Counted'
    BY <1>t, <1>3 DEF EndScan, Counted, Scanned
  <2>5. Matched'
    BY <1>3 DEF EndScan, Matched
  <2>6. Trees'
    BY <1>t, <1>3 DEF EndScan, Trees
  <2>7. Decided'
    BY SameVerdict, <1>3 DEF EndScan, Decided, Judged, Founded
  <2> QED BY <2>1, <2>2, <2>3, <2>4, <2>5, <2>6, <2>7
<1>4. CASE ListCandidates
  <2>1. Typed'
    BY <1>4 DEF ListCandidates, Typed
  <2>2. Scanned'
    BY <1>t, <1>4 DEF ListCandidates, Typed, Scanned
  <2>3. Founded'
    BY <1>4 DEF ListCandidates, Founded, Typed
  <2>4. Counted'
    BY <1>t, <1>4 DEF ListCandidates, Counted, Scanned
  <2>5. Matched'
    BY <1>4 DEF ListCandidates, Matched
  <2>6. Trees'
    BY <1>t, <1>4 DEF ListCandidates, Trees
  <2>7. Decided'
    BY SameVerdict, <1>4 DEF ListCandidates, Decided, Judged, Founded
  <2> QED BY <2>1, <2>2, <2>3, <2>4, <2>5, <2>6, <2>7
<1>5. CASE RefuseVacuous
  <2>1. Typed'
    BY <1>5 DEF RefuseVacuous, Typed
  <2>2. Scanned'
    BY <1>t, <1>5 DEF RefuseVacuous, Typed, Scanned
  <2>3. Founded'
    BY <1>5 DEF RefuseVacuous, Founded, Typed
  <2>4. Counted'
    BY <1>t, <1>5 DEF RefuseVacuous, Counted, Scanned
  <2>5. Matched'
    BY <1>5 DEF RefuseVacuous, Matched
  <2>6. Trees'
    BY <1>t, <1>5 DEF RefuseVacuous, Trees
  <2>7. Decided'
    BY SameVerdict, <1>5 DEF RefuseVacuous, Decided, Judged, Founded
  <2> QED BY <2>1, <2>2, <2>3, <2>4, <2>5, <2>6, <2>7
<1>6. CASE RunBaseline
  <2>1. Typed'
    <3>1. baseline' \in Fates
      BY <1>6, FateIsAFate DEF RunBaseline
    <3>2. err' \in BOOLEAN
      BY <1>e, <1>6 DEF RunBaseline, OutcomesGiven, Ended, Killed, Lost
    <3>3. pc' \in {"report error", "report", "make tree"}
      BY <1>6 DEF RunBaseline
    <3> QED BY <1>6, <3>1, <3>2, <3>3 DEF RunBaseline, Typed
  <2>2. Scanned'
    BY <1>t, <1>6 DEF RunBaseline, Typed, Scanned
  <2>3. Founded'
    <3>1. CASE pc' = "report error"
      BY <1>6, <3>1 DEF RunBaseline, Founded
    <3>2. CASE pc' # "report error"
      <4>1. PICK o \in OutcomesGiven(err) : /\ baseline' = Fate(o)
                                            /\ ~o.timedOut /\ o.code = 0 /\ ~o.err
        BY <1>6, <3>2 DEF RunBaseline
      <4>2. baseline' = "passed"
        <5>1. Fate(o) = "passed"
          BY <4>1, PassedOutcome
        <5> QED BY <4>1, <5>1
      <4>3. ~err
        BY <1>e, <4>1 DEF OutcomesGiven, Lost
      <4>4. seen = sites /\ count > 0 /\ request = "run"
        BY <1>6, <4>3 DEF RunBaseline, Scanned, Founded
      <4>5. UNCHANGED <<request, sites, seen, count, results, tests>>
        BY <1>6 DEF RunBaseline
      <4>6. pc' \in {"report", "make tree"}
        BY <1>6, <3>2 DEF RunBaseline
      <4> QED BY <4>2, <4>4, <4>5, <4>6 DEF Founded
    <3> QED BY <3>1, <3>2
  <2>4. Counted'
    <3>1. UNCHANGED <<index, count, results, tests, completed>>
      BY <1>6 DEF RunBaseline
    <3>2. count > 0 /\ index = 1 /\ tests = <<>> /\ results = <<>>
      BY <1>6 DEF RunBaseline, Scanned, Counted, Founded
    <3>3. count # 0
      BY <1>t, <3>2
    <3>4. pc' \in {"report error", "make tree"}
      BY <1>6, <3>3, Zenon DEF RunBaseline
    <3>5. /\ index \in 1 .. count + 1 /\ index <= count
          /\ Len(tests) = index - 1 /\ Len(results) = index - 1
      BY <1>t, <3>2
    <3> QED BY <3>1, <3>4, <3>5 DEF Counted
  <2>5. Matched'
    BY <1>6 DEF RunBaseline, Matched
  <2>6. Trees'
    BY <1>t, <1>6 DEF RunBaseline, Trees
  <2>7. Decided'
    <3>1. exit = 2 /\ exit' = 2 /\ request' = "run"
      BY <1>6 DEF RunBaseline, Founded, Decided
    <3>2. pc' # "parse"
      BY <1>6 DEF RunBaseline
    <3> QED BY <3>1, <3>2 DEF Decided
  <2> QED BY <2>1, <2>2, <2>3, <2>4, <2>5, <2>6, <2>7
<1>7. CASE MakeTree
  <2>1. Typed'
    <3>1. tests' \in Seq(Fates)
      <4>1. tests \in Seq(Fates) /\ "none" \in Fates
        BY Zenon DEF Typed, Fates
      <4>2. tests' = Append(tests, "none")
        BY <1>7, Zenon DEF MakeTree
      <4> QED BY <4>1, <4>2, Grown, Zenon
    <3>2. pc' \in {"next", "remove", "copy"} /\ completed' = FALSE /\ err' \in BOOLEAN
      BY <1>e, <1>7 DEF MakeTree
    <3> QED BY <1>7, <3>1, <3>2 DEF MakeTree, Typed
  <2>2. Scanned'
    BY <1>t, <1>7 DEF MakeTree, Typed, Scanned
  <2>3. Founded'
    BY <1>7 DEF MakeTree, Founded, Typed
  <2>4. Counted'
    <3>1. Len(tests') = Len(tests) + 1
      <4>1. tests \in Seq(Fates) /\ "none" \in Fates
        BY Zenon DEF Typed, Fates
      <4>2. tests' = Append(tests, "none")
        BY <1>7, Zenon DEF MakeTree
      <4> QED BY <4>1, <4>2, Grown, Zenon
    <3>2. pc' \in {"next", "remove", "copy"} /\ completed' = FALSE
      BY <1>7 DEF MakeTree
    <3>3. UNCHANGED <<index, count, results>>
      BY <1>7 DEF MakeTree
    <3>4. /\ index \in 1 .. count + 1 /\ index <= count
          /\ Len(tests) = index - 1 /\ Len(results) = index - 1
      BY <1>7 DEF MakeTree, Counted
    <3>5. Len(tests') = index
      BY <1>t, <3>1, <3>4
    <3> QED BY <3>2, <3>3, <3>4, <3>5 DEF Counted
  <2>5. Matched'
    <3>1. /\ DOMAIN tests' = DOMAIN tests \cup {Len(tests) + 1}
          /\ \A i \in DOMAIN tests : tests'[i] = tests[i]
          /\ tests'[Len(tests) + 1] = "none"
      <4>1. tests \in Seq(Fates) /\ "none" \in Fates
        BY Zenon DEF Typed, Fates
      <4>2. tests' = Append(tests, "none")
        BY <1>7, Zenon DEF MakeTree
      <4>3. /\ DOMAIN Append(tests, "none") = DOMAIN tests \cup {Len(tests) + 1}
            /\ \A i \in DOMAIN tests : Append(tests, "none")[i] = tests[i]
            /\ Append(tests, "none")[Len(tests) + 1] = "none"
        BY <4>1, Grown
      <4> QED BY <4>2, <4>3, Zenon
    <3>2. UNCHANGED results
      BY <1>7 DEF MakeTree
    <3> QED BY <3>1, <3>2 DEF Matched
  <2>6. Trees'
    <3>1. trees = stuck /\ stuck \subseteq 1 .. count /\ \A i \in stuck : i < index
      BY <1>7 DEF MakeTree, Trees
    <3>2. \A i \in stuck : i <= index
      BY <1>t, <3>1
    <3>3. UNCHANGED <<index, count, stuck>>
      BY <1>7 DEF MakeTree
    <3>4. \/ pc' = "next" /\ trees' = trees
          \/ pc' \in {"remove", "copy"} /\ trees' = trees \cup {index}
      BY <1>7 DEF MakeTree
    <3> QED BY <3>1, <3>2, <3>3, <3>4 DEF Trees
  <2>7. Decided'
    BY SameVerdict, <1>7 DEF MakeTree, Decided, Judged, Founded
  <2> QED BY <2>1, <2>2, <2>3, <2>4, <2>5, <2>6, <2>7
<1>8. CASE CopyTree
  <2>1. Typed'
    BY <1>8 DEF CopyTree, Typed
  <2>2. Scanned'
    BY <1>t, <1>8 DEF CopyTree, Typed, Scanned
  <2>3. Founded'
    BY <1>8 DEF CopyTree, Founded, Typed
  <2>4. Counted'
    BY <1>t, <1>8 DEF CopyTree, Counted, Scanned
  <2>5. Matched'
    BY <1>8 DEF CopyTree, Matched
  <2>6. Trees'
    BY <1>t, <1>8 DEF CopyTree, Trees
  <2>7. Decided'
    BY SameVerdict, <1>8 DEF CopyTree, Decided, Judged, Founded
  <2> QED BY <2>1, <2>2, <2>3, <2>4, <2>5, <2>6, <2>7
<1>9. CASE ApplyCandidate
  <2>1. Typed'
    BY <1>9 DEF ApplyCandidate, Typed
  <2>2. Scanned'
    BY <1>t, <1>9 DEF ApplyCandidate, Typed, Scanned
  <2>3. Founded'
    BY <1>9 DEF ApplyCandidate, Founded, Typed
  <2>4. Counted'
    BY <1>t, <1>9 DEF ApplyCandidate, Counted, Scanned
  <2>5. Matched'
    BY <1>9 DEF ApplyCandidate, Matched
  <2>6. Trees'
    BY <1>t, <1>9 DEF ApplyCandidate, Trees
  <2>7. Decided'
    BY SameVerdict, <1>9 DEF ApplyCandidate, Decided, Judged, Founded
  <2> QED BY <2>1, <2>2, <2>3, <2>4, <2>5, <2>6, <2>7
<1>10. CASE BuildCompileCommand
  <2>1. Typed'
    BY <1>10 DEF BuildCompileCommand, Typed
  <2>2. Scanned'
    BY <1>t, <1>10 DEF BuildCompileCommand, Typed, Scanned
  <2>3. Founded'
    BY <1>10 DEF BuildCompileCommand, Founded, Typed
  <2>4. Counted'
    BY <1>t, <1>10 DEF BuildCompileCommand, Counted, Scanned
  <2>5. Matched'
    BY <1>10 DEF BuildCompileCommand, Matched
  <2>6. Trees'
    BY <1>t, <1>10 DEF BuildCompileCommand, Trees
  <2>7. Decided'
    BY SameVerdict, <1>10 DEF BuildCompileCommand, Decided, Judged, Founded
  <2> QED BY <2>1, <2>2, <2>3, <2>4, <2>5, <2>6, <2>7
<1>11. CASE Compile
  <2>1. Typed'
    <3>1. results' \in Seq({"inconclusive", "survived", "killed"})
      BY <1>11 DEF Compile, Typed
    <3>2. pc' \in {"remove", "rewrite"} /\ completed' \in BOOLEAN
      BY <1>11 DEF Compile, Typed
    <3>3. err' \in BOOLEAN
      BY <1>e, <1>11 DEF Compile, OutcomesGiven, Ended, Killed, Lost
    <3> QED BY <1>11, <3>1, <3>2, <3>3 DEF Compile, Typed
  <2>2. Scanned'
    BY <1>t, <1>11 DEF Compile, Typed, Scanned
  <2>3. Founded'
    BY <1>11 DEF Compile, Founded, Typed
  <2>4. Counted'
    <3>1. \/ Len(results') = Len(results) + 1 /\ completed' /\ pc' = "remove"
          \/ UNCHANGED <<results, completed>> /\ pc' = "rewrite"
      BY <1>11 DEF Compile, Typed
    <3>2. /\ index \in 1 .. count + 1 /\ index <= count /\ Len(tests) = index
          /\ ~completed /\ Len(results) = index - 1
      BY <1>11 DEF Compile, Counted
    <3>3. UNCHANGED <<index, count, tests>>
      BY <1>11 DEF Compile
    <3>4. Len(results) + 1 = index
      BY <1>t, <3>2
    <3>5. CASE Len(results') = Len(results) + 1 /\ completed' /\ pc' = "remove"
      BY <3>2, <3>3, <3>4, <3>5 DEF Counted
    <3>6. CASE UNCHANGED <<results, completed>> /\ pc' = "rewrite"
      BY <3>2, <3>3, <3>6 DEF Counted
    <3> QED BY <3>1, <3>5, <3>6
  <2>5. Matched'
    <3>1. CASE UNCHANGED results
      BY <1>11, <3>1 DEF Compile, Matched
    <3>2. CASE results' = Append(results, "inconclusive")
      <4>1. Len(tests) = index /\ Len(results) + 1 = index /\ index \in 1 .. count + 1
        BY <1>11, <1>t DEF Compile, Counted
      <4>2. /\ DOMAIN results' = DOMAIN results \cup {index}
            /\ results'[index] = "inconclusive"
            /\ \A i \in DOMAIN results : results'[i] = results[i]
        <5>1. results \in Seq({"inconclusive", "survived", "killed"})
          BY Zenon DEF Typed
        <5> DEFINE more == Append(results, "inconclusive")
        <5>2. /\ DOMAIN more = DOMAIN results \cup {Len(results) + 1}
              /\ \A i \in DOMAIN results : more[i] = results[i]
              /\ more[Len(results) + 1] = "inconclusive"
          BY <5>1, Grown
        <5> QED BY <3>2, <4>1, <5>2, Zenon
      <4>3. index \in DOMAIN tests /\ index \notin DOMAIN results
        BY <4>1, NextIndex
      <4>4. tests[index] = "none"
        BY <4>3 DEF Matched
      <4>5. UNCHANGED tests
        BY <1>11 DEF Compile
      <4> QED BY <4>2, <4>3, <4>4, <4>5 DEF Matched
    <3> QED BY <1>11, <3>1, <3>2 DEF Compile
  <2>6. Trees'
    BY <1>t, <1>11 DEF Compile, Trees
  <2>7. Decided'
    BY SameVerdict, <1>11 DEF Compile, Decided, Judged, Founded
  <2> QED BY <2>1, <2>2, <2>3, <2>4, <2>5, <2>6, <2>7
<1>12. CASE RewriteCommand
  <2>1. Typed'
    BY <1>12 DEF RewriteCommand, Typed
  <2>2. Scanned'
    BY <1>t, <1>12 DEF RewriteCommand, Typed, Scanned
  <2>3. Founded'
    BY <1>12 DEF RewriteCommand, Founded, Typed
  <2>4. Counted'
    BY <1>t, <1>12 DEF RewriteCommand, Counted, Scanned
  <2>5. Matched'
    BY <1>12 DEF RewriteCommand, Matched
  <2>6. Trees'
    BY <1>t, <1>12 DEF RewriteCommand, Trees
  <2>7. Decided'
    BY SameVerdict, <1>12 DEF RewriteCommand, Decided, Judged, Founded
  <2> QED BY <2>1, <2>2, <2>3, <2>4, <2>5, <2>6, <2>7
<1>13. CASE RunTest
  <2>1. Typed'
    <3>1. PICK o \in OutcomesGiven(err) :
            /\ err' = o.err
            /\ tests' = [tests EXCEPT ![index] = Fate(o)]
            /\ results' = Append(results, Classify(o))
      BY <1>13 DEF RunTest
    <3>2. err' \in BOOLEAN
      BY <1>e, <3>1 DEF OutcomesGiven, Ended, Killed, Lost
    <3>3. tests' \in Seq(Fates)
      <4>1. Fate(o) \in Fates /\ tests \in Seq(Fates)
        BY FateIsAFate, Zenon DEF Typed
      <4> QED BY <3>1, <4>1, Replaced, Zenon
    <3>4. results' \in Seq({"inconclusive", "survived", "killed"})
      <4>1. Classify(o) \in {"inconclusive", "survived", "killed"}
        BY <1>e, ClassifyMatches, Zenon
      <4>2. results \in Seq({"inconclusive", "survived", "killed"})
        BY Zenon DEF Typed
      <4> QED BY <3>1, <4>1, <4>2, Grown, Zenon
    <3> QED BY <1>13, <3>2, <3>3, <3>4 DEF RunTest, Typed
  <2>2. Scanned'
    BY <1>t, <1>13 DEF RunTest, Typed, Scanned
  <2>3. Founded'
    BY <1>13 DEF RunTest, Founded, Typed
  <2>4. Counted'
    BY <1>t, <1>13 DEF RunTest, Counted, Scanned
  <2>5. Matched'
    <3>1. PICK o \in OutcomesGiven(err) :
            /\ tests' = [tests EXCEPT ![index] = Fate(o)]
            /\ results' = Append(results, Classify(o))
      BY <1>13 DEF RunTest
    <3>2. Len(tests) = index /\ Len(results) + 1 = index
      BY <1>t, <1>13 DEF RunTest, Counted
    <3>3. /\ DOMAIN results' = DOMAIN results \cup {index}
          /\ results'[index] = Classify(o)
          /\ \A i \in DOMAIN results : results'[i] = results[i]
      <4>1. Classify(o) \in {"inconclusive", "survived", "killed"}
        BY <1>e, ClassifyMatches, Zenon
      <4>2. results \in Seq({"inconclusive", "survived", "killed"})
        BY Zenon DEF Typed
      <4> DEFINE more == Append(results, Classify(o))
      <4>3. /\ DOMAIN more = DOMAIN results \cup {Len(results) + 1}
            /\ \A i \in DOMAIN results : more[i] = results[i]
            /\ more[Len(results) + 1] = Classify(o)
        BY <4>1, <4>2, Grown
      <4> QED BY <3>1, <3>2, <4>3, Zenon
    <3>4. index \in DOMAIN tests /\ index \notin DOMAIN results
      BY <3>2, NextIndex
    <3>5. /\ DOMAIN tests' = DOMAIN tests
          /\ tests'[index] = Fate(o)
          /\ \A i \in DOMAIN tests \ {index} : tests'[i] = tests[i]
      BY <3>1, <3>4 DEF Typed
    <3>6. /\ Classify(o) = "survived" <=> Fate(o) = "passed"
          /\ Fate(o) \in {"none", "cut"} => Classify(o) = "inconclusive"
      BY <1>e, ClassifyMatches, FateIsAFate
    <3> QED BY <3>3, <3>4, <3>5, <3>6 DEF Matched
  <2>6. Trees'
    BY <1>t, <1>13 DEF RunTest, Trees
  <2>7. Decided'
    BY SameVerdict, <1>13 DEF RunTest, Decided, Judged, Founded
  <2> QED BY <2>1, <2>2, <2>3, <2>4, <2>5, <2>6, <2>7
<1>14. CASE RemoveTree
  <2>1. Typed'
    BY <1>14 DEF RemoveTree, Typed
  <2>2. Scanned'
    BY <1>t, <1>14 DEF RemoveTree, Typed, Scanned
  <2>3. Founded'
    BY <1>14 DEF RemoveTree, Founded, Typed
  <2>4. Counted'
    BY <1>t, <1>14 DEF RemoveTree, Counted, Scanned
  <2>5. Matched'
    BY <1>14 DEF RemoveTree, Matched
  <2>6. Trees'
    <3>1. trees = stuck \cup {index} /\ stuck \subseteq 1 .. count /\ \A i \in stuck : i < index
      BY <1>14 DEF RemoveTree, Trees
    <3>2. index \in 1 .. count
      BY <1>t, <1>14 DEF RemoveTree, Counted
    <3>3. \/ trees' = trees \ {index} /\ stuck' = stuck
          \/ trees' = trees /\ stuck' = stuck \cup {index}
      BY <1>14 DEF RemoveTree
    <3>4. trees' = stuck'
      BY <1>t, <3>1, <3>3
    <3>5. stuck' \subseteq 1 .. count /\ \A i \in stuck' : i <= index
      <4>1. \A i \in stuck \cup {index} : i \in 1 .. count /\ i <= index
        BY <1>t, <3>1, <3>2
      <4>2. stuck' \subseteq stuck \cup {index}
        BY <3>3
      <4> QED BY <4>1, <4>2
    <3>6. pc' = "next" /\ UNCHANGED <<index, count>>
      BY <1>14 DEF RemoveTree
    <3> QED BY <3>4, <3>5, <3>6 DEF Trees
  <2>7. Decided'
    BY SameVerdict, <1>14 DEF RemoveTree, Decided, Judged, Founded
  <2> QED BY <2>1, <2>2, <2>3, <2>4, <2>5, <2>6, <2>7
<1>15. CASE NextCandidate
  <2>1. Typed'
    BY <1>15 DEF NextCandidate, Typed
  <2>2. Scanned'
    BY <1>t, <1>15 DEF NextCandidate, Typed, Scanned
  <2>3. Founded'
    BY <1>15 DEF NextCandidate, Founded, Typed
  <2>4. Counted'
    <3>1. UNCHANGED <<count, tests, results, completed>> /\ index' = index + 1
      BY <1>15 DEF NextCandidate
    <3>2. /\ index <= count /\ Len(tests) = index
          /\ completed => Len(results) = index
      BY <1>15 DEF NextCandidate, Counted
    <3>3. \/ pc' = "report error"
          \/ pc' = "make tree" /\ completed /\ index < count
          \/ pc' = "report" /\ completed /\ ~(index < count)
      BY <1>15, Zenon DEF NextCandidate
    <3>4. /\ index' \in 1 .. count + 1 /\ index' - 1 = index
          /\ index < count => index' <= count
          /\ ~(index < count) => index = count
      <4>1. index' = index + 1 /\ index <= count /\ index \in 1 .. count + 1
        BY <1>15, Zenon DEF NextCandidate, Counted
      <4> QED BY <1>t, <4>1
    <3> QED BY <3>1, <3>2, <3>3, <3>4 DEF Counted
  <2>5. Matched'
    BY <1>15 DEF NextCandidate, Matched
  <2>6. Trees'
    <3>1. pc' \in {"report error", "make tree", "report"} /\ index' = index + 1
      BY <1>15 DEF NextCandidate
    <3>2. UNCHANGED <<count, trees, stuck>> /\ trees = stuck
      BY <1>15 DEF NextCandidate, Trees
    <3>3. stuck \subseteq 1 .. count /\ \A i \in stuck : i <= index
      BY <1>15 DEF NextCandidate, Trees
    <3>4. \A i \in stuck : i < index'
      <4>1. index' = index + 1
        BY <3>1
      <4> QED BY <1>t, <3>3, <4>1
    <3> QED BY <3>1, <3>2, <3>3, <3>4 DEF Trees
  <2>7. Decided'
    <3>1. exit = 2 /\ exit' = 2 /\ request' = "run"
      BY <1>15 DEF NextCandidate, Founded, Decided
    <3>2. pc' # "parse"
      BY <1>15 DEF NextCandidate
    <3> QED BY <3>1, <3>2 DEF Decided
  <2> QED BY <2>1, <2>2, <2>3, <2>4, <2>5, <2>6, <2>7
<1>16. CASE ReportResults
  <2>1. Typed'
    <3>1. report'.exit \in {0, 1, 2, Running}
      BY <1>16 DEF ReportResults, NoReport, Reported
    <3>2. err' \in BOOLEAN
      BY <1>e, <1>16 DEF ReportResults
    <3> QED BY <1>16, <3>1, <3>2 DEF ReportResults, Typed
  <2>2. Scanned'
    BY <1>t, <1>16 DEF ReportResults, Typed, Scanned
  <2>3. Founded'
    BY <1>16 DEF ReportResults, Founded, Typed
  <2>4. Counted'
    BY <1>t, <1>16 DEF ReportResults, Counted, Scanned
  <2>5. Matched'
    BY <1>16 DEF ReportResults, Matched
  <2>6. Trees'
    BY <1>t, <1>16 DEF ReportResults, Trees
  <2>7. Decided'
    BY SameVerdict, <1>16 DEF ReportResults, Decided, Judged, Founded
  <2> QED BY <2>1, <2>2, <2>3, <2>4, <2>5, <2>6, <2>7
<1>17. CASE Judge
  <2>1. Typed'
    <3>1. exit' \in {0, 1, 2, Running}
      BY <1>17, VerdictType DEF Judge
    <3> QED BY <1>17, <3>1 DEF Judge, Typed
  <2>2. Scanned'
    BY <1>t, <1>17 DEF Judge, Typed, Scanned
  <2>3. Founded'
    BY <1>17 DEF Judge, Founded, Typed
  <2>4. Counted'
    BY <1>t, <1>17 DEF Judge, Counted, Scanned
  <2>5. Matched'
    BY <1>17 DEF Judge, Matched
  <2>6. Trees'
    BY <1>t, <1>17 DEF Judge, Trees
  <2>7. Decided'
    <3>1. exit' = Verdict /\ Verdict' = Verdict /\ pc' = "report error" /\ request' = "run"
      BY <1>17, SameVerdict DEF Judge, Founded
    <3>2. /\ baseline = "passed" /\ seen = sites /\ count > 0
          /\ Len(tests) = count /\ Len(results) = count
      BY <1>17 DEF Judge, Founded, Counted
    <3>3. UNCHANGED <<baseline, seen, sites, count, tests, results>>
      BY <1>17 DEF Judge
    <3> QED BY <3>1, <3>2, <3>3 DEF Decided, Judged
  <2> QED BY <2>1, <2>2, <2>3, <2>4, <2>5, <2>6, <2>7
<1>18. CASE ReportError
  <2>1. Typed'
    BY <1>18 DEF ReportError, Typed
  <2>2. Scanned'
    BY <1>t, <1>18 DEF ReportError, Typed, Scanned
  <2>3. Founded'
    BY <1>18 DEF ReportError, Founded, Typed
  <2>4. Counted'
    BY <1>t, <1>18 DEF ReportError, Counted, Scanned
  <2>5. Matched'
    BY <1>18 DEF ReportError, Matched
  <2>6. Trees'
    BY <1>t, <1>18 DEF ReportError, Trees
  <2>7. Decided'
    <3>1. exit' = 2 \/ exit' = exit
      BY <1>18 DEF ReportError
    <3>2. pc = "report error" /\ pc' = "done"
      BY <1>18 DEF ReportError
    <3>3. UNCHANGED <<request, baseline, seen, sites, count, tests, results>>
      BY <1>18 DEF ReportError
    <3>4. Verdict' = Verdict
      BY <3>3, SameVerdict
    <3>5. \/ request = "run" /\ (exit = 2 \/ Judged)
          \/ request # "run" /\ exit # 1
      BY <3>2 DEF Decided
    <3>6. CASE Judged /\ exit' = exit
      BY <3>2, <3>3, <3>4, <3>5, <3>6 DEF Decided, Judged
    <3>7. CASE exit' = 2
      <4>1. exit' # 1 /\ exit' = 2
        BY <3>7
      <4> QED BY <3>2, <4>1, Zenon DEF Decided
    <3>8. CASE request # "run" /\ exit # 1 /\ exit' = exit
      BY <3>2, <3>3, <3>8 DEF Decided
    <3> QED BY <3>1, <3>5, <3>6, <3>7, <3>8
  <2> QED BY <2>1, <2>2, <2>3, <2>4, <2>5, <2>6, <2>7
<1>19. CASE UNCHANGED vars
  <2>1. Verdict' = Verdict
    BY <1>19, SameVerdict DEF vars
  <2>2. Typed' /\ Scanned'
    BY <1>19 DEF vars, Typed, Scanned
  <2>3. Founded' /\ Matched'
    BY <1>19 DEF vars, Founded, Matched
  <2>4. Counted'
    <3>1. UNCHANGED <<pc, index, count, completed, tests, results>>
      BY <1>19 DEF vars
    <3> QED BY <3>1 DEF Counted
  <2>5. Trees'
    BY <1>19 DEF vars, Trees
  <2>6. Judged => Judged'
    BY <1>19, <2>1 DEF vars, Judged
  <2>7. Decided'
    BY <1>19, <2>6 DEF vars, Decided
  <2> QED BY <2>2, <2>3, <2>4, <2>5, <2>7
<1> QED BY <1>1, <1>2, <1>3, <1>4, <1>5, <1>6, <1>7, <1>8, <1>9, <1>10, <1>11, <1>12, <1>13,
           <1>14, <1>15, <1>16, <1>17, <1>18, <1>19
       DEF Next, Step, Finished

-----------------------------------------------------------------------------
(* Theorems. *)

\* The invariant holds in every state of the campaign.
LEMMA Invariance == Spec => []IInv
<1>1. Init => IInv
  BY InitEstablishes
<1>2. IInv /\ [Next]_vars => IInv'
  BY StepPreserves
<1> QED BY <1>1, <1>2, PTL DEF Spec

\* The variables have their types, and main never keeps more candidates than
\* the array it allocated has room for.
THEOREM TypeCorrectness == Spec => []TypeOK
<1>1. IInv => TypeOK
  <2> SUFFICES ASSUME IInv PROVE TypeOK
      OBVIOUS
  <2>1. index \in Nat /\ count \in Nat /\ sites \in Nat /\ seen \in Nat /\ capacity \in Nat
    BY NumbersAreNatural
  <2>2. seen \in 0 .. sites /\ count \in 0 .. capacity
    <3>1. /\ seen \in 0 .. sites
          /\ count = IF seen < capacity THEN seen ELSE capacity
      BY Zenon DEF IInv, Scanned
    <3> QED BY <2>1, <3>1, LimitsOK
  <2>3. index \in 1 .. capacity + 1
    <3>1. index \in 1 .. count + 1
      BY Zenon DEF IInv, Counted
    <3> QED BY <2>1, <2>2, <3>1, LimitsOK
  <2>4. trees \subseteq 1 .. capacity /\ stuck \subseteq trees
    <3>1. /\ stuck \subseteq 1 .. count
          /\ trees = IF pc \in InTree THEN stuck \cup {index} ELSE stuck
      BY Zenon DEF IInv, Trees
    <3>2. pc \in InTree => index \in 1 .. count
      <4>1. index \in 1 .. count + 1 /\ (pc \in InTree => index <= count)
        BY Zenon DEF IInv, Counted, InCandidate
      <4> QED BY <2>1, <4>1
    <3>3. 1 .. count \subseteq 1 .. capacity
      BY <2>1, <2>2, LimitsOK
    <3> QED BY <3>1, <3>2, <3>3
  <2>5. pc \in {"parse", "scan", "found", "baseline", "make tree", "copy", "apply", "build",
                "compile", "rewrite", "test", "remove", "next", "report", "judge",
                "report error", "done"}
    BY DEF IInv, Typed, Opening, InTree, InCandidate, Working, Closing
  <2> QED BY <2>2, <2>3, <2>4, <2>5, Zenon DEF TypeOK, IInv, Typed
<1> QED BY <1>1, Invariance, PTL

\* The directory of every candidate that the campaign has left behind is gone,
\* or could not be removed.
THEOREM Removal == Spec => []TreesRemoved
<1>1. IInv => TreesRemoved
  BY DEF IInv, Trees, TreesRemoved, InTree
<1> QED BY <1>1, Invariance, PTL

\* When the campaign is over, its exit status is 2 or the verdict on as many
\* results as there are candidates.
LEMMA AtTheEnd ==
  ASSUME IInv, pc = "done", request = "run", exit # 2
  PROVE  Judged /\ Matched
BY DEF IInv, Decided, Closing

\* A result that is not inconclusive has a test that came to its end.
LEMMA VerdictOnTests ==
  ASSUME IInv, Judged
  PROVE  /\ DOMAIN tests = DOMAIN results
         /\ exit \in {0, 1} => \A i \in DOMAIN results : results[i] # "inconclusive"
         /\ exit = 0 => \A i \in DOMAIN results : results[i] # "survived"
         /\ exit = 1 => \E i \in DOMAIN results : results[i] = "survived"
<1>1. tests \in Seq(Fates) /\ results \in Seq({"inconclusive", "survived", "killed"})
  BY Zenon DEF IInv, Typed
<1>2. Len(tests) = Len(results)
  BY DEF Judged
<1>3. DOMAIN tests = DOMAIN results
  BY <1>1, <1>2
<1>4. exit = Verdict
  BY DEF Judged
<1>5. exit \in {0, 1} => ~Has("inconclusive")
  BY <1>4 DEF Verdict
<1>6. exit = 0 => ~Has("survived")
  BY <1>4 DEF Verdict
<1>7. exit = 1 => Has("survived")
  BY <1>4 DEF Verdict
<1> QED BY <1>3, <1>5, <1>6, <1>7, Zenon DEF Has

\* 0 and 1 are given only for a campaign that passed its baseline, had a
\* candidate, and got every candidate compiled and its test begun and not cut
\* short (a test the tool lost sight of counts as one that rejected the mutant).
THEOREM Completeness == Spec => []VerdictIsComplete
<1>1. IInv => VerdictIsComplete
  <2> SUFFICES ASSUME IInv, pc = "done", request = "run", exit # 2
               PROVE  /\ baseline = "passed" /\ Len(tests) = count /\ count > 0
                      /\ count = IF sites < capacity THEN sites ELSE capacity
                      /\ \A i \in DOMAIN tests : tests[i] \notin {"none", "cut"}
      BY Zenon DEF VerdictIsComplete
  <2>1. Judged /\ Matched
    BY AtTheEnd
  <2>2. baseline = "passed" /\ Len(tests) = count /\ count > 0 /\ seen = sites
    BY <2>1 DEF Judged
  <2>3. count = IF sites < capacity THEN sites ELSE capacity
    BY <2>2 DEF IInv, Scanned
  <2>4. exit \in {0, 1}
    BY <2>1, VerdictType DEF Judged
  <2>5. \A i \in DOMAIN tests : tests[i] \notin {"none", "cut"}
    BY <2>1, <2>4, VerdictOnTests DEF Matched
  <2> QED BY <2>2, <2>3, <2>5
<1> QED BY <1>1, Invariance, PTL

\* When the exit status is 0, no candidate passed the tests.
THEOREM NoneMissed == Spec => []NoSurvivorMissed
<1>1. IInv => NoSurvivorMissed
  <2> SUFFICES ASSUME IInv, pc = "done", exit = 0, NEW i \in DOMAIN tests
               PROVE  tests[i] # "passed"
      BY Zenon DEF NoSurvivorMissed
  <2>1. CASE request = "run"
    <3>1. Judged /\ Matched
      BY <2>1, AtTheEnd
    <3> QED BY <3>1, VerdictOnTests DEF Matched
  <2>2. CASE request # "run"
    <3>1. tests = <<>>
      BY <2>2 DEF IInv, Founded
    <3> QED BY <3>1
  <2> QED BY <2>1, <2>2
<1> QED BY <1>1, Invariance, PTL

\* When the exit status is 1, a candidate did pass the tests and no result is
\* inconclusive.
THEOREM RealFindings == Spec => []FindingsAreReal
<1>1. IInv => FindingsAreReal
  <2> SUFFICES ASSUME IInv, pc = "done", exit = 1
               PROVE  /\ \E i \in DOMAIN tests : tests[i] = "passed"
                      /\ \A i \in DOMAIN results : results[i] # "inconclusive"
      BY Zenon DEF FindingsAreReal
  <2>1. request = "run"
    BY DEF IInv, Decided
  <2>2. Judged /\ Matched
    BY <2>1, AtTheEnd
  <2>3. /\ DOMAIN tests = DOMAIN results
        /\ \A i \in DOMAIN results : results[i] # "inconclusive"
        /\ \E i \in DOMAIN results : results[i] = "survived"
    BY <2>2, VerdictOnTests
  <2> QED BY <2>2, <2>3 DEF Matched
<1> QED BY <1>1, Invariance, PTL


-----------------------------------------------------------------------------
(* The report.                                                               *)

\* From the judgement on, the report is that of the results, or there is an error.
ReportKept ==
  /\ pc = "judge" => err \/ report = Reported
  /\ pc = "report error" /\ request = "run" /\ exit # 2 => err \/ report = Reported
  /\ pc = "done" /\ request = "run" /\ exit # 2 => report = Reported

LEMMA SameReported == UNCHANGED results => Reported' = Reported
BY DEF Reported, Tally

LEMMA ReportKeptPreserved ==
  ASSUME IInv, ReportKept, [Next]_vars
  PROVE  ReportKept'
<1> USE DEF ReportKept
<1>1. CASE ReportResults
  <2>1. pc' = "judge" /\ UNCHANGED results /\ (err' \/ report' = Reported)
    BY <1>1 DEF ReportResults
  <2> QED BY <2>1, SameReported
<1>2. CASE Judge
  <2>1. pc = "judge" /\ pc' = "report error" /\ UNCHANGED <<results, report, err>>
    BY <1>2 DEF Judge, candidate
  <2> QED BY <2>1, SameReported
<1>3. CASE ReportError
  <2>1. /\ pc = "report error" /\ pc' = "done" /\ UNCHANGED <<request, results, report>>
        /\ exit' = IF err THEN 2 ELSE exit
    BY <1>3 DEF ReportError, arguments, candidate
  <2>2. exit' # 2 => ~err /\ exit # 2
    BY <2>1
  <2> QED BY <2>1, <2>2, SameReported
<1>4. CASE ParseArguments
  <2>1. pc' \in {"report error", "scan"} /\ (request' = "run" => exit' = 2)
    BY <1>4 DEF ParseArguments
  <2> QED BY <2>1
<1>5. CASE ListCandidates
  <2>1. pc' = "report error" /\ request' # "run"
    BY <1>5 DEF ListCandidates, arguments
  <2> QED BY <2>1
<1>6. CASE Observe \/ EndScan \/ RefuseVacuous \/ RunBaseline
  <2>1. /\ pc \in {"scan", "found", "baseline"} /\ pc' \notin {"judge", "done"}
        /\ exit' = exit
    BY <1>6 DEF Observe, EndScan, RefuseVacuous, RunBaseline
  <2>2. exit = 2
    BY <2>1 DEF IInv, Decided, Opening
  <2> QED BY <2>1, <2>2
<1>7. CASE MakeTree \/ CopyTree \/ ApplyCandidate \/ BuildCompileCommand \/ Compile
  <2>1. pc' \notin {"judge", "report error", "done"}
    BY <1>7 DEF MakeTree, CopyTree, ApplyCandidate, BuildCompileCommand, Compile
  <2> QED BY <2>1
<1>8. CASE RewriteCommand \/ RunTest \/ RemoveTree \/ NextCandidate
  <2>1. /\ pc \in {"rewrite", "test", "remove", "next"} /\ pc' \notin {"judge", "done"}
        /\ exit' = exit
    BY <1>8 DEF RewriteCommand, RunTest, RemoveTree, NextCandidate
  <2>2. exit = 2
    BY <2>1 DEF IInv, Decided, Working, InCandidate, InTree
  <2> QED BY <2>1, <2>2
<1>9. CASE UNCHANGED vars
  <2>1. UNCHANGED <<pc, request, exit, err, report, results>>
    BY <1>9 DEF vars
  <2> QED BY <2>1, SameReported
<1> QED BY <1>1, <1>2, <1>3, <1>4, <1>5, <1>6, <1>7, <1>8, <1>9 DEF Next, Step, Finished

\* Results that are all "killed" or "survived" add up.
LEMMA TwoKinds ==
  ASSUME NEW r \in Seq({"inconclusive", "survived", "killed"}),
         \A i \in DOMAIN r : r[i] # "inconclusive"
  PROVE  /\ Cardinality({i \in DOMAIN r : r[i] = "killed"}) =
              Len(r) - Cardinality({i \in DOMAIN r : r[i] = "survived"})
         /\ {i \in DOMAIN r : r[i] = "inconclusive"} = {}
<1> DEFINE K == {i \in DOMAIN r : r[i] = "killed"}
           S == {i \in DOMAIN r : r[i] = "survived"}
<1>1. Len(r) \in Nat /\ DOMAIN r = 1 .. Len(r)
  OBVIOUS
<1>2. IsFiniteSet(1 .. Len(r)) /\ Cardinality(1 .. Len(r)) = Len(r)
  BY <1>1, FS_Interval
<1>3. IsFiniteSet(K) /\ IsFiniteSet(S)
  BY <1>1, <1>2, FS_Subset
<1>4. K \cap S = {} /\ K \cup S = 1 .. Len(r)
  BY <1>1
<1>5. Cardinality(K) \in Nat /\ Cardinality(S) \in Nat
  BY <1>3, FS_CardinalityType
<1>6. Cardinality(K \cup S) = Cardinality(K) + Cardinality(S)
  <2> HIDE DEF K, S
  <2>1. Cardinality(K \cup S) = Cardinality(K) + Cardinality(S) - Cardinality(K \cap S)
    BY <1>3, FS_Union, Zenon
  <2>2. Cardinality(K \cap S) = 0
    BY <1>4, FS_EmptySet
  <2> QED BY <1>5, <2>1, <2>2
<1>7. Cardinality(K) = Len(r) - Cardinality(S)
  <2> HIDE DEF K, S
  <2>1. Cardinality(K \cup S) = Len(r)
    BY <1>2, <1>4
  <2> QED BY <1>1, <1>5, <1>6, <2>1
<1> QED BY <1>7

\* A verdict comes with its report, which counts what really became of the tests
\* and states the same exit status.
THEOREM Reporting == Spec => []ReportAgrees
<1>1. Init => ReportKept
  BY DEF Init, ReportKept
<1>2. IInv /\ ReportKept /\ [Next]_vars => ReportKept'
  BY ReportKeptPreserved
<1>3. IInv /\ ReportKept => ReportAgrees
  <2> SUFFICES ASSUME IInv, ReportKept, pc = "done", request = "run", exit \in {0, 1}
               PROVE  /\ report.exit = exit
                      /\ report.survived =
                           Cardinality({i \in DOMAIN tests : tests[i] = "passed"})
                      /\ report.killed = count - report.survived
      BY Zenon DEF ReportAgrees
  <2>1. exit # 2
    OBVIOUS
  <2>2. report = Reported /\ Judged /\ Matched
    BY <2>1, AtTheEnd DEF ReportKept
  <2>3. /\ DOMAIN tests = DOMAIN results
        /\ \A i \in DOMAIN results : results[i] # "inconclusive"
    BY <2>2, VerdictOnTests
  <2>4. results \in Seq({"inconclusive", "survived", "killed"})
    BY Zenon DEF IInv, Typed
  <2>5. /\ Tally("killed") = Len(results) - Tally("survived")
        /\ {i \in DOMAIN results : results[i] = "inconclusive"} = {}
    BY <2>3, <2>4, TwoKinds DEF Tally
  <2>6. /\ report.survived = Tally("survived") /\ report.killed = Tally("killed")
        /\ report.exit = IF Tally("inconclusive") > 0 THEN 2
                          ELSE IF Tally("survived") > 0 THEN 1 ELSE 0
    BY <2>2, Zenon DEF Reported
  <2>7. Len(results) = count /\ exit = Verdict
    BY <2>2 DEF Judged
  <2>8. {i \in DOMAIN tests : tests[i] = "passed"} =
          {i \in DOMAIN results : results[i] = "survived"}
    BY <2>2, <2>3 DEF Matched
  <2>9. report.exit = exit
    <3>1. Tally("inconclusive") = 0
      BY <2>5, FS_EmptySet DEF Tally
    <3>2. Tally("survived") > 0 <=> Has("survived")
      <4> DEFINE S == {i \in DOMAIN results : results[i] = "survived"}
      <4>1. IsFiniteSet(S)
        <5>1. Len(results) \in Nat /\ DOMAIN results = 1 .. Len(results)
          BY <2>4
        <5>2. IsFiniteSet(1 .. Len(results))
          BY <5>1, FS_Interval
        <5>3. S \subseteq 1 .. Len(results)
          BY <5>1
        <5> QED BY <5>2, <5>3, FS_Subset, Zenon
      <4>2. Cardinality(S) \in Nat /\ (Cardinality(S) = 0 <=> S = {})
        BY <4>1, FS_EmptySet, FS_CardinalityType
      <4>3. S # {} <=> Has("survived")
        BY DEF Has
      <4>4. Cardinality(S) > 0 <=> S # {}
        BY <4>2
      <4> QED BY <4>3, <4>4 DEF Tally
    <3>3. ~Has("inconclusive")
      BY <2>3 DEF Has
    <3>4. report.exit = IF Tally("survived") > 0 THEN 1 ELSE 0
      <4>1. ~(Tally("inconclusive") > 0)
        BY <3>1
      <4> QED BY <2>6, <4>1
    <3> QED BY <2>7, <3>2, <3>3, <3>4, Zenon DEF Verdict
  <2>10. report.killed = count - report.survived
    BY <2>5, <2>6, <2>7
  <2> QED BY <2>6, <2>8, <2>9, <2>10 DEF Tally
<1> QED BY <1>1, <1>2, <1>3, Invariance, PTL DEF Spec

-----------------------------------------------------------------------------
(* What the simulation needs beyond the invariant.                           *)

\* The request is read once, and nothing is selected before the baseline.
Opened ==
  /\ request = "unread" <=> pc = "parse"
  /\ pc \in Opening => baseline = "none"

\* The exit status is one from the first step on, and a misuse keeps its own.
Answered ==
  /\ pc # "parse" => exit \in {0, 1, 2}
  /\ request = "misuse" => exit = 2

\* Inconclusive is said only of what did not compile or was cut short.
Blamed ==
  \A i \in DOMAIN results : results[i] = "inconclusive" => tests[i] \in {"none", "cut"}

SInv == IInv /\ Opened /\ Answered /\ Blamed

LEMMA InitEstablishesSimulation == Init => SInv
<1> SUFFICES ASSUME Init PROVE SInv
    OBVIOUS
<1>1. IInv
  BY InitEstablishes
<1>2. Opened /\ Blamed
  BY DEF Init, Opened, Blamed, Opening
<1>3. Answered
  BY DEF Init, Answered
<1> QED BY <1>1, <1>2, <1>3 DEF SInv

\* An inconclusive classification is that of a test cut short.
LEMMA InconclusiveIsCut ==
  ASSUME NEW o, Classify(o) = "inconclusive"
  PROVE  Fate(o) = "cut"
<1>1. CASE o.timedOut
  BY <1>1 DEF Fate
<1>2. CASE ~o.timedOut
  BY <1>2 DEF Classify
<1> QED BY <1>1, <1>2

\* Before the candidates, and once they are done with, the steps that leave the
\* results alone.
Apart ==
  \/ ParseArguments \/ Observe \/ EndScan \/ ListCandidates \/ RefuseVacuous \/ RunBaseline
  \/ CopyTree \/ ApplyCandidate \/ BuildCompileCommand \/ RewriteCommand \/ RemoveTree
  \/ NextCandidate \/ ReportResults \/ Judge \/ ReportError

LEMMA ApartUnchanged == Apart => UNCHANGED <<results, tests>>
BY DEF Apart, ParseArguments, Observe, EndScan, ListCandidates, RefuseVacuous, RunBaseline,
       CopyTree, ApplyCandidate, BuildCompileCommand, RewriteCommand, RemoveTree,
       NextCandidate, ReportResults, Judge, ReportError, candidate, history

\* MakeTree, Compile and RunTest add to tests and results at the end only.
LEMMA MakeTreeAppends ==
  ASSUME IInv, MakeTree
  PROVE  UNCHANGED results /\ \A i \in DOMAIN results : tests'[i] = tests[i]
<1>1. tests \in Seq(Fates) /\ "none" \in Fates
  BY Zenon DEF IInv, Typed, Fates
<1>2. tests' = Append(tests, "none") /\ UNCHANGED results
  BY Zenon DEF MakeTree
<1>3. \A i \in DOMAIN results : i \in DOMAIN tests
  BY Zenon DEF IInv, Matched
<1>4. \A i \in DOMAIN tests : tests'[i] = tests[i]
  <2>1. \A i \in DOMAIN tests : Append(tests, "none")[i] = tests[i]
    BY <1>1, Grown
  <2> QED BY <1>2, <2>1
<1> QED BY <1>2, <1>3, <1>4, Zenon

\* While the candidate is at work it is the next one, and has no result.
LEMMA AtWork ==
  ASSUME IInv, pc \in {"compile", "test"}
  PROVE  /\ Len(tests) = index /\ Len(results) + 1 = index
         /\ index \in DOMAIN tests /\ index \notin DOMAIN results
         /\ results \in Seq({"inconclusive", "survived", "killed"}) /\ tests \in Seq(Fates)
         /\ index <= count /\ count > 0 /\ baseline = "passed"
<1>1. /\ Len(tests) = index /\ index <= count
      /\ Len(results) = index - 1
  <2>1. pc \in InTree \ {"remove"} /\ pc \in InCandidate
    BY DEF InTree, InCandidate
  <2>2. ~completed
    BY <2>1, Zenon DEF IInv, Counted
  <2>3. Len(results) = IF completed THEN index ELSE index - 1
    BY <2>1, Zenon DEF IInv, Counted
  <2>4. Len(tests) = index /\ index <= count
    BY <2>1, Zenon DEF IInv, Counted
  <2> QED BY <2>2, <2>3, <2>4
<1>2. index \in Nat /\ count \in Nat
  BY NumbersAreNatural
<1>3. Len(results) + 1 = index
  BY <1>1, <1>2
<1>4. index \in DOMAIN tests /\ index \notin DOMAIN results
  BY <1>1, <1>3, NextIndex
<1>5. results \in Seq({"inconclusive", "survived", "killed"}) /\ tests \in Seq(Fates)
  BY Zenon DEF IInv, Typed
<1>6. pc \in Working
  BY DEF Working, InCandidate, InTree
<1>7. count > 0 /\ baseline = "passed"
  BY <1>6, Zenon DEF IInv, Founded
<1> QED BY <1>1, <1>3, <1>4, <1>5, <1>7

\* Compile leaves tests alone; RunTest sets what became of the last of them.
LEMMA CompileRecords ==
  ASSUME IInv, Compile
  PROVE  /\ tests' = tests
         /\ results' = results \/ results' = Append(results, "inconclusive")
BY DEF Compile, history

LEMMA RunTestRecords ==
  ASSUME IInv, RunTest
  PROVE  \E o \in OutcomesGiven(err) : /\ tests' = [tests EXCEPT ![index] = Fate(o)]
                                       /\ results' = Append(results, Classify(o))
BY DEF RunTest

\* Whatever step is taken, what is called inconclusive did not come to its end.
LEMMA BlamedPreserved ==
  ASSUME SInv, [Next]_vars
  PROVE  Blamed'
<1> USE DEF SInv
<1>1. CASE UNCHANGED <<results, tests>>
  BY <1>1 DEF Blamed
<1>2. CASE MakeTree
  BY <1>2, MakeTreeAppends DEF Blamed
<1>3. CASE Compile
  <2>1. pc = "compile"
    BY <1>3 DEF Compile
  <2>2. /\ index = Len(results) + 1 /\ index \in DOMAIN tests /\ index \notin DOMAIN results
        /\ results \in Seq({"inconclusive", "survived", "killed"})
    BY <2>1, AtWork
  <2>3. CASE results' = results
    BY <1>3, <2>3, CompileRecords DEF Blamed
  <2>4. CASE results' = Append(results, "inconclusive")
    <3>1. /\ DOMAIN results' = DOMAIN results \cup {index}
          /\ \A i \in DOMAIN results : results'[i] = results[i]
      BY <2>2, <2>4, Grown
    <3>2. tests[index] = "none"
      BY <2>2 DEF IInv, Matched
    <3>3. tests' = tests
      BY <1>3, CompileRecords
    <3> QED BY <3>1, <3>2, <3>3 DEF Blamed
  <2> QED BY <1>3, <2>3, <2>4, CompileRecords
<1>4. CASE RunTest
  <2>1. pc = "test"
    BY <1>4 DEF RunTest
  <2>2. /\ index = Len(results) + 1 /\ index \in DOMAIN tests /\ index \notin DOMAIN results
        /\ results \in Seq({"inconclusive", "survived", "killed"})
    BY <2>1, AtWork
  <2>3. PICK o \in OutcomesGiven(err) : /\ tests' = [tests EXCEPT ![index] = Fate(o)]
                                        /\ results' = Append(results, Classify(o))
    BY <1>4, RunTestRecords
  <2>4. Classify(o) \in {"inconclusive", "survived", "killed"}
    BY ClassifyMatches DEF IInv, Typed
  <2>5. /\ DOMAIN results' = DOMAIN results \cup {index}
        /\ \A i \in DOMAIN results : results'[i] = results[i]
        /\ results'[index] = Classify(o)
    BY <2>2, <2>3, <2>4, Grown
  <2>6. tests'[index] = Fate(o) /\ \A i \in DOMAIN results : tests'[i] = tests[i]
    <3>1. \A i \in DOMAIN results : i \in DOMAIN tests
      BY Zenon DEF IInv, Matched
    <3> QED BY <2>2, <2>3, <3>1
  <2>7. Classify(o) = "inconclusive" => tests'[index] \in {"none", "cut"}
    BY <2>6, InconclusiveIsCut
  <2> QED BY <2>5, <2>6, <2>7 DEF Blamed
<1>5. CASE Apart
  BY <1>1, <1>5, ApartUnchanged
<1>6. CASE UNCHANGED vars
  BY <1>1, <1>6 DEF vars
<1> QED BY <1>2, <1>3, <1>4, <1>5, <1>6 DEF Next, Step, Finished, Apart

LEMMA OpenedPreserved ==
  ASSUME SInv, [Next]_vars
  PROVE  Opened'
<1> USE DEF SInv, Opened, Opening, arguments, history
<1>1. CASE ParseArguments
  BY <1>1 DEF ParseArguments
<1>2. CASE Observe \/ EndScan \/ ListCandidates \/ RefuseVacuous
  BY <1>2 DEF Observe, EndScan, ListCandidates, RefuseVacuous
<1>3. CASE RunBaseline
  BY <1>3 DEF RunBaseline
<1>4. CASE MakeTree \/ Compile \/ RunTest
  BY <1>4 DEF MakeTree, Compile, RunTest
<1>5. CASE CopyTree \/ ApplyCandidate \/ BuildCompileCommand \/ RewriteCommand
  BY <1>5 DEF CopyTree, ApplyCandidate, BuildCompileCommand, RewriteCommand
<1>6. CASE RemoveTree \/ NextCandidate \/ ReportResults \/ Judge \/ ReportError
  BY <1>6 DEF RemoveTree, NextCandidate, ReportResults, Judge, ReportError
<1>7. CASE UNCHANGED vars
  BY <1>7 DEF vars
<1> QED BY <1>1, <1>2, <1>3, <1>4, <1>5, <1>6, <1>7 DEF Next, Step, Finished

LEMMA AnsweredPreserved ==
  ASSUME SInv, [Next]_vars
  PROVE  Answered'
<1> USE DEF SInv, Answered, arguments
<1>1. CASE ParseArguments
  <2>1. exit' \in {0, 2} /\ (request' = "misuse" => exit' = 2)
    BY <1>1 DEF ParseArguments
  <2>2. exit' \in {0, 1, 2}
    BY <2>1
  <2> QED BY <2>1, <2>2
<1>2. CASE ListCandidates
  <2>1. pc # "parse" /\ request' = request /\ request # "misuse" /\ exit' \in {0, 2}
    BY <1>2 DEF ListCandidates
  <2>2. exit' \in {0, 1, 2}
    BY <2>1
  <2> QED BY <2>1, <2>2
<1>3. CASE Judge
  <2>1. exit' = Verdict /\ request' = request /\ pc = "judge"
    BY <1>3 DEF Judge
  <2>2. request = "run"
    BY <2>1 DEF IInv, Founded, Working
  <2> QED BY <2>1, <2>2, VerdictType
<1>4. CASE ReportError
  <2>1. pc # "parse" /\ request' = request /\ exit' \in {exit, 2}
    BY <1>4 DEF ReportError
  <2> QED BY <2>1
<1>5. CASE Observe \/ EndScan \/ RefuseVacuous \/ RunBaseline \/ MakeTree \/ CopyTree
  <2>1. pc # "parse" /\ request' = request /\ exit' = exit
    BY <1>5 DEF Observe, EndScan, RefuseVacuous, RunBaseline, MakeTree, CopyTree
  <2> QED BY <2>1
<1>6. CASE ApplyCandidate \/ BuildCompileCommand \/ Compile \/ RewriteCommand \/ RunTest
  <2>1. pc # "parse" /\ request' = request /\ exit' = exit
    BY <1>6 DEF ApplyCandidate, BuildCompileCommand, Compile, RewriteCommand, RunTest
  <2> QED BY <2>1
<1>7. CASE RemoveTree \/ NextCandidate \/ ReportResults
  <2>1. pc # "parse" /\ request' = request /\ exit' = exit
    BY <1>7 DEF RemoveTree, NextCandidate, ReportResults
  <2> QED BY <2>1
<1>8. CASE UNCHANGED vars
  BY <1>8 DEF vars
<1> QED BY <1>1, <1>2, <1>3, <1>4, <1>5, <1>6, <1>7, <1>8 DEF Next, Step, Finished

LEMMA SimulationInvariance == Spec => []SInv
<1>1. Init => SInv
  BY InitEstablishesSimulation
<1>2. SInv /\ [Next]_vars => SInv'
  <2> SUFFICES ASSUME SInv, [Next]_vars PROVE SInv'
      OBVIOUS
  <2>1. IInv'
    BY StepPreserves DEF SInv
  <2> QED BY <2>1, OpenedPreserved, AnsweredPreserved, BlamedPreserved DEF SInv
<1> QED BY <1>1, <1>2, PTL DEF Spec

-----------------------------------------------------------------------------
(* The steps of the campaign, seen as steps of MutationTesting.              *)

\* As long as there is no exit status the answer is Running.
LEMMA StillRunning == pc # "done" => Answer = Running
BY DEF Answer

\* The results of a step that leaves them alone are seen unchanged.
LEMMA SameTested ==
  ASSUME results' = results,
         \A i \in 1 .. Len(results) : tests'[i] = tests[i]
  PROVE  Tested' = Tested
BY DEF Tested

\* Steps that MutationTesting does not see.
LEMMA Unseen ==
  ASSUME UNCHANGED <<request, baseline, count, results>>, pc # "done", pc' # "done",
         \A i \in 1 .. Len(results) : tests'[i] = tests[i]
  PROVE  UNCHANGED Abstract!testingVars
<1>1. Tested' = Tested
  BY SameTested
<1>2. Selected' = Selected
  BY DEF Selected
<1>3. Answer' = Answer
  BY DEF Answer
<1> QED BY <1>1, <1>2, <1>3 DEF Abstract!testingVars

LEMMA QuietSteps ==
  ASSUME SInv,
         \/ EndScan \/ ListCandidates \/ RefuseVacuous \/ CopyTree \/ ApplyCandidate
         \/ BuildCompileCommand \/ RewriteCommand \/ RemoveTree \/ NextCandidate
         \/ ReportResults \/ Judge
  PROVE  UNCHANGED Abstract!testingVars
<1>1. UNCHANGED <<request, baseline, count, results, tests>> /\ pc # "done" /\ pc' # "done"
  BY DEF EndScan, ListCandidates, RefuseVacuous, CopyTree, ApplyCandidate,
         BuildCompileCommand, RewriteCommand, RemoveTree, NextCandidate, ReportResults,
         Judge, arguments, scan, candidate, history
<1> QED BY <1>1, Unseen

\* The line is read.
LEMMA ParseReads ==
  ASSUME SInv, ParseArguments
  PROVE  Abstract!ReadRequest
<1>1. /\ pc = "parse" /\ pc' # "done" /\ UNCHANGED <<baseline, count, results, tests>>
      /\ request' \in {"run", "list", "help", "misuse"}
  BY DEF ParseArguments, scan, candidate, history
<1>2. request = "unread"
  BY <1>1 DEF SInv, Opened
<1>3. Tested' = Tested
  BY <1>1, SameTested
<1>4. Selected' = Selected /\ Answer' = Answer
  BY <1>1 DEF Selected, Answer
<1> QED BY <1>1, <1>2, <1>3, <1>4 DEF Abstract!ReadRequest

\* The scan selects nothing yet.
LEMMA ObserveUnseen ==
  ASSUME SInv, Observe
  PROVE  UNCHANGED Abstract!testingVars
<1>1. /\ pc = "scan" /\ pc' # "done" /\ UNCHANGED <<request, baseline, results, tests>>
  BY DEF Observe, arguments, candidate, history
<1>2. baseline = "none"
  BY <1>1 DEF SInv, Opened, Opening
<1>3. Tested' = Tested
  BY <1>1, SameTested
<1>4. Selected' = Selected /\ Answer' = Answer
  BY <1>1, <1>2 DEF Selected, Answer
<1> QED BY <1>1, <1>3, <1>4 DEF Abstract!testingVars

\* A passing baseline selects the candidates, and any other one nothing.
LEMMA BaselineSelects ==
  ASSUME SInv, RunBaseline
  PROVE  Abstract!PassBaseline \/ UNCHANGED Abstract!testingVars
<1>1. /\ pc = "baseline" /\ pc' # "done" /\ UNCHANGED <<request, count, results, tests>>
  BY DEF RunBaseline, arguments, scan, candidate
<1>2. request = "run" /\ baseline = "none" /\ count > 0
  BY <1>1 DEF SInv, Opened, Opening, IInv, Founded, Scanned
<1>3. Tested' = Tested
  BY <1>1, SameTested
<1>4. Answer' = Answer /\ Answer = Running
  BY <1>1 DEF Answer
<1>5. CASE baseline' = "passed"
  <2>1. Selected = 0 /\ Selected' = count
    BY <1>1, <1>2, <1>5 DEF Selected
  <2>2. count \in 1 .. MaxMutants
    <3>1. count \in Nat /\ seen \in Nat /\ capacity \in 1 .. MaxMutants
      BY NumbersAreNatural DEF SInv
    <3>2. count = IF seen < capacity THEN seen ELSE capacity
      BY Zenon DEF SInv, IInv, Scanned
    <3> QED BY <1>2, <3>1, <3>2, LimitsOK
  <2> QED BY <1>1, <1>2, <1>3, <1>4, <2>1, <2>2
          DEF Abstract!PassBaseline, Abstract!Open, Running
<1>6. CASE baseline' # "passed"
  <2>1. Selected' = Selected
    BY <1>2, <1>6 DEF Selected
  <2> QED BY <1>1, <1>3, <1>4, <2>1 DEF Abstract!testingVars
<1> QED BY <1>5, <1>6

\* A directory for the next candidate changes nothing that can be seen.
LEMMA MakeTreeUnseen ==
  ASSUME SInv, MakeTree
  PROVE  UNCHANGED Abstract!testingVars
<1>1. /\ pc = "make tree" /\ pc' # "done" /\ UNCHANGED <<request, baseline, count, results>>
  BY DEF MakeTree, arguments, scan
<1>2. results \in Seq({"inconclusive", "survived", "killed"})
  BY Zenon DEF SInv, IInv, Typed
<1>3. DOMAIN results = 1 .. Len(results)
  BY <1>2
<1>4. \A i \in 1 .. Len(results) : tests'[i] = tests[i]
  BY <1>3, MakeTreeAppends DEF SInv
<1> QED BY <1>1, <1>4, Unseen

\* A result that is added is a mutant that was tested.
LEMMA TestedGrows ==
  ASSUME SInv, pc \in {"compile", "test"}, pc' # "done",
         UNCHANGED <<request, baseline, count>>,
         NEW x \in {"inconclusive", "survived", "killed"}, results' = Append(results, x),
         \A i \in DOMAIN results : tests'[i] = tests[i],
         tests'[index] \in Fates
  PROVE  Abstract!TestMutant
<1>1. /\ Len(results) + 1 = index /\ index <= count /\ baseline = "passed"
      /\ results \in Seq({"inconclusive", "survived", "killed"})
  BY AtWork DEF SInv
<1>2. /\ Len(results) \in Nat /\ DOMAIN results = 1 .. Len(results)
      /\ Len(results') = Len(results) + 1
  BY <1>1, Grown
<1>3. Tested' = Append(Tested, tests'[index])
  <2>1. Tested \in Seq({tests[i] : i \in 1 .. Len(results)}) /\ Len(Tested) = Len(results)
    BY <1>2 DEF Tested
  <2>2. Append(Tested, tests'[index]) =
          [i \in 1 .. Len(results) + 1 |-> IF i <= Len(results) THEN tests[i] ELSE tests'[index]]
    BY <1>2, <2>1 DEF Tested
  <2>3. Tested' = [i \in 1 .. Len(results) + 1 |-> tests'[i]]
    BY <1>2 DEF Tested
  <2>4. \A i \in 1 .. Len(results) + 1 :
          tests'[i] = IF i <= Len(results) THEN tests[i] ELSE tests'[index]
    BY <1>1, <1>2
  <2> QED BY <2>2, <2>3, <2>4
<1>4. Len(Tested) = Len(results)
  BY <1>2 DEF Tested
<1>5. Selected = count /\ Selected' = count
  BY <1>1 DEF Selected
<1>6. Len(Tested) < Selected
  <2>1. index \in Nat /\ count \in Nat
    BY NumbersAreNatural DEF SInv
  <2> QED BY <1>1, <1>2, <1>4, <1>5, <2>1
<1>7. Answer = Running /\ Answer' = Running
  BY DEF Answer
<1>8. tests'[index] \in {"none", "cut", "passed", "failed", "lost"}
  BY DEF Fates
<1> QED BY <1>3, <1>5, <1>6, <1>7, <1>8 DEF Abstract!TestMutant, Abstract!Open, Running

LEMMA CompileTests ==
  ASSUME SInv, Compile
  PROVE  Abstract!TestMutant \/ UNCHANGED Abstract!testingVars
<1>1. pc = "compile" /\ pc' # "done" /\ UNCHANGED <<request, baseline, count>>
  BY DEF Compile, arguments, scan, history
<1>2. tests' = tests /\ (results' = results \/ results' = Append(results, "inconclusive"))
  BY CompileRecords DEF SInv
<1>3. CASE results' = results
  BY <1>1, <1>2, <1>3, Unseen
<1>4. CASE results' = Append(results, "inconclusive")
  <2>1. index \in DOMAIN tests /\ tests \in Seq(Fates)
    BY <1>1, AtWork DEF SInv
  <2>2. tests'[index] \in Fates
    BY <1>2, <2>1
  <2>3. \A i \in DOMAIN results : tests'[i] = tests[i]
    BY <1>2
  <2> QED BY <1>1, <1>4, <2>2, <2>3, TestedGrows
<1> QED BY <1>2, <1>3, <1>4

LEMMA RunTestTests ==
  ASSUME SInv, RunTest
  PROVE  Abstract!TestMutant
<1>1. pc = "test" /\ pc' # "done" /\ UNCHANGED <<request, baseline, count>>
  BY DEF RunTest, arguments, scan
<1>2. PICK o \in OutcomesGiven(err) : /\ tests' = [tests EXCEPT ![index] = Fate(o)]
                                      /\ results' = Append(results, Classify(o))
  BY RunTestRecords DEF SInv
<1>3. Classify(o) \in {"inconclusive", "survived", "killed"}
  BY ClassifyMatches DEF SInv, IInv, Typed
<1>4. index \in DOMAIN tests /\ index \notin DOMAIN results /\ tests \in Seq(Fates)
  BY <1>1, AtWork DEF SInv
<1>5. \A i \in DOMAIN results : i \in DOMAIN tests
  BY Zenon DEF SInv, IInv, Matched
<1>6. tests'[index] \in Fates /\ \A i \in DOMAIN results : tests'[i] = tests[i]
  BY <1>2, <1>4, <1>5, FateIsAFate
<1> QED BY <1>1, <1>2, <1>3, <1>6, TestedGrows

\* The verdict of main is the judgement on what became of the tests.
LEMMA VerdictIsJudgement ==
  ASSUME SInv, Judged
  PROVE  Verdict = Abstract!Judgement
<1>1. /\ results \in Seq({"inconclusive", "survived", "killed"}) /\ tests \in Seq(Fates)
      /\ Len(tests) = Len(results)
  BY Zenon DEF SInv, IInv, Typed, Judged
<1>2. DOMAIN Tested = DOMAIN results /\ \A i \in DOMAIN results : Tested[i] = tests[i]
  BY <1>1 DEF Tested
<1>3. \A i \in DOMAIN results : /\ results[i] = "inconclusive" <=> tests[i] \in {"none", "cut"}
                                /\ results[i] = "survived" <=> tests[i] = "passed"
  BY DEF SInv, IInv, Matched, Blamed
<1>4. Has("inconclusive") <=> \E i \in DOMAIN Tested : Abstract!Undecided(Tested[i])
  BY <1>2, <1>3 DEF Has, Abstract!Undecided
<1>5. Has("survived") <=> \E i \in DOMAIN Tested : Tested[i] = "passed"
  BY <1>2, <1>3 DEF Has
<1> QED BY <1>4, <1>5, Zenon DEF Verdict, Abstract!Judgement

\* The end: a verdict, an answer to a question, or 2.
LEMMA ReportErrorAnswers ==
  ASSUME SInv, ReportError
  PROVE  Abstract!Conclude \/ Abstract!Inform \/ Abstract!GiveUp
<1>1. /\ pc = "report error" /\ pc' = "done" /\ exit' \in {exit, 2}
      /\ UNCHANGED <<request, baseline, count, results, tests>>
  BY DEF ReportError, arguments, scan, candidate, history
<1>2. Answer = Running /\ Answer' = exit'
  BY <1>1 DEF Answer
<1>3. Tested' = Tested /\ Selected' = Selected
  BY <1>1, SameTested DEF Selected
<1>4. CASE exit' = 2
  BY <1>1, <1>2, <1>3, <1>4 DEF Abstract!GiveUp, Abstract!Open, Running
<1>5. CASE exit' = exit /\ exit # 2
  <2>1. request \in {"run", "list", "help"} /\ exit \in {0, 1}
    <3>1. request \in Requests /\ request # "unread"
      BY <1>1 DEF SInv, IInv, Typed, Opened
    <3>2. request # "misuse"
      BY <1>5 DEF SInv, Answered
    <3>3. exit \in {0, 1, 2}
      BY <1>1 DEF SInv, Answered
    <3>4. exit \in {0, 1}
      BY <1>5, <3>3
    <3> QED BY <3>1, <3>2, <3>4 DEF Requests
  <2>2. CASE request = "run"
    <3>1. Judged
      BY <1>1, <1>5, <2>2 DEF SInv, IInv, Decided, Closing
    <3>2. exit = Abstract!Judgement
      BY <3>1, VerdictIsJudgement DEF Judged
    <3>3. Selected = count /\ count > 0 /\ Len(results) = count
      BY <3>1 DEF Judged, Selected
    <3>4. Len(Tested) = Len(results)
      <4>1. results \in Seq({"inconclusive", "survived", "killed"})
        BY Zenon DEF SInv, IInv, Typed
      <4> QED BY <4>1 DEF Tested
    <3> QED BY <1>1, <1>2, <1>3, <1>5, <3>2, <3>3, <3>4
            DEF Abstract!Conclude, Abstract!Open, Running
  <2>3. CASE request # "run"
    <3>1. request \in {"list", "help"} /\ exit # 1
      BY <2>1, <2>3 DEF SInv, IInv, Decided
    <3>2. exit = 0
      BY <2>1, <3>1
    <3> QED BY <1>1, <1>2, <1>3, <1>5, <3>1, <3>2 DEF Abstract!Inform, Abstract!Open, Running
  <2> QED BY <2>2, <2>3
<1> QED BY <1>1, <1>4, <1>5

-----------------------------------------------------------------------------
\* Every step of the campaign is one of MutationTesting, or not seen by it.
LEMMA StepSimulates ==
  ASSUME SInv, [Next]_vars
  PROVE  [Abstract!TestingNext]_(Abstract!testingVars)
<1> USE DEF Abstract!TestingNext
<1>1. CASE ParseArguments
  BY <1>1, ParseReads
<1>2. CASE Observe
  BY <1>2, ObserveUnseen
<1>3. CASE RunBaseline
  BY <1>3, BaselineSelects
<1>4. CASE MakeTree
  BY <1>4, MakeTreeUnseen
<1>5. CASE Compile
  BY <1>5, CompileTests
<1>6. CASE RunTest
  BY <1>6, RunTestTests
<1>7. CASE ReportError
  BY <1>7, ReportErrorAnswers
<1>8. CASE \/ EndScan \/ ListCandidates \/ RefuseVacuous \/ CopyTree \/ ApplyCandidate
           \/ BuildCompileCommand \/ RewriteCommand \/ RemoveTree \/ NextCandidate
           \/ ReportResults \/ Judge
  BY <1>8, QuietSteps
<1>9. CASE UNCHANGED vars
  BY <1>9 DEF vars, Abstract!testingVars, Selected, Tested, Answer
<1> QED BY <1>1, <1>2, <1>3, <1>4, <1>5, <1>6, <1>7, <1>8, <1>9 DEF Next, Step, Finished

\* The campaign tests the mutants it selected one after the other and each
\* once, never goes on after one that failed, and gives one verdict, on all of
\* them: the steps of main and p101_mutation_execute are those of
\* MutationTesting, whatever fails.
THEOREM Simulation == Spec => Abstract!TestingSteps
<1>1. Init => Abstract!TestingInit
  <2> SUFFICES ASSUME Init PROVE Abstract!TestingInit
      OBVIOUS
  <2>1. Tested = <<>> /\ Selected = 0 /\ Answer = Running /\ request = "unread"
    BY DEF Init, Tested, Selected, Answer
  <2> QED BY <2>1 DEF Abstract!TestingInit, Abstract!Open, Running
<1>2. SInv /\ [Next]_vars => [Abstract!TestingNext]_(Abstract!testingVars)
  BY StepSimulates
<1> QED BY <1>1, <1>2, SimulationInvariance, PTL DEF Spec, Abstract!TestingSteps

-----------------------------------------------------------------------------
(* As it is called.                                                          *)

\* Called with any command line, test-mutation conducts one of the campaigns of
\* MutationCampaign.
LEMMA Conducts == TestSpec => Spec
<1>1. TestInit => Init
  BY DEF TestInit
<1>2. [TestNext]_testVars => [Next]_vars
  BY DEF TestNext, testVars
<1> QED BY <1>1, <1>2, PTL DEF TestSpec, Spec

\* Exit status 0 never hides a candidate that passed the tests, exit status 1
\* never accuses without one, and both come from a complete campaign with a
\* report that agrees, for every command line.
THEOREM AsCalled ==
  TestSpec => [](NoSurvivorMissed /\ FindingsAreReal /\ VerdictIsComplete /\ ReportAgrees)
BY Conducts, NoneMissed, RealFindings, Completeness, Reporting, PTL

-----------------------------------------------------------------------------
(* What the parser of the command line accepts.                              *)

Below == {p \in Nat \X Nat : p[1] < p[2]}

LEMMA Least ==
  ASSUME NEW S \in SUBSET Nat, S # {}
  PROVE  \E x \in S : \A y \in S : x <= y
<1>1. IsWellFoundedOn(Below, Nat)
  BY NatLessThanWellFounded DEF OpToRel, Below
<1>2. \E x \in S : \A y \in S : ~ (<<y, x>> \in Below)
  <2>1. S \subseteq Nat /\ S # {}
    OBVIOUS
  <2> QED BY ONLY <1>1, <2>1, WFMin
<1> PICK x \in S : \A y \in S : ~ (<<y, x>> \in Below)
  BY <1>2
<1>3. ASSUME NEW y \in S PROVE x <= y
  <2>1. ~ (<<y, x>> \in Below)
    OBVIOUS
  <2>2. ~ (y < x)
    BY <2>1, Zenon DEF Below
  <2> QED BY <2>2
<1> QED BY <1>3

-----------------------------------------------------------------------------
(* The loop of the parser: the fold, one word after the other.               *)

\* What FoldLeft computes for the positions in D.
FoldTurn(words, D, f) ==
  [s \in SUBSET D |-> IF s = {} THEN Begin ELSE Turn(f[s \ {Max(s)}], words[Max(s)])]

LEMMA FoldIs ==
  ASSUME NEW words
  PROVE  Arguments(words) =
           (CHOOSE f : f = FoldTurn(words, DOMAIN words, f))[DOMAIN words]
BY DEF Arguments, FoldLeft, MapThenFoldSet, FoldTurn

LEMMA MaxIs ==
  ASSUME NEW s, NEW m \in s, s \subseteq Nat, \A y \in s : y <= m
  PROVE  Max(s) = m
<1>1. \A x \in s : (\A y \in s : x >= y) => x = m
  <2> SUFFICES ASSUME NEW x \in s, \A y \in s : x >= y PROVE x = m
      OBVIOUS
  <2>1. x \in Nat /\ m \in Nat /\ x >= m /\ x <= m
    OBVIOUS
  <2> QED BY <2>1
<1>2. \A y \in s : m >= y
  OBVIOUS
<1> QED BY <1>1, <1>2 DEF Max

\* One position more.
LEMMA FoldGrows ==
  ASSUME NEW words, NEW k \in Nat, NEW f, f = FoldTurn(words, 1 .. k, f)
  PROVE  \E g : g = FoldTurn(words, 1 .. k + 1, g)
<1> DEFINE g == [s \in SUBSET (1 .. k + 1) |->
                   IF k + 1 \in s THEN Turn(f[s \ {k + 1}], words[k + 1]) ELSE f[s]]
           value(s) == IF s = {} THEN Begin ELSE Turn(g[s \ {Max(s)}], words[Max(s)])
<1>1. \A s \in SUBSET (1 .. k) : g[s] = f[s]
  <2>1. k + 1 \notin 1 .. k /\ 1 .. k \subseteq 1 .. k + 1
    OBVIOUS
  <2> SUFFICES ASSUME NEW s \in SUBSET (1 .. k) PROVE g[s] = f[s]
      OBVIOUS
  <2>2. s \in SUBSET (1 .. k + 1) /\ k + 1 \notin s
    BY <2>1
  <2> QED BY <2>2
<1>2. ASSUME NEW s \in SUBSET (1 .. k + 1), k + 1 \in s PROVE g[s] = value(s)
  <2>1. Max(s) = k + 1
    <3>1. \A y \in s : y <= k + 1
      OBVIOUS
    <3>2. s \subseteq Nat
      OBVIOUS
    <3> QED BY ONLY <1>2, <3>1, <3>2, MaxIs
  <2>2. s \ {k + 1} \in SUBSET (1 .. k)
    OBVIOUS
  <2>3. g[s \ {k + 1}] = f[s \ {k + 1}]
    <3> HIDE DEF g
    <3> QED BY <1>1, <2>2
  <2>4. g[s] = Turn(f[s \ {k + 1}], words[k + 1]) /\ s # {}
    BY <1>2
  <2> HIDE DEF g
  <2> QED BY <2>1, <2>3, <2>4
<1>3. ASSUME NEW s \in SUBSET (1 .. k) PROVE g[s] = value(s)
  <2>1. f[s] = IF s = {} THEN Begin ELSE Turn(f[s \ {Max(s)}], words[Max(s)])
    <3> DEFINE F == FoldTurn(words, 1 .. k, f)
    <3>1. F[s] = IF s = {} THEN Begin ELSE Turn(f[s \ {Max(s)}], words[Max(s)])
      BY Zenon DEF FoldTurn
    <3>2. f = F
      OBVIOUS
    <3> HIDE DEF F
    <3> QED BY <3>1, <3>2
  <2>2. s \ {Max(s)} \in SUBSET (1 .. k)
    OBVIOUS
  <2>3. g[s] = f[s] /\ g[s \ {Max(s)}] = f[s \ {Max(s)}]
    <3> HIDE DEF g
    <3> QED BY <1>1, <2>2
  <2> HIDE DEF g
  <2> QED BY <2>1, <2>3
<1>4. \A s \in SUBSET (1 .. k + 1) : g[s] = value(s)
  <2> SUFFICES ASSUME NEW s \in SUBSET (1 .. k + 1) PROVE g[s] = value(s)
      OBVIOUS
  <2>1. CASE k + 1 \in s
    <3> HIDE DEF g
    <3> QED BY <1>2, <2>1
  <2>2. CASE k + 1 \notin s
    <3>1. s \in SUBSET (1 .. k)
      BY <2>2
    <3> HIDE DEF g
    <3> QED BY <1>3, <3>1
  <2> QED BY <2>1, <2>2
<1>5. g = [s \in SUBSET (1 .. k + 1) |-> g[s]]
  OBVIOUS
<1>6. FoldTurn(words, 1 .. k + 1, g) = [s \in SUBSET (1 .. k + 1) |-> value(s)]
  BY DEF FoldTurn
<1> HIDE DEF g, value
<1>7. g = FoldTurn(words, 1 .. k + 1, g)
  BY <1>4, <1>5, <1>6
<1> QED BY <1>7

LEMMA FoldExists ==
  ASSUME NEW words, NEW n \in Nat
  PROVE  \E f : f = FoldTurn(words, 1 .. n, f)
<1> DEFINE Missing == {k \in 0 .. n : ~ \E f : f = FoldTurn(words, 1 .. k, f)}
<1>1. 0 \notin Missing
  <2> DEFINE f == [s \in SUBSET (1 .. 0) |-> Begin]
  <2>1. \A s \in SUBSET (1 .. 0) : s = {}
    OBVIOUS
  <2>2. f = FoldTurn(words, 1 .. 0, f)
    BY <2>1, Zenon DEF FoldTurn
  <2> HIDE DEF f
  <2> QED BY <2>2
<1>2. ASSUME Missing # {} PROVE FALSE
  <2>1. Missing \in SUBSET Nat
    OBVIOUS
  <2>2. PICK k \in Missing : \A j \in Missing : k <= j
    <3> HIDE DEF Missing
    <3> QED BY <1>2, <2>1, Least
  <2>3. k \in 0 .. n /\ k # 0
    BY <1>1
  <2>4. k - 1 \in 0 .. n /\ ~(k <= k - 1) /\ k - 1 \in Nat /\ (k - 1) + 1 = k
    BY <2>3
  <2>5. \E f : f = FoldTurn(words, 1 .. k - 1, f)
    BY <2>2, <2>4
  <2>6. \E f : f = FoldTurn(words, 1 .. k, f)
    <3> DEFINE j == k - 1
    <3>1. j \in Nat /\ j + 1 = k
      BY <2>4
    <3> PICK f : f = FoldTurn(words, 1 .. j, f)
      BY <2>5
    <3> HIDE DEF j
    <3>2. \E g : g = FoldTurn(words, 1 .. j + 1, g)
      BY <3>1, FoldGrows
    <3> QED BY <3>1, <3>2
  <2> QED BY <2>6
<1>3. n \notin Missing
  BY <1>2
<1> QED BY <1>3

\* The state of the parser before the first word and after each one.
Runs(a, words) ==
  /\ a[0] = Begin
  /\ \A i \in 1 .. Len(words) : a[i] = Turn(a[i - 1], words[i])
  /\ a[Len(words)] = Arguments(words)

LEMMA LoopRuns ==
  ASSUME NEW W, NEW words \in Seq(W)
  PROVE  \E a : Runs(a, words)
<1> DEFINE N == Len(words)
           f == CHOOSE f : f = FoldTurn(words, DOMAIN words, f)
           a == [i \in 0 .. N |-> f[1 .. i]]
<1>1. N \in Nat /\ DOMAIN words = 1 .. N
  OBVIOUS
<1>2. f = FoldTurn(words, 1 .. N, f) /\ Arguments(words) = f[1 .. N]
  <2>1. \E g : g = FoldTurn(words, DOMAIN words, g)
    BY <1>1, FoldExists
  <2>2. f = FoldTurn(words, DOMAIN words, f)
    BY <2>1
  <2> HIDE DEF f
  <2> QED BY <1>1, <2>2, FoldIs DEF f
<1> HIDE DEF f, N
<1>3. ASSUME NEW s \in SUBSET (1 .. N)
      PROVE  f[s] = IF s = {} THEN Begin ELSE Turn(f[s \ {Max(s)}], words[Max(s)])
  <2> DEFINE F == FoldTurn(words, 1 .. N, f)
  <2>1. F[s] = IF s = {} THEN Begin ELSE Turn(f[s \ {Max(s)}], words[Max(s)])
    BY Zenon DEF FoldTurn
  <2>2. f = F
    BY <1>2
  <2> HIDE DEF F
  <2> QED BY <2>1, <2>2
<1>4. a[0] = Begin
  <2>1. 1 .. 0 = {} /\ 0 \in 0 .. N /\ {} \in SUBSET (1 .. N)
    BY <1>1
  <2>2. f[{}] = Begin
    BY <1>3, <2>1
  <2> QED BY <2>1, <2>2
<1>5. ASSUME NEW i \in 1 .. N PROVE a[i] = Turn(a[i - 1], words[i])
  <2>1. i \in 0 .. N /\ i - 1 \in 0 .. N /\ 1 .. i \in SUBSET (1 .. N) /\ 1 .. i # {}
    BY <1>1
  <2>2. Max(1 .. i) = i
    <3>1. i \in 1 .. i /\ 1 .. i \subseteq Nat /\ \A y \in 1 .. i : y <= i
      BY <1>1
    <3> QED BY ONLY <3>1, MaxIs
  <2>3. (1 .. i) \ {i} = 1 .. i - 1
    BY <1>1
  <2>4. f[1 .. i] = Turn(f[1 .. i - 1], words[i])
    BY <1>3, <2>1, <2>2, <2>3
  <2> QED BY <2>1, <2>4
<1>6. a[N] = Arguments(words)
  BY <1>1, <1>2
<1> HIDE DEF a
<1> QED BY <1>4, <1>5, <1>6 DEF Runs, N

-----------------------------------------------------------------------------
(* The phrases of a line.                                                    *)

\* Words other than the null pointer.
Words == ToSet(line) \ {Unset}

\* i is where a phrase begins that has its value in the next word.
Opens(i) == i \in Begins /\ line[i] \in Valued

LEMMA LineIs ==
  ASSUME line \in Lines
  PROVE  /\ line \in Seq(Words) /\ Len(line) \in Nat /\ DOMAIN line = 1 .. Len(line)
         /\ \A i \in 1 .. Len(line) : line[i] \in Words /\ line[i] # Unset
<1>1. line \in Seq(Words)
  BY WordsOK DEF Words
<1>2. \A i \in 1 .. Len(line) : line[i] \in Words
  BY <1>1
<1> QED BY <1>1, <1>2 DEF Words

\* The recursive function of Begins, up to k.
BeginTurn(k, b) ==
  [i \in 1 .. k |-> i = 1 \/ ~(b[i - 1] /\ line[i - 1] \in Valued)]

LEMMA BeginExists ==
  ASSUME NEW n \in Nat
  PROVE  \E b : b = BeginTurn(n, b)
<1> DEFINE Missing == {k \in 0 .. n : ~ \E b : b = BeginTurn(k, b)}
<1>1. 0 \notin Missing
  <2> DEFINE b == [i \in 1 .. 0 |-> TRUE]
  <2>1. \A i \in 1 .. 0 : FALSE
    OBVIOUS
  <2>2. b = BeginTurn(0, b)
    BY <2>1, Zenon DEF BeginTurn
  <2> HIDE DEF b
  <2> QED BY <2>2
<1>2. ASSUME Missing # {} PROVE FALSE
  <2>1. Missing \in SUBSET Nat
    OBVIOUS
  <2>2. PICK k \in Missing : \A j \in Missing : k <= j
    <3> HIDE DEF Missing
    <3> QED BY <1>2, <2>1, Least
  <2>3. k \in 0 .. n /\ k # 0
    BY <1>1
  <2> DEFINE j == k - 1
  <2>4. j \in 0 .. n /\ ~(k <= j) /\ j \in Nat /\ j + 1 = k /\ k \notin 1 .. j
        /\ \A i \in 1 .. k : i = k \/ i \in 1 .. j
    BY <2>3
  <2>5. PICK b : b = BeginTurn(j, b)
    BY <2>2, <2>4
  <2> DEFINE c == [i \in 1 .. k |-> IF i = k THEN i = 1 \/ ~(b[i - 1] /\ line[i - 1] \in Valued)
                                             ELSE b[i]]
             value(i) == i = 1 \/ ~(c[i - 1] /\ line[i - 1] \in Valued)
  <2> HIDE DEF j
  <2>6. \A i \in 1 .. j : b[i] = (i = 1 \/ ~(b[i - 1] /\ line[i - 1] \in Valued))
    <3> DEFINE B == BeginTurn(j, b)
    <3>1. \A i \in 1 .. j : B[i] = (i = 1 \/ ~(b[i - 1] /\ line[i - 1] \in Valued))
      BY Zenon DEF BeginTurn
    <3>2. b = B
      BY <2>5
    <3> HIDE DEF B
    <3> QED BY <3>1, <3>2
  <2>7. \A i \in 1 .. j : c[i] = b[i]
    <3> SUFFICES ASSUME NEW i \in 1 .. j PROVE c[i] = b[i]
        OBVIOUS
    <3>1. i \in 1 .. k /\ i # k
      BY <2>3, <2>4
    <3> QED BY <3>1, Zenon
  <2>8. \A i \in 1 .. k : i = 1 \/ i - 1 \in 1 .. j
    BY <2>3, <2>4
  <2>9. \A i \in 1 .. k : c[i] = value(i)
    <3> SUFFICES ASSUME NEW i \in 1 .. k PROVE c[i] = value(i)
        OBVIOUS
    <3>1. i # 1 => c[i - 1] = b[i - 1]
      <4> HIDE DEF c
      <4> QED BY <2>7, <2>8
    <3>2. CASE i = k
      <4>1. c[i] = (i = 1 \/ ~(b[i - 1] /\ line[i - 1] \in Valued))
        BY <3>2, Zenon
      <4> HIDE DEF c
      <4> QED BY <3>1, <4>1
    <3>3. CASE i # k
      <4>1. i \in 1 .. j
        BY <2>4, <3>3
      <4>2. c[i] = b[i] /\ b[i] = (i = 1 \/ ~(b[i - 1] /\ line[i - 1] \in Valued))
        <5> HIDE DEF c
        <5> QED BY <2>6, <2>7, <4>1
      <4> HIDE DEF c
      <4> QED BY <3>1, <4>2
    <3> QED BY <3>2, <3>3
  <2>10. c = [i \in 1 .. k |-> c[i]]
    OBVIOUS
  <2>11. BeginTurn(k, c) = [i \in 1 .. k |-> value(i)]
    BY DEF BeginTurn
  <2> HIDE DEF c, value
  <2>12. c = BeginTurn(k, c)
    BY <2>9, <2>10, <2>11
  <2> QED BY <2>12
<1>3. n \notin Missing
  BY <1>2
<1> QED BY <1>3

\* A phrase begins where the word before is not an option that waits for its value.
LEMMA BeginsAre ==
  ASSUME line \in Lines
  PROVE  /\ Begins \subseteq 1 .. Len(line)
         /\ \A i \in 1 .. Len(line) : i \in Begins <=> (i = 1 \/ ~Opens(i - 1))
<1> DEFINE N == Len(line)
           b == CHOOSE b : b = BeginTurn(N, b)
<1>1. N \in Nat /\ DOMAIN line = 1 .. N
  BY LineIs
<1>2. Begins = {i \in 1 .. N : b[i]}
  BY <1>1, Zenon DEF Begins, BeginTurn
<1>3. b = BeginTurn(N, b)
  <2>1. \E c : c = BeginTurn(N, c)
    BY <1>1, BeginExists
  <2> QED BY <2>1
<1> HIDE DEF b, N
<1>4. \A i \in 1 .. N : b[i] = (i = 1 \/ ~(b[i - 1] /\ line[i - 1] \in Valued))
  <2> DEFINE B == BeginTurn(N, b)
  <2>1. \A i \in 1 .. N : B[i] = (i = 1 \/ ~(b[i - 1] /\ line[i - 1] \in Valued))
    BY Zenon DEF BeginTurn
  <2>2. b = B
    BY <1>3
  <2> HIDE DEF B
  <2> QED BY <2>1, <2>2
<1>5. ASSUME NEW i \in 1 .. N PROVE i \in Begins <=> (i = 1 \/ ~Opens(i - 1))
  <2>1. i = 1 \/ i - 1 \in 1 .. N
    BY <1>1
  <2>2. CASE i = 1
    BY <1>2, <1>4, <2>2
  <2>3. CASE i # 1
    <3>1. i \in Begins <=> b[i]
      BY <1>2
    <3>2. b[i] <=> ~(b[i - 1] /\ line[i - 1] \in Valued)
      BY <1>4, <2>3
    <3>3. i - 1 \in Begins <=> b[i - 1]
      BY <1>2, <2>1, <2>3
    <3> QED BY <2>3, <3>1, <3>2, <3>3 DEF Opens
  <2> QED BY <2>2, <2>3
<1> QED BY <1>2, <1>5 DEF N

\* The test command begins at or before i.
Separated(i) == \E k \in Begins : k <= i /\ line[k] = "--"

LEMMA PhrasesAre ==
  ASSUME line \in Lines, NEW i \in Nat
  PROVE  /\ Phrases \subseteq Begins /\ Phrases \subseteq 1 .. Len(line)
         /\ \A k \in Phrases : line[k] # "--"
         /\ ~Separated(i) => \A k \in Begins : k <= i => k \in Phrases
         /\ i + 1 \notin Begins => (Separated(i + 1) <=> Separated(i))
         /\ ~Separated(i) /\ i + 1 \in Begins /\ line[i + 1] # "--" =>
              i + 1 \in Phrases /\ ~Separated(i + 1)
         /\ i + 1 \in Begins /\ line[i + 1] = "--" => Separated(i + 1)
         /\ Separated(i) => Separated(i + 1) /\ \A k \in Phrases : k < i
<1> DEFINE separators == {k \in Begins : line[k] = "--"}
<1>1. Len(line) \in Nat /\ Begins \subseteq 1 .. Len(line)
  BY LineIs, BeginsAre
<1>2. Phrases = {k \in Begins : \A j \in separators : k < j}
  BY DEF Phrases
<1>3. Begins \subseteq Nat
  BY <1>1
<1>4. \A k \in Phrases : k \in Begins /\ \A j \in Begins : line[j] = "--" => k < j
  BY <1>2
<1>5. \A k \in Begins : (\A j \in Begins : line[j] = "--" => k < j) => k \in Phrases
  BY <1>2
<1> HIDE DEF separators
<1>6. \A k \in Phrases : line[k] # "--"
  <2> SUFFICES ASSUME NEW k \in Phrases, line[k] = "--" PROVE FALSE
      OBVIOUS
  <2>1. k \in Nat /\ k < k
    BY <1>3, <1>4
  <2> QED BY <2>1
<1>7. ASSUME ~Separated(i), NEW k \in Begins, k <= i PROVE k \in Phrases
  <2>1. ASSUME NEW j \in Begins, line[j] = "--" PROVE k < j
    <3>1. ~(j <= i)
      BY <1>7, <2>1 DEF Separated
    <3>2. j \in Nat /\ k \in Nat /\ i \in Nat
      BY <1>1, <1>3
    <3> QED BY <1>7, <3>1, <3>2
  <2> QED BY <1>5, <2>1
<1>8. \A k \in Begins : k <= i + 1 <=> k <= i \/ k = i + 1
  <2> SUFFICES ASSUME NEW k \in Begins PROVE k <= i + 1 <=> k <= i \/ k = i + 1
      OBVIOUS
  <2>1. k \in Nat /\ i \in Nat
    BY <1>1, <1>3
  <2> QED BY <2>1
<1>9. Separated(i + 1) <=> Separated(i) \/ (i + 1 \in Begins /\ line[i + 1] = "--")
  BY <1>8 DEF Separated
<1>10. ASSUME ~Separated(i), i + 1 \in Begins, line[i + 1] # "--" PROVE i + 1 \in Phrases
  <2>1. ~Separated(i + 1)
    BY <1>9, <1>10
  <2>2. ASSUME NEW j \in Begins, line[j] = "--" PROVE i + 1 < j
    <3>1. ~(j <= i + 1)
      BY <2>1, <2>2 DEF Separated
    <3>2. j \in Nat /\ i \in Nat
      BY <1>1, <1>3
    <3> QED BY <3>1, <3>2
  <2> QED BY <1>5, <1>10, <2>2
<1>11. ASSUME Separated(i), NEW k \in Phrases PROVE k < i
  <2> PICK j \in Begins : j <= i /\ line[j] = "--"
    BY <1>11 DEF Separated
  <2>1. k < j /\ k \in Begins
    BY <1>4
  <2>2. k \in Nat /\ j \in Nat /\ i \in Nat
    BY <1>1, <1>3, <2>1
  <2> QED BY <2>1, <2>2
<1> QED BY <1>1, <1>4, <1>6, <1>7, <1>9, <1>10, <1>11

-----------------------------------------------------------------------------
(* What the parser knows after i words.                                      *)

\* Where the option was said before i, and where a project was named up to i.
Given(option, i) == {k \in Said(option) : k < i}
Named(i) == {k \in Projects : k <= i}

Parser ==
  [going : BOOLEAN, valid : BOOLEAN, raised : BOOLEAN, awaits : Valued \cup {Unset},
   project : Words \cup {Unset}, database : Words \cup {Unset}, operators : Seq(Words),
   max : Nat, list : BOOLEAN, test : Seq(Words), atTest : BOOLEAN]

Positioned(i, a) ==
  /\ a.valid
  /\ a.atTest <=> Separated(i)
  /\ a.awaits = IF ~Separated(i) /\ Opens(i) THEN line[i] ELSE Unset
  /\ a.test # <<>> <=> \E k \in Begins : k < i /\ line[k] = "--"

AcceptedTo(i) ==
  \A k \in Phrases :
    k <= i => /\ line[k] \notin Help \cup BadFormats \cup Dashed
              /\ k < i /\ line[k] \in Valued => AcceptedValue(line[k], line[k + 1])

\* The count is that of the last one given.
CountIs(given, n) ==
  IF given = {} THEN n = DefaultCount
  ELSE \E k \in given : n = Numbers[line[k + 1]] /\ \A j \in given : j <= k

Tallied(i, a) ==
  /\ a.project = Unset => Named(i) = {}
  /\ a.project # Unset => \E k : Named(i) = {k}
  /\ a.database # Unset <=> Given("--compile-db", i) # {}
  /\ Len(a.operators) = Cardinality(Given("--operator", i))
  /\ Cardinality(Given("--operator", i + 1)) <= MaxOperators
  /\ a.list <=> Given("--list", i + 1) # {}
  /\ CountIs(Given("--max-mutants", i), a.max)

ReadTo(i, a) ==
  /\ a \in Parser
  /\ a.going => Positioned(i, a) /\ AcceptedTo(i) /\ Tallied(i, a)
  /\ ~a.going => ~a.valid /\ ~WellFormed

-----------------------------------------------------------------------------
\* A step of the loop, by what it may do.
LEMMA ValueIs ==
  ASSUME NEW a, NEW w, a.awaits \in Valued
  PROVE  LET b == [a EXCEPT !.awaits = Unset] IN
         \/ a.awaits = "--compile-db" /\ Value(a, w) = [b EXCEPT !.database = w]
         \/ /\ a.awaits = "--operator" /\ w \in Operators
            /\ Value(a, w) = [b EXCEPT !.operators = Append(@, w)]
         \/ a.awaits = "--operator" /\ w \notin Operators /\ Value(a, w) = Raise(b)
         \/ /\ a.awaits = "--max-mutants" /\ IsCount(w)
            /\ Value(a, w) = [b EXCEPT !.max = Numbers[w]]
         \/ a.awaits = "--max-mutants" /\ ~IsCount(w) /\ Value(a, w) = Invalid(b)
         \/ a.awaits = "--timeout" /\ w \in Seconds /\ Value(a, w) = b
         \/ a.awaits = "--timeout" /\ w \notin Seconds /\ Value(a, w) = Invalid(b)
<1>1. CASE a.awaits = "--compile-db"
  BY <1>1 DEF Value
<1>2. CASE a.awaits = "--operator"
  BY <1>2 DEF Value
<1>3. CASE a.awaits = "--max-mutants"
  BY <1>3 DEF Value
<1>4. CASE a.awaits = "--timeout"
  BY <1>4 DEF Value
<1> QED BY <1>1, <1>2, <1>3, <1>4, Zenon DEF Valued

\* A word that is a project.
IsName(w) ==
  w \notin Valued \cup Formats \cup BadFormats \cup Dashed \cup Help \cup {"--", "--list"}

LEMMA OptionIs ==
  ASSUME NEW a, NEW w
  PROVE  \/ w = "--" /\ Option(a, w) = Separate(a)
         \/ w \in Help /\ Option(a, w) = Invalid(a)
         \/ Takes(a, w) /\ Option(a, w) = [a EXCEPT !.awaits = w]
         \/ w = "--list" /\ Option(a, w) = [a EXCEPT !.list = TRUE]
         \/ w \in Formats /\ Option(a, w) = a
         \/ w \in BadFormats /\ Option(a, w) = Raise(a)
         \/ w \in Dashed \cup Valued /\ ~Takes(a, w) /\ Option(a, w) = Invalid(a)
         \/ IsName(w) /\ a.project = Unset /\ Option(a, w) = [a EXCEPT !.project = w]
         \/ IsName(w) /\ a.project # Unset /\ Option(a, w) = Invalid(a)
<1> DEFINE rest == IF a.project = Unset THEN [a EXCEPT !.project = w] ELSE Invalid(a)
           odd == w \in Dashed \cup Valued /\ ~Takes(a, w)
           separator == w = "--"
           list == w = "--list"
           waiting == [a EXCEPT !.awaits = w]
           listing == [a EXCEPT !.list = TRUE]
<1>0. Option(a, w) =
        CASE separator -> Separate(a)
          [] w \in Help -> Invalid(a)
          [] Takes(a, w) -> waiting
          [] list -> listing
          [] w \in Formats -> a
          [] w \in BadFormats -> Raise(a)
          [] odd -> Invalid(a)
          [] OTHER -> rest
  BY Zenon DEF Option
<1>1. \/ separator /\ Option(a, w) = Separate(a)
      \/ w \in Help /\ Option(a, w) = Invalid(a)
      \/ Takes(a, w) /\ Option(a, w) = waiting
      \/ list /\ Option(a, w) = listing
      \/ w \in Formats /\ Option(a, w) = a
      \/ w \in BadFormats /\ Option(a, w) = Raise(a)
      \/ odd /\ Option(a, w) = Invalid(a)
      \/ /\ ~separator /\ w \notin Help /\ ~Takes(a, w) /\ ~list
         /\ w \notin Formats /\ w \notin BadFormats /\ ~odd
         /\ Option(a, w) = rest
  <2> HIDE DEF rest, odd, separator, list, waiting, listing
  <2> QED BY <1>0, Zenon
<1>2. ASSUME w # "--", w \notin Help, ~Takes(a, w), w # "--list",
             w \notin Formats, w \notin BadFormats, ~odd
      PROVE  IsName(w)
  BY <1>2 DEF IsName
<1> HIDE DEF odd
<1> QED BY <1>1, <1>2, Zenon DEF odd

LEMMA AcceptedIs ==
  ASSUME NEW w
  PROVE  /\ AcceptedValue("--compile-db", w)
         /\ AcceptedValue("--operator", w) <=> w \in Operators
         /\ AcceptedValue("--max-mutants", w) <=> IsCount(w)
         /\ AcceptedValue("--timeout", w) <=> w \in Seconds
BY DEF AcceptedValue

LEMMA TurnIs ==
  ASSUME NEW a, NEW w, a.going \in BOOLEAN, a.atTest \in BOOLEAN
  PROVE  /\ ~a.going => Turn(a, w) = a
         /\ a.going /\ a.atTest => Turn(a, w) = [a EXCEPT !.test = Append(@, w)]
         /\ a.going /\ ~a.atTest /\ a.awaits # Unset => Turn(a, w) = Value(a, w)
         /\ a.going /\ ~a.atTest /\ a.awaits = Unset => Turn(a, w) = Option(a, w)
BY DEF Turn

\* What one more word can add.
LEMMA SetsGrow ==
  ASSUME line \in Lines, NEW i \in Nat, NEW o
  PROVE  /\ i \in Said(o) => Given(o, i + 1) = Given(o, i) \cup {i}
         /\ i \notin Said(o) => Given(o, i + 1) = Given(o, i)
         /\ i \notin Given(o, i)
         /\ IsFiniteSet(Given(o, i)) /\ IsFiniteSet(Said(o))
         /\ Given(o, i) \subseteq Said(o) /\ Said(o) \subseteq Nat
         /\ i + 1 \in Projects => Named(i + 1) = Named(i) \cup {i + 1}
         /\ i + 1 \notin Projects => Named(i + 1) = Named(i)
         /\ Named(i) \subseteq Projects /\ i + 1 \notin Named(i)
         /\ Said(o) = {k \in Phrases : line[k] = o}
         /\ Projects = {k \in Phrases : line[k] \notin Valued \cup Formats \cup {"--list"}}
<1>1. Phrases \subseteq 1 .. Len(line) /\ Len(line) \in Nat
  BY LineIs, BeginsAre DEF Phrases
<1>2. Phrases \subseteq Nat
  BY <1>1
<1>3. /\ Said(o) = {k \in Phrases : line[k] = o}
      /\ Projects = {k \in Phrases : line[k] \notin Valued \cup Formats \cup {"--list"}}
  BY DEF Said, Projects
<1>4. /\ Said(o) \subseteq 1 .. Len(line) /\ Projects \subseteq 1 .. Len(line)
      /\ Said(o) \subseteq Nat /\ Projects \subseteq Nat
  BY <1>1, <1>2, <1>3
<1>5. IsFiniteSet(1 .. Len(line))
  BY <1>1, FS_Interval
<1>6. Given(o, i) \subseteq Said(o) /\ Named(i) \subseteq Projects
  BY DEF Given, Named
<1>7. IsFiniteSet(Given(o, i)) /\ IsFiniteSet(Said(o))
  <2>1. Given(o, i) \subseteq 1 .. Len(line)
    BY <1>4, <1>6
  <2> QED BY <1>4, <1>5, <2>1, FS_Subset
<1>8. \A k \in Nat : k < i + 1 <=> k < i \/ k = i
  OBVIOUS
<1>9. \A k \in Nat : k <= i + 1 <=> k <= i \/ k = i + 1
  OBVIOUS
<1>10. ~(i < i) /\ ~(i + 1 <= i)
  OBVIOUS
<1>11. /\ i \in Said(o) => Given(o, i + 1) = Given(o, i) \cup {i}
       /\ i \notin Said(o) => Given(o, i + 1) = Given(o, i)
       /\ i \notin Given(o, i)
  <2> HIDE DEF Said
  <2> QED BY <1>4, <1>8, <1>10 DEF Given
<1>12. /\ i + 1 \in Projects => Named(i + 1) = Named(i) \cup {i + 1}
       /\ i + 1 \notin Projects => Named(i + 1) = Named(i)
       /\ i + 1 \notin Named(i)
  BY <1>4, <1>9, <1>10 DEF Named
<1> QED BY <1>3, <1>4, <1>6, <1>7, <1>11, <1>12

LEMMA OneMore ==
  ASSUME NEW S, IsFiniteSet(S), NEW x, x \notin S
  PROVE  Cardinality(S) \in Nat /\ Cardinality(S \cup {x}) = Cardinality(S) + 1
BY FS_CardinalityType, FS_AddElement

\* A line with a phrase that is refused is not well formed.
LEMMA Refused ==
  ASSUME line \in Lines, NEW k \in Phrases
  PROVE  /\ line[k] \in Help \cup BadFormats \cup Dashed => ~WellFormed
         /\ line[k] \in Valued /\ ~AcceptedValue(line[k], line[k + 1]) => ~WellFormed
         /\ k = Len(line) /\ line[k] \in Valued => ~WellFormed
<1>1. Len(line) \in Nat /\ ~(Len(line) < Len(line))
  BY LineIs
<1> QED BY <1>1 DEF WellFormed

LEMMA NothingRead ==
  ASSUME line \in Lines
  PROVE  ReadTo(0, Begin)
<1>1. Begins \subseteq Nat /\ Phrases \subseteq Begins /\ \A k \in Begins : ~(k <= 0) /\ ~(k < 0)
  <2>1. Begins \subseteq 1 .. Len(line) /\ Phrases \subseteq Begins
    BY BeginsAre DEF Phrases
  <2>2. Begins \subseteq Nat
    BY <2>1, LineIs
  <2>3. \A k \in Begins : k >= 1 /\ ~(k <= 0) /\ ~(k < 0)
    BY <2>1, LineIs
  <2> QED BY <2>1, <2>2, <2>3
<1>2. \A o : Given(o, 0) = {} /\ Given(o, 1) = {} /\ Named(0) = {}
  <2> SUFFICES ASSUME NEW o PROVE Given(o, 0) = {} /\ Given(o, 1) = {} /\ Named(0) = {}
      OBVIOUS
  <2>1. Given(o, 0) = {} /\ Named(0) = {}
    BY <1>1 DEF Given, Named, Said, Projects
  <2>2. 0 \notin Said(o)
    BY <1>1 DEF Said
  <2>3. Given(o, 0 + 1) = Given(o, 0)
    BY <2>2, SetsGrow
  <2> QED BY <2>1, <2>3
<1>3. Cardinality({}) = 0
  BY FS_EmptySet
<1>4. Begin \in Parser
  <2>1. DefaultCount \in Nat
    BY OptionsOK, LimitsOK
  <2> QED BY <2>1 DEF Begin, Parser
<1>5. Positioned(0, Begin)
  BY <1>1 DEF Positioned, Begin, Separated, Opens
<1>6. AcceptedTo(0)
  BY <1>1 DEF AcceptedTo
<1>7. Tallied(0, Begin)
  <2>1. MaxOperators \in Nat /\ 0 + 1 = 1
    BY OptionsOK
  <2>2. Cardinality(Given("--operator", 1)) <= MaxOperators
    BY <1>2, <1>3, <2>1
  <2>3. CountIs(Given("--max-mutants", 0), Begin.max)
    BY <1>2 DEF CountIs, Begin
  <2>4. Len(Begin.operators) = Cardinality(Given("--operator", 0))
    BY <1>2, <1>3 DEF Begin
  <2> QED BY <1>2, <2>1, <2>2, <2>3, <2>4 DEF Tallied, Begin
<1> QED BY <1>4, <1>5, <1>6, <1>7 DEF ReadTo, Begin

-----------------------------------------------------------------------------
\* A word of the test command.
LEMMA TestWord ==
  ASSUME line \in Lines, NEW i \in 0 .. Len(line) - 1, NEW a, ReadTo(i, a), a.going, a.atTest,
         NEW w \in Words
  PROVE  ReadTo(i + 1, [a EXCEPT !.test = Append(@, w)])
<1> DEFINE b == [a EXCEPT !.test = Append(@, w)]
<1>0. i \in Nat /\ Len(line) \in Nat
  BY LineIs
<1>1. a \in Parser /\ Positioned(i, a) /\ AcceptedTo(i) /\ Tallied(i, a)
  BY DEF ReadTo
<1>2. /\ b \in Parser /\ b.going /\ b.valid = a.valid /\ b.atTest = a.atTest
      /\ b.awaits = a.awaits /\ b.project = a.project /\ b.database = a.database
      /\ b.operators = a.operators /\ b.max = a.max /\ b.list = a.list /\ b.test # <<>>
  <2>1. a.test \in Seq(Words) /\ Append(a.test, w) \in Seq(Words) /\ Append(a.test, w) # <<>>
    BY <1>1 DEF Parser
  <2> QED BY <1>1, <2>1 DEF Parser
<1> HIDE DEF b
<1>3. Separated(i)
  BY <1>1 DEF Positioned
<1>4. Separated(i + 1) /\ \A k \in Phrases : k < i
  BY <1>3, PhrasesAre
<1>5. ~(i < i) /\ ~(i + 1 < i)
  BY <1>0
<1>6. \A o : i \notin Said(o) /\ i + 1 \notin Said(o)
  BY <1>4, <1>5 DEF Said
<1>7. i + 1 \notin Projects
  BY <1>4, <1>5 DEF Projects
<1>8. \A o : Given(o, i + 1) = Given(o, i) /\ Given(o, i + 1 + 1) = Given(o, i + 1)
  <2> SUFFICES ASSUME NEW o
               PROVE  Given(o, i + 1) = Given(o, i) /\ Given(o, i + 1 + 1) = Given(o, i + 1)
      OBVIOUS
  <2>1. i + 1 \in Nat
    BY <1>0
  <2> QED BY <1>0, <1>6, <2>1, SetsGrow
<1>9. Named(i + 1) = Named(i)
  BY <1>0, <1>7, SetsGrow
<1>10. Positioned(i + 1, b)
  <2>1. \E k \in Begins : k < i + 1 /\ line[k] = "--"
    <3> PICK k \in Begins : k <= i /\ line[k] = "--"
      BY <1>3 DEF Separated
    <3>1. k \in Nat
      BY BeginsAre, <1>0
    <3>2. k < i + 1
      BY <1>0, <3>1
    <3> QED BY <3>2
  <2> QED BY <1>1, <1>2, <1>3, <1>4, <2>1 DEF Positioned
<1>11. AcceptedTo(i + 1)
  <2> SUFFICES ASSUME NEW k \in Phrases
               PROVE  /\ line[k] \notin Help \cup BadFormats \cup Dashed
                      /\ line[k] \in Valued => AcceptedValue(line[k], line[k + 1])
      BY DEF AcceptedTo
  <2>1. k < i
    BY <1>4
  <2>2. k \in Nat
    BY BeginsAre, <1>0 DEF Phrases
  <2>3. k <= i
    BY <1>0, <2>1, <2>2
  <2> QED BY <1>1, <2>1, <2>3 DEF AcceptedTo
<1>12. Tallied(i + 1, b)
  BY <1>1, <1>2, <1>8, <1>9 DEF Tallied
<1> QED BY <1>2, <1>10, <1>11, <1>12 DEF ReadTo, b

\* The value of an option.
LEMMA ValueWord ==
  ASSUME line \in Lines, NEW i \in 0 .. Len(line) - 1, NEW a, ReadTo(i, a), a.going, ~a.atTest,
         a.awaits # Unset
  PROVE  ReadTo(i + 1, Value(a, line[i + 1]))
<1> DEFINE w == line[i + 1]
           b == Value(a, w)
           c == [a EXCEPT !.awaits = Unset]
<1>0. i \in Nat /\ i + 1 \in Nat /\ Len(line) \in Nat /\ i + 1 \in 1 .. Len(line)
  BY LineIs
<1>1. a \in Parser /\ Positioned(i, a) /\ AcceptedTo(i) /\ Tallied(i, a)
  BY DEF ReadTo
<1>2. ~Separated(i) /\ Opens(i) /\ a.awaits = line[i]
  BY <1>1 DEF Positioned
<1>3. i \in Begins /\ line[i] \in Valued /\ i \in Phrases
  <2>1. i \in Begins /\ line[i] \in Valued
    BY <1>2 DEF Opens
  <2>2. i <= i
    BY <1>0
  <2> QED BY <1>2, <2>1, <2>2, PhrasesAre
<1>4. i + 1 \notin Begins /\ ~Separated(i + 1) /\ ~Opens(i + 1)
  <2>1. i >= 1 /\ i + 1 # 1 /\ i + 1 - 1 = i
    <3>1. i \in 1 .. Len(line)
      BY <1>3, BeginsAre
    <3> QED BY <3>1, <1>0
  <2>2. i + 1 \notin Begins
    BY <1>0, <1>2, <2>1, BeginsAre
  <2> QED BY <1>2, <2>2, PhrasesAre DEF Opens
<1>5. w \in Words /\ w # Unset
  BY <1>0, LineIs
<1>6. c \in Parser /\ c.awaits = Unset /\ c.going /\ c.valid /\ c.atTest = a.atTest
      /\ c.test = a.test /\ c.project = a.project /\ c.database = a.database
      /\ c.operators = a.operators /\ c.max = a.max /\ c.list = a.list
  BY <1>1 DEF Parser, Positioned
<1>7. i + 1 \notin Phrases
  BY <1>4, PhrasesAre
<1>8. /\ \A o : i + 1 \notin Said(o) /\ (i \in Said(o) <=> line[i] = o)
      /\ i + 1 \notin Projects
  BY <1>3, <1>7 DEF Said, Projects
<1>9. Named(i + 1) = Named(i)
  BY <1>0, <1>8, SetsGrow
<1>10. ASSUME NEW o
       PROVE  /\ Given(o, i + 1 + 1) = Given(o, i + 1)
              /\ line[i] # o => Given(o, i + 1) = Given(o, i)
              /\ line[i] = o => Given(o, i + 1) = Given(o, i) \cup {i}
              /\ i \notin Given(o, i) /\ IsFiniteSet(Given(o, i))
              /\ Given(o, i) \subseteq Nat /\ \A k \in Given(o, i) : k < i
  <2>1. Given(o, i + 1 + 1) = Given(o, i + 1)
    BY ONLY line \in Lines, <1>0, <1>8, SetsGrow
  <2>2. /\ line[i] # o => Given(o, i + 1) = Given(o, i)
        /\ line[i] = o => Given(o, i + 1) = Given(o, i) \cup {i}
        /\ i \notin Given(o, i) /\ IsFiniteSet(Given(o, i)) /\ Given(o, i) \subseteq Nat
    BY ONLY line \in Lines, <1>0, <1>8, SetsGrow
  <2>3. \A k \in Given(o, i) : k < i
    BY DEF Given
  <2> QED BY <2>1, <2>2, <2>3
<1>11. ASSUME NEW d, d.valid, d.atTest = a.atTest, d.test = a.test, d.awaits = Unset
       PROVE  Positioned(i + 1, d)
  <2>1. ~ \E k \in Begins : k < i + 1 /\ line[k] = "--"
    <3> SUFFICES ASSUME NEW k \in Begins, k < i + 1, line[k] = "--" PROVE FALSE
        OBVIOUS
    <3>1. k \in Nat
      BY BeginsAre, <1>0
    <3>2. k <= i
      BY <1>0, <3>1
    <3> QED BY <1>2, <3>2 DEF Separated
  <2>2. ~ \E k \in Begins : k < i /\ line[k] = "--"
    <3> SUFFICES ASSUME NEW k \in Begins, k < i, line[k] = "--" PROVE FALSE
        OBVIOUS
    <3>1. k \in Nat
      BY BeginsAre, <1>0
    <3>2. k < i + 1
      BY <1>0, <3>1
    <3> QED BY <2>1, <3>2
  <2> QED BY <1>1, <1>2, <1>4, <1>11, <2>1, <2>2 DEF Positioned
<1>12. ASSUME AcceptedValue(line[i], w)
       PROVE  AcceptedTo(i + 1)
  <2> SUFFICES ASSUME NEW k \in Phrases, k <= i + 1
               PROVE  /\ line[k] \notin Help \cup BadFormats \cup Dashed
                      /\ line[k] \in Valued => AcceptedValue(line[k], line[k + 1])
      BY DEF AcceptedTo
  <2>1. k \in Nat /\ k # i + 1
    BY BeginsAre, <1>0, <1>7 DEF Phrases
  <2>2. k <= i /\ (k = i \/ k < i)
    BY <1>0, <2>1
  <2>3. line[k] \notin Help \cup BadFormats \cup Dashed
    BY <1>1, <2>2 DEF AcceptedTo
  <2>4. k < i /\ line[k] \in Valued => AcceptedValue(line[k], line[k + 1])
    BY <1>1, <2>2 DEF AcceptedTo
  <2> QED BY <1>12, <2>2, <2>3, <2>4
<1>13. Cardinality(Given("--operator", i + 1 + 1)) <= MaxOperators
  BY <1>1, <1>10 DEF Tallied
<1>14. Given("--list", i + 1 + 1) = Given("--list", i + 1)
  BY <1>10
<1>15. ASSUME ~AcceptedValue(line[i], w), NEW d \in Parser, ~d.going, ~d.valid
       PROVE  ReadTo(i + 1, d)
  BY <1>3, <1>15, Refused DEF ReadTo
<1>16. \/ a.awaits = "--compile-db" /\ b = [c EXCEPT !.database = w]
       \/ /\ a.awaits = "--operator" /\ w \in Operators
          /\ b = [c EXCEPT !.operators = Append(@, w)]
       \/ a.awaits = "--operator" /\ w \notin Operators /\ b = Raise(c)
       \/ a.awaits = "--max-mutants" /\ IsCount(w) /\ b = [c EXCEPT !.max = Numbers[w]]
       \/ a.awaits = "--max-mutants" /\ ~IsCount(w) /\ b = Invalid(c)
       \/ a.awaits = "--timeout" /\ w \in Seconds /\ b = c
       \/ a.awaits = "--timeout" /\ w \notin Seconds /\ b = Invalid(c)
  <2>1. a.awaits \in Valued
    BY <1>2, <1>3
  <2> HIDE DEF w
  <2> QED BY <2>1, ValueIs
<1> SUFFICES ReadTo(i + 1, b)
    OBVIOUS
<1> HIDE DEF w, b, c
<1>17. Invalid(c) \in Parser /\ Raise(c) \in Parser
  BY <1>6 DEF Invalid, Raise, Parser
<1>18. /\ ~Invalid(c).going /\ ~Invalid(c).valid
       /\ ~Raise(c).going /\ ~Raise(c).valid
  BY <1>6 DEF Invalid, Raise, Parser
<1>19. CASE a.awaits = "--compile-db" /\ b = [c EXCEPT !.database = w]
  <2>1. /\ b \in Parser /\ b.going /\ b.valid /\ b.awaits = Unset /\ b.atTest = a.atTest
        /\ b.test = a.test /\ b.project = a.project /\ b.database = w
        /\ b.operators = a.operators /\ b.max = a.max /\ b.list = a.list
    BY <1>5, <1>6, <1>19 DEF Parser
  <2>2. AcceptedValue(line[i], w)
    BY <1>2, <1>19, AcceptedIs
  <2>3. /\ Given("--compile-db", i + 1) # {}
        /\ Given("--operator", i + 1) = Given("--operator", i)
        /\ Given("--max-mutants", i + 1) = Given("--max-mutants", i)
    BY <1>2, <1>10, <1>19
  <2>4. Tallied(i + 1, b)
    BY <1>1, <1>5, <1>9, <1>13, <1>14, <2>1, <2>3 DEF Tallied
  <2> QED BY <1>11, <1>12, <2>1, <2>2, <2>4 DEF ReadTo
<1>20. CASE a.awaits = "--operator" /\ w \in Operators /\ b = [c EXCEPT !.operators = Append(@, w)]
  <2>0. a.operators \in Seq(Words)
    BY <1>1 DEF Parser
  <2>1. /\ b \in Parser /\ b.going /\ b.valid /\ b.awaits = Unset /\ b.atTest = a.atTest
        /\ b.test = a.test /\ b.project = a.project /\ b.database = a.database
        /\ b.operators = Append(a.operators, w) /\ b.max = a.max /\ b.list = a.list
    <3>1. Append(c.operators, w) \in Seq(Words)
      BY <1>5, <1>6, <2>0
    <3>2. b = [c EXCEPT !.operators = Append(c.operators, w)]
      BY <1>20
    <3> QED BY <1>6, <3>1, <3>2 DEF Parser
  <2>2. AcceptedValue(line[i], w)
    BY <1>2, <1>20, AcceptedIs
  <2>3. /\ Given("--compile-db", i + 1) = Given("--compile-db", i)
        /\ Given("--max-mutants", i + 1) = Given("--max-mutants", i)
    BY <1>2, <1>10, <1>20
  <2>4. Len(b.operators) = Cardinality(Given("--operator", i + 1))
    <3>1. Given("--operator", i + 1) = Given("--operator", i) \cup {i}
      BY <1>2, <1>10, <1>20
    <3>2. IsFiniteSet(Given("--operator", i)) /\ i \notin Given("--operator", i)
      BY <1>10
    <3>3. Cardinality(Given("--operator", i + 1)) = Cardinality(Given("--operator", i)) + 1
      BY <3>1, <3>2, OneMore
    <3>4. Len(b.operators) = Len(a.operators) + 1
      BY <1>5, <2>0, <2>1
    <3> QED BY <1>1, <3>3, <3>4 DEF Tallied
  <2>5. Tallied(i + 1, b)
    BY <1>1, <1>9, <1>13, <1>14, <2>1, <2>3, <2>4 DEF Tallied
  <2> QED BY <1>11, <1>12, <2>1, <2>2, <2>5 DEF ReadTo
<1>21. CASE a.awaits = "--operator" /\ w \notin Operators /\ b = Raise(c)
  <2>1. ~AcceptedValue(line[i], w)
    BY <1>2, <1>21, AcceptedIs
  <2> QED BY <1>15, <1>17, <1>18, <1>21, <2>1
<1>22. CASE a.awaits = "--max-mutants" /\ IsCount(w) /\ b = [c EXCEPT !.max = Numbers[w]]
  <2>0. Numbers[w] \in Nat
    BY <1>22, OptionsOK, LimitsOK DEF IsCount
  <2>1. /\ b \in Parser /\ b.going /\ b.valid /\ b.awaits = Unset /\ b.atTest = a.atTest
        /\ b.test = a.test /\ b.project = a.project /\ b.database = a.database
        /\ b.operators = a.operators /\ b.max = Numbers[w] /\ b.list = a.list
    BY <1>6, <1>22, <2>0 DEF Parser
  <2>2. AcceptedValue(line[i], w)
    BY <1>2, <1>22, AcceptedIs
  <2>3. /\ Given("--compile-db", i + 1) = Given("--compile-db", i)
        /\ Given("--operator", i + 1) = Given("--operator", i)
    BY <1>2, <1>10, <1>22
  <2>4. CountIs(Given("--max-mutants", i + 1), b.max)
    <3> DEFINE given == Given("--max-mutants", i + 1)
    <3>1. given = Given("--max-mutants", i) \cup {i}
      BY <1>2, <1>10, <1>22
    <3>2. \A j \in Given("--max-mutants", i) : j \in Nat /\ j < i
      BY <1>10
    <3>3. \A j \in Given("--max-mutants", i) : j <= i
      BY <1>0, <3>2
    <3> HIDE DEF given
    <3>4. i \in given /\ \A j \in given : j <= i
      BY <1>0, <3>1, <3>3
    <3>5. b.max = Numbers[line[i + 1]]
      BY <2>1 DEF w
    <3>6. CountIs(given, b.max)
      BY <3>4, <3>5 DEF CountIs
    <3> QED BY <3>6 DEF given
  <2>5. Tallied(i + 1, b)
    BY <1>1, <1>9, <1>13, <1>14, <2>1, <2>3, <2>4 DEF Tallied
  <2> QED BY <1>11, <1>12, <2>1, <2>2, <2>5 DEF ReadTo
<1>23. CASE a.awaits = "--max-mutants" /\ ~IsCount(w) /\ b = Invalid(c)
  <2>1. ~AcceptedValue(line[i], w)
    BY <1>2, <1>23, AcceptedIs
  <2> QED BY <1>15, <1>17, <1>18, <1>23, <2>1
<1>24. CASE a.awaits = "--timeout" /\ w \in Seconds /\ b = c
  <2>1. AcceptedValue(line[i], w)
    BY <1>2, <1>24, AcceptedIs
  <2>2. /\ Given("--compile-db", i + 1) = Given("--compile-db", i)
        /\ Given("--operator", i + 1) = Given("--operator", i)
        /\ Given("--max-mutants", i + 1) = Given("--max-mutants", i)
    BY <1>2, <1>10, <1>24
  <2>3. Tallied(i + 1, b)
    BY <1>1, <1>6, <1>9, <1>13, <1>14, <1>24, <2>2 DEF Tallied
  <2> QED BY <1>6, <1>11, <1>12, <1>24, <2>1, <2>3 DEF ReadTo
<1>25. CASE a.awaits = "--timeout" /\ w \notin Seconds /\ b = Invalid(c)
  <2>1. ~AcceptedValue(line[i], w)
    BY <1>2, <1>25, AcceptedIs
  <2> QED BY <1>15, <1>17, <1>18, <1>25, <2>1
<1> QED BY <1>16, <1>19, <1>20, <1>21, <1>22, <1>23, <1>24, <1>25

\* The options are told apart by their words.
LEMMA OptionsApart ==
  ASSUME NEW w
  PROVE  /\ w \in Valued =>
              w \notin Help \cup BadFormats \cup Dashed \cup Formats \cup {"--", "--list"}
         /\ w = "--list" => w \notin Help \cup BadFormats \cup Dashed \cup Formats \cup Valued
         /\ w \in Formats =>
              w \notin Help \cup BadFormats \cup Dashed \cup Valued \cup {"--", "--list"}
         /\ w \in Help => w \notin {"--"}
         /\ w \in BadFormats \cup Dashed => w # "--"
<1> DEFINE own == Valued \cup Help \cup {"--list", "--"}
<1>1. /\ Formats \cap (own \cup BadFormats \cup Dashed) = {}
      /\ BadFormats \cap (own \cup Dashed) = {}
      /\ Dashed \cap own = {}
  BY WordsOK
<1>2. /\ w \in Valued => w \notin Help \cup {"--", "--list"}
      /\ w = "--list" => w \notin Help \cup Valued
      /\ w \in Help => w # "--"
  BY DEF Valued, Help
<1>3. /\ w \in own => w \notin Formats /\ w \notin BadFormats /\ w \notin Dashed
      /\ w \in Formats => w \notin own /\ w \notin BadFormats /\ w \notin Dashed
      /\ w \in BadFormats => w \notin own
      /\ w \in Dashed => w \notin own
  <2> HIDE DEF own
  <2> QED BY <1>1
<1>4. /\ w \in Valued => w \in own
      /\ w \in Help => w \in own
      /\ w \in {"--list", "--"} => w \in own
  OBVIOUS
<1> HIDE DEF own
<1> QED BY <1>2, <1>3, <1>4

\* A word where a phrase begins.
LEMMA OptionWord ==
  ASSUME line \in Lines, NEW i \in 0 .. Len(line) - 1, NEW a, ReadTo(i, a), a.going, ~a.atTest,
         a.awaits = Unset
  PROVE  ReadTo(i + 1, Option(a, line[i + 1]))
<1> DEFINE w == line[i + 1]
           b == Option(a, w)
<1>0. i \in Nat /\ i + 1 \in Nat /\ Len(line) \in Nat /\ i + 1 \in 1 .. Len(line)
      /\ i + 1 - 1 = i
  BY LineIs
<1>1. a \in Parser /\ Positioned(i, a) /\ AcceptedTo(i) /\ Tallied(i, a)
  BY DEF ReadTo
<1>2. ~Separated(i) /\ ~Opens(i) /\ i + 1 \in Begins
  <2>1. ~Separated(i)
    BY <1>1 DEF Positioned
  <2>2. ~Opens(i)
    <3> SUFFICES ASSUME Opens(i) PROVE FALSE
        OBVIOUS
    <3>1. i \in 1 .. Len(line)
      BY BeginsAre DEF Opens
    <3>2. line[i] = Unset
      BY <1>1, <2>1 DEF Positioned
    <3> QED BY <3>1, <3>2, LineIs
  <2> QED BY <1>0, <2>1, <2>2, BeginsAre
<1>3. w \in Words /\ w # Unset
  BY <1>0, LineIs
<1>4. /\ a.going /\ a.valid /\ a.project \in Words \cup {Unset}
      /\ a.operators \in Seq(Words)
  BY <1>1 DEF Parser, Positioned
<1>5. \A k \in Begins : k \in Nat /\ k # 0
  BY BeginsAre, <1>0
<1>6. /\ ~ \E k \in Begins : k < i + 1 /\ line[k] = "--"
      /\ ~ \E k \in Begins : k < i /\ line[k] = "--"
  <2> SUFFICES ASSUME NEW k \in Begins, k < i + 1 \/ k < i, line[k] = "--" PROVE FALSE
      OBVIOUS
  <2>1. k <= i
    BY <1>0, <1>5
  <2> QED BY <1>2, <2>1 DEF Separated
<1>7. a.test = <<>>
  BY <1>1, <1>6 DEF Positioned
<1>8. /\ w # "--" => i + 1 \in Phrases /\ ~Separated(i + 1)
      /\ w = "--" => i + 1 \notin Phrases /\ Separated(i + 1)
  BY <1>2, PhrasesAre
<1>9. i \in Phrases => line[i] \notin Valued
  BY <1>2, PhrasesAre DEF Opens
<1>10. ASSUME NEW o
       PROVE  /\ o \in Valued => Given(o, i + 1) = Given(o, i)
              /\ w = o /\ w # "--" => /\ Given(o, i + 1 + 1) = Given(o, i + 1) \cup {i + 1}
                                      /\ i + 1 \in Said(o)
              /\ ~(w = o /\ w # "--") => Given(o, i + 1 + 1) = Given(o, i + 1)
              /\ i + 1 \notin Given(o, i + 1) /\ IsFiniteSet(Given(o, i + 1))
              /\ IsFiniteSet(Said(o)) /\ Given(o, i + 1 + 1) \subseteq Said(o)
  <2>1. /\ i \in Said(o) => i \in Phrases /\ line[i] = o
        /\ i + 1 \in Said(o) <=> i + 1 \in Phrases /\ w = o
    BY DEF Said
  <2>2. o \in Valued => Given(o, i + 1) = Given(o, i)
    BY <1>0, <1>9, <2>1, SetsGrow
  <2>3. /\ w = o /\ w # "--" => i + 1 \in Said(o)
        /\ ~(w = o /\ w # "--") => i + 1 \notin Said(o)
    BY <1>8, <2>1
  <2> QED BY ONLY line \in Lines, <1>0, <2>2, <2>3, SetsGrow
<1>11. /\ w # "--" /\ w \notin Valued \cup Formats \cup {"--list"} =>
            Named(i + 1) = Named(i) \cup {i + 1} /\ i + 1 \in Projects
       /\ w = "--" \/ w \in Valued \cup Formats \cup {"--list"} => Named(i + 1) = Named(i)
       /\ Named(i) \subseteq Projects /\ i + 1 \notin Named(i)
  <2>1. /\ w # "--" /\ w \notin Valued \cup Formats \cup {"--list"} => i + 1 \in Projects
        /\ w = "--" \/ w \in Valued \cup Formats \cup {"--list"} => i + 1 \notin Projects
    BY <1>8 DEF Projects
  <2> QED BY ONLY line \in Lines, <1>0, <2>1, SetsGrow
<1>12. ASSUME w = "--" \/ w \notin Help \cup BadFormats \cup Dashed
       PROVE  AcceptedTo(i + 1)
  <2> SUFFICES ASSUME NEW k \in Phrases, k <= i + 1
               PROVE  /\ line[k] \notin Help \cup BadFormats \cup Dashed
                      /\ k < i + 1 /\ line[k] \in Valued => AcceptedValue(line[k], line[k + 1])
      BY DEF AcceptedTo
  <2>1. k \in Nat
    BY <1>5 DEF Phrases
  <2>2. CASE k = i + 1
    BY <1>0, <1>8, <1>12, <2>2
  <2>3. CASE k # i + 1
    <3>1. k <= i /\ (k = i \/ k < i)
      BY <1>0, <2>1, <2>3
    <3>2. line[k] \notin Help \cup BadFormats \cup Dashed
      BY <1>1, <3>1 DEF AcceptedTo
    <3>3. k < i /\ line[k] \in Valued => AcceptedValue(line[k], line[k + 1])
      BY <1>1, <3>1 DEF AcceptedTo
    <3> QED BY <1>9, <3>1, <3>2, <3>3
  <2> QED BY <2>2, <2>3
<1>13. ASSUME w \in Help \cup BadFormats \cup Dashed, NEW d \in Parser, ~d.going, ~d.valid
       PROVE  ReadTo(i + 1, d)
  <2>1. i + 1 \in Phrases
    BY <1>8, <1>13, OptionsApart
  <2> QED BY <1>13, <2>1, Refused DEF ReadTo
<1>14. ASSUME NEW d, d.valid, ~d.atTest, d.test = <<>>, w # "--",
              d.awaits = IF w \in Valued THEN w ELSE Unset
       PROVE  Positioned(i + 1, d)
  BY <1>2, <1>6, <1>8, <1>14 DEF Positioned, Opens
<1>15. \/ w = "--" /\ b = Separate(a)
       \/ w \in Help /\ b = Invalid(a)
       \/ Takes(a, w) /\ b = [a EXCEPT !.awaits = w]
       \/ w = "--list" /\ b = [a EXCEPT !.list = TRUE]
       \/ w \in Formats /\ b = a
       \/ w \in BadFormats /\ b = Raise(a)
       \/ w \in Dashed \cup Valued /\ ~Takes(a, w) /\ b = Invalid(a)
       \/ IsName(w) /\ a.project = Unset /\ b = [a EXCEPT !.project = w]
       \/ IsName(w) /\ a.project # Unset /\ b = Invalid(a)
  <2> HIDE DEF w
  <2> QED BY OptionIs
<1>16. /\ "--compile-db" \in Valued /\ "--operator" \in Valued /\ "--max-mutants" \in Valued
       /\ "--list" \notin Valued
  BY DEF Valued
<1>17. /\ Invalid(a) \in Parser /\ ~Invalid(a).going /\ ~Invalid(a).valid
       /\ Raise(a) \in Parser /\ ~Raise(a).going /\ ~Raise(a).valid
  BY <1>1 DEF Invalid, Raise, Parser
<1> SUFFICES ReadTo(i + 1, b)
    OBVIOUS
<1> HIDE DEF w, b
<1>18. /\ Given("--compile-db", i + 1) = Given("--compile-db", i)
       /\ Given("--operator", i + 1) = Given("--operator", i)
       /\ Given("--max-mutants", i + 1) = Given("--max-mutants", i)
  BY <1>10, <1>16
<1>19. ASSUME NEW d, d.database = a.database, d.operators = a.operators, d.max = a.max,
              /\ d.project = Unset => Named(i + 1) = {}
              /\ d.project # Unset => \E k : Named(i + 1) = {k},
              Cardinality(Given("--operator", i + 1 + 1)) <= MaxOperators,
              d.list <=> Given("--list", i + 1 + 1) # {}
       PROVE  Tallied(i + 1, d)
  BY <1>1, <1>18, <1>19 DEF Tallied
<1>20. CASE w = "--" /\ b = Separate(a)
  <2>1. /\ b \in Parser /\ b.going /\ b.valid /\ b.atTest /\ b.awaits = Unset /\ b.test = <<>>
        /\ b.project = a.project /\ b.database = a.database /\ b.operators = a.operators
        /\ b.max = a.max /\ b.list = a.list
    BY <1>1, <1>4, <1>7, <1>20 DEF Separate, Parser
  <2>2. Positioned(i + 1, b)
    BY <1>6, <1>8, <1>20, <2>1 DEF Positioned
  <2>3. Tallied(i + 1, b)
    <3>1. Named(i + 1) = Named(i)
      BY <1>11, <1>20
    <3>2. \A o : Given(o, i + 1 + 1) = Given(o, i + 1)
      BY <1>10, <1>20
    <3> QED BY <1>1, <1>19, <2>1, <3>1, <3>2 DEF Tallied
  <2> QED BY <1>12, <1>20, <2>1, <2>2, <2>3 DEF ReadTo
<1>21. CASE w \in Help /\ b = Invalid(a)
  BY <1>13, <1>17, <1>21
<1>22. CASE Takes(a, w) /\ b = [a EXCEPT !.awaits = w]
  <2>0. w \in Valued /\ (w = "--operator" => Len(a.operators) < MaxOperators)
    BY <1>22 DEF Takes
  <2>1. /\ b \in Parser /\ b.going /\ b.valid /\ ~b.atTest /\ b.awaits = w /\ b.test = <<>>
        /\ b.project = a.project /\ b.database = a.database /\ b.operators = a.operators
        /\ b.max = a.max /\ b.list = a.list
    BY <1>1, <1>4, <1>7, <1>22, <2>0 DEF Parser
  <2>2. w \notin Help \cup BadFormats \cup Dashed \cup Formats \cup {"--", "--list"}
    BY <2>0, OptionsApart
  <2>3. Positioned(i + 1, b)
    BY <1>14, <2>0, <2>1, <2>2
  <2>4. Cardinality(Given("--operator", i + 1 + 1)) <= MaxOperators
    <3>1. CASE w = "--operator"
      <4>1. /\ Given("--operator", i + 1 + 1) = Given("--operator", i + 1) \cup {i + 1}
            /\ i + 1 \notin Given("--operator", i + 1)
            /\ IsFiniteSet(Given("--operator", i + 1))
        BY <1>10, <2>2, <3>1
      <4>2. /\ Cardinality(Given("--operator", i + 1)) \in Nat
            /\ Cardinality(Given("--operator", i + 1 + 1)) =
                 Cardinality(Given("--operator", i + 1)) + 1
        BY <4>1, OneMore
      <4>3. Len(a.operators) = Cardinality(Given("--operator", i + 1))
        BY <1>1, <1>18 DEF Tallied
      <4>4. Len(a.operators) < MaxOperators /\ MaxOperators \in Nat
        BY <2>0, <3>1, OptionsOK
      <4> QED BY <4>2, <4>3, <4>4
    <3>2. CASE w # "--operator"
      BY <1>1, <1>10, <3>2 DEF Tallied
    <3> QED BY <3>1, <3>2
  <2>5. Given("--list", i + 1 + 1) = Given("--list", i + 1)
    BY <1>10, <2>2
  <2>6. Named(i + 1) = Named(i)
    BY <1>11, <2>0
  <2>7. Tallied(i + 1, b)
    BY <1>1, <1>19, <2>1, <2>4, <2>5, <2>6 DEF Tallied
  <2> QED BY <1>12, <2>1, <2>2, <2>3, <2>7 DEF ReadTo
<1>23. CASE w = "--list" /\ b = [a EXCEPT !.list = TRUE]
  <2>1. /\ b \in Parser /\ b.going /\ b.valid /\ ~b.atTest /\ b.awaits = Unset /\ b.test = <<>>
        /\ b.project = a.project /\ b.database = a.database /\ b.operators = a.operators
        /\ b.max = a.max /\ b.list
    BY <1>1, <1>4, <1>7, <1>23 DEF Parser
  <2>2. w \notin Help \cup BadFormats \cup Dashed \cup Valued /\ w # "--" /\ w # "--operator"
    BY <1>23, OptionsApart
  <2>3. Positioned(i + 1, b)
    BY <1>14, <2>1, <2>2
  <2>4. /\ Given("--operator", i + 1 + 1) = Given("--operator", i + 1)
        /\ Given("--list", i + 1 + 1) # {}
    BY <1>10, <1>23, <2>2
  <2>5. Named(i + 1) = Named(i)
    BY <1>11, <1>23
  <2>6. Tallied(i + 1, b)
    BY <1>1, <1>19, <2>1, <2>4, <2>5 DEF Tallied
  <2> QED BY <1>12, <2>1, <2>2, <2>3, <2>6 DEF ReadTo
<1>24. CASE w \in Formats /\ b = a
  <2>1. /\ w \notin Help \cup BadFormats \cup Dashed \cup Valued /\ w # "--" /\ w # "--operator"
        /\ w # "--list"
    BY <1>16, <1>24, OptionsApart
  <2>2. Positioned(i + 1, b)
    BY <1>4, <1>7, <1>14, <1>24, <2>1
  <2>3. /\ Given("--operator", i + 1 + 1) = Given("--operator", i + 1)
        /\ Given("--list", i + 1 + 1) = Given("--list", i + 1)
    BY <1>10, <2>1
  <2>4. Named(i + 1) = Named(i)
    BY <1>11, <1>24
  <2>5. Tallied(i + 1, b)
    BY <1>1, <1>19, <1>24, <2>3, <2>4 DEF Tallied
  <2> QED BY <1>1, <1>4, <1>12, <1>24, <2>1, <2>2, <2>5 DEF ReadTo
<1>25. CASE w \in BadFormats /\ b = Raise(a)
  BY <1>13, <1>17, <1>25
<1>26. CASE w \in Dashed \cup Valued /\ ~Takes(a, w) /\ b = Invalid(a)
  <2>1. CASE w \in Dashed
    BY <1>13, <1>17, <1>26, <2>1
  <2>2. CASE w \in Valued
    <3>1. w = "--operator" /\ ~(Len(a.operators) < MaxOperators) /\ w # "--"
      BY <1>26, <2>2 DEF Takes
    <3>2. /\ Given("--operator", i + 1 + 1) = Given("--operator", i + 1) \cup {i + 1}
          /\ i + 1 \notin Given("--operator", i + 1)
          /\ IsFiniteSet(Given("--operator", i + 1)) /\ IsFiniteSet(Said("--operator"))
          /\ Given("--operator", i + 1 + 1) \subseteq Said("--operator")
      BY <1>10, <3>1
    <3>3. /\ Cardinality(Given("--operator", i + 1)) \in Nat
          /\ Cardinality(Given("--operator", i + 1 + 1)) =
               Cardinality(Given("--operator", i + 1)) + 1
      BY <3>2, OneMore
    <3>4. Cardinality(Given("--operator", i + 1 + 1)) <= Cardinality(Said("--operator"))
      BY <3>2, FS_Subset
    <3>5. Len(a.operators) = Cardinality(Given("--operator", i + 1))
      BY <1>1, <1>18 DEF Tallied
    <3>6. Cardinality(Said("--operator")) \in Nat /\ MaxOperators \in Nat
      BY <3>2, FS_CardinalityType, OptionsOK
    <3>7. ~(Cardinality(Said("--operator")) <= MaxOperators)
      BY <3>1, <3>3, <3>4, <3>5, <3>6
    <3>8. ~WellFormed
      BY <3>7 DEF WellFormed
    <3> QED BY <1>17, <1>26, <3>8 DEF ReadTo
  <2> QED BY <1>26, <2>1, <2>2
<1>27. ASSUME IsName(w)
       PROVE  /\ w # "--" /\ w # "--list" /\ w # "--operator" /\ w \notin Valued
              /\ w \notin Help \cup BadFormats \cup Dashed
              /\ Named(i + 1) = Named(i) \cup {i + 1} /\ i + 1 \in Projects
  <2>1. /\ w # "--" /\ w \notin Valued \cup Formats \cup {"--list"} /\ w # "--list"
        /\ w \notin Help \cup BadFormats \cup Dashed /\ w \notin Valued
    BY <1>27 DEF IsName
  <2> QED BY <1>11, <1>16, <2>1
<1>28. CASE IsName(w) /\ a.project = Unset /\ b = [a EXCEPT !.project = w]
  <2>1. /\ b \in Parser /\ b.going /\ b.valid /\ ~b.atTest /\ b.awaits = Unset /\ b.test = <<>>
        /\ b.project = w /\ b.database = a.database /\ b.operators = a.operators
        /\ b.max = a.max /\ b.list = a.list
    BY <1>1, <1>3, <1>4, <1>7, <1>28 DEF Parser
  <2>2. Positioned(i + 1, b)
    BY <1>14, <1>27, <1>28, <2>1
  <2>3. /\ Given("--operator", i + 1 + 1) = Given("--operator", i + 1)
        /\ Given("--list", i + 1 + 1) = Given("--list", i + 1)
    BY <1>10, <1>27, <1>28
  <2>4. Named(i + 1) = {i + 1}
    <3>1. Named(i) = {}
      BY <1>1, <1>28 DEF Tallied
    <3> QED BY <1>27, <1>28, <3>1
  <2>5. Tallied(i + 1, b)
    BY <1>1, <1>3, <1>19, <2>1, <2>3, <2>4 DEF Tallied
  <2> QED BY <1>12, <1>27, <1>28, <2>1, <2>2, <2>5 DEF ReadTo
<1>29. CASE IsName(w) /\ a.project # Unset /\ b = Invalid(a)
  <2>1. PICK k : Named(i) = {k}
    BY <1>1, <1>29 DEF Tallied
  <2>2. k \in Projects /\ i + 1 \in Projects /\ k # i + 1
    BY <1>11, <1>27, <1>29, <2>1
  <2>3. Cardinality(Projects) # 1
    <3> SUFFICES ASSUME Cardinality(Projects) = 1 PROVE FALSE
        OBVIOUS
    <3>1. IsFiniteSet(Projects)
      <4>1. Projects \subseteq 1 .. Len(line)
        BY BeginsAre DEF Projects, Phrases
      <4>2. IsFiniteSet(1 .. Len(line))
        BY <1>0, FS_Interval
      <4> QED BY <4>1, <4>2, FS_Subset
    <3>2. \E x : Projects = {x}
      <4> HIDE DEF Projects
      <4> QED BY <3>1, FS_Singleton
    <3> QED BY <2>2, <3>2
  <2>4. ~WellFormed
    BY <2>3 DEF WellFormed
  <2> QED BY <1>17, <1>29, <2>4 DEF ReadTo
<1> QED BY <1>15, <1>20, <1>21, <1>22, <1>23, <1>24, <1>25, <1>26, <1>28, <1>29

\* The loop reads the whole line.
LEMMA LineRead ==
  ASSUME line \in Lines
  PROVE  ReadTo(Len(line), Arguments(line))
<1> DEFINE N == Len(line)
<1>1. N \in Nat /\ line \in Seq(Words)
  BY LineIs
<1> PICK a : Runs(a, line)
  BY <1>1, LoopRuns
<1>2. /\ a[0] = Begin /\ a[N] = Arguments(line)
      /\ \A i \in 1 .. N : a[i] = Turn(a[i - 1], line[i])
  BY DEF Runs
<1> HIDE DEF N
<1>3. ReadTo(0, a[0])
  BY <1>2, NothingRead
<1>4. ASSUME NEW i \in 0 .. N - 1, ReadTo(i, a[i])
      PROVE  ReadTo(i + 1, a[i + 1])
  <2>1. i + 1 \in 1 .. N /\ i + 1 - 1 = i /\ i \in 0 .. Len(line) - 1
    BY <1>1 DEF N
  <2> DEFINE s == a[i]
             w == line[i + 1]
  <2>2. a[i + 1] = Turn(s, w)
    <3>1. a[i + 1] = Turn(a[i + 1 - 1], line[i + 1])
      BY <1>2, <2>1
    <3> QED BY <2>1, <3>1
  <2>3. w \in Words
    BY <2>1, LineIs DEF N
  <2>4. ReadTo(i, s) /\ s \in Parser /\ s.going \in BOOLEAN /\ s.atTest \in BOOLEAN
    BY <1>4 DEF ReadTo, Parser
  <2> HIDE DEF s
  <2>9. /\ ~s.going => Turn(s, w) = s
        /\ s.going /\ s.atTest => Turn(s, w) = [s EXCEPT !.test = Append(@, w)]
        /\ s.going /\ ~s.atTest /\ s.awaits # Unset => Turn(s, w) = Value(s, w)
        /\ s.going /\ ~s.atTest /\ s.awaits = Unset => Turn(s, w) = Option(s, w)
    <3> HIDE DEF w
    <3> QED BY ONLY <2>4, TurnIs
  <2>5. CASE ~s.going
    <3>1. Turn(s, w) = s
      BY <2>5, <2>9
    <3> QED BY <2>2, <2>4, <2>5, <3>1 DEF ReadTo
  <2>6. CASE s.going /\ s.atTest
    <3> HIDE DEF w
    <3>1. Turn(s, w) = [s EXCEPT !.test = Append(@, w)]
      BY <2>6, <2>9, Zenon
    <3>2. ReadTo(i + 1, [s EXCEPT !.test = Append(@, w)])
      BY <2>1, <2>3, <2>4, <2>6, TestWord
    <3> QED BY <2>2, <3>1, <3>2
  <2>7. CASE s.going /\ ~s.atTest /\ s.awaits # Unset
    <3>1. Turn(s, w) = Value(s, w)
      BY <2>7, <2>9, Zenon
    <3>2. ReadTo(i + 1, Value(s, w))
      BY <2>1, <2>4, <2>7, ValueWord
    <3> QED BY <2>2, <3>1, <3>2
  <2>8. CASE s.going /\ ~s.atTest /\ s.awaits = Unset
    <3>1. Turn(s, w) = Option(s, w)
      BY <2>8, <2>9, Zenon
    <3>2. ReadTo(i + 1, Option(s, w))
      BY <2>1, <2>4, <2>8, OptionWord
    <3> QED BY <2>2, <3>1, <3>2
  <2> QED BY <2>5, <2>6, <2>7, <2>8
<1> DEFINE Unread == {i \in 0 .. N : ~ReadTo(i, a[i])}
<1>5. ASSUME Unread # {} PROVE FALSE
  <2>1. Unread \in SUBSET Nat
    BY <1>1
  <2>2. PICK k \in Unread : \A j \in Unread : k <= j
    <3> HIDE DEF Unread
    <3> QED BY <1>5, <2>1, Least
  <2>3. k \in 0 .. N /\ k # 0
    BY <1>3
  <2> DEFINE j == k - 1
  <2>4. j \in 0 .. N - 1 /\ j \in 0 .. N /\ ~(k <= j) /\ j + 1 = k
    BY <1>1, <2>3
  <2>5. ReadTo(j, a[j])
    BY <2>2, <2>4
  <2> HIDE DEF j
  <2>6. ReadTo(j + 1, a[j + 1])
    BY <1>4, <2>4, <2>5
  <2> QED BY <2>4, <2>6
<1>6. ReadTo(N, a[N])
  BY <1>1, <1>5
<1> QED BY <1>2, <1>6 DEF N

\* With a count given, the limit is that count, and the default otherwise.
LEMMA LimitIs ==
  ASSUME line \in Lines, NEW n, CountIs(Said("--max-mutants"), n)
  PROVE  n = Limit
<1> DEFINE given == Said("--max-mutants")
           last == CHOOSE i \in given : \A j \in given : j <= i
<1>1. Limit = IF given = {} THEN DefaultCount ELSE Numbers[line[1 + last]]
  BY DEF Limit
<1>2. given \subseteq Nat
  <2>1. 0 \in Nat
    OBVIOUS
  <2> QED BY <2>1, SetsGrow
<1> HIDE DEF given
<1>3. CASE given = {}
  BY <1>1, <1>3 DEF CountIs, given
<1>4. CASE given # {}
  <2>1. PICK k \in given : n = Numbers[line[k + 1]] /\ \A j \in given : j <= k
    BY <1>4 DEF CountIs, given
  <2>2. last \in given /\ \A j \in given : j <= last
    BY <2>1
  <2> HIDE DEF last
  <2>3. last = k /\ 1 + last = k + 1
    <3>1. last \in Nat /\ k \in Nat /\ last <= k /\ k <= last
      BY <1>2, <2>1, <2>2
    <3> QED BY <3>1
  <2> QED BY <1>1, <1>4, <2>1, <2>3 DEF last
<1> QED BY <1>3, <1>4

\* The loop and the test after it accept the lines that are well formed and say
\* what is to be done.
LEMMA Understood ==
  ASSUME line \in Lines
  PROVE  LET a == Arguments(line) IN
         /\ a.list \in BOOLEAN
         /\ IsValid(a) /\ a.list <=> AsksForList
         /\ IsValid(a) /\ ~a.list <=> AsksForRun
         /\ IsValid(a) => a.max = Limit
<1> DEFINE N == Len(line)
           a == Arguments(line)
<1>1. N \in Nat /\ Phrases \subseteq 1 .. N /\ Begins \subseteq 1 .. N /\ Phrases \subseteq Begins
  BY LineIs, BeginsAre DEF Phrases
<1>2. ReadTo(N, a)
  BY LineRead
<1> SUFFICES /\ a.list \in BOOLEAN
             /\ IsValid(a) /\ a.list <=> AsksForList
             /\ IsValid(a) /\ ~a.list <=> AsksForRun
             /\ IsValid(a) => a.max = Limit
    OBVIOUS
<1> HIDE DEF a
<1>3. a \in Parser /\ a.list \in BOOLEAN /\ a.going \in BOOLEAN
  BY <1>2 DEF ReadTo, Parser
<1>4. CASE ~a.going
  <2>1. ~a.valid /\ ~WellFormed
    BY <1>2, <1>4 DEF ReadTo
  <2> QED BY <1>3, <2>1 DEF IsValid, AsksForList, AsksForRun
<1>5. CASE a.going /\ a.awaits # Unset
  <2>1. ~Separated(N) /\ Opens(N)
    BY <1>2, <1>5 DEF ReadTo, Positioned
  <2>2. N \in Begins /\ line[N] \in Valued /\ N <= N
    BY <1>1, <2>1 DEF Opens
  <2>3. N \in Phrases
    BY <1>1, <2>1, <2>2, PhrasesAre
  <2>4. ~WellFormed
    BY <2>2, <2>3, Refused
  <2> QED BY <1>3, <1>5, <2>4 DEF IsValid, AsksForList, AsksForRun
<1>6. CASE a.going /\ a.awaits = Unset
  <2>1. Positioned(N, a) /\ AcceptedTo(N) /\ Tallied(N, a) /\ a.valid
    BY <1>2, <1>6 DEF ReadTo, Positioned
  <2>2. N \in Phrases => line[N] \notin Valued
    <3> SUFFICES ASSUME N \in Phrases, line[N] \in Valued PROVE FALSE
        OBVIOUS
    <3>1. ~Separated(N)
      <4>1. ~(N < N)
        BY <1>1
      <4> QED BY <1>1, <4>1, PhrasesAre
    <3>2. Opens(N)
      BY <1>1 DEF Opens
    <3>3. a.awaits = line[N]
      BY <2>1, <3>1, <3>2 DEF Positioned
    <3>4. N \in 1 .. Len(line)
      BY <1>1
    <3> QED BY <1>6, <3>3, <3>4, LineIs
  <2>3. \A k \in Phrases : k \in Nat /\ k <= N /\ k < N + 1 /\ (k < N \/ k = N)
    BY <1>1
  <2>4. ASSUME NEW o
        PROVE  /\ Given(o, N + 1) = Said(o)
               /\ o \in Valued => Given(o, N) = Said(o)
    <3>1. \A k \in Said(o) : k \in Phrases /\ line[k] = o
      BY DEF Said
    <3>2. Given(o, N + 1) = Said(o)
      BY <2>3, <3>1 DEF Given
    <3>3. o \in Valued => N \notin Said(o)
      BY <2>2, <3>1
    <3> QED BY <1>1, <3>2, <3>3, SetsGrow
  <2>5. Named(N) = Projects
    <3>1. \A k \in Projects : k \in Phrases
      BY DEF Projects
    <3> QED BY <2>3, <3>1 DEF Named
  <2>6. /\ "--compile-db" \in Valued /\ "--operator" \in Valued /\ "--max-mutants" \in Valued
    BY DEF Valued
  <2>7. /\ a.database # Unset <=> Said("--compile-db") # {}
        /\ Cardinality(Said("--operator")) <= MaxOperators
        /\ a.list <=> Said("--list") # {}
        /\ CountIs(Said("--max-mutants"), a.max)
    BY <2>1, <2>4, <2>6 DEF Tallied
  <2>8. a.project # Unset <=> Cardinality(Projects) = 1
    <3>1. a.project = Unset => Projects = {}
      BY <2>1, <2>5 DEF Tallied
    <3>2. a.project # Unset => \E k : Projects = {k}
      BY <2>1, <2>5 DEF Tallied
    <3>3. Cardinality({}) = 0 /\ \A k : Cardinality({k}) = 1
      BY FS_EmptySet, FS_Singleton
    <3>4. 0 # 1
      OBVIOUS
    <3> HIDE DEF Projects
    <3> QED BY <3>1, <3>2, <3>3, <3>4
  <2>9. \A i \in Phrases :
          /\ line[i] \notin Help \cup BadFormats \cup Dashed
          /\ line[i] \in Valued => i < Len(line) /\ AcceptedValue(line[i], line[i + 1])
    <3> SUFFICES ASSUME NEW i \in Phrases
                 PROVE  /\ line[i] \notin Help \cup BadFormats \cup Dashed
                        /\ line[i] \in Valued => i < N /\ AcceptedValue(line[i], line[i + 1])
        OBVIOUS
    <3>1. i <= N /\ (i < N \/ i = N)
      BY <2>3
    <3>2. line[i] \in Valued => i < N
      BY <2>2, <3>1
    <3> QED BY <2>1, <3>1, <3>2 DEF AcceptedTo
  <2>10. WellFormed <=> a.project # Unset /\ a.database # Unset
    BY <2>7, <2>8, <2>9 DEF WellFormed
  <2>11. HasCommand <=> a.test # <<>>
    BY <2>1 DEF HasCommand, Positioned
  <2>12. a.max = Limit
    BY <2>7, LimitIs
  <2> QED BY <1>3, <1>6, <2>1, <2>7, <2>10, <2>11, <2>12 DEF IsValid, AsksForList, AsksForRun
<1> QED BY <1>3, <1>4, <1>5, <1>6

LEMMA RequestIs ==
  ASSUME line \in Lines
  PROVE  /\ Request(line) = "run" <=> AsksForRun
         /\ Request(line) = "list" <=> AsksForList
         /\ Request(line) = "help" => Len(line) = 1 /\ line[1] \in Help
         /\ Request(line) \in {"run", "list", "help", "misuse"}
         /\ AsksForRun => Arguments(line).max = Limit
<1> DEFINE a == Arguments(line)
           alone == Len(line) = 1 /\ line[1] \in Help
<1>1. /\ a.list \in BOOLEAN
      /\ IsValid(a) /\ a.list <=> AsksForList
      /\ IsValid(a) /\ ~a.list <=> AsksForRun
      /\ IsValid(a) => a.max = Limit
  BY Understood
<1>2. \/ IsValid(a) /\ Request(line) = IF a.list THEN "list" ELSE "run"
      \/ ~IsValid(a) /\ alone /\ Request(line) = "help"
      \/ Request(line) = "misuse" /\ ~IsValid(a)
  <2>1. Request(line) = CASE IsValid(a) -> IF a.list THEN "list" ELSE "run"
                          [] ~IsValid(a) /\ alone -> "help"
                          [] OTHER -> "misuse"
    BY Zenon DEF Request
  <2> HIDE DEF a, alone
  <2> QED BY <2>1, Zenon
<1> HIDE DEF a
<1>3. IsValid(a) => Request(line) \in {"list", "run"}
  BY <1>1, <1>2
<1> QED BY <1>1, <1>2 DEF a

-----------------------------------------------------------------------------
(* The campaign is the one the line asks for.                                *)

\* What main has read, and where it ends when nothing fails.
Obedient ==
  /\ line \in Lines
  /\ pc # "parse" => request = Request(line) /\ capacity = Arguments(line).max
  /\ baseline # "none" => request = "run"
  /\ request = "run" /\ pc \in Closing /\ ~err => baseline # "none" \/ sites = 0
  /\ request = "list" /\ pc \in Closing /\ ~err => exit = 0

LEMMA InitObedient == TestInit => Obedient
BY DEF TestInit, Init, Obedient, Closing

\* A step that changes nothing of what was read and does not end the campaign.
LEMMA StillObedient ==
  ASSUME Obedient, pc # "parse", UNCHANGED <<request, capacity, line, baseline>>,
         pc' # "parse", pc' \in Closing => err'
  PROVE  Obedient'
BY DEF Obedient, Closing

LEMMA StepObedient ==
  ASSUME SInv, Obedient, [TestNext]_testVars
  PROVE  Obedient'
<1> USE DEF arguments, scan, candidate, history
<1>1. CASE ParseArguments /\ TestNext
  <2>1. /\ pc = "parse" /\ request' = Request(line) /\ capacity' = Arguments(line).max
        /\ line' = line
    BY <1>1 DEF ParseArguments, TestNext, ReadsLine
  <2>2. baseline' = "none"
    BY <1>1, <2>1 DEF ParseArguments, SInv, Opened, Opening
  <2>3. request' \in {"run", "list"} /\ pc' \in Closing => err'
    BY <1>1 DEF ParseArguments, Closing
  <2> QED BY <2>1, <2>2, <2>3 DEF Obedient
<1>2. CASE (Observe \/ EndScan) /\ TestNext
  <2>1. /\ pc = "scan" /\ pc' \in {"scan", "found", "report error"}
        /\ pc' = "report error" => err'
        /\ UNCHANGED <<request, capacity, line, baseline>>
    BY <1>2 DEF Observe, EndScan, TestNext
  <2> QED BY <2>1, StillObedient DEF Closing
<1>3. CASE ListCandidates /\ TestNext
  <2>1. /\ pc = "found" /\ request = "list" /\ pc' = "report error"
        /\ ~err' => exit' = 0
        /\ UNCHANGED <<request, capacity, line, baseline>>
    BY <1>3 DEF ListCandidates, TestNext
  <2> QED BY <2>1 DEF Obedient
<1>4. CASE RefuseVacuous /\ TestNext
  <2>1. /\ pc = "found" /\ request = "run" /\ pc' \in {"report error", "baseline"}
        /\ UNCHANGED <<request, capacity, line, baseline, sites>>
    BY <1>4 DEF RefuseVacuous, TestNext
  <2>2. pc' = "report error" /\ ~err' => sites = 0
    <3> SUFFICES ASSUME pc' = "report error", ~err' PROVE sites = 0
        OBVIOUS
    <3>1. count = 0 /\ ~err
      BY <1>4 DEF RefuseVacuous
    <3>2. seen = sites /\ count = IF seen < capacity THEN seen ELSE capacity
      BY <2>1, <3>1 DEF SInv, IInv, Scanned
    <3>3. capacity \in 1 .. MaxMutants /\ MaxMutants \in Nat
      BY NumbersAreNatural, LimitsOK DEF SInv
    <3>4. capacity # 0
      BY ONLY <3>3
    <3> QED BY <3>1, <3>2, <3>4
  <2> QED BY <2>1, <2>2 DEF Obedient, Closing
<1>5. CASE RunBaseline /\ TestNext
  <2>1. /\ pc = "baseline" /\ pc' # "parse" /\ baseline' # "none"
        /\ UNCHANGED <<request, capacity, line>>
    <3>1. \E o : baseline' = Fate(o)
      BY <1>5 DEF RunBaseline
    <3>2. baseline' \in Fates \ {"none"}
      BY <3>1, FateIsAFate
    <3> QED BY <1>5, <3>2 DEF RunBaseline, TestNext
  <2>2. request = "run"
    BY <2>1 DEF SInv, IInv, Founded
  <2> QED BY <2>1, <2>2 DEF Obedient
<1>6. CASE /\ MakeTree \/ CopyTree \/ ApplyCandidate \/ BuildCompileCommand \/ Compile
              \/ RewriteCommand \/ RunTest \/ RemoveTree \/ NextCandidate \/ ReportResults \/ Judge
           /\ TestNext
  <2>1. pc \in Working
    BY <1>6 DEF MakeTree, CopyTree, ApplyCandidate, BuildCompileCommand, Compile, RewriteCommand,
                RunTest, RemoveTree, NextCandidate, ReportResults, Judge, Working, InCandidate,
                InTree
  <2>2. pc # "parse" /\ request = "run" /\ baseline = "passed"
    BY <2>1 DEF SInv, IInv, Founded, Working, InCandidate, InTree
  <2>3. /\ pc' # "parse" /\ UNCHANGED <<request, capacity, baseline>>
    BY <1>6 DEF MakeTree, CopyTree, ApplyCandidate, BuildCompileCommand, Compile, RewriteCommand,
                RunTest, RemoveTree, NextCandidate, ReportResults, Judge
  <2>4. line' = line
    BY <1>6 DEF TestNext
  <2> QED BY <2>2, <2>3, <2>4 DEF Obedient
<1>7. CASE ReportError /\ TestNext
  BY <1>7 DEF ReportError, TestNext, Obedient, Closing
<1>8. CASE UNCHANGED testVars \/ (Finished /\ TestNext)
  <2>1. UNCHANGED <<vars, line>>
    BY <1>8 DEF testVars, Finished, TestNext
  <2> QED BY <2>1 DEF vars, Obedient, Closing
<1>9. TestNext => Next
  BY DEF TestNext
<1> QED BY <1>1, <1>2, <1>3, <1>4, <1>5, <1>6, <1>7, <1>8, <1>9 DEF Next, Step

\* main does what the command line says, read without the loop: the candidates
\* and the baseline only for a line that asks for a run outside the words of
\* the test command, on as many candidates as its last count allows, and no
\* line that is well formed is refused without an error.
THEOREM Obedience == TestSpec => []CommandLineObeyed
<1>1. TestSpec => []Obedient
  <2>1. Obedient /\ SInv /\ [TestNext]_testVars => Obedient'
    BY StepObedient
  <2> QED BY <2>1, InitObedient, Conducts, SimulationInvariance, PTL DEF TestSpec
<1>2. SInv /\ Obedient => CommandLineObeyed
  <2> SUFFICES ASSUME SInv, Obedient PROVE CommandLineObeyed
      OBVIOUS
  <2>1. /\ Request(line) = "run" <=> AsksForRun
        /\ Request(line) = "list" <=> AsksForList
        /\ Request(line) = "help" => Len(line) = 1 /\ line[1] \in Help
        /\ Request(line) \in {"run", "list", "help", "misuse"}
        /\ AsksForRun => Arguments(line).max = Limit
    BY RequestIs DEF Obedient
  <2>2. ASSUME baseline # "none" PROVE AsksForRun /\ count <= Limit
    <3>1. pc # "parse" /\ request = "run"
      BY <2>2 DEF SInv, Opened, Opening, Obedient
    <3>2. AsksForRun /\ capacity = Limit
      BY <2>1, <3>1 DEF Obedient
    <3>3. count \in Nat /\ seen \in Nat /\ capacity \in Nat
      BY NumbersAreNatural DEF SInv
    <3>4. count = IF seen < capacity THEN seen ELSE capacity
      BY Zenon DEF SInv, IInv, Scanned
    <3> QED BY <3>2, <3>3, <3>4
  <2>3. ASSUME pc = "done", ~err, AsksForRun, sites > 0 PROVE baseline # "none"
    <3>1. ~(sites = 0)
      BY <2>3
    <3> QED BY <2>1, <2>3, <3>1 DEF Obedient, Closing
  <2>4. ASSUME pc = "done", exit = 0, tests = <<>>
        PROVE  AsksForList \/ (Len(line) = 1 /\ line[1] \in Help)
    <3>1. request = Request(line) /\ request # "misuse"
      BY <2>4 DEF Obedient, SInv, Answered
    <3>2. request # "run"
      <4> SUFFICES ASSUME request = "run" PROVE FALSE
          OBVIOUS
      <4>1. Judged
        BY <2>4 DEF SInv, IInv, Decided, Closing
      <4>2. count > 0 /\ Len(tests) = count /\ Len(tests) = 0
        BY <2>4, <4>1 DEF Judged
      <4> QED BY <4>2
    <3> QED BY <2>1, <3>1, <3>2
  <2>5. ASSUME pc = "done", ~err, AsksForList PROVE exit = 0
    BY <2>1, <2>5 DEF Obedient, Closing
  <2> QED BY <2>2, <2>3, <2>4, <2>5 DEF CommandLineObeyed
<1> QED BY <1>1, <1>2, Conducts, SimulationInvariance, PTL
=============================================================================
