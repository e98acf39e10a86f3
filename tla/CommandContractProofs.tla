------------------------ MODULE CommandContractProofs ------------------------
(***************************************************************************)
(* The proofs about CommandContract.  The arithmetic comes first: the sum    *)
(* of sizes that wraps, and the two timespecs, say what unbounded arithmetic *)
(* says.  The rest is an inductive invariant that follows the one or two     *)
(* runs of a mode to its judgement.                                          *)
(***************************************************************************)
EXTENDS CommandContract, SequenceTheorems, TLAPS

-----------------------------------------------------------------------------
(* Division and remainder.                                                   *)

LEMMA Division ==
  ASSUME NEW t \in Nat, NEW n \in Nat, n > 0
  PROVE  /\ t \div n \in Nat /\ t % n \in 0 .. n - 1
         /\ t = n * (t \div n) + (t % n)
<1>1. t \div n \in Int /\ t % n \in 0 .. n - 1
  OBVIOUS
<1>2. t = n * (t \div n) + (t % n)
  OBVIOUS
<1>3. ~ (t \div n <= -1)
  <2> DEFINE q == t \div n
  <2> SUFFICES ASSUME q <= -1 PROVE FALSE
    OBVIOUS
  <2>1. q \in Int /\ t = n * q + (t % n)
    BY <1>1, <1>2
  <2> HIDE DEF q
  <2>2. n * q <= n * (-1)
    BY <2>1
  <2> QED BY <1>1, <2>1, <2>2
<1> QED BY <1>1, <1>2, <1>3

LEMMA NoWrap ==
  ASSUME NEW t \in Nat, NEW n \in Nat, t < n
  PROVE  t % n = t
OBVIOUS

LEMMA Wrap ==
  ASSUME NEW t \in Nat, NEW n \in Nat, n <= t, t < n + n
  PROVE  t % n = t - n
OBVIOUS

\* Numbers written with a digit below n compare by their two parts.
LEMMA InParts ==
  ASSUME NEW n \in Nat, NEW p \in Int, NEW q \in Int, NEW r \in 0 .. n - 1, NEW s \in 0 .. n - 1
  PROVE  n * p + r > n * q + s <=> (p > q \/ (p = q /\ r > s))
<1>1. CASE p > q
  <2>1. n * p >= n * (q + 1)
    BY <1>1
  <2>2. n * (q + 1) = n * q + n
    OBVIOUS
  <2> QED BY <1>1, <2>1, <2>2
<1>2. CASE p < q
  <2>1. n * q >= n * (p + 1)
    BY <1>2
  <2>2. n * (p + 1) = n * p + n
    OBVIOUS
  <2> QED BY <1>2, <2>1, <2>2
<1> QED BY <1>1, <1>2

\* A positive factor can be left out of a comparison.
LEMMA Scaled ==
  ASSUME NEW m \in Nat, m > 0, NEW p \in Int, NEW q \in Int
  PROVE  p * m > q * m <=> p > q
<1>1. CASE p > q
  <2>1. p * m >= (q + 1) * m
    BY <1>1
  <2>2. (q + 1) * m = q * m + m
    OBVIOUS
  <2> QED BY <1>1, <2>1, <2>2
<1>2. CASE p <= q
  <2>1. p * m <= q * m
    BY <1>2
  <2> QED BY <1>2, <2>1
<1> QED BY <1>1, <1>2

-----------------------------------------------------------------------------
(* The two limits.                                                           *)

\* The sum of sizes wraps at most once, and then it is below the first of them.
LEMMA BudgetIsExact ==
  ASSUME NEW a \in 0 .. SizeModulus - 2, NEW b \in 0 .. SizeModulus - 2,
         NEW v \in Nat, v % SizeModulus = v
  PROVE  ((a + b) % SizeModulus < a \/ (a + b) % SizeModulus > v) <=> a + b > v
<1> USE ConstantsOK
<1>1. v < SizeModulus
  <2>1. v % SizeModulus \in 0 .. SizeModulus - 1
    BY Division
  <2> QED BY <2>1
<1>2. CASE a + b < SizeModulus
  BY <1>2, NoWrap
<1>3. CASE a + b >= SizeModulus
  <2>1. (a + b) % SizeModulus = a + b - SizeModulus
    <3> DEFINE t == a + b
    <3>1. /\ t \in Nat /\ SizeModulus \in Nat
          /\ SizeModulus <= t /\ t < SizeModulus + SizeModulus
      BY <1>3
    <3> HIDE DEF t
    <3>2. t % SizeModulus = t - SizeModulus
      BY <3>1, Wrap
    <3> QED BY <3>2 DEF t
  <2> QED BY <1>1, <1>3, <2>1
<1> QED BY <1>2, <1>3

LEMMA TimespecType ==
  ASSUME NEW t \in Nat
  PROVE  /\ Timespec(t) \in [sec : Nat, nsec : 0 .. Nanos - 1]
         /\ t = Nanos * Timespec(t).sec + Timespec(t).nsec
BY ConstantsOK, Division DEF Timespec

\* The limit in nanoseconds, in the two parts it is compared by.
LEMMA LimitInParts ==
  ASSUME NEW v \in Nat
  PROVE  /\ v \div Millis \in Nat
         /\ (v % Millis) * (Nanos \div Millis) \in 0 .. Nanos - 1
         /\ v * (Nanos \div Millis)
              = Nanos * (v \div Millis) + (v % Millis) * (Nanos \div Millis)
         /\ \A d \in Nat : d * Millis > v * Nanos <=> d > v * (Nanos \div Millis)
<1> DEFINE k == Nanos \div Millis
           a == v \div Millis
           b == v % Millis
<1>1. /\ Millis \in Nat /\ Millis > 0 /\ Nanos \in Nat /\ Nanos > 0
      /\ k \in Nat /\ Nanos = Millis * k
  <2>1. Nanos % Millis = 0 /\ Nanos \in Nat /\ Nanos > 0 /\ Millis \in Nat /\ Millis > 0
    BY ConstantsOK
  <2> QED BY <2>1, Division
<1>2. a \in Nat /\ b \in 0 .. Millis - 1 /\ v = Millis * a + b
  BY <1>1, Division
<1> HIDE DEF k, a, b
<1>3. b * k \in Nat
  BY <1>1, <1>2
<1>4. b * k < Nanos
  <2>1. k > 0
    BY <1>1
  <2>2. Millis > b
    BY <1>1, <1>2
  <2>3. Millis * k > b * k
    BY <1>1, <1>2, <2>1, <2>2, Scaled
  <2> QED BY <1>1, <2>3
<1>5. v * k = Nanos * a + b * k
  <2>1. v * k = (Millis * a) * k + b * k
    BY <1>1, <1>2
  <2>2. (Millis * a) * k = (Millis * k) * a
    BY <1>1, <1>2
  <2> QED BY <1>1, <2>1, <2>2
<1>6. ASSUME NEW d \in Nat
      PROVE  d * Millis > v * Nanos <=> d > v * k
  <2>1. v * Nanos = (v * k) * Millis
    BY <1>1
  <2>2. v * k \in Int
    BY <1>1
  <2> QED BY <1>1, <2>1, <2>2, Scaled
<1> QED BY <1>1, <1>2, <1>3, <1>4, <1>5, <1>6 DEF k, a, b

\* The comparison of the timespecs is that of the time between them.
LEMMA LimitIsExact ==
  ASSUME NEW s \in Nat, NEW d \in Nat, value \in Nat,
         started = Timespec(s), finished = Timespec(s + d)
  PROVE  Exceeded <=> d * Millis > value * Nanos
<1> DEFINE borrow  == finished.nsec < started.nsec
           seconds == finished.sec - started.sec - (IF borrow THEN 1 ELSE 0)
           nanos   == finished.nsec - started.nsec + (IF borrow THEN Nanos ELSE 0)
           most    == value \div Millis
           rest    == MaximumNanos
<1>1. /\ Nanos \in Nat /\ Nanos > 0
      /\ started.sec \in Nat /\ started.nsec \in 0 .. Nanos - 1
      /\ finished.sec \in Nat /\ finished.nsec \in 0 .. Nanos - 1
      /\ s = Nanos * started.sec + started.nsec
      /\ s + d = Nanos * finished.sec + finished.nsec
  <2>1. s + d \in Nat /\ Nanos \in Nat /\ Nanos > 0
    BY ConstantsOK
  <2>2. /\ started \in [sec : Nat, nsec : 0 .. Nanos - 1]
        /\ finished \in [sec : Nat, nsec : 0 .. Nanos - 1]
        /\ s = Nanos * started.sec + started.nsec
        /\ s + d = Nanos * finished.sec + finished.nsec
    BY <2>1, TimespecType, Zenon
  <2> QED BY <2>1, <2>2
<1>2. seconds \in Int /\ nanos \in 0 .. Nanos - 1
  BY <1>1
<1>3. d = Nanos * seconds + nanos
  <2>1. CASE borrow
    <3>1. seconds = finished.sec - started.sec - 1
          /\ nanos = finished.nsec - started.nsec + Nanos
      BY <2>1
    <3>2. Nanos * (finished.sec - started.sec - 1)
            = Nanos * finished.sec - Nanos * started.sec - Nanos
      BY <1>1
    <3> QED BY <1>1, <3>1, <3>2
  <2>2. CASE ~borrow
    <3>1. seconds = finished.sec - started.sec /\ nanos = finished.nsec - started.nsec
      BY <1>1, <2>2
    <3>2. Nanos * (finished.sec - started.sec) = Nanos * finished.sec - Nanos * started.sec
      BY <1>1
    <3> QED BY <1>1, <3>1, <3>2
  <2> QED BY <2>1, <2>2
<1>4. /\ most \in Nat /\ rest \in 0 .. Nanos - 1
      /\ d * Millis > value * Nanos <=> d > Nanos * most + rest
  BY LimitInParts DEF MaximumNanos
<1>5. Exceeded <=> (seconds < 0 \/ seconds > most \/ (seconds = most /\ nanos > rest))
  BY DEF Exceeded
<1> HIDE DEF borrow, seconds, nanos, most, rest
<1>6. d > Nanos * most + rest <=> (seconds > most \/ (seconds = most /\ nanos > rest))
  <2>1. Nanos * seconds + nanos > Nanos * most + rest
          <=> (seconds > most \/ (seconds = most /\ nanos > rest))
    <3>1. Nanos \in Nat /\ most \in Int
      BY <1>1, <1>4
    <3> QED BY <1>2, <1>4, <3>1, InParts, Zenon
  <2> QED BY <1>3, <2>1, Zenon
<1>7. ~ (seconds < 0)
  <2> SUFFICES ASSUME seconds < 0 PROVE FALSE
    OBVIOUS
  <2>1. Nanos * seconds <= Nanos * (-1)
    BY <1>1, <1>2
  <2> QED BY <1>1, <1>2, <1>3, <2>1
<1> QED BY <1>4, <1>5, <1>6, <1>7

-----------------------------------------------------------------------------
(* The inductive invariant.                                                  *)

Before == {"parse", "prefix"}
AtWork == {"run", "read", "stop clock", "manifest", "again", "judge"}

\* What a manifest can say.
Texts == {Unwritten, "old"} \cup UNION {{b.manifest : b \in Behaviours[m]} : m \in Modes}

Typed ==
  /\ mode \in Modes /\ value \in Values[mode] \cup {Missing}
  /\ pc \in Before \cup AtWork \cup {"clean up", "done", "hung"}
  /\ err \in BOOLEAN /\ status \in {0, 1, 2, Running}
  /\ run \in {1, 2} /\ clock \in Nat
  /\ started \in [sec : Nat, nsec : 0 .. Nanos - 1]
  /\ finished \in [sec : Nat, nsec : 0 .. Nanos - 1]
  /\ runs \in Seq(Behaviour) /\ Len(runs) <= run
  /\ manifest \in Texts /\ effects \in Seq(Texts) /\ Len(effects) <= run
  /\ DOMAIN captures = {1, 2}

\* The step is one that the mode has, at the run the mode has it in.
InMode ==
  /\ pc \in {"prefix"} \cup AtWork => (value = Missing) = (mode = "determinism")
  /\ run = 2 => mode \in Twice
  /\ pc \in Before => run = 1
  /\ pc = "stop clock" => mode = "time-limit"
  /\ pc = "manifest" => mode = "side-effect-determinism"
  /\ pc = "again" => run = 1 /\ mode \in Twice
  /\ pc = "judge" => run = (IF mode \in Twice THEN 2 ELSE 1)

\* The runs so far, and how many of them have been read.
Captured ==
  /\ pc \in Before => Len(runs) = 0
  /\ pc = "run" => Len(runs) = run - 1
  /\ pc \in AtWork \ {"run"} => Len(runs) = run
  /\ pc \in {"run", "read"} /\ run = 2 => captures[1] = Seen(runs[1])
  /\ pc \in {"stop clock", "manifest", "again", "judge"} =>
       \A r \in DOMAIN runs : captures[r] = Seen(runs[r])

\* The manifests: what the second run leaves is its own or that of the first.
Manifests ==
  /\ pc \in Before \cup AtWork /\ mode # "side-effect-determinism" => Len(effects) = 0
  /\ mode = "side-effect-determinism" =>
       /\ pc \in Before => Len(effects) = 0
       /\ pc \in {"run", "read", "manifest"} => Len(effects) = run - 1
       /\ pc \in {"again", "judge"} => Len(effects) = run
       /\ pc \in {"again", "run"} /\ Len(effects) = 1 => manifest = effects[1]
       /\ pc \in {"read", "manifest"} /\ run = 2 =>
            manifest = (IF runs[2].manifest = Unwritten THEN effects[1] ELSE runs[2].manifest)
       /\ pc = "judge" =>
            effects[2] = (IF runs[2].manifest = Unwritten THEN effects[1] ELSE runs[2].manifest)

\* The timespecs of a timed run are at least as far apart as the run is long.
Timed ==
  mode = "time-limit" =>
    /\ pc = "run" => started = Timespec(clock)
    /\ pc \in {"read", "stop clock"} =>
         \E s \in 0 .. clock : started = Timespec(s) /\ clock = s + runs[1].lasts
    /\ pc = "judge" =>
         \E s \in 0 .. clock : /\ started = Timespec(s) /\ finished = Timespec(clock)
                              /\ s + runs[1].lasts <= clock

\* What a verdict stands on.
Measured ==
  /\ (value = Missing) = (mode = "determinism")
  /\ Len(runs) = (IF mode \in Twice THEN 2 ELSE 1)
  /\ \A r \in DOMAIN runs : captures[r] = Seen(runs[r])
  /\ mode = "side-effect-determinism" =>
       effects[2] = (IF runs[2].manifest = Unwritten THEN effects[1] ELSE runs[2].manifest)
  /\ mode = "time-limit" =>
       \E s \in 0 .. clock : /\ started = Timespec(s) /\ finished = Timespec(clock)
                            /\ s + runs[1].lasts <= clock

Judged == Measured /\ Representable /\ status = (IF Broken THEN 1 ELSE 0)

Answered ==
  /\ pc \in Before \cup AtWork => status = Running
  /\ pc = "clean up" /\ status \in {0, 1} => Judged
  /\ pc = "done" => status = 2 \/ Judged

IInv == Typed /\ InMode /\ Captured /\ Manifests /\ Timed /\ Answered

-----------------------------------------------------------------------------
(* Every step keeps the invariant.                                           *)

LEMMA BehaviourType ==
  ASSUME NEW b \in Behaviour
  PROVE  /\ b.out.size \in 0 .. SizeModulus - 2 /\ b.error.size \in 0 .. SizeModulus - 2
         /\ b.lasts \in Nat
BY DEF Behaviour, Stream

LEMMA Grown ==
  ASSUME NEW S, NEW s \in Seq(S), NEW e \in S
  PROVE  /\ Append(s, e) \in Seq(S) /\ Len(Append(s, e)) = Len(s) + 1
         /\ DOMAIN Append(s, e) = 1 .. Len(s) + 1
         /\ \A i \in 1 .. Len(s) : Append(s, e)[i] = s[i]
         /\ Append(s, e)[Len(s) + 1] = e
OBVIOUS

LEMMA Lengths ==
  ASSUME IInv
  PROVE  /\ Len(runs) \in Nat /\ DOMAIN runs = 1 .. Len(runs)
         /\ Len(effects) \in Nat /\ run \in Nat
<1>1. runs \in Seq(Behaviour) /\ effects \in Seq(Texts) /\ run \in {1, 2}
  BY DEF IInv, Typed
<1>2. run \in Nat
  BY <1>1
<1> QED BY <1>1, <1>2, LenProperties, Zenon

LEMMA InitEstablishes == Init => IInv
<1> SUFFICES ASSUME Init PROVE IInv
    OBVIOUS
<1> USE DEF Init
<1>1. Typed
  <2>1. /\ mode \in Modes /\ value \in Values[mode] \cup {Missing}
        /\ pc \in Before /\ err \in BOOLEAN /\ status \in {0, 1, 2, Running}
    BY DEF Before
  <2>2. run \in {1, 2} /\ DOMAIN captures = {1, 2}
    BY 1 .. 2 = {1, 2}
  <2>3. clock \in Nat
    BY ConstantsOK
  <2>4. /\ started \in [sec : Nat, nsec : 0 .. Nanos - 1]
        /\ finished \in [sec : Nat, nsec : 0 .. Nanos - 1]
    BY TimespecType
  <2>5. /\ runs \in Seq(Behaviour) /\ Len(runs) <= run
        /\ effects \in Seq(Texts) /\ Len(effects) <= run
    OBVIOUS
  <2>6. manifest \in Texts
    BY DEF Texts
  <2> QED BY <2>1, <2>2, <2>3, <2>4, <2>5, <2>6 DEF Typed
<1>2. InMode
  BY DEF InMode, AtWork, Before
<1>3. Len(runs) = 0 /\ Len(effects) = 0
  OBVIOUS
<1>4. Captured /\ Manifests
  BY <1>3 DEF Captured, Manifests, AtWork, Before
<1>5. Timed
  BY DEF Timed
<1>6. Answered
  BY DEF Answered, Before, AtWork
<1> QED BY <1>1, <1>2, <1>4, <1>5, <1>6 DEF IInv

LEMMA NotYet == Running # 0 /\ Running # 1 /\ Running # 2
BY DEF Running

\* A run that is given up owes nothing.
LEMMA GivingUp ==
  ASSUME IInv, Typed', mode' = mode, run' = run, pc' \in {"clean up", "hung"}, status' = Running
  PROVE  IInv'
<1>1. InMode'
  BY DEF IInv, InMode, AtWork, Before
<1>2. Captured' /\ Manifests' /\ Timed'
  BY DEF Captured, Manifests, Timed, AtWork, Before
<1>3. Answered'
  <2>1. ~ (status' \in {0, 1})
    BY NotYet
  <2>2. pc' \notin Before \cup AtWork /\ pc' # "done"
    BY DEF Before, AtWork
  <2> QED BY <2>1, <2>2 DEF Answered
<1> QED BY <1>1, <1>2, <1>3 DEF IInv

LEMMA ParsePreserves ==
  ASSUME IInv, ParseArguments
  PROVE  IInv'
<1>1. /\ pc = "parse" /\ status = Running
      /\ UNCHANGED <<request, status, run, times, captures, manifest, effects, disk, runs>>
  BY DEF ParseArguments, IInv, Answered, Before
<1>2. CASE (value = Missing) = (mode = "determinism") /\ pc' = "prefix" /\ UNCHANGED err
  <2>1. Typed'
    BY <1>1, <1>2 DEF IInv, Typed, request, times, Before
  <2>2. InMode'
    BY <1>1, <1>2 DEF IInv, InMode, request, AtWork, Before
  <2>3. Captured' /\ Manifests' /\ Timed'
    BY <1>1, <1>2 DEF IInv, Captured, Manifests, Timed, request, times, AtWork, Before
  <2>4. Answered'
    BY <1>1, <1>2 DEF Answered, AtWork, Before
  <2> QED BY <2>1, <2>2, <2>3, <2>4 DEF IInv
<1>3. CASE err' \in BOOLEAN /\ pc' = "clean up"
  <2>1. Typed'
    BY <1>1, <1>3 DEF IInv, Typed, request, times
  <2> QED BY <1>1, <1>3, <2>1, GivingUp DEF request
<1> QED BY <1>2, <1>3 DEF ParseArguments

LEMMA MakePrefixPreserves ==
  ASSUME IInv, MakePrefix
  PROVE  IInv'
<1>1. /\ pc = "prefix" /\ status = Running
      /\ UNCHANGED <<request, status, run, clock, finished, captures, manifest, effects,
                     disk, runs>>
  BY DEF MakePrefix, IInv, Answered, Before
<1>2. CASE /\ started' = (IF mode = "time-limit" THEN Timespec(clock) ELSE started)
           /\ pc' = "run" /\ UNCHANGED err
  <2>1. run = 1 /\ Len(runs) = 0 /\ Len(effects) = 0
    BY <1>1 DEF IInv, InMode, Captured, Manifests, Before
  <2>2. started' \in [sec : Nat, nsec : 0 .. Nanos - 1]
    <3>1. clock \in Nat /\ started \in [sec : Nat, nsec : 0 .. Nanos - 1]
      BY DEF IInv, Typed
    <3>2. Timespec(clock) \in [sec : Nat, nsec : 0 .. Nanos - 1]
      BY <3>1, TimespecType
    <3> QED BY <1>2, <3>1, <3>2
  <2>3. Typed'
    BY <1>1, <1>2, <2>2 DEF IInv, Typed, request, AtWork
  <2>4. InMode'
    BY <1>1, <1>2, <2>1 DEF IInv, InMode, request, AtWork, Before
  <2>5. Captured' /\ Manifests' /\ Timed'
    BY <1>1, <1>2, <2>1 DEF Captured, Manifests, Timed, request, AtWork, Before
  <2>6. Answered'
    BY <1>1, <1>2 DEF Answered, AtWork, Before
  <2> QED BY <2>3, <2>4, <2>5, <2>6 DEF IInv
<1>3. CASE err' \in BOOLEAN /\ pc' = "clean up" /\ UNCHANGED started
  <2>1. Typed'
    BY <1>1, <1>3 DEF IInv, Typed, request
  <2> QED BY <1>1, <1>3, <2>1, GivingUp DEF request
<1> QED BY <1>2, <1>3 DEF MakePrefix

\* The run is kept, and the manifest is the command's if it wrote one.
LEMMA RunCommandPreserves ==
  ASSUME IInv, RunCommand
  PROVE  IInv'
<1>1. PICK b \in Behaviours[mode] :
        /\ runs' = Append(runs, b)
        /\ manifest' = (IF b.manifest = Unwritten THEN manifest ELSE b.manifest)
        /\ clock' = clock + b.lasts
        /\ err' \in BOOLEAN
  BY DEF RunCommand, IInv, Typed
<1>2. /\ pc = "run" /\ status = Running
      /\ pc' \in {"clean up", "read"}
      /\ UNCHANGED <<request, status, run, started, finished, captures, effects>>
  BY DEF RunCommand, IInv, Answered, AtWork
<1>3. mode \in Modes /\ b \in Behaviour /\ b.manifest \in Texts
  <2>1. mode \in Modes
    BY DEF IInv, Typed
  <2>2. b \in Behaviour
    BY <2>1, ConstantsOK
  <2>3. b.manifest \in Texts
    BY <2>1 DEF Texts
  <2> QED BY <2>1, <2>2, <2>3
<1>4. /\ runs \in Seq(Behaviour) /\ Len(runs) = run - 1 /\ run \in Nat
      /\ DOMAIN runs = 1 .. Len(runs) /\ run \in {1, 2}
  BY <1>2, Lengths DEF IInv, Typed, Captured
<1>5. /\ runs' \in Seq(Behaviour) /\ Len(runs') = run
      /\ runs'[run] = b /\ (run = 2 => runs'[1] = runs[1])
  <2>1. /\ Append(runs, b) \in Seq(Behaviour) /\ Len(Append(runs, b)) = Len(runs) + 1
        /\ \A i \in 1 .. Len(runs) : Append(runs, b)[i] = runs[i]
        /\ Append(runs, b)[Len(runs) + 1] = b
    BY <1>3, <1>4, Grown
  <2>2. Len(runs) + 1 = run
    BY <1>4
  <2>3. run = 2 => 1 \in 1 .. Len(runs)
    BY <1>4
  <2> QED BY <1>1, <2>1, <2>2, <2>3
<1>6. Typed'
  <2>1. clock' \in Nat
    <3>1. clock \in Nat /\ b.lasts \in Nat
      BY <1>3, BehaviourType DEF IInv, Typed
    <3> QED BY <1>1, <3>1
  <2>2. manifest' \in Texts
    BY <1>1, <1>3 DEF IInv, Typed
  <2>3. Len(runs') <= run'
    <3>1. run \in Nat /\ run' = run /\ Len(runs') = run
      BY <1>2, <1>4, <1>5
    <3> QED BY <3>1
  <2>4. pc' \in Before \cup AtWork \cup {"clean up", "done", "hung"}
    BY <1>2 DEF AtWork
  <2> QED BY <1>1, <1>2, <1>5, <2>1, <2>2, <2>3, <2>4 DEF IInv, Typed, request
<1>7. CASE pc' = "clean up"
  BY <1>2, <1>6, <1>7, GivingUp DEF request
<1>8. CASE pc' = "read"
  <2>1. InMode'
    BY <1>2, <1>8 DEF IInv, InMode, request, AtWork, Before
  <2>2. Captured'
    <3>1. run' = 2 => captures'[1] = Seen(runs'[1])
      BY <1>2, <1>5 DEF IInv, Captured
    <3> QED BY <1>2, <1>5, <1>8, <3>1 DEF Captured, AtWork, Before
  <2>3. Manifests'
    <3>1. mode = "side-effect-determinism" =>
            Len(effects) = run - 1 /\ (Len(effects) = 1 => manifest = effects[1])
      BY <1>2 DEF IInv, Manifests
    <3>2. mode # "side-effect-determinism" => Len(effects) = 0
      BY <1>2 DEF IInv, Manifests, AtWork
    <3>3. run = 2 /\ mode = "side-effect-determinism" =>
            manifest' = (IF runs'[2].manifest = Unwritten THEN effects[1] ELSE runs'[2].manifest)
      BY <1>1, <1>4, <1>5, <3>1
    <3> QED BY <1>2, <1>8, <3>1, <3>2, <3>3 DEF Manifests, request, Before, AtWork
  <2>4. Timed'
    <3>1. mode = "time-limit" => run = 1
      BY <1>4 DEF IInv, InMode, Twice
    <3>2. clock \in Nat /\ b.lasts \in Nat
      BY <1>3, BehaviourType DEF IInv, Typed
    <3>3. clock \in 0 .. clock' /\ clock' = clock + b.lasts
      BY <1>1, <3>2
    <3>4. mode = "time-limit" =>
            started' = Timespec(clock) /\ clock' = clock + runs'[1].lasts
      BY <1>2, <1>5, <3>1, <3>3 DEF IInv, Timed
    <3> QED BY <1>2, <1>8, <3>3, <3>4 DEF Timed, request
  <2>5. Answered'
    BY <1>2, <1>8 DEF Answered, AtWork, Before
  <2> QED BY <1>6, <2>1, <2>2, <2>3, <2>4, <2>5 DEF IInv
<1> QED BY <1>2, <1>7, <1>8

LEMMA NoRunPreserves ==
  ASSUME IInv, CommandHangs \/ CommandNotRun
  PROVE  IInv'
<1>1. /\ pc = "run" /\ status = Running /\ pc' \in {"clean up", "hung"}
      /\ err' \in BOOLEAN
      /\ UNCHANGED <<request, status, run, times, captures, manifest, effects, runs>>
  BY DEF CommandHangs, CommandNotRun, IInv, Answered, Typed, AtWork
<1>2. Typed'
  BY <1>1 DEF IInv, Typed, request, times
<1> QED BY <1>1, <1>2, GivingUp DEF request

LEMMA ReadCapturesPreserves ==
  ASSUME IInv, ReadCaptures
  PROVE  IInv'
<1>1. /\ pc = "read" /\ status = Running
      /\ UNCHANGED <<request, status, run, times, manifest, effects, disk, runs>>
  BY DEF ReadCaptures, IInv, Answered, AtWork
<1>2. CASE /\ captures' = [captures EXCEPT ![run] = Seen(runs[run])]
           /\ pc' = AfterRun /\ UNCHANGED err
  <2>1. /\ mode \in Modes /\ run \in {1, 2} /\ Len(runs) = run /\ DOMAIN runs = 1 .. Len(runs)
        /\ DOMAIN captures = {1, 2}
    BY <1>1, Lengths DEF IInv, Typed, Captured, AtWork
  <2>2. /\ pc' \in {"stop clock", "manifest", "again", "judge"}
        /\ pc' = "stop clock" <=> mode = "time-limit"
        /\ pc' = "manifest" <=> mode = "side-effect-determinism"
        /\ pc' = "again" <=> mode = "determinism" /\ run = 1
    BY <1>2 DEF AfterRun
  <2>3. /\ DOMAIN captures' = {1, 2} /\ captures'[run] = Seen(runs[run])
        /\ run = 2 => captures'[1] = captures[1]
    BY <1>2, <2>1
  <2>4. Typed'
    BY <1>1, <1>2, <2>2, <2>3 DEF IInv, Typed, request, times, AtWork
  <2>5. InMode'
    <3>1. run = 2 => mode \in Twice
      BY DEF IInv, InMode
    <3>2. pc' = "judge" => run = (IF mode \in Twice THEN 2 ELSE 1)
      BY <2>1, <2>2, <3>1 DEF Twice
    <3>3. (value = Missing) = (mode = "determinism")
      BY <1>1 DEF IInv, InMode, AtWork
    <3>4. pc' = "again" => run = 1 /\ mode \in Twice
      BY <2>2 DEF Twice
    <3> QED BY <1>1, <2>2, <3>1, <3>2, <3>3, <3>4 DEF InMode, request, Before
  <2>6. Captured'
    <3>1. run = 2 => captures'[1] = Seen(runs[1])
      BY <1>1, <2>3 DEF IInv, Captured
    <3>2. ASSUME NEW r \in DOMAIN runs
          PROVE  captures'[r] = Seen(runs[r])
      BY <2>1, <2>3, <3>1
    <3> QED BY <1>1, <2>1, <2>2, <3>2 DEF Captured, AtWork, Before
  <2>7. Manifests'
    <3>1. mode # "side-effect-determinism" => Len(effects) = 0
      BY <1>1 DEF IInv, Manifests, AtWork
    <3>2. mode = "side-effect-determinism" =>
            /\ Len(effects) = run - 1
            /\ run = 2 => manifest = (IF runs[2].manifest = Unwritten THEN effects[1]
                                      ELSE runs[2].manifest)
      BY <1>1 DEF IInv, Manifests
    <3> QED BY <1>1, <2>2, <3>1, <3>2 DEF Manifests, request, AtWork, Before
  <2>8. Timed'
    BY <1>1, <2>2 DEF IInv, Timed, request, times
  <2>9. Answered'
    BY <1>1, <2>2 DEF Answered, AtWork, Before
  <2> QED BY <2>4, <2>5, <2>6, <2>7, <2>8, <2>9 DEF IInv
<1>3. CASE err' \in BOOLEAN /\ pc' = "clean up" /\ UNCHANGED captures
  <2>1. Typed'
    BY <1>1, <1>3 DEF IInv, Typed, request, times
  <2> QED BY <1>1, <1>3, <2>1, GivingUp DEF request
<1> QED BY <1>2, <1>3 DEF ReadCaptures

LEMMA StopClockPreserves ==
  ASSUME IInv, StopClock
  PROVE  IInv'
<1>1. /\ pc = "stop clock" /\ status = Running /\ mode = "time-limit"
      /\ UNCHANGED <<request, status, run, started, captures, manifest, effects, runs>>
  BY DEF StopClock, IInv, InMode, Answered, AtWork
<1>0. clock \in Nat /\ clock' \in Nat /\ clock <= clock'
  <2>1. PICK lag \in Overheads : clock' = clock + lag
    BY DEF StopClock
  <2>2. clock \in Nat /\ lag \in Nat
    BY ConstantsOK DEF IInv, Typed
  <2> QED BY <2>1, <2>2
<1>2. CASE finished' = Timespec(clock') /\ pc' = "judge" /\ UNCHANGED err
  <2>2. Typed'
    <3>1. finished' \in [sec : Nat, nsec : 0 .. Nanos - 1]
      <4>1. PICK t \in Nat : t = clock'
        BY <1>0
      <4>2. Timespec(t) \in [sec : Nat, nsec : 0 .. Nanos - 1]
        BY TimespecType
      <4>3. Timespec(t) = Timespec(clock')
        BY <4>1 DEF Timespec
      <4> QED BY <1>2, <4>2, <4>3
    <3> QED BY <1>0, <1>1, <1>2, <3>1 DEF IInv, Typed, request, AtWork
  <2>3. InMode'
    <3>1. mode \notin Twice /\ run = 1
      BY <1>1 DEF IInv, InMode, Typed, Twice
    <3>2. (value = Missing) = (mode = "determinism")
      BY <1>1 DEF IInv, InMode, AtWork
    <3>3. /\ mode' = mode /\ value' = value /\ run' = run /\ pc' = "judge"
          /\ mode \notin Twice
      BY <1>1, <1>2, <3>1 DEF request
    <3> QED BY <3>1, <3>2, <3>3 DEF InMode, Before
  <2>4. Captured'
    BY <1>1, <1>2 DEF IInv, Captured, AtWork, Before
  <2>5. Manifests'
    BY <1>1, <1>2 DEF IInv, Manifests, request, AtWork, Before
  <2>6. Timed'
    <3>1. PICK s \in 0 .. clock : started = Timespec(s) /\ clock = s + runs[1].lasts
      BY <1>1 DEF IInv, Timed
    <3>2. s \in 0 .. clock'
      BY <1>0
    <3>3. s + runs[1].lasts <= clock'
      BY <1>0, <3>1
    <3> QED BY <1>1, <1>2, <3>1, <3>2, <3>3 DEF Timed
  <2>7. Answered'
    BY <1>1, <1>2 DEF Answered, AtWork, Before
  <2> QED BY <2>2, <2>3, <2>4, <2>5, <2>6, <2>7 DEF IInv
<1>3. CASE err' = TRUE /\ pc' = "clean up" /\ UNCHANGED finished
  <2>1. Typed'
    BY <1>0, <1>1, <1>3 DEF IInv, Typed, request
  <2> QED BY <1>1, <1>3, <2>1, GivingUp DEF request
<1> QED BY <1>2, <1>3 DEF StopClock

LEMMA ReadManifestPreserves ==
  ASSUME IInv, ReadManifest
  PROVE  IInv'
<1>1. /\ pc = "manifest" /\ status = Running /\ mode = "side-effect-determinism"
      /\ UNCHANGED <<request, status, run, times, captures, manifest, disk, runs>>
  BY DEF ReadManifest, IInv, InMode, Answered, AtWork
<1>2. CASE /\ effects' = Append(effects, manifest)
           /\ pc' = (IF run = 1 THEN "again" ELSE "judge") /\ UNCHANGED err
  <2>1. /\ effects \in Seq(Texts) /\ manifest \in Texts /\ run \in {1, 2}
        /\ Len(effects) = run - 1 /\ run \in Nat
    BY <1>1, Lengths DEF IInv, Typed, Manifests
  <2>2. /\ effects' \in Seq(Texts) /\ Len(effects') = run
        /\ effects'[run] = manifest /\ (run = 2 => effects'[1] = effects[1])
    <3>1. /\ Append(effects, manifest) \in Seq(Texts)
          /\ Len(Append(effects, manifest)) = Len(effects) + 1
          /\ \A i \in 1 .. Len(effects) : Append(effects, manifest)[i] = effects[i]
          /\ Append(effects, manifest)[Len(effects) + 1] = manifest
      BY <2>1, Grown
    <3>2. Len(effects) + 1 = run
      BY <2>1
    <3>3. run = 2 => 1 \in 1 .. Len(effects)
      BY <2>1
    <3> QED BY <1>2, <3>1, <3>2, <3>3
  <2>3. pc' \in {"again", "judge"} /\ (pc' = "again" <=> run = 1)
    BY <1>2
  <2>4. Typed'
    <3>1. Len(effects') <= run'
      BY <1>1, <2>1, <2>2
    <3> QED BY <1>1, <1>2, <2>2, <2>3, <3>1 DEF IInv, Typed, request, times, AtWork
  <2>5. InMode'
    <3>1. /\ mode' = mode /\ value' = value /\ run' = run /\ mode \in Twice
          /\ mode # "time-limit"
      BY <1>1 DEF request, Twice
    <3>2. (value = Missing) = (mode = "determinism")
      BY <1>1 DEF IInv, InMode, AtWork
    <3>3. pc' = "judge" => run = 2
      BY <2>1, <2>3
    <3> QED BY <2>3, <3>1, <3>2, <3>3 DEF InMode, Before
  <2>6. Captured'
    <3>1. Len(runs) = run /\ \A r \in DOMAIN runs : captures[r] = Seen(runs[r])
      BY <1>1 DEF IInv, Captured, AtWork
    <3> QED BY <1>1, <2>3, <3>1 DEF Captured, AtWork, Before
  <2>7. Manifests'
    <3>1. run = 2 =>
            manifest = (IF runs[2].manifest = Unwritten THEN effects[1] ELSE runs[2].manifest)
      BY <1>1 DEF IInv, Manifests
    <3>2. run = 2 =>
            effects'[2] = (IF runs[2].manifest = Unwritten THEN effects'[1]
                           ELSE runs[2].manifest)
      BY <2>2, <3>1
    <3>3. /\ mode' = mode /\ run' = run /\ runs' = runs /\ manifest' = manifest
          /\ pc' = "judge" => run = 2
      BY <1>1, <2>1, <2>3 DEF request
    <3>4. Len(effects') = 1 => manifest' = effects'[1]
      <4>1. Len(effects') = 1 => run = 1
        BY <2>2
      <4> QED BY <2>2, <3>3, <4>1
    <3> QED BY <1>1, <2>2, <2>3, <3>2, <3>3, <3>4 DEF Manifests, Before, AtWork
  <2>8. Timed'
    BY <1>1 DEF Timed, request
  <2>9. Answered'
    BY <1>1, <2>3 DEF Answered, AtWork, Before
  <2> QED BY <2>4, <2>5, <2>6, <2>7, <2>8, <2>9 DEF IInv
<1>3. CASE err' \in BOOLEAN /\ pc' = "clean up" /\ UNCHANGED effects
  <2>1. Typed'
    BY <1>1, <1>3 DEF IInv, Typed, request, times
  <2> QED BY <1>1, <1>3, <2>1, GivingUp DEF request
<1> QED BY <1>2, <1>3 DEF ReadManifest

LEMMA RunAgainPreserves ==
  ASSUME IInv, RunAgain
  PROVE  IInv'
<1>1. /\ pc = "again" /\ status = Running /\ run' = 2 /\ pc' = "run"
      /\ UNCHANGED <<request, err, status, times, captures, manifest, effects, disk, runs>>
  BY DEF RunAgain, IInv, Answered, AtWork
<1>2. run = 1 /\ mode \in Twice /\ mode # "time-limit"
  BY <1>1 DEF IInv, InMode, Twice
<1>3. Len(runs) = 1 /\ captures[1] = Seen(runs[1])
  <2>1. Len(runs) = 1 /\ DOMAIN runs = 1 .. Len(runs)
    BY <1>1, <1>2, Lengths DEF IInv, Captured, AtWork
  <2>2. 1 \in DOMAIN runs
    BY <2>1
  <2> QED BY <1>1, <2>1, <2>2 DEF IInv, Captured
<1>4. Typed'
  <2>1. Len(runs') <= run' /\ Len(effects') <= run'
    <3>1. Len(effects) \in Nat /\ Len(effects) <= 1
      BY <1>2, Lengths DEF IInv, Typed
    <3>2. run' = 2 /\ Len(runs') = 1 /\ Len(effects') = Len(effects)
      BY <1>1, <1>3
    <3> QED BY <3>1, <3>2
  <2> QED BY <1>1, <2>1 DEF IInv, Typed, request, times, AtWork
<1>5. InMode'
  <2>1. (value = Missing) = (mode = "determinism")
    BY <1>1 DEF IInv, InMode, AtWork
  <2> QED BY <1>1, <1>2, <2>1 DEF InMode, request, Before
<1>6. Captured'
  BY <1>1, <1>3 DEF Captured, AtWork, Before
<1>7. Manifests'
  <2>1. mode # "side-effect-determinism" => Len(effects) = 0
    BY <1>1 DEF IInv, Manifests, AtWork
  <2>2. mode = "side-effect-determinism" =>
          Len(effects) = 1 /\ manifest = effects[1]
    BY <1>1, <1>2 DEF IInv, Manifests
  <2> QED BY <1>1, <2>1, <2>2 DEF Manifests, request, AtWork, Before
<1>8. Timed'
  BY <1>1, <1>2 DEF Timed, request
<1>9. Answered'
  BY <1>1 DEF Answered, AtWork, Before
<1> QED BY <1>4, <1>5, <1>6, <1>7, <1>8, <1>9 DEF IInv

\* The judgement is about what no later step changes.
LEMMA SameJudgement ==
  ASSUME UNCHANGED <<request, clock, started, finished, captures, effects, runs>>
  PROVE  Measured' = Measured /\ Representable' = Representable /\ Broken' = Broken
<1>1. Measured' = Measured
  BY DEF Measured, request
<1>2. Representable' = Representable
  BY DEF Representable, request
<1>3. SameCaptures' = SameCaptures
  BY DEF SameCaptures
<1>4. OverBudget' = OverBudget
  BY DEF OverBudget, request
<1>5. Exceeded' = Exceeded
  BY DEF Exceeded, MaximumNanos, request
<1>6. Broken' = Broken
  BY <1>3, <1>4, <1>5, Zenon DEF Broken, request
<1> QED BY <1>1, <1>2, <1>6

\* The invariant says nothing of the files.
LEMMA SameState ==
  ASSUME IInv,
         UNCHANGED <<request, pc, err, status, run, times, captures, manifest, effects, runs>>
  PROVE  IInv'
<1>1. Measured' = Measured /\ Representable' = Representable /\ Broken' = Broken
  BY SameJudgement DEF request, times
<1>2. Typed'
  BY DEF IInv, Typed, request, times
<1>3. InMode' /\ Captured'
  BY DEF IInv, InMode, Captured, request
<1>4. Manifests' /\ Timed'
  BY DEF IInv, Manifests, Timed, request, times
<1>5. Answered'
  BY <1>1 DEF IInv, Answered, Judged
<1> QED BY <1>2, <1>3, <1>4, <1>5 DEF IInv

LEMMA JudgePreserves ==
  ASSUME IInv, Judge
  PROVE  IInv'
<1>1. /\ pc = "judge" /\ pc' = "clean up"
      /\ UNCHANGED <<request, run, times, captures, manifest, effects, disk, runs>>
  BY DEF Judge
<1>2. \/ status' = 2 /\ err' = TRUE
      \/ Representable /\ status' = (IF Broken THEN 1 ELSE 0) /\ err' = err
  BY DEF Judge
<1>3. Measured
  BY <1>1 DEF IInv, InMode, Captured, Manifests, Timed, Measured, AtWork
<1>4. Measured' = Measured /\ Representable' = Representable /\ Broken' = Broken
  BY <1>1, SameJudgement DEF times
<1>5. Typed'
  BY <1>1, <1>2 DEF IInv, Typed, request, times
<1>6. InMode'
  BY <1>1 DEF IInv, InMode, request, AtWork, Before
<1>7. Captured' /\ Manifests' /\ Timed'
  BY <1>1 DEF Captured, Manifests, Timed, AtWork, Before
<1>8. Answered'
  <2>1. status' \in {0, 1} => Judged'
    BY <1>2, <1>3, <1>4 DEF Judged
  <2>2. pc' \notin Before \cup AtWork /\ pc' # "done"
    BY <1>1 DEF AtWork, Before
  <2> QED BY <2>1, <2>2 DEF Answered
<1> QED BY <1>5, <1>6, <1>7, <1>8 DEF IInv

LEMMA RemoveCapturePreserves ==
  ASSUME IInv, RemoveCapture
  PROVE  IInv'
<1>1. UNCHANGED <<request, pc, err, status, run, times, captures, manifest, effects, runs>>
  BY DEF RemoveCapture
<1> QED BY <1>1, SameState

LEMMA ReturnPreserves ==
  ASSUME IInv, Return
  PROVE  IInv'
<1>1. /\ pc = "clean up" /\ pc' = "done"
      /\ status' = (IF err \/ status = Running THEN 2 ELSE status)
      /\ UNCHANGED <<request, err, run, times, captures, manifest, effects, runs>>
  BY DEF Return
<1>2. Measured' = Measured /\ Representable' = Representable /\ Broken' = Broken
  BY <1>1, SameJudgement DEF times
<1>3. status' = 2 \/ (status' = status /\ status \in {0, 1})
  BY <1>1 DEF IInv, Typed
<1>4. Typed'
  BY <1>1, <1>3 DEF IInv, Typed, request, times
<1>5. InMode'
  BY <1>1 DEF IInv, InMode, request, AtWork, Before
<1>6. Captured' /\ Manifests' /\ Timed'
  BY <1>1 DEF Captured, Manifests, Timed, AtWork, Before
<1>7. Answered'
  BY <1>1, <1>2, <1>3 DEF IInv, Answered, Judged, AtWork, Before
<1> QED BY <1>4, <1>5, <1>6, <1>7 DEF IInv

LEMMA StepPreserves ==
  ASSUME IInv, [Next]_vars
  PROVE  IInv'
<1>1. CASE UNCHANGED vars
  BY <1>1, SameState DEF vars, request, times
<1> QED BY <1>1, ParsePreserves, MakePrefixPreserves, RunCommandPreserves, NoRunPreserves,
           ReadCapturesPreserves, StopClockPreserves, ReadManifestPreserves,
           RunAgainPreserves, JudgePreserves, RemoveCapturePreserves, ReturnPreserves
       DEF Next, Finished

LEMMA Invariance == Spec => []IInv
<1>1. IInv /\ [Next]_vars => IInv'
  BY StepPreserves
<1> QED BY <1>1, InitEstablishes, PTL DEF Spec

-----------------------------------------------------------------------------
(* The capture files.                                                        *)

\* A file whose turn has come is gone, unless its unlink failed; and every file
\* has its turn before the tool returns.
Removing ==
  /\ removals \in 0 .. 4
  /\ pc \notin {"clean up", "done"} => removals = 0
  /\ pc = "done" => removals = 4
  /\ files \subseteq FilesOf(1) \cup FilesOf(2) /\ stuck \subseteq FilesOf(1) \cup FilesOf(2)
  /\ \A i \in 1 .. removals : CaptureFiles[i] \in files => CaptureFiles[i] \in stuck

LEMMA TurnsOfAll ==
  /\ \A i \in 1 .. 4 : CaptureFiles[i] \in FilesOf(1) \cup FilesOf(2)
  /\ \A file \in FilesOf(1) \cup FilesOf(2) : \E i \in 1 .. 4 : file = CaptureFiles[i]
<1>1. /\ CaptureFiles[1] = <<2, "stdout">> /\ CaptureFiles[2] = <<2, "stderr">>
      /\ CaptureFiles[3] = <<1, "stdout">> /\ CaptureFiles[4] = <<1, "stderr">>
  BY DEF CaptureFiles
<1>2. 1 .. 4 = {1, 2, 3, 4}
  OBVIOUS
<1> HIDE DEF CaptureFiles
<1> QED BY <1>1, <1>2, Zenon DEF FilesOf

LEMMA RemovingStep ==
  ASSUME IInv, Removing, [Next]_vars
  PROVE  Removing'
<1>1. CASE UNCHANGED vars
  BY <1>1 DEF Removing, vars, disk, ending
<1>2. CASE ParseArguments \/ MakePrefix \/ ReadCaptures \/ StopClock \/ ReadManifest \/ RunAgain
           \/ Judge
  <2>1. /\ pc \notin {"clean up", "done"} /\ pc' # "done"
        /\ UNCHANGED <<files, removals, stuck>>
    BY <1>2 DEF ParseArguments, MakePrefix, ReadCaptures, AfterRun, StopClock, ReadManifest,
                RunAgain, Judge, disk, ending
  <2> QED BY <2>1 DEF Removing
<1>3. CASE RunCommand \/ CommandHangs \/ CommandNotRun
  <2>1. /\ pc = "run" /\ pc' # "done" /\ UNCHANGED <<removals, stuck>>
        /\ files' \subseteq files \cup FilesOf(run)
    BY <1>3 DEF RunCommand, CommandHangs, CommandNotRun, ending
  <2>2. run \in {1, 2}
    BY DEF IInv, Typed
  <2>3. files' \subseteq FilesOf(1) \cup FilesOf(2)
    BY <2>1, <2>2 DEF Removing
  <2> QED BY <2>1, <2>3 DEF Removing
<1>4. CASE RemoveCapture
  <2>1. /\ pc = "clean up" /\ pc' = pc /\ removals < 4 /\ removals' = removals + 1
        /\ \/ files' = files \ {CaptureFiles[removals + 1]} /\ stuck' = stuck
           \/ /\ CaptureFiles[removals + 1] \in files /\ files' = files
              /\ stuck' = stuck \cup {CaptureFiles[removals + 1]}
    BY <1>4 DEF RemoveCapture
  <2>2. /\ removals \in 0 .. 4 /\ removals' \in 0 .. 4 /\ removals + 1 \in 1 .. 4
    <3>1. removals \in 0 .. 4 /\ removals < 4 /\ removals' = removals + 1
      BY <2>1, Zenon DEF Removing
    <3> QED BY ONLY <3>1
  <2>3. CaptureFiles[removals + 1] \in FilesOf(1) \cup FilesOf(2)
    BY <2>1, <2>2, TurnsOfAll
  <2>4. ASSUME NEW i \in 1 .. removals', CaptureFiles[i] \in files'
        PROVE  CaptureFiles[i] \in stuck'
    <3>1. i \in 1 .. removals \/ i = removals + 1
      <4>1. i \in 1 .. removals' /\ removals \in 0 .. 4 /\ removals' = removals + 1
        BY <2>1, <2>2, Zenon
      <4> QED BY ONLY <4>1
    <3>2. CASE i \in 1 .. removals
      BY <2>1, <2>4, <3>2 DEF Removing
    <3>3. CASE i = removals + 1
      BY <2>1, <2>4, <3>3
    <3> QED BY <3>1, <3>2, <3>3
  <2>5. files' \subseteq FilesOf(1) \cup FilesOf(2) /\ stuck' \subseteq FilesOf(1) \cup FilesOf(2)
    BY <2>1, <2>3 DEF Removing
  <2> QED BY <2>1, <2>2, <2>4, <2>5 DEF Removing
<1>5. CASE Return
  BY <1>5 DEF Return, Removing, disk, ending
<1> QED BY <1>1, <1>2, <1>3, <1>4, <1>5 DEF Next, Finished

LEMMA RemovingInvariance == Spec => []Removing
<1>1. Init => Removing
  BY DEF Init, Removing
<1> QED BY <1>1, RemovingStep, Invariance, PTL DEF Spec

-----------------------------------------------------------------------------
(* The theorems.                                                             *)

\* The state is well typed, and past the parser the value the mode needs is there.
THEOREM TypeCorrectness == Spec => []TypeOK
<1>1. IInv /\ Removing => TypeOK
  <2> SUFFICES ASSUME IInv, Removing PROVE TypeOK
    OBVIOUS
  <2>1. /\ mode \in Modes /\ value \in Values[mode] \cup {Missing}
        /\ err \in BOOLEAN /\ status \in {0, 1, 2, Running} /\ clock \in Nat
        /\ started \in [sec : Nat, nsec : 0 .. Nanos - 1]
        /\ finished \in [sec : Nat, nsec : 0 .. Nanos - 1]
    BY DEF IInv, Typed
  <2>2. /\ run \in 1 .. 2 /\ removals \in 0 .. 4
        /\ files \subseteq FilesOf(1) \cup FilesOf(2)
        /\ stuck \subseteq FilesOf(1) \cup FilesOf(2)
    <3>1. 1 .. 2 = {1, 2}
      OBVIOUS
    <3>2. run \in {1, 2}
      BY DEF IInv, Typed
    <3> QED BY <3>1, <3>2, Zenon DEF Removing
  <2>3. Len(runs) <= 2 /\ Len(effects) <= 2
    <3>1. /\ Len(runs) \in Nat /\ Len(effects) \in Nat /\ run \in {1, 2}
          /\ Len(runs) <= run /\ Len(effects) <= run
      BY Lengths DEF IInv, Typed
    <3> QED BY <3>1
  <2>4. pc \in {"run", "read", "judge"} => (value = Missing) = (mode = "determinism")
    BY DEF IInv, InMode, AtWork
  <2>5. pc \in {"parse", "prefix", "run", "read", "stop clock", "manifest", "again", "judge",
                "clean up", "done", "hung"}
    BY DEF IInv, Typed, AtWork, Before
  <2> QED BY <2>1, <2>2, <2>3, <2>4, <2>5 DEF TypeOK
<1> QED BY <1>1, Invariance, RemovingInvariance, PTL

\* A verdict rests on exactly the runs the mode calls for, each read to the end,
\* and on a value that means something.
THEOREM Foundation == Spec => []VerdictIsFounded
<1>1. IInv => VerdictIsFounded
  <2> SUFFICES ASSUME IInv, pc = "done", status # 2
               PROVE  /\ Len(runs) = (IF mode \in Twice THEN 2 ELSE 1)
                      /\ \A r \in DOMAIN runs : captures[r] = Seen(runs[r])
                      /\ value \notin {Garbled, Empty}
    BY DEF VerdictIsFounded
  <2>1. Judged
    BY DEF IInv, Answered
  <2>2. value \notin {Garbled, Empty}
    <3>1. mode \in Modes /\ (value = Missing \/ value \in Readings(mode))
      BY ConstantsOK DEF IInv, Typed
    <3>2. CASE value = Missing
      BY <3>2 DEF Missing, Garbled, Empty
    <3>3. CASE value \in Readings(mode)
      <4>1. Garbled \notin Nat /\ Empty \notin Nat /\ Garbled # Empty
        BY DEF Garbled, Empty
      <4>2. CASE mode = "redaction"
        <5>1. value # Empty
          BY <2>1, <4>2 DEF Judged, Representable
        <5> QED BY <3>3, <4>1, <4>2, <5>1 DEF Readings
      <4>3. CASE mode \in {"determinism", "side-effect-determinism"}
        BY <3>3, <4>1, <4>3 DEF Readings
      <4>4. CASE mode \in {"output-limit", "time-limit", "recovery", "schema-compatibility"}
        <5>1. value # Garbled
          BY <2>1, <4>4 DEF Judged, Representable
        <5> QED BY <3>3, <4>1, <4>4, <5>1 DEF Readings
      <4> QED BY <3>1, <4>2, <4>3, <4>4 DEF Modes
    <3> QED BY <3>1, <3>2, <3>3
  <2> QED BY <2>1, <2>2 DEF Judged, Measured
<1> QED BY <1>1, Invariance, PTL

\* Whichever way the tool ends, a capture file it leaves is one whose own unlink
\* failed: every file any run may have made is tried, after a failure too.
THEOREM CapturesRemoved == Spec => []NoCaptureLeft
<1>1. Removing => NoCaptureLeft
  <2> SUFFICES ASSUME Removing, pc = "done", NEW file \in files PROVE file \in stuck
    BY DEF NoCaptureLeft
  <2>1. PICK i \in 1 .. 4 : file = CaptureFiles[i]
    BY TurnsOfAll DEF Removing
  <2> QED BY <2>1 DEF Removing
<1> QED BY <1>1, RemovingInvariance, PTL

\* What is judged of the captures is what the contract says of the runs.
LEMMA JudgementIsExact ==
  ASSUME IInv, Measured, Representable
  PROVE  /\ Broken <=> Breached
         /\ ~Breached => Holds
<1>1. mode \in Modes /\ runs \in Seq(Behaviour) /\ DOMAIN runs = 1 .. Len(runs)
  BY Lengths DEF IInv, Typed
<1>2. Len(runs) = (IF mode \in Twice THEN 2 ELSE 1)
  BY DEF Measured
<1>3. 1 \in DOMAIN runs /\ runs[1] \in Behaviour /\ captures[1] = Seen(runs[1])
  <2>1. 1 \in DOMAIN runs
    BY <1>1, <1>2
  <2> QED BY <1>1, <2>1 DEF Measured
<1>4. mode \in Twice => captures[2] = Seen(runs[2])
  <2>1. mode \in Twice => 2 \in DOMAIN runs
    BY <1>1, <1>2
  <2> QED BY <2>1 DEF Measured
<1>5. mode # "determinism" => value \in Readings(mode)
  BY <1>1, ConstantsOK DEF IInv, Typed, Measured
<1>6. mode \in Twice => (SameCaptures <=> SameRuns)
  <2> SUFFICES ASSUME mode \in Twice PROVE SameCaptures <=> SameRuns
    OBVIOUS
  <2>1. \A r \in {1, 2} : /\ captures[r].signalled = runs[r].signalled
                          /\ captures[r].code = runs[r].code
                          /\ captures[r].out = runs[r].out
                          /\ captures[r].error = runs[r].error
    BY <1>3, <1>4 DEF Seen
  <2> QED BY <2>1 DEF SameCaptures, SameRuns, CapturedEqual
<1>7. ASSUME mode = "determinism" PROVE Broken <=> ~Holds
  BY <1>6, <1>7 DEF Broken, Holds, Twice
<1>8. ASSUME mode = "side-effect-determinism" PROVE Broken <=> ~Holds
  <2>1. effects[2] = (IF runs[2].manifest = Unwritten THEN effects[1] ELSE runs[2].manifest)
    BY <1>8 DEF Measured
  <2>2. effects[1] # effects[2] <=> runs[2].manifest \notin {Unwritten, effects[1]}
    BY <2>1
  <2>3. SameCaptures <=> SameRuns
    BY <1>6, <1>8 DEF Twice
  <2>4. Broken <=> (~SameCaptures \/ effects[1] # effects[2])
    BY <1>8 DEF Broken
  <2>5. Holds <=> (SameRuns /\ runs[2].manifest \in {Unwritten, effects[1]})
    BY <1>8 DEF Holds
  <2> QED BY <2>2, <2>3, <2>4, <2>5
<1>9. ASSUME mode = "redaction" PROVE Broken <=> ~Holds
  <2>1. captures[1].out = runs[1].out /\ captures[1].error = runs[1].error
    BY <1>3 DEF Seen
  <2> QED BY <1>9, <2>1 DEF Broken, Holds
<1>10. ASSUME mode = "output-limit" PROVE Broken <=> ~Holds
  <2>1. captures[1].out = runs[1].out /\ captures[1].error = runs[1].error
    BY <1>3 DEF Seen
  <2>2. /\ runs[1].out.size \in 0 .. SizeModulus - 2
        /\ runs[1].error.size \in 0 .. SizeModulus - 2
    BY <1>3, BehaviourType
  <2>3. value \in Nat /\ value % SizeModulus = value
    <3>1. value # Garbled /\ value % SizeModulus = value
      BY <1>10 DEF Representable
    <3> QED BY <1>5, <1>10, <3>1 DEF Readings
  <2>4. OverBudget <=> runs[1].out.size + runs[1].error.size > value
    BY <2>1, <2>2, <2>3, BudgetIsExact DEF OverBudget
  <2>5. OverBudget <=> ~(runs[1].out.size + runs[1].error.size <= value)
    <3>1. runs[1].out.size \in Nat /\ runs[1].error.size \in Nat
      BY <2>2, ConstantsOK
    <3> QED BY <2>3, <2>4, <3>1
  <2>6. Broken <=> OverBudget
    BY <1>10 DEF Broken
  <2>7. Holds <=> runs[1].out.size + runs[1].error.size <= value
    BY <1>10 DEF Holds
  <2> QED BY <2>5, <2>6, <2>7
<1>11. CASE mode = "time-limit"
  <2>1. value \in Nat
    <3>1. value # Garbled
      BY <1>11 DEF Representable
    <3> QED BY <1>5, <1>11, <3>1 DEF Readings
  <2>2. PICK s \in 0 .. clock :
          /\ started = Timespec(s) /\ finished = Timespec(clock)
          /\ s + runs[1].lasts <= clock
    BY <1>11 DEF Measured
  <2>3. PICK d \in Nat : d = clock - s
    <3>1. clock \in Nat
      BY DEF IInv, Typed
    <3>2. clock - s \in Nat
      BY ONLY <2>2, <3>1
    <3> QED BY <3>2
  <2>4. s \in Nat /\ clock = s + d /\ runs[1].lasts \in Nat /\ runs[1].lasts <= d
    <3>1. clock \in Nat /\ runs[1].lasts \in Nat
      BY <1>3, BehaviourType DEF IInv, Typed
    <3> QED BY <2>2, <2>3, <3>1
  <2>5. Exceeded <=> d * Millis > value * Nanos
    <3>1. finished = Timespec(s + d)
      BY <2>2, <2>4
    <3> QED BY <2>1, <2>2, <2>4, <3>1, LimitIsExact
  <2>6. Elapsed = d
    <3>1. s = Nanos * started.sec + started.nsec
      BY <2>2, <2>4, TimespecType
    <3>2. started.sec \in Nat /\ started.nsec \in Nat /\ Nanos \in Nat
      <4>1. Nanos \in Nat /\ 0 .. Nanos - 1 \subseteq Nat
        BY ConstantsOK
      <4>2. started \in [sec : Nat, nsec : 0 .. Nanos - 1]
        BY DEF IInv, Typed
      <4> QED BY ONLY <4>1, <4>2
    <3>3. started.sec * Nanos = Nanos * started.sec
      BY <3>2
    <3> QED BY <2>4, <3>1, <3>2, <3>3 DEF Elapsed
  <2>7. Broken <=> Exceeded
    BY <1>11 DEF Broken
  <2>8. Breached <=> d * Millis > value * Nanos
    BY <1>11, <2>6 DEF Breached
  <2>9. Holds <=> runs[1].lasts * Millis <= value * Nanos
    BY <1>11 DEF Holds
  <2>10. ~(d * Millis > value * Nanos) => runs[1].lasts * Millis <= value * Nanos
    <3>1. Millis \in Nat /\ Nanos \in Nat
      BY ConstantsOK
    <3>2. runs[1].lasts * Millis <= d * Millis
      BY <2>4, <3>1
    <3>3. /\ runs[1].lasts * Millis \in Int /\ d * Millis \in Int /\ value * Nanos \in Int
      BY <2>1, <2>4, <3>1
    <3> QED BY <3>2, <3>3
  <2> QED BY <2>5, <2>7, <2>8, <2>9, <2>10
<1>12. ASSUME mode \in {"recovery", "schema-compatibility"} PROVE Broken <=> ~Holds
  <2>1. captures[1].signalled = runs[1].signalled /\ captures[1].code = runs[1].code
    BY <1>3 DEF Seen
  <2> QED BY <1>12, <2>1 DEF Broken, Holds
<1>13. CASE mode # "time-limit"
  <2>1. Broken <=> ~Holds
    BY <1>1, <1>7, <1>8, <1>9, <1>10, <1>12, <1>13 DEF Modes
  <2> QED BY <1>13, <2>1 DEF Breached
<1> QED BY <1>11, <1>13

\* 0 is said only of a command that kept the contract in every run, and 1 only
\* when it was seen broken, under a time limit by the time measured: no sum that
\* wraps and no borrow between seconds and nanoseconds changes what is said,
\* whatever the limits, however long the run and whatever the tool adds to it.
THEOREM Truth == Spec => []VerdictIsTrue
<1>1. IInv => VerdictIsTrue
  <2> SUFFICES ASSUME IInv, pc = "done", status \in {0, 1}
               PROVE  /\ status = 0 => Holds /\ ~Breached
                      /\ status = 1 => Breached
    BY DEF VerdictIsTrue
  <2>1. Judged
    BY DEF IInv, Answered
  <2>2. (Broken <=> Breached) /\ (~Breached => Holds)
    BY <2>1, JudgementIsExact DEF Judged
  <2>3. status = (IF Broken THEN 1 ELSE 0)
    BY <2>1 DEF Judged
  <2> QED BY <2>2, <2>3
<1> QED BY <1>1, Invariance, PTL
=============================================================================
