------------------------- MODULE PolicyReaderProofs -------------------------
(***************************************************************************)
(* Proofs about PolicyReader for every initial capacity, limit and file     *)
(* size.  The inductive invariant says what the loop head has established   *)
(* at each of the points it jumps to.                                       *)
(***************************************************************************)
EXTENDS PolicyReader, TLAPS

\* What is known at the points after the loop head: a buffer is grown only
\* when it is full and below the limit, and read into only when it has room.
LoopInv ==
  /\ pc \in {"open", "allocate"} => used = 0
  /\ pc \in {"loop", "grow", "read", "parse"} => used < capacity
  /\ pc = "grow" => used = capacity - 1 /\ used < Limit - 1
  /\ pc = "read" => used < capacity - 1 /\ used < Limit - 1
  /\ pc = "parse" /\ ~err => used = size \/ used >= Limit - 1
  /\ parsed # NotParsed /\ ~err => parsed = size \/ parsed >= Limit - 1

IInv == TypeOK /\ LoopInv

\* The growth rule: a full buffer below the limit gets strictly larger and
\* never passes the limit.
LEMMA GrowthIsStrict ==
  ASSUME capacity \in Nat, capacity >= 1, capacity < Limit, Limit \in Nat
  PROVE  /\ NextCapacity \in Nat
         /\ NextCapacity > capacity
         /\ NextCapacity <= Limit
<1>1. CASE capacity > Limit \div 2
  BY <1>1 DEF NextCapacity
<1>2. CASE ~(capacity > Limit \div 2)
  <2>1. capacity * 2 <= Limit
    BY <1>2
  <2>2. QED
    BY <1>2, <2>1 DEF NextCapacity
<1>3. QED
  BY <1>1, <1>2

LEMMA InitEstablishes == Init => IInv
BY SizesOK DEF Init, IInv, TypeOK, LoopInv, NotParsed, Larger

LEMMA StepPreserves == IInv /\ [Next]_vars => IInv'
<1> SUFFICES ASSUME IInv, [Next]_vars
             PROVE  IInv'
  OBVIOUS
<1> USE SizesOK DEF IInv, TypeOK, LoopInv, NotParsed, Larger
<1>1. CASE Open
  BY <1>1 DEF Open
<1>2. CASE Allocate
  <2>1. UNCHANGED <<size, used, parsed>> /\ used = 0
    BY <1>2 DEF Allocate
  <2>2. CASE err' = TRUE /\ pc' = "done" /\ UNCHANGED capacity
    BY <2>1, <2>2
  <2>3. CASE capacity' = Initial /\ pc' = "loop" /\ UNCHANGED err
    BY <2>1, <2>3
  <2>4. QED
    BY <1>2, <2>2, <2>3 DEF Allocate
<1>3. CASE LoopHead
  <2>1. TypeOK'
    BY <1>3 DEF LoopHead
  <2>2. CASE used >= Limit - 1
    BY <1>3, <2>1, <2>2 DEF LoopHead
  <2>3. CASE used < Limit - 1 /\ used = capacity - 1
    BY <1>3, <2>1, <2>3 DEF LoopHead
  <2>4. CASE used < Limit - 1 /\ used # capacity - 1
    BY <1>3, <2>1, <2>4 DEF LoopHead
  <2>5. QED
    BY <2>2, <2>3, <2>4
<1>4. CASE Grow
  <2>1. capacity >= 1 /\ capacity < Limit
    BY <1>4 DEF Grow
  <2>2. NextCapacity \in Nat /\ NextCapacity > capacity /\ NextCapacity <= Limit
    BY <2>1, GrowthIsStrict
  <2>3. CASE err' = TRUE /\ pc' = "done" /\ UNCHANGED capacity
    BY <1>4, <2>3 DEF Grow
  <2>4. CASE capacity' = NextCapacity /\ pc' = "read" /\ UNCHANGED err
    <3>1. UNCHANGED <<size, used, parsed>>
      BY <1>4 DEF Grow
    <3>2. capacity' \in 0 .. Larger(Initial, Limit)
      BY <2>2, <2>4
    <3>3. used' < capacity' - 1 /\ used' < Limit - 1
      BY <1>4, <2>2, <2>4, <3>1 DEF Grow
    <3>4. QED
      BY <2>4, <3>1, <3>2, <3>3
  <2>5. QED
    BY <1>4, <2>3, <2>4 DEF Grow
<1>5. CASE Read
  <2>1. PICK count \in 0 .. Smaller(capacity - used - 1, size - used), fails \in BOOLEAN :
          /\ count = 0 => fails \/ capacity - used - 1 = 0 \/ used = size
          /\ used' = used + count
          /\ err' = (err \/ fails)
          /\ pc' = IF err' \/ count = 0 THEN "parse" ELSE "loop"
    BY <1>5 DEF Read
  <2>2. count \in Nat /\ used + count < capacity /\ used + count <= size
    BY <1>5, <2>1 DEF Read, Smaller
  <2>3. QED
    BY <1>5, <2>1, <2>2 DEF Read
<1>6. CASE Parse
  BY <1>6 DEF Parse
<1>7. CASE UNCHANGED vars
  BY <1>7 DEF vars
<1>8. QED
  BY <1>1, <1>2, <1>3, <1>4, <1>5, <1>6, <1>7 DEF Next, Step, Finished

THEOREM Invariance == Spec => []IInv
BY InitEstablishes, StepPreserves, PTL DEF Spec

\* Type correctness and the bounds of every variable, for all sizes.
THEOREM TypeCorrectness == Spec => []TypeOK
<1>1. IInv => TypeOK
  BY DEF IInv
<1>2. QED
  BY <1>1, Invariance, PTL

\* Memory safety of the buffer in resource.c: the terminator and the bytes
\* before it lie inside the allocation at every point that uses it.
THEOREM BufferSafety == Spec => []InBounds
<1>1. IInv => InBounds
  BY DEF IInv, TypeOK, LoopInv, InBounds
<1>2. QED
  BY <1>1, Invariance, PTL

\* No fread asks for nothing, so the loop does not mistake a full buffer for
\* the end of the report.
THEOREM EmptyReadIsTheEnd == Spec => []EmptyReadMeansEnd
<1>1. IInv => EmptyReadMeansEnd
  BY SizesOK DEF IInv, TypeOK, LoopInv, EmptyReadMeansEnd
<1>2. QED
  BY <1>1, Invariance, PTL

\* Whatever the sizes, a report that is parsed without an error is whole or
\* fills the limit.
THEOREM WholeReport == Spec => []WholeReportParsed
<1>1. IInv => WholeReportParsed
  BY DEF IInv, LoopInv, WholeReportParsed
<1>2. QED
  BY <1>1, Invariance, PTL
=============================================================================
