---------------------------- MODULE PolicyReader ----------------------------
(***************************************************************************)
(* The growing buffer of p101_error_path_walk_read_policy_json in           *)
(* resource.c: a report of unknown size is read into memory, up to a limit, *)
(* and the parser is then given what was read.                              *)
(*                                                                         *)
(* The loop takes a read of no bytes for the end of the file.  That is only *)
(* right while no read asks for no bytes, which is what the growth of the   *)
(* buffer has to ensure at every size of the file, up to the limit.         *)
(***************************************************************************)
EXTENDS Naturals

CONSTANTS
  Initial,  \* POLICY_INITIAL_CAPACITY
  Limit,    \* POLICY_OUTPUT_LIMIT
  MaxSize   \* bound: the size of the largest file considered

ASSUME SizesOK == Initial \in Nat \ {0} /\ Limit \in Nat \ {0} /\ MaxSize \in Nat

VARIABLES
  size,     \* the bytes in the file
  pc,       \* "open", "allocate", "loop", "grow", "read", "parse", "done"
  capacity, \* of the buffer, 0 before malloc
  used,     \* bytes of the file in the buffer
  err,      \* the error object holds an error
  parsed    \* the bytes the parser was given, or NotParsed

vars == <<size, pc, capacity, used, err, parsed>>

NotParsed == MaxSize + 1

Smaller(a, b) == IF a < b THEN a ELSE b

Init ==
  /\ size \in 0 .. MaxSize
  /\ pc = "open"
  /\ capacity = 0 /\ used = 0
  /\ err \in BOOLEAN  \* the error of an earlier report may be pending
  /\ parsed = NotParsed

\* fopen, then malloc: each may fail, with the error it raises.
Open ==
  /\ pc = "open"
  /\ \E fails \in BOOLEAN : /\ err' = (err \/ fails)
                            /\ pc' = IF fails THEN "done" ELSE "allocate"
  /\ UNCHANGED <<size, capacity, used, parsed>>

Allocate ==
  /\ pc = "allocate"
  /\ \/ /\ err' = TRUE
        /\ pc' = "done"
        /\ UNCHANGED capacity
     \/ /\ capacity' = Initial
        /\ pc' = "loop"
        /\ UNCHANGED err
  /\ UNCHANGED <<size, used, parsed>>

\* Mutant: a buffer with room for the terminator only is not seen as full.
LoopHeadGrowingLate ==
  /\ pc = "loop"
  /\ pc' = IF used >= Limit - 1 THEN "parse" ELSE IF used = capacity THEN "grow" ELSE "read"
  /\ UNCHANGED <<size, capacity, used, err, parsed>>

\* while(used < output_limit - 1U), and the test for a full buffer.
LoopHead ==
  /\ pc = "loop"
  /\ pc' = IF used >= Limit - 1 THEN "parse" ELSE IF used = capacity - 1 THEN "grow" ELSE "read"
  /\ UNCHANGED <<size, capacity, used, err, parsed>>

\* Mutant: the capacity is doubled without a look at the limit.
NextCapacityUnlimited == capacity * 2

NextCapacity == IF capacity > Limit \div 2 THEN Limit ELSE capacity * 2

\* realloc; if it fails, nothing is parsed.
Grow ==
  /\ pc = "grow"
  /\ \/ /\ err' = TRUE
        /\ pc' = "done"
        /\ UNCHANGED capacity
     \/ /\ capacity' = NextCapacity
        /\ pc' = "read"
        /\ UNCHANGED err
  /\ UNCHANGED <<size, used, parsed>>

\* Mutant: an empty read does not end the loop.
ReadUntilLimit ==
  LET wanted == capacity - used - 1 IN
  /\ pc = "read"
  /\ \E count \in 0 .. Smaller(wanted, size - used), fails \in BOOLEAN :
       /\ count = 0 => fails \/ wanted = 0 \/ used = size
       /\ used' = used + count
       /\ err' = (err \/ fails)
       /\ pc' = IF err' THEN "parse" ELSE "loop"
  /\ UNCHANGED <<size, capacity, parsed>>

\* fread may come back short; without an error it comes back empty only at the
\* end of the file or when it was asked for nothing.
Read ==
  LET wanted == capacity - used - 1 IN
  /\ pc = "read"
  /\ \E count \in 0 .. Smaller(wanted, size - used), fails \in BOOLEAN :
       /\ count = 0 => fails \/ wanted = 0 \/ used = size
       /\ used' = used + count
       /\ err' = (err \/ fails)
       /\ pc' = IF err' \/ count = 0 THEN "parse" ELSE "loop"
  /\ UNCHANGED <<size, capacity, parsed>>

Parse ==
  /\ pc = "parse"
  /\ parsed' = used
  /\ pc' = "done"
  /\ UNCHANGED <<size, capacity, used, err>>

Finished == pc = "done" /\ UNCHANGED vars

Step == Open \/ Allocate \/ LoopHead \/ Grow \/ Read \/ Parse

Next == Step \/ Finished

Spec == Init /\ [][Next]_vars /\ WF_vars(Step)

-----------------------------------------------------------------------------
(* Properties. *)

Larger(a, b) == IF a > b THEN a ELSE b

\* The types and the bounds of the variables.
TypeOK ==
  /\ size \in 0 .. MaxSize
  /\ pc \in {"open", "allocate", "loop", "grow", "read", "parse", "done"}
  /\ capacity \in 0 .. Larger(Initial, Limit)
  /\ used \in 0 .. size
  /\ err \in BOOLEAN
  /\ parsed \in 0 .. MaxSize + 1

\* buffer[used] = '\0' and the bytes before it stay inside the allocation, and
\* the allocation inside the limit (or the initial size, if that is larger).
InBounds ==
  pc \in {"loop", "read", "grow", "parse"} =>
    used < capacity /\ capacity <= Larger(Initial, Limit)

\* No fread asks for zero bytes, so an empty read does mean the end of the file.
EmptyReadMeansEnd ==
  pc = "read" => capacity - used - 1 > 0

\* What the parser is given without an error is the whole report, unless the
\* report fills the limit: the buffer never cuts one short.
WholeReportParsed ==
  parsed # NotParsed /\ ~err => parsed = size \/ parsed >= Limit - 1

\* The loop ends whatever the file holds and however short the reads are.
Terminates == <>(pc = "done")
=============================================================================
