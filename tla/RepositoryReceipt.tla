-------------------------- MODULE RepositoryReceipt --------------------------
(***************************************************************************)
(* The repository receipt tool: collect the .result files of a directory in *)
(* whatever order readdir gives them, sort them by name, read each, and     *)
(* write one receipt over whatever was there before.  Any call may fail; an *)
(* error in the directory scan looks like the end of the directory.         *)
(***************************************************************************)
EXTENDS Naturals, Sequences, FiniteSets, FiniteSetsExt

CONSTANTS
  Names,       \* file names, as numbers in the order of strcmp
  Statuses,    \* texts of a status field: whatever a launcher wrote
  Directories, \* contents of the results directory
  MaxRecords   \* MAX_RECORDS

\* A file of the directory: is it a .result, is it one line of six fields with
\* a duration, and the statuses it gives.
File == [result : BOOLEAN, good : BOOLEAN, unit : Statuses, fuzz : Statuses]

ASSUME ConstantsOK ==
  /\ Names \subseteq Nat
  /\ \A d \in Directories : DOMAIN d \subseteq Names /\ \A n \in DOMAIN d : d[n] \in File
  /\ MaxRecords \in Nat

VARIABLES
  request,    \* "run", "help" or "misuse"
  directory,  \* the files, by name
  pc, err, status,
  unread,     \* the entries readdir has not returned yet
  paths,      \* the names collected
  sorted,     \* how many of them are in order
  records,    \* the results read
  disk        \* the receipt file

vars == <<request, directory, pc, err, status, unread, paths, sorted, records, disk>>

inputs == <<request, directory>>

Running == 3

\* A receipt of an earlier run, none at all, or one that was begun.
Old     == [kind |-> "old"]
Absent  == [kind |-> "absent"]
Partial == [kind |-> "partial"]
Whole(passed, names) == [kind |-> "whole", passed |-> passed, names |-> names]

Init ==
  /\ request \in {"run", "help", "misuse"}
  /\ directory \in Directories
  /\ pc = "parse" /\ err = FALSE /\ status = Running
  /\ unread = DOMAIN directory
  /\ paths = <<>> /\ sorted = 1
  /\ records = <<>>
  /\ disk \in {Old, Absent}

ParseArguments ==
  /\ pc = "parse"
  /\ status' = IF request = "help" THEN 0 ELSE 2
  /\ err' = (request = "misuse")
  /\ pc' = IF request = "run" THEN "open" ELSE "report error"
  /\ UNCHANGED <<inputs, unread, paths, sorted, records, disk>>

OpenDirectory ==
  /\ pc = "open"
  /\ \/ UNCHANGED err /\ pc' = "scan"
     \/ err' = TRUE /\ pc' = "report error"
  /\ UNCHANGED <<inputs, status, unread, paths, sorted, records, disk>>

\* Mutant: the end of the array is not looked at.
ReadEntryUnbounded ==
  /\ pc = "scan"
  /\ \E n \in unread :
       /\ unread' = unread \ {n}
       /\ paths' = IF directory[n].result THEN Append(paths, n) ELSE paths
  /\ UNCHANGED <<inputs, pc, err, status, sorted, records, disk>>

ReadEntry ==
  /\ pc = "scan"
  /\ \E n \in unread :
       /\ unread' = unread \ {n}
       /\ \/ /\ ~directory[n].result
             /\ UNCHANGED <<pc, err, paths>>
          \/ /\ directory[n].result /\ Len(paths) < MaxRecords
             /\ paths' = Append(paths, n)
             /\ UNCHANGED <<pc, err>>
          \/ /\ directory[n].result /\ Len(paths) = MaxRecords
             /\ err' = TRUE
             /\ pc' = "close"
             /\ UNCHANGED paths
  /\ UNCHANGED <<inputs, status, sorted, records, disk>>

EndOfDirectory ==
  /\ pc = "scan"
  /\ \/ unread = {} /\ UNCHANGED err
     \/ err' = TRUE
  /\ pc' = "close"
  /\ UNCHANGED <<inputs, status, unread, paths, sorted, records, disk>>

CloseDirectory ==
  /\ pc = "close"
  /\ \/ UNCHANGED err /\ pc' = "sort"
     \/ err' = TRUE /\ pc' = "report error"
  /\ UNCHANGED <<inputs, status, unread, paths, sorted, records, disk>>

\* Mutant: the first element is never compared.
SlotAfterFirst(s, i) == Max({1} \cup {j \in 1 .. i - 1 : s[j] <= s[i]})

\* How many of the elements before the i-th stay in front of it.
Slot(s, i) == Max({0} \cup {j \in 1 .. i - 1 : s[j] <= s[i]})

InsertPath(s, i) ==
  SubSeq(s, 1, Slot(s, i)) \o <<s[i]>> \o SubSeq(s, Slot(s, i) + 1, i - 1)
    \o SubSeq(s, i + 1, Len(s))

\* One turn of the insertion sort.
SortPaths ==
  /\ pc = "sort"
  /\ \/ /\ sorted < Len(paths)
        /\ paths' = InsertPath(paths, sorted + 1)
        /\ sorted' = sorted + 1
        /\ UNCHANGED pc
     \/ /\ sorted >= Len(paths)
        /\ pc' = "load"
        /\ UNCHANGED <<paths, sorted>>
  /\ UNCHANGED <<inputs, err, status, unread, records, disk>>

\* A result that is malformed or cannot be read ends the run; an error that
\* reads as the end of the line is noticed after the last one.
LoadResult ==
  /\ pc = "load" /\ Len(records) < Len(paths)
  /\ LET f == directory[paths[Len(records) + 1]] IN
     \/ /\ f.good
        /\ records' = Append(records, f)
        /\ \E fails \in BOOLEAN : err' = (err \/ fails)
        /\ UNCHANGED pc
     \/ /\ err' = TRUE
        /\ pc' = "report error"
        /\ UNCHANGED records
  /\ UNCHANGED <<inputs, status, unread, paths, sorted, disk>>

EndOfResults ==
  /\ pc = "load" /\ Len(records) = Len(paths)
  /\ pc' = IF err THEN "report error" ELSE "write"
  /\ UNCHANGED <<inputs, err, status, unread, paths, sorted, records, disk>>

\* Mutant: only a unit test that failed counts.
FailsOutright(r) == r.unit = "FAIL" \/ r.fuzz = "FAIL"

Fails(r) == r.unit \in {"FAIL", "MISSING"} \/ r.fuzz = "FAIL"

Passed == records # <<>> /\ \A i \in DOMAIN records : ~Fails(records[i])

\* The old receipt is truncated first; nothing is put back if a write fails.
WriteReceipt ==
  /\ pc = "write"
  /\ \/ /\ disk' = Whole(Passed, paths)
        /\ status' = IF Passed THEN 0 ELSE 1
        /\ UNCHANGED err
     \/ /\ disk' \in {disk, Partial, Whole(Passed, paths)}
        /\ err' = TRUE
        /\ UNCHANGED status
  /\ pc' = "report error"
  /\ UNCHANGED <<inputs, unread, paths, sorted, records>>

ReportError ==
  /\ pc = "report error"
  /\ status' = IF err THEN 2 ELSE status
  /\ pc' = "done"
  /\ UNCHANGED <<inputs, err, unread, paths, sorted, records, disk>>

Finished == pc = "done" /\ UNCHANGED vars

Next ==
  \/ ParseArguments \/ OpenDirectory \/ ReadEntry \/ EndOfDirectory \/ CloseDirectory
  \/ SortPaths \/ LoadResult \/ EndOfResults \/ WriteReceipt \/ ReportError \/ Finished

Spec == Init /\ [][Next]_vars

-----------------------------------------------------------------------------
(* Properties. *)

Results == {n \in DOMAIN directory : directory[n].result}

\* The types, and that no more paths are kept than the array holds.
TypeOK ==
  /\ request \in {"run", "help", "misuse"}
  /\ pc \in {"parse", "open", "scan", "close", "sort", "load", "write", "report error", "done"}
  /\ err \in BOOLEAN /\ status \in {0, 1, 2, Running}
  /\ unread \subseteq DOMAIN directory
  /\ paths \in Seq(Names) /\ Len(paths) <= MaxRecords
  /\ sorted \in Nat \ {0}
  /\ records \in Seq(File) /\ Len(records) <= Len(paths)
  /\ disk.kind \in {"old", "absent", "partial", "whole"}

\* With a verdict goes a receipt of this run that says the same and lists every
\* result of the directory once, in an order that readdir has no part in.
VerdictIsComplete ==
  pc = "done" /\ status # 2 /\ request = "run" =>
    /\ disk.kind = "whole" /\ disk.passed = (status = 0)
    /\ {disk.names[i] : i \in DOMAIN disk.names} = Results
    /\ \A i, j \in DOMAIN disk.names : i < j => disk.names[i] < disk.names[j]

\* A verdict is 0 exactly if there is a result and none of them, whatever files
\* stand beside them, says that a test failed or that a unit test is missing.  It
\* is not 1 for a missing fuzz target, nor for a text the tool does not know: a
\* test cut short is no failure to it unless its launcher calls it one.
VerdictIsEarned ==
  pc = "done" /\ request = "run" /\ status \in {0, 1} =>
    ( status = 0 <=>
        /\ Results # {}
        /\ \A n \in Results :
             /\ directory[n].unit # "FAIL" /\ directory[n].unit # "MISSING"
             /\ directory[n].fuzz # "FAIL" )
=============================================================================
