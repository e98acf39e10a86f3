----------------------- MODULE RepositoryReceiptProofs -----------------------
(***************************************************************************)
(* Proofs about RepositoryReceipt: for every directory, every order in      *)
(* which readdir gives its entries, every capacity and every failing call.  *)
(***************************************************************************)
EXTENDS RepositoryReceipt, SequenceTheorems, WellFoundedInduction, TLAPS

-----------------------------------------------------------------------------
(* Numbers: a set of them has a least, and one with a bound a greatest.      *)

Below == {p \in Nat \X Nat : p[1] < p[2]}

LEMMA Least ==
  ASSUME NEW S \in SUBSET Nat, S # {}
  PROVE  \E x \in S : \A y \in S : x <= y
<1>1. IsWellFoundedOn(Below, Nat)
  BY NatLessThanWellFounded DEF OpToRel, Below
<1>2. PICK x \in S : \A y \in S : ~ (<<y, x>> \in Below)
  BY <1>1, WFMin, Zenon
<1>3. ASSUME NEW y \in S PROVE x <= y
  <2>1. ~ (<<y, x>> \in Below)
    BY <1>2
  <2>2. ~ (y < x)
    BY <2>1, Zenon DEF Below
  <2> QED BY <2>2
<1> QED BY <1>3

LEMMA Greatest ==
  ASSUME NEW bound \in Nat, NEW S \in SUBSET (0 .. bound), S # {}
  PROVE  Max(S) \in S /\ \A y \in S : y <= Max(S)
<1> DEFINE Distances == {bound - y : y \in S}
<1>1. Distances # {}
  OBVIOUS
<1>2. Distances \in SUBSET Nat
  BY SMT
<1>3. PICK x \in Distances : \A y \in Distances : x <= y
  BY <1>1, <1>2, Least, Zenon
<1>4. PICK z \in S : x = bound - z
  BY <1>3
<1>5. \A y \in S : y <= z
  BY <1>3, <1>4
<1> QED BY <1>4, <1>5 DEF Max

-----------------------------------------------------------------------------
(* The insertion sort.                                                       *)

Distinct(s) == \A i, j \in DOMAIN s : s[i] = s[j] => i = j

InOrder(s, n) == \A i, j \in DOMAIN s : i < j /\ j <= n => s[i] < s[j]

Elements(s) == {s[i] : i \in DOMAIN s}

\* The slot of an element is behind all that are not greater, and these are the
\* ones in front of it when the elements before it are in order.
LEMMA SlotDivides ==
  ASSUME NEW s \in Seq(Nat), NEW i \in DOMAIN s, InOrder(s, i - 1), Distinct(s)
  PROVE  /\ Slot(s, i) \in 0 .. i - 1
         /\ \A j \in 1 .. i - 1 : j <= Slot(s, i) <=> s[j] < s[i]
<1> DEFINE Lower == {0} \cup {j \in 1 .. i - 1 : s[j] <= s[i]}
<1>0. i \in Nat /\ i >= 1 /\ i <= Len(s) /\ DOMAIN s = 1 .. Len(s) /\ Len(s) \in Nat
  OBVIOUS
<1>1. i - 1 \in Nat /\ Lower \in SUBSET (0 .. i - 1) /\ Lower # {}
  BY <1>0
<1>2. Max(Lower) \in Lower /\ \A y \in Lower : y <= Max(Lower)
  BY <1>1, Greatest, Zenon
<1>3. Slot(s, i) = Max(Lower)
  BY DEF Slot
<1> HIDE DEF Lower
<1>4. Slot(s, i) \in 0 .. i - 1
  BY <1>1, <1>2, <1>3
<1>5. ASSUME NEW j \in 1 .. i - 1
      PROVE  j <= Slot(s, i) <=> s[j] < s[i]
  <2>1. j \in DOMAIN s /\ j # i /\ s[j] # s[i] /\ s[j] \in Nat /\ s[i] \in Nat
    BY <1>0 DEF Distinct
  <2>2. ASSUME s[j] < s[i] PROVE j <= Slot(s, i)
    <3>1. j \in Lower
      BY <2>1, <2>2 DEF Lower
    <3> QED BY <1>2, <1>3, <3>1
  <2>3. ASSUME j <= Slot(s, i) PROVE s[j] < s[i]
    <3>1. Slot(s, i) \in 1 .. i - 1 /\ s[Slot(s, i)] <= s[i]
      BY <1>2, <1>3, <1>4, <2>3 DEF Lower
    <3>2. Slot(s, i) \in DOMAIN s /\ s[Slot(s, i)] \in Nat
      BY <3>1, <1>0
    <3>3. j = Slot(s, i) \/ s[j] < s[Slot(s, i)]
      BY <3>1, <3>2, <2>1, <2>3 DEF InOrder
    <3> QED BY <3>1, <3>2, <3>3, <2>1
  <2> QED BY <2>2, <2>3
<1> QED BY <1>4, <1>5

\* A part of a sequence, and where the elements of two joined sequences stand.
LEMMA Part ==
  ASSUME NEW s \in Seq(Nat), NEW m \in Nat, NEW n \in Nat, m <= n, n <= Len(s)
  PROVE  /\ SubSeq(s, m + 1, n) \in Seq(Nat)
         /\ Len(SubSeq(s, m + 1, n)) = n - m
         /\ \A i \in 1 .. n - m : SubSeq(s, m + 1, n)[i] = s[m + i]
<1> DEFINE first == m + 1
<1>1. first \in Int /\ n \in Int /\ \A i \in first .. n : s[i] \in Nat
  BY ElementOfSeq
<1>2. first = m + 1 /\ first <= n + 1
  OBVIOUS
<1> HIDE DEF first
<1>3. /\ SubSeq(s, first, n) \in Seq(Nat)
      /\ Len(SubSeq(s, first, n)) = IF first <= n THEN n - first + 1 ELSE 0
      /\ \A i \in 1 .. n - first + 1 : SubSeq(s, first, n)[i] = s[first + i - 1]
  BY <1>1, SubSeqProperties
<1>4. n - first + 1 = n - m /\ \A i \in 1 .. n - m : first + i - 1 = m + i
  BY <1>2
<1>5. Len(SubSeq(s, first, n)) = n - m
  BY <1>2, <1>3
<1>6. \A i \in 1 .. n - m : SubSeq(s, first, n)[i] = s[m + i]
  BY <1>3, <1>4
<1> QED BY <1>2, <1>3, <1>5, <1>6

LEMMA Joined ==
  ASSUME NEW a \in Seq(Nat), NEW b \in Seq(Nat)
  PROVE  /\ a \o b \in Seq(Nat) /\ Len(a \o b) = Len(a) + Len(b)
         /\ \A m \in 1 .. Len(a) : (a \o b)[m] = a[m]
         /\ \A m \in 1 .. Len(b) : (a \o b)[Len(a) + m] = b[m]
<1>1. /\ a \o b \in Seq(Nat) /\ Len(a \o b) = Len(a) + Len(b)
      /\ \A m \in 1 .. Len(a) + Len(b) :
           (a \o b)[m] = IF m <= Len(a) THEN a[m] ELSE b[m - Len(a)]
  BY ConcatProperties
<1>2. Len(a) \in Nat /\ Len(b) \in Nat
  OBVIOUS
<1>3. ASSUME NEW m \in 1 .. Len(a) PROVE (a \o b)[m] = a[m]
  BY <1>1, <1>2
<1>4. ASSUME NEW m \in 1 .. Len(b) PROVE (a \o b)[Len(a) + m] = b[m]
  <2>1. Len(a) + m \in 1 .. Len(a) + Len(b) /\ ~ (Len(a) + m <= Len(a))
        /\ (Len(a) + m) - Len(a) = m
    BY <1>2
  <2> QED BY <1>1, <2>1
<1> QED BY <1>1, <1>3, <1>4

\* Where each element stands after a turn of the sort.
LEMMA InsertPlaces ==
  ASSUME NEW s \in Seq(Nat), NEW i \in DOMAIN s, NEW k \in 0 .. i - 1, k = Slot(s, i)
  PROVE  /\ InsertPath(s, i) \in Seq(Nat)
         /\ Len(InsertPath(s, i)) = Len(s)
         /\ \A m \in 1 .. k : InsertPath(s, i)[m] = s[m]
         /\ InsertPath(s, i)[k + 1] = s[i]
         /\ \A m \in 1 .. i - 1 - k : InsertPath(s, i)[k + 1 + m] = s[k + m]
         /\ \A m \in 1 .. Len(s) - i : InsertPath(s, i)[i + m] = s[i + m]
<1>0. /\ i \in Nat /\ i >= 1 /\ i <= Len(s) /\ DOMAIN s = 1 .. Len(s) /\ Len(s) \in Nat
      /\ k \in Nat /\ k <= i - 1 /\ i - 1 \in Nat /\ i - 1 - k \in Nat /\ Len(s) - i \in Nat
      /\ s[i] \in Nat
  OBVIOUS
<1> DEFINE a == SubSeq(s, 1, k)
           b == <<s[i]>>
           c == SubSeq(s, k + 1, i - 1)
           d == SubSeq(s, i + 1, Len(s))
           t == a \o b \o c \o d
<1>1. a \in Seq(Nat) /\ Len(a) = k /\ \A m \in 1 .. k : a[m] = s[m]
  <2>1. 0 \in Nat /\ 0 <= k /\ k <= Len(s) /\ 0 + 1 = 1 /\ k - 0 = k /\ \A m \in 1 .. k : 0 + m = m
    BY <1>0
  <2>2. /\ SubSeq(s, 0 + 1, k) \in Seq(Nat)
        /\ Len(SubSeq(s, 0 + 1, k)) = k - 0
        /\ \A m \in 1 .. k - 0 : SubSeq(s, 0 + 1, k)[m] = s[0 + m]
    BY <2>1, Part, SMT
  <2> QED BY <2>1, <2>2
<1>2. b \in Seq(Nat) /\ Len(b) = 1 /\ b[1] = s[i]
  BY <1>0
<1>3. c \in Seq(Nat) /\ Len(c) = i - 1 - k /\ \A m \in 1 .. i - 1 - k : c[m] = s[k + m]
  <2>1. i - 1 <= Len(s)
    BY <1>0
  <2> QED BY <1>0, <2>1, Part, Zenon
<1>4. d \in Seq(Nat) /\ Len(d) = Len(s) - i /\ \A m \in 1 .. Len(s) - i : d[m] = s[i + m]
  <2>1. Len(s) <= Len(s)
    BY <1>0
  <2> QED BY <1>0, <2>1, Part, Zenon
<1>5. InsertPath(s, i) = t
  BY DEF InsertPath
<1> HIDE DEF a, b, c, d
<1>6. /\ a \o b \in Seq(Nat) /\ Len(a \o b) = k + 1
      /\ \A m \in 1 .. k : (a \o b)[m] = s[m]
      /\ (a \o b)[k + 1] = s[i]
  <2>1. /\ a \o b \in Seq(Nat) /\ Len(a \o b) = Len(a) + Len(b)
        /\ \A m \in 1 .. Len(a) : (a \o b)[m] = a[m]
        /\ \A m \in 1 .. Len(b) : (a \o b)[Len(a) + m] = b[m]
    BY <1>1, <1>2, Joined, Zenon
  <2>2. (a \o b)[k + 1] = b[1]
    BY <1>1, <1>2, <2>1
  <2> QED BY <1>1, <1>2, <2>1, <2>2
<1>7. /\ a \o b \o c \in Seq(Nat) /\ Len(a \o b \o c) = i
      /\ \A m \in 1 .. k + 1 : (a \o b \o c)[m] = (a \o b)[m]
      /\ \A m \in 1 .. i - 1 - k : (a \o b \o c)[k + 1 + m] = s[k + m]
  <2>1. /\ a \o b \o c \in Seq(Nat) /\ Len(a \o b \o c) = Len(a \o b) + Len(c)
        /\ \A m \in 1 .. Len(a \o b) : (a \o b \o c)[m] = (a \o b)[m]
        /\ \A m \in 1 .. Len(c) : (a \o b \o c)[Len(a \o b) + m] = c[m]
    BY <1>3, <1>6, Joined, Zenon
  <2>2. (k + 1) + (i - 1 - k) = i
    BY <1>0
  <2> QED BY <1>3, <1>6, <2>1, <2>2
<1>8. /\ t \in Seq(Nat) /\ Len(t) = Len(s)
      /\ \A m \in 1 .. i : t[m] = (a \o b \o c)[m]
      /\ \A m \in 1 .. Len(s) - i : t[i + m] = s[i + m]
  <2>1. /\ t \in Seq(Nat) /\ Len(t) = Len(a \o b \o c) + Len(d)
        /\ \A m \in 1 .. Len(a \o b \o c) : t[m] = (a \o b \o c)[m]
        /\ \A m \in 1 .. Len(d) : t[Len(a \o b \o c) + m] = d[m]
    BY <1>4, <1>7, Joined, Zenon
  <2>2. i + (Len(s) - i) = Len(s)
    BY <1>0
  <2> QED BY <1>4, <1>7, <2>1, <2>2
<1> HIDE DEF t
<1>9. ASSUME NEW m \in 1 .. k PROVE t[m] = s[m]
  <2>1. i \in Nat /\ k \in Nat /\ k <= i /\ m \in Nat /\ 1 <= m /\ m <= k
    BY <1>0
  <2>2. m \in 1 .. k + 1 /\ m \in 1 .. i
    BY ONLY <2>1
  <2> QED BY <1>6, <1>7, <1>8, <2>2
<1>10. t[k + 1] = s[i]
  <2>1. k + 1 \in 1 .. k + 1 /\ k + 1 \in 1 .. i
    BY <1>0
  <2> QED BY <1>6, <1>7, <1>8, <2>1
<1>11. ASSUME NEW m \in 1 .. i - 1 - k
       PROVE  t[k + 1 + m] = s[k + m]
  <2>1. k + 1 + m \in 1 .. i
    BY <1>0, SMTT(20)
  <2> QED BY <1>7, <1>8, <2>1
<1> QED BY <1>5, <1>8, <1>9, <1>10, <1>11

\* A turn of the sort keeps the elements and puts one more of them in order.
LEMMA InsertKeeps ==
  ASSUME NEW s \in Seq(Nat), NEW i \in DOMAIN s, InOrder(s, i - 1), Distinct(s)
  PROVE  /\ InsertPath(s, i) \in Seq(Nat)
         /\ Len(InsertPath(s, i)) = Len(s)
         /\ Elements(InsertPath(s, i)) = Elements(s)
         /\ Distinct(InsertPath(s, i))
         /\ InOrder(InsertPath(s, i), i)
<1> DEFINE t == InsertPath(s, i)
           k == Slot(s, i)
           From(m) == IF m <= k THEN m ELSE IF m = k + 1 THEN i ELSE IF m <= i THEN m - 1 ELSE m
<1>0. /\ i \in Nat /\ i >= 1 /\ i <= Len(s) /\ DOMAIN s = 1 .. Len(s) /\ Len(s) \in Nat
      /\ \A m \in 1 .. Len(s) : s[m] \in Nat
  OBVIOUS
<1>1. k \in 0 .. i - 1 /\ \A j \in 1 .. i - 1 : j <= k <=> s[j] < s[i]
  BY SlotDivides
<1>2. /\ t \in Seq(Nat) /\ Len(t) = Len(s)
      /\ \A m \in 1 .. k : t[m] = s[m]
      /\ t[k + 1] = s[i]
      /\ \A m \in 1 .. i - 1 - k : t[k + 1 + m] = s[k + m]
      /\ \A m \in 1 .. Len(s) - i : t[i + m] = s[i + m]
  BY <1>1, InsertPlaces
<1>3. DOMAIN t = 1 .. Len(s)
  BY <1>2
<1> HIDE DEF t, k
<1>4. k \in Nat /\ k <= i - 1
  BY <1>0, <1>1
<1>5. ASSUME NEW m \in 1 .. Len(s)
      PROVE  From(m) \in 1 .. Len(s) /\ t[m] = s[From(m)]
  <2>1. CASE m <= k
    <3>1. m \in 1 .. k
      BY <2>1, <1>4
    <3> QED BY <1>2, <2>1, <3>1
  <2>2. CASE m = k + 1
    BY <1>0, <1>2, <1>4, <2>2
  <2>3. CASE m > k + 1 /\ m <= i
    <3>1. /\ m - 1 - k \in 1 .. i - 1 - k /\ k + 1 + (m - 1 - k) = m
          /\ k + (m - 1 - k) = m - 1 /\ m - 1 \in 1 .. Len(s)
      BY <1>0, <1>4, <2>3
    <3>2. t[m] = s[m - 1]
      BY <1>2, <3>1
    <3>3. ~ (m <= k) /\ m # k + 1 /\ m <= i
      BY <1>0, <1>4, <2>3
    <3>4. From(m) = m - 1
      BY <3>3, Zenon
    <3> HIDE DEF From
    <3> QED BY <3>1, <3>2, <3>4
  <2>4. CASE m > i
    <3>1. m - i \in 1 .. Len(s) - i /\ i + (m - i) = m
      BY <1>0, <2>4
    <3>2. t[m] = s[m]
      BY <1>2, <3>1
    <3>3. From(m) = m
      BY <1>0, <1>4, <2>4
    <3> HIDE DEF From
    <3> QED BY <3>2, <3>3
  <2> QED BY <1>0, <1>4, <2>1, <2>2, <2>3, <2>4
<1>6. ASSUME NEW m \in 1 .. Len(s)
      PROVE  \E j \in 1 .. Len(s) : From(j) = m
  <2>1. CASE m <= k
    BY <2>1
  <2>2. CASE m = i
    <3>1. k + 1 \in 1 .. Len(s) /\ From(k + 1) = m
      BY <1>0, <1>4, <2>2
    <3> QED BY <3>1
  <2>3. CASE k < m /\ m < i
    <3>1. m + 1 \in 1 .. Len(s) /\ From(m + 1) = m
      BY <1>0, <1>4, <2>3
    <3> QED BY <3>1
  <2>4. CASE m > i
    <3>1. From(m) = m
      BY <1>0, <1>4, <2>4
    <3> QED BY <3>1
  <2> QED BY <1>0, <1>4, <2>1, <2>2, <2>3, <2>4
<1>7. Elements(t) = Elements(s)
  <2> HIDE DEF From
  <2>1. ASSUME NEW e \in Elements(t) PROVE e \in Elements(s)
    BY <1>0, <1>3, <1>5 DEF Elements
  <2>2. ASSUME NEW e \in Elements(s) PROVE e \in Elements(t)
    <3>1. PICK m \in 1 .. Len(s) : e = s[m]
      BY <1>0 DEF Elements
    <3>2. PICK j \in 1 .. Len(s) : From(j) = m
      BY <1>6
    <3>3. t[j] = e
      BY <1>5, <3>1, <3>2
    <3> QED BY <1>3, <3>3 DEF Elements
  <2> QED BY <2>1, <2>2
<1>8. Distinct(t)
  <2> SUFFICES ASSUME NEW m \in 1 .. Len(s), NEW n \in 1 .. Len(s), t[m] = t[n]
               PROVE  m = n
    BY <1>3 DEF Distinct
  <2>1. From(m) = From(n)
    <3>1. From(m) \in 1 .. Len(s) /\ From(n) \in 1 .. Len(s) /\ s[From(m)] = s[From(n)]
      BY <1>5
    <3> HIDE DEF From
    <3> QED BY <1>0, <3>1 DEF Distinct
  <2>2. m \in Int /\ n \in Int /\ i \in Int /\ k \in Int /\ k <= i - 1
    BY <1>0, <1>4
  <2> QED BY ONLY <2>1, <2>2
<1>9. InOrder(t, i)
  <2> SUFFICES ASSUME NEW m \in 1 .. Len(s), NEW n \in 1 .. Len(s), m < n, n <= i
               PROVE  t[m] < t[n]
    BY <1>3 DEF InOrder
  <2>1. ASSUME NEW p \in 1 .. Len(s), NEW q \in 1 .. Len(s), p < q, q <= i - 1
        PROVE  s[p] < s[q]
    BY <1>0, <2>1 DEF InOrder
  <2>2. t[m] = s[From(m)] /\ t[n] = s[From(n)] /\ From(m) \in 1 .. Len(s) /\ From(n) \in 1 .. Len(s)
    BY <1>5
  <2>3. CASE m <= k /\ n = k + 1
    <3>1. From(m) = m /\ From(n) = i /\ m \in 1 .. i - 1
      BY <1>0, <1>4, <2>3
    <3> QED BY <1>1, <2>2, <2>3, <3>1
  <2>4. CASE m = k + 1
    <3>1. n > k + 1 /\ n - 1 \in 1 .. i - 1 /\ ~ (n - 1 <= k) /\ n - 1 # i
      BY <1>0, <1>4, <2>4
    <3>2. From(m) = i
      BY <1>4, <2>4
    <3>3. From(n) = n - 1
      <4>1. ~ (n <= k) /\ n # k + 1 /\ n <= i
        BY <1>0, <1>4, <3>1
      <4> QED BY <4>1, Zenon
    <3> HIDE DEF From
    <3>4. ~ (s[n - 1] < s[i])
      BY <1>1, <3>1
    <3>5. n - 1 \in 1 .. Len(s) /\ i \in 1 .. Len(s)
      BY <1>0, <3>1
    <3>6. s[n - 1] # s[i] /\ s[n - 1] \in Nat /\ s[i] \in Nat
      BY <1>0, <3>1, <3>5 DEF Distinct
    <3> QED BY <2>2, <3>2, <3>3, <3>4, <3>6
  <2>5. CASE m # k + 1 /\ n # k + 1
    <3>1. From(m) < From(n) /\ From(n) <= i - 1
      BY <1>0, <1>4, <2>5
    <3> HIDE DEF From
    <3> QED BY <2>1, <2>2, <3>1
  <2>6. CASE m > k + 1 /\ n = k + 1
    BY <1>4, <2>6
  <2> QED BY <1>0, <1>4, <2>3, <2>4, <2>5, <2>6
<1> QED BY <1>2, <1>7, <1>8, <1>9 DEF t

-----------------------------------------------------------------------------
(* The inductive invariant.                                                  *)

Scanning == {"parse", "open", "scan"}

\* A run is at work from the scan to the receipt.
Working == {"open", "scan", "close", "sort", "load", "write"}

Typed ==
  /\ request \in {"run", "help", "misuse"} /\ directory \in Directories
  /\ pc \in {"parse", "report error", "done"} \cup Working
  /\ err \in BOOLEAN /\ status \in {0, 1, 2, Running}
  /\ unread \subseteq DOMAIN directory
  /\ paths \in Seq(Nat) /\ Len(paths) <= MaxRecords
  /\ sorted \in Nat /\ sorted >= 1
  /\ records \in Seq(File) /\ Len(records) <= Len(paths)
  /\ disk.kind \in {"old", "absent", "partial", "whole"}

\* The results that were seen are kept, each once; after a scan without an error
\* they are all the results there are.
Collected ==
  /\ Elements(paths) \subseteq Results /\ Distinct(paths)
  /\ pc \in Scanning => Elements(paths) = Results \ unread
  /\ pc \in {"close", "sort", "load", "write"} => err \/ Elements(paths) = Results

\* So far sorted, and to the end before anything is loaded.
Sorted ==
  /\ InOrder(paths, sorted)
  /\ pc \in Scanning \cup {"close"} => sorted = 1
  /\ pc \in {"load", "write"} => sorted >= Len(paths)

\* Each record is that of the path at its place, and only a load that is
\* complete and free of errors reaches the receipt.
Loaded ==
  /\ \A i \in DOMAIN records : records[i] = directory[paths[i]]
  /\ pc \in Scanning \cup {"close", "sort"} => records = <<>>
  /\ pc = "write" => ~err /\ Len(records) = Len(paths)

\* What a verdict stands on.
Judged ==
  /\ status = (IF Passed THEN 0 ELSE 1)
  /\ disk = Whole(Passed, paths)
  /\ Elements(paths) = Results /\ sorted >= Len(paths) /\ Len(records) = Len(paths)

Answered ==
  /\ pc = "parse" => status = Running
  /\ pc \in Working => status = 2 /\ request = "run"
  /\ pc = "report error" /\ request = "run" => err \/ Judged
  /\ pc = "done" /\ request = "run" => status = 2 \/ Judged

IInv == Typed /\ Collected /\ Sorted /\ Loaded /\ Answered

-----------------------------------------------------------------------------
(* Lemmas about the sequences of the state.                                  *)

LEMMA Grown ==
  ASSUME NEW S, NEW s \in Seq(S), NEW e \in S
  PROVE  /\ Append(s, e) \in Seq(S) /\ Len(Append(s, e)) = Len(s) + 1
         /\ DOMAIN Append(s, e) = DOMAIN s \cup {Len(s) + 1}
         /\ \A i \in DOMAIN s : Append(s, e)[i] = s[i]
         /\ Append(s, e)[Len(s) + 1] = e
         /\ Len(s) + 1 \notin DOMAIN s
OBVIOUS

LEMMA GrownPaths ==
  ASSUME NEW s \in Seq(Nat), NEW e \in Nat, Distinct(s), e \notin Elements(s)
  PROVE  /\ Elements(Append(s, e)) = Elements(s) \cup {e}
         /\ Distinct(Append(s, e))
<1>1. /\ DOMAIN Append(s, e) = DOMAIN s \cup {Len(s) + 1}
      /\ \A i \in DOMAIN s : Append(s, e)[i] = s[i]
      /\ Append(s, e)[Len(s) + 1] = e
      /\ Len(s) + 1 \notin DOMAIN s
  BY Grown
<1>2. Elements(Append(s, e)) = Elements(s) \cup {e}
  BY <1>1, Zenon DEF Elements
<1>3. Distinct(Append(s, e))
  BY <1>1, Zenon DEF Distinct, Elements
<1> QED BY <1>2, <1>3

LEMMA MadeOf ==
  ASSUME NEW S, NEW s \in Seq(Nat), Elements(s) \subseteq S
  PROVE  s \in Seq(S)
<1>1. s \in [1 .. Len(s) -> Nat] /\ DOMAIN s = 1 .. Len(s) /\ Len(s) \in Nat
  OBVIOUS
<1>2. s \in [1 .. Len(s) -> S]
  BY <1>1 DEF Elements
<1> QED BY <1>1, <1>2, SeqDef

LEMMA Lengths ==
  ASSUME IInv
  PROVE  /\ Len(paths) \in Nat /\ DOMAIN paths = 1 .. Len(paths)
         /\ Len(records) \in Nat /\ DOMAIN records = 1 .. Len(records)
<1>1. paths \in Seq(Nat) /\ records \in Seq(File)
  BY DEF IInv, Typed
<1> QED BY <1>1, LenProperties, Zenon

LEMMA NamesAreNumbers ==
  ASSUME IInv
  PROVE  DOMAIN directory \subseteq Names /\ DOMAIN directory \subseteq Nat
BY ConstantsOK DEF IInv, Typed

LEMMA SamePassed == UNCHANGED records => Passed' = Passed
BY DEF Passed

-----------------------------------------------------------------------------
(* Every step keeps the invariant.                                           *)

LEMMA InitEstablishes == Init => IInv
<1> SUFFICES ASSUME Init PROVE IInv
    OBVIOUS
<1> USE DEF Init
<1>1. Typed
  <2>1. directory \in Directories /\ unread \subseteq DOMAIN directory
    OBVIOUS
  <2>2. /\ paths \in Seq(Nat) /\ Len(paths) = 0
        /\ records \in Seq(File) /\ Len(records) = 0
    OBVIOUS
  <2>3. Len(paths) <= MaxRecords /\ Len(records) <= Len(paths)
    BY <2>2, ConstantsOK
  <2>4. disk.kind \in {"old", "absent", "partial", "whole"}
    BY DEF Old, Absent
  <2>5. /\ request \in {"run", "help", "misuse"}
        /\ pc \in {"parse", "report error", "done"} \cup Working
        /\ err \in BOOLEAN /\ status \in {0, 1, 2, Running}
    OBVIOUS
  <2>6. sorted \in Nat /\ sorted >= 1
    OBVIOUS
  <2> QED BY <2>1, <2>2, <2>3, <2>4, <2>5, <2>6 DEF Typed
<1>2. Collected
  <2>1. Elements(paths) = {} /\ Distinct(paths)
    BY DEF Elements, Distinct
  <2>2. Results \subseteq unread
    BY DEF Results
  <2> QED BY <2>1, <2>2 DEF Collected
<1>3. Sorted
  BY DEF Sorted, InOrder, Scanning
<1>4. Loaded
  BY DEF Loaded
<1>5. Answered
  BY DEF Answered, Working
<1> QED BY <1>1, <1>2, <1>3, <1>4, <1>5 DEF IInv

\* What the scan keeps besides the answer.
LEMMA ReadEntryPreserves ==
  ASSUME IInv, ReadEntry
  PROVE  IInv'
<1> USE DEF IInv, inputs
<1>1. PICK n \in unread :
        /\ unread' = unread \ {n}
        /\ \/ /\ ~directory[n].result
              /\ UNCHANGED <<pc, err, paths>>
           \/ /\ directory[n].result /\ Len(paths) < MaxRecords
              /\ paths' = Append(paths, n)
              /\ UNCHANGED <<pc, err>>
           \/ /\ directory[n].result /\ Len(paths) = MaxRecords
              /\ err' = TRUE
              /\ pc' = "close"
              /\ UNCHANGED paths
  BY DEF ReadEntry
<1>2. pc = "scan" /\ UNCHANGED <<inputs, status, sorted, records, disk>>
  BY DEF ReadEntry
<1>3. n \in DOMAIN directory /\ n \in Nat /\ unread \subseteq DOMAIN directory
  BY NamesAreNumbers DEF Typed
<1>4. /\ Elements(paths) = Results \ unread /\ Elements(paths) \subseteq Results /\ Distinct(paths)
      /\ paths \in Seq(Nat) /\ sorted = 1 /\ records = <<>> /\ status = 2 /\ request = "run"
      /\ Len(paths) <= MaxRecords
  BY <1>2 DEF Collected, Sorted, Loaded, Scanning, Answered, Working, Typed
<1>5. Results' = Results
  BY <1>2 DEF Results
<1>6. CASE ~directory[n].result /\ UNCHANGED <<pc, err, paths>>
  <2>1. Elements(paths') = Results \ unread'
    BY <1>1, <1>3, <1>4, <1>6 DEF Results
  <2>2. Typed'
    BY <1>1, <1>2, <1>3, <1>6 DEF Typed
  <2>3. Collected'
    BY <1>2, <1>4, <1>5, <1>6, <2>1 DEF Collected
  <2>4. Sorted' /\ Loaded' /\ Answered'
    BY <1>2, <1>4, <1>6 DEF Sorted, Loaded, Answered, InOrder, Scanning, Working
  <2> QED BY <2>2, <2>3, <2>4
<1>7. CASE directory[n].result /\ Len(paths) < MaxRecords /\ paths' = Append(paths, n)
           /\ UNCHANGED <<pc, err>>
  <2>1. n \notin Elements(paths) /\ n \in Results
    BY <1>3, <1>4, <1>7 DEF Results
  <2>2. Elements(paths') = Elements(paths) \cup {n} /\ Distinct(paths')
    BY <1>3, <1>4, <1>7, <2>1, GrownPaths
  <2>3. paths' \in Seq(Nat) /\ Len(paths') = Len(paths) + 1
    BY <1>3, <1>4, <1>7
  <2>4. Typed'
    <3>1. Len(paths') <= MaxRecords
      BY <1>4, <1>7, <2>3, ConstantsOK
    <3>2. Len(records') = 0 /\ 0 <= Len(paths')
      BY <1>2, <1>4, <2>3
    <3> QED BY <1>1, <1>2, <1>3, <1>7, <2>3, <3>1, <3>2 DEF Typed
  <2>5. Collected'
    <3>1. Elements(paths') = Results \ unread'
      BY <1>1, <1>4, <2>1, <2>2
    <3> QED BY <1>2, <1>4, <1>5, <1>7, <2>1, <2>2, <3>1 DEF Collected
  <2>6. InOrder(paths', 1)
    BY <2>3 DEF InOrder
  <2>7. Sorted' /\ Loaded' /\ Answered'
    BY <1>2, <1>4, <1>7, <2>6 DEF Sorted, Loaded, Answered, Scanning, Working
  <2> QED BY <2>4, <2>5, <2>7
<1>8. CASE directory[n].result /\ Len(paths) = MaxRecords /\ err' = TRUE /\ pc' = "close"
           /\ UNCHANGED paths
  <2>1. Typed'
    BY <1>1, <1>2, <1>3, <1>8 DEF Typed, Working
  <2>2. Collected'
    BY <1>2, <1>4, <1>5, <1>8 DEF Collected, Scanning
  <2>3. Sorted' /\ Loaded' /\ Answered'
    BY <1>2, <1>4, <1>8 DEF Sorted, Loaded, Answered, InOrder, Scanning, Working
  <2> QED BY <2>1, <2>2, <2>3
<1> QED BY <1>1, <1>6, <1>7, <1>8

\* A turn of the sort.
LEMMA SortPathsPreserves ==
  ASSUME IInv, SortPaths
  PROVE  IInv'
<1> USE DEF IInv, inputs
<1>1. pc = "sort" /\ UNCHANGED <<inputs, err, status, unread, records, disk>>
  BY DEF SortPaths
<1>2. /\ paths \in Seq(Nat) /\ sorted \in Nat /\ sorted >= 1 /\ records = <<>>
      /\ Elements(paths) \subseteq Results /\ Distinct(paths) /\ InOrder(paths, sorted)
      /\ err \/ Elements(paths) = Results
      /\ status = 2 /\ request = "run"
  BY <1>1 DEF Typed, Loaded, Collected, Sorted, Answered, Working
<1>3. Results' = Results
  BY <1>1 DEF Results
<1>4. CASE /\ sorted < Len(paths) /\ paths' = InsertPath(paths, sorted + 1)
           /\ sorted' = sorted + 1 /\ UNCHANGED pc
  <2>1. sorted + 1 \in DOMAIN paths /\ (sorted + 1) - 1 = sorted
    BY <1>2, <1>4
  <2>2. InOrder(paths, (sorted + 1) - 1)
    BY <1>2, <2>1
  <2>3. /\ paths' \in Seq(Nat) /\ Len(paths') = Len(paths)
        /\ Elements(paths') = Elements(paths)
        /\ Distinct(paths') /\ InOrder(paths', sorted + 1)
    BY <1>2, <1>4, <2>1, <2>2, InsertKeeps
  <2>4. Typed'
    BY <1>1, <1>2, <1>4, <2>3 DEF Typed
  <2>5. Collected'
    BY <1>1, <1>2, <1>3, <1>4, <2>3 DEF Collected, Scanning
  <2>6. Sorted' /\ Loaded' /\ Answered'
    BY <1>1, <1>2, <1>4, <2>3 DEF Sorted, Loaded, Answered, Scanning, Working
  <2> QED BY <2>4, <2>5, <2>6
<1>5. CASE sorted >= Len(paths) /\ pc' = "load" /\ UNCHANGED <<paths, sorted>>
  <2>1. Typed'
    BY <1>1, <1>5 DEF Typed, Working
  <2>2. Collected'
    BY <1>1, <1>2, <1>3, <1>5 DEF Collected, Scanning
  <2>3. Sorted' /\ Loaded' /\ Answered'
    BY <1>1, <1>2, <1>5 DEF Sorted, Loaded, Answered, Scanning, Working
  <2> QED BY <2>1, <2>2, <2>3
<1> QED BY <1>1, <1>4, <1>5 DEF SortPaths

\* One more result is loaded, or the load ends.
LEMMA LoadResultPreserves ==
  ASSUME IInv, LoadResult
  PROVE  IInv'
<1> USE DEF IInv, inputs
<1> DEFINE f == directory[paths[Len(records) + 1]]
<1>1. /\ pc = "load" /\ Len(records) < Len(paths)
      /\ UNCHANGED <<inputs, status, unread, paths, sorted, disk>>
      /\ \/ /\ records' = Append(records, f) /\ err' \in {err, TRUE} /\ UNCHANGED pc
         \/ err' = TRUE /\ pc' = "report error" /\ UNCHANGED records
  BY DEF LoadResult, Typed
<1>2. /\ paths \in Seq(Nat) /\ records \in Seq(File) /\ Elements(paths) \subseteq Results
      /\ err \in BOOLEAN
  BY DEF Typed, Collected
<1>3. f \in File
  <2>1. paths[Len(records) + 1] \in Elements(paths)
    <3>1. Len(records) \in Nat /\ Len(paths) \in Nat /\ DOMAIN paths = 1 .. Len(paths)
      BY Lengths, Zenon
    <3>2. Len(records) < Len(paths)
      BY <1>1
    <3> HIDE DEF IInv
    <3>3. Len(records) + 1 \in 1 .. Len(paths)
      BY ONLY <3>1, <3>2
    <3> QED BY ONLY <3>1, <3>3 DEF Elements
  <2>2. paths[Len(records) + 1] \in DOMAIN directory /\ directory \in Directories
    BY <1>2, <2>1 DEF Results, Typed
  <2> QED BY <2>2, ConstantsOK
<1> HIDE DEF f
<1>4. Results' = Results
  BY <1>1 DEF Results
<1>5. CASE records' = Append(records, f) /\ err' \in {err, TRUE} /\ UNCHANGED pc
  <2>1. /\ records' \in Seq(File) /\ Len(records') = Len(records) + 1
        /\ DOMAIN records' = DOMAIN records \cup {Len(records) + 1}
        /\ \A i \in DOMAIN records : records'[i] = records[i]
        /\ records'[Len(records) + 1] = f
    BY <1>2, <1>3, <1>5, Grown
  <2>2. Len(records') <= Len(paths')
    <3>1. Len(records) \in Nat /\ Len(paths) \in Nat /\ paths' = paths
      BY <1>1, Lengths
    <3>2. Len(records) < Len(paths) /\ Len(records') = Len(records) + 1
      BY <1>1, <2>1
    <3> QED BY <3>1, <3>2
  <2>3. Typed'
    BY <1>1, <1>2, <1>5, <2>1, <2>2 DEF Typed
  <2>4. Collected'
    BY <1>1, <1>4, <1>5 DEF Collected, Scanning
  <2>5. Sorted' /\ Answered'
    BY <1>1, <1>5 DEF Sorted, Answered, Scanning, Working
  <2>6. Loaded'
    BY <1>1, <1>5, <2>1 DEF Loaded, Scanning, f
  <2> QED BY <2>3, <2>4, <2>5, <2>6
<1>6. CASE err' = TRUE /\ pc' = "report error" /\ UNCHANGED records
  <2>1. Typed'
    BY <1>1, <1>6 DEF Typed
  <2>2. Collected'
    BY <1>1, <1>4, <1>6 DEF Collected, Scanning
  <2>3. Sorted' /\ Loaded' /\ Answered'
    BY <1>1, <1>6 DEF Sorted, Loaded, Answered, Scanning, Working
  <2> QED BY <2>1, <2>2, <2>3
<1> QED BY <1>1, <1>5, <1>6

LEMMA WriteReceiptPreserves ==
  ASSUME IInv, WriteReceipt
  PROVE  IInv'
<1> USE DEF IInv, inputs
<1>1. /\ pc = "write" /\ pc' = "report error"
      /\ UNCHANGED <<inputs, unread, paths, sorted, records>>
  BY DEF WriteReceipt
<1>2. Results' = Results /\ Passed' = Passed
  BY <1>1, SamePassed DEF Results
<1>3. /\ ~err /\ Len(records) = Len(paths) /\ Elements(paths) = Results
      /\ sorted >= Len(paths) /\ status = 2
  BY <1>1 DEF Loaded, Collected, Sorted, Answered, Working
<1>4. Collected' /\ Sorted' /\ Loaded'
  BY <1>1, <1>2 DEF Collected, Sorted, Loaded, Scanning
<1>5. CASE /\ disk' = Whole(Passed, paths) /\ status' = (IF Passed THEN 0 ELSE 1)
           /\ UNCHANGED err
  <2>1. Typed'
    BY <1>1, <1>5 DEF Typed, Whole
  <2>2. Judged'
    BY <1>1, <1>2, <1>3, <1>5 DEF Judged, Whole
  <2>3. Answered'
    BY <1>1, <1>3, <2>2 DEF Answered, Working
  <2> QED BY <1>4, <2>1, <2>3
<1>6. CASE /\ disk' \in {disk, Partial, Whole(Passed, paths)} /\ err' = TRUE
           /\ UNCHANGED status
  <2>3. disk'.kind \in {"old", "absent", "partial", "whole"}
    <3>1. disk.kind \in {"old", "absent", "partial", "whole"}
      BY DEF Typed
    <3>2. Partial.kind = "partial" /\ Whole(Passed, paths).kind = "whole"
      BY DEF Whole, Partial
    <3> QED BY <1>6, <3>1, <3>2
  <2>1. Typed'
    BY <1>1, <1>6, <2>3 DEF Typed
  <2>2. Answered'
    BY <1>1, <1>6 DEF Answered, Working
  <2> QED BY <1>4, <2>1, <2>2
<1> QED BY <1>5, <1>6 DEF WriteReceipt

LEMMA ReportErrorPreserves ==
  ASSUME IInv, ReportError
  PROVE  IInv'
<1> USE DEF IInv, inputs
<1>1. /\ pc = "report error" /\ pc' = "done"
      /\ status' = (IF err THEN 2 ELSE status)
      /\ UNCHANGED <<inputs, err, unread, paths, sorted, records, disk>>
  BY DEF ReportError
<1>2. Results' = Results /\ Passed' = Passed
  BY <1>1, SamePassed DEF Results
<1>3. Collected' /\ Sorted' /\ Loaded'
  BY <1>1, <1>2 DEF Collected, Sorted, Loaded, Scanning
<1>4. Typed'
  BY <1>1 DEF Typed
<1>5. Judged /\ ~err => Judged'
  BY <1>1, <1>2 DEF Judged, Whole
<1>6. Answered'
  BY <1>1, <1>5 DEF Answered, Working, Typed
<1> QED BY <1>3, <1>4, <1>6

\* A step that touches neither what was collected nor the receipt.
Calls ==
  \/ ParseArguments \/ OpenDirectory \/ EndOfDirectory \/ CloseDirectory \/ EndOfResults

LEMMA CallsPreserve ==
  ASSUME IInv, Calls
  PROVE  IInv'
<1> USE DEF IInv, inputs
<1>1. UNCHANGED <<inputs, unread, paths, sorted, records, disk>>
  BY DEF Calls, ParseArguments, OpenDirectory, EndOfDirectory, CloseDirectory, EndOfResults
<1>2. Results' = Results
  BY <1>1 DEF Results
<1>3. CASE ParseArguments
  <2>1. pc = "parse" /\ err' \in BOOLEAN /\ pc' \in {"open", "report error"}
        /\ (pc' = "open" <=> request = "run") /\ status' \in {0, 2}
        /\ (request # "help" => status' = 2)
    BY <1>3 DEF ParseArguments
  <2>2. Typed'
    BY <1>1, <2>1 DEF Typed, Working
  <2>3. Collected' /\ Sorted' /\ Loaded'
    BY <1>1, <1>2, <2>1 DEF Collected, Sorted, Loaded, Scanning
  <2>4. Answered'
    BY <1>1, <2>1 DEF Answered, Working
  <2> QED BY <2>2, <2>3, <2>4
<1>4. CASE OpenDirectory
  <2>1. pc = "open" /\ UNCHANGED status
        /\ (\/ UNCHANGED err /\ pc' = "scan"
            \/ err' = TRUE /\ pc' = "report error")
    BY <1>4 DEF OpenDirectory
  <2>2. Typed'
    BY <1>1, <2>1 DEF Typed, Working
  <2>3. Collected' /\ Sorted' /\ Loaded'
    BY <1>1, <1>2, <2>1 DEF Collected, Sorted, Loaded, Scanning
  <2>4. Answered'
    BY <1>1, <2>1 DEF Answered, Working
  <2> QED BY <2>2, <2>3, <2>4
<1>5. CASE EndOfDirectory
  <2>1. pc = "scan" /\ UNCHANGED status /\ pc' = "close"
        /\ (\/ unread = {} /\ UNCHANGED err
            \/ err' = TRUE)
    BY <1>5 DEF EndOfDirectory
  <2>2. Typed'
    BY <1>1, <2>1 DEF Typed, Working
  <2>3. Collected' /\ Sorted' /\ Loaded'
    BY <1>1, <1>2, <2>1 DEF Collected, Sorted, Loaded, Scanning
  <2>4. Answered'
    BY <1>1, <2>1 DEF Answered, Working
  <2> QED BY <2>2, <2>3, <2>4
<1>6. CASE CloseDirectory
  <2>1. pc = "close" /\ UNCHANGED status
        /\ (\/ UNCHANGED err /\ pc' = "sort"
            \/ err' = TRUE /\ pc' = "report error")
    BY <1>6 DEF CloseDirectory
  <2>2. Typed'
    BY <1>1, <2>1 DEF Typed, Working
  <2>3. Collected' /\ Sorted' /\ Loaded'
    BY <1>1, <1>2, <2>1 DEF Collected, Sorted, Loaded, Scanning
  <2>4. Answered'
    BY <1>1, <2>1 DEF Answered, Working
  <2> QED BY <2>2, <2>3, <2>4
<1>7. CASE EndOfResults
  <2>1. pc = "load" /\ Len(records) = Len(paths) /\ UNCHANGED <<err, status>>
        /\ pc' = IF err THEN "report error" ELSE "write"
    BY <1>7 DEF EndOfResults
  <2>2. Typed'
    BY <1>1, <2>1 DEF Typed, Working
  <2>3. Collected' /\ Sorted'
    BY <1>1, <1>2, <2>1 DEF Collected, Sorted, Scanning
  <2>4. Loaded'
    BY <1>1, <2>1 DEF Loaded, Scanning
  <2>5. Answered'
    BY <1>1, <2>1 DEF Answered, Working
  <2> QED BY <2>2, <2>3, <2>4, <2>5
<1> QED BY <1>3, <1>4, <1>5, <1>6, <1>7 DEF Calls

LEMMA StepPreserves ==
  ASSUME IInv, [Next]_vars
  PROVE  IInv'
<1>1. CASE Calls
  BY <1>1, CallsPreserve
<1>2. CASE UNCHANGED vars
  <2>1. Results' = Results /\ Passed' = Passed
    BY <1>2, SamePassed DEF Results, vars
  <2>2. Judged' = Judged
    BY <1>2, <2>1 DEF Judged, vars, Whole
  <2>3. Typed'
    BY <1>2 DEF IInv, Typed, vars
  <2>4. Collected' /\ Sorted' /\ Loaded'
    BY <1>2, <2>1 DEF IInv, Collected, Sorted, Loaded, vars
  <2>5. Answered'
    BY <1>2, <2>2 DEF IInv, Answered, vars
  <2> QED BY <2>3, <2>4, <2>5 DEF IInv
<1> QED BY <1>1, <1>2, ReadEntryPreserves, SortPathsPreserves, LoadResultPreserves,
           WriteReceiptPreserves, ReportErrorPreserves DEF Next, Calls, Finished

LEMMA Invariance == Spec => []IInv
<1>1. IInv /\ [Next]_vars => IInv'
  BY StepPreserves
<1> QED BY <1>1, InitEstablishes, PTL DEF Spec

-----------------------------------------------------------------------------
(* The theorems.                                                             *)

\* The state is well typed, and no more names are kept than the array holds.
THEOREM TypeCorrectness == Spec => []TypeOK
<1>1. IInv => TypeOK
  <2> SUFFICES ASSUME IInv PROVE TypeOK
    OBVIOUS
  <2>1. Elements(paths) \subseteq Names
    BY NamesAreNumbers DEF IInv, Collected, Results
  <2>2. paths \in Seq(Names)
    BY <2>1, MadeOf DEF IInv, Typed
  <2>3. sorted \in Nat \ {0}
    <3>1. sorted \in Nat /\ sorted >= 1
      BY DEF IInv, Typed
    <3> QED BY <3>1
  <2>4. pc \in {"parse", "open", "scan", "close", "sort", "load", "write", "report error", "done"}
    BY DEF IInv, Typed, Working
  <2> QED BY <2>2, <2>3, <2>4 DEF IInv, Typed, TypeOK
<1> QED BY <1>1, Invariance, PTL

\* Whatever order readdir gives, a verdict comes with a receipt of this run that
\* says the same and lists every result once, by name.
THEOREM Completeness == Spec => []VerdictIsComplete
<1>1. IInv => VerdictIsComplete
  <2> SUFFICES ASSUME IInv, pc = "done", status # 2, request = "run"
               PROVE  /\ disk.kind = "whole" /\ disk.passed = (status = 0)
                      /\ {disk.names[i] : i \in DOMAIN disk.names} = Results
                      /\ \A i, j \in DOMAIN disk.names : i < j => disk.names[i] < disk.names[j]
    BY DEF VerdictIsComplete
  <2>1. Judged
    BY DEF IInv, Answered
  <2>2. disk.kind = "whole" /\ disk.passed = Passed /\ disk.names = paths
    BY <2>1 DEF Judged, Whole
  <2>3. Passed \in BOOLEAN
    BY DEF Passed
  <2>4. disk.passed = (status = 0)
    BY <2>1, <2>2, <2>3 DEF Judged
  <2>5. {paths[i] : i \in DOMAIN paths} = Results
    BY <2>1 DEF Judged, Elements
  <2>6. \A i, j \in DOMAIN paths : i < j => paths[i] < paths[j]
    <3>1. paths \in Seq(Nat) /\ sorted \in Nat /\ InOrder(paths, sorted) /\ sorted >= Len(paths)
      BY <2>1 DEF IInv, Typed, Sorted, Judged
    <3> QED BY <3>1 DEF InOrder
  <2> QED BY <2>2, <2>4, <2>5, <2>6
<1> QED BY <1>1, Invariance, PTL

\* Of 0 and 1, 0 is the verdict exactly if there is a result and none says FAIL,
\* or MISSING for the unit test, whatever else the results say.
THEOREM Earned == Spec => []VerdictIsEarned
<1>1. IInv => VerdictIsEarned
  <2> DEFINE PassesFile(f) == f.unit # "FAIL" /\ f.unit # "MISSING" /\ f.fuzz # "FAIL"
  <2> SUFFICES ASSUME IInv, pc = "done", request = "run", status \in {0, 1}
               PROVE  status = 0 <=>
                        /\ Results # {}
                        /\ \A n \in Results :
                             PassesFile(directory[n])
    BY DEF VerdictIsEarned
  <2>1. Judged
    BY DEF IInv, Answered
  <2>2. status = 0 <=> Passed
    BY <2>1 DEF Judged
  <2>3. /\ paths \in Seq(Nat) /\ records \in Seq(File) /\ Len(records) = Len(paths)
        /\ Results = {paths[i] : i \in DOMAIN paths}
        /\ \A i \in DOMAIN records : records[i] = directory[paths[i]]
    BY <2>1 DEF IInv, Typed, Loaded, Judged, Elements
  <2>4. DOMAIN records = DOMAIN paths
    BY <2>3
  <2>5. records # <<>> <=> Results # {}
    BY <2>3, <2>4
  <2>6. ASSUME NEW i \in DOMAIN records
        PROVE  ~Fails(records[i]) <=>
                 PassesFile(directory[paths[i]])
    BY <2>3 DEF Fails
  <2>7. Passed <=>
          /\ Results # {}
          /\ \A n \in Results : PassesFile(directory[n])
    BY <2>3, <2>4, <2>5, <2>6, Zenon DEF Passed
  <2> QED BY <2>2, <2>7
<1> QED BY <1>1, Invariance, PTL
=============================================================================
