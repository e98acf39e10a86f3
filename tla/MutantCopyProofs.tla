-------------------------- MODULE MutantCopyProofs --------------------------
(***************************************************************************)
(* Proofs about MutantCopy, for every project, candidate and command line,  *)
(* every order in which readdir gives the names, and every failing call.    *)
(***************************************************************************)
EXTENDS MutantCopy, SequenceTheorems, WellFoundedInduction, TLAPS

-----------------------------------------------------------------------------
(* Paths.                                                                    *)

LEMMA PrefixIs ==
  ASSUME NEW s \in Seq(Names), NEW t \in Seq(Names)
  PROVE  IsPrefix(s, t) <=> Len(s) <= Len(t) /\ \A j \in 1 .. Len(s) : s[j] = t[j]
<1>1. Len(s) \in Nat /\ Len(t) \in Nat
  OBVIOUS
<1>2. CASE Len(s) <= Len(t)
  <2> DEFINE a == SubSeq(s, 1, Len(s))
             b == SubSeq(t, 1, Len(s))
  <2>1. a \in Seq(Names) /\ Len(a) = Len(s) /\ \A j \in 1 .. Len(s) : a[j] = s[j]
    BY <1>1
  <2>2. b \in Seq(Names) /\ Len(b) = Len(s) /\ \A j \in 1 .. Len(s) : b[j] = t[j]
    BY <1>1, <1>2
  <2>3. IsPrefix(s, t) <=> a = b
    BY <1>2 DEF IsPrefix
  <2> HIDE DEF a, b
  <2>4. a = b <=> \A j \in 1 .. Len(s) : s[j] = t[j]
    <3>1. (\A j \in 1 .. Len(s) : a[j] = b[j]) => a = b
      BY <2>1, <2>2, SeqEqual
    <3> QED BY <2>1, <2>2, <3>1
  <2> QED BY <1>2, <2>3, <2>4
<1>3. CASE ~(Len(s) <= Len(t))
  BY <1>3 DEF IsPrefix
<1> QED BY <1>2, <1>3

LEMMA PathEqual ==
  ASSUME NEW s \in Seq(Names), NEW t \in Seq(Names), Len(s) = Len(t),
         \A j \in 1 .. Len(s) : s[j] = t[j]
  PROVE  s = t
BY SeqEqual

LEMMA AppendIs ==
  ASSUME NEW s \in Seq(Names), NEW n \in Names
  PROVE  /\ Append(s, n) \in Seq(Names) /\ Append(s, n) # <<>>
         /\ Len(Append(s, n)) = Len(s) + 1 /\ Len(s) \in Nat
         /\ Append(s, n)[Len(s) + 1] = n /\ \A j \in 1 .. Len(s) : Append(s, n)[j] = s[j]
         /\ Front(Append(s, n)) = s /\ Last(Append(s, n)) = n
<1> DEFINE a == Append(s, n)
<1>1. /\ a \in Seq(Names) /\ a # <<>> /\ Len(a) = Len(s) + 1 /\ Len(s) \in Nat
      /\ a[Len(s) + 1] = n /\ \A j \in 1 .. Len(s) : a[j] = s[j]
  OBVIOUS
<1> HIDE DEF a
<1>2. SubSeq(a, 1, Len(s)) = s
  <2> DEFINE b == SubSeq(a, 1, Len(s))
  <2>1. b \in Seq(Names) /\ Len(b) = Len(s) /\ \A j \in 1 .. Len(s) : b[j] = a[j]
    BY <1>1
  <2> HIDE DEF b
  <2>2. b = s
    BY <1>1, <2>1, PathEqual
  <2> QED BY <2>2 DEF b
<1>3. Front(a) = s /\ Last(a) = n
  BY <1>1, <1>2 DEF Front, Last
<1> QED BY <1>1, <1>3 DEF a

LEMMA FrontIs ==
  ASSUME NEW s \in Seq(Names), s # <<>>
  PROVE  /\ Front(s) \in Seq(Names) /\ Last(s) \in Names /\ Append(Front(s), Last(s)) = s
         /\ Len(s) \in Nat /\ Len(s) > 0 /\ Len(Front(s)) = Len(s) - 1
         /\ \A j \in 1 .. Len(s) - 1 : Front(s)[j] = s[j]
<1> DEFINE f == Front(s)
           n == Last(s)
<1>1. /\ f \in Seq(Names) /\ Len(f) = Len(s) - 1 /\ Len(s) \in Nat /\ Len(s) > 0
      /\ \A j \in 1 .. Len(s) - 1 : f[j] = s[j]
  <2>1. Len(s) \in Nat /\ Len(s) > 0
    OBVIOUS
  <2> DEFINE k == Len(s) - 1
  <2>2. k \in Nat /\ k <= Len(s) /\ k < Len(s)
    BY <2>1
  <2> HIDE DEF k
  <2> DEFINE b == SubSeq(s, 1, k)
  <2>3. b \in Seq(Names) /\ Len(b) = k /\ \A j \in 1 .. k : b[j] = s[j]
    BY <2>1, <2>2
  <2> QED BY <2>1, <2>3 DEF Front, k
<1>2. n \in Names /\ n = s[Len(s)]
  BY <1>1 DEF Last
<1> HIDE DEF f, n
<1> DEFINE a == Append(f, n)
<1>3. a \in Seq(Names) /\ Len(a) = Len(s) /\ a[Len(s)] = n /\ \A j \in 1 .. Len(s) - 1 : a[j] = f[j]
  BY <1>1, <1>2
<1> HIDE DEF a
<1>4. \A j \in 1 .. Len(s) : a[j] = s[j]
  BY <1>1, <1>2, <1>3
<1>5. a = s
  BY <1>3, <1>4, PathEqual
<1> QED BY <1>1, <1>2, <1>5 DEF a, f, n

-----------------------------------------------------------------------------
(* Trees.                                                                    *)

LEMMA ChildrenAre ==
  ASSUME NEW tree, IsTree(tree), NEW dir \in Seq(Names)
  PROVE  /\ Children(tree, dir) \subseteq Names
         /\ \A n \in Names : n \in Children(tree, dir) <=> Append(dir, n) \in DOMAIN tree
<1>1. DOMAIN tree \subseteq Seq(Names)
  BY DEF IsTree
<1>2. ASSUME NEW n \in Children(tree, dir)
      PROVE  n \in Names /\ Append(dir, n) \in DOMAIN tree
  <2>1. PICK p \in DOMAIN tree : p # <<>> /\ Front(p) = dir /\ n = Last(p)
    BY DEF Children
  <2>2. p \in Seq(Names)
    BY <1>1
  <2>3. Last(p) \in Names /\ Append(Front(p), Last(p)) = p
    BY <2>1, <2>2, FrontIs
  <2> QED BY <2>1, <2>3
<1>3. ASSUME NEW n \in Names, Append(dir, n) \in DOMAIN tree
      PROVE  n \in Children(tree, dir)
  <2>1. Append(dir, n) # <<>> /\ Front(Append(dir, n)) = dir /\ Last(Append(dir, n)) = n
    BY AppendIs
  <2> QED BY <1>3, <2>1, Zenon DEF Children
<1> QED BY <1>2, <1>3

Below == {p \in Nat \X Nat : p[1] < p[2]}

LEMMA Least ==
  ASSUME NEW S \in SUBSET Nat, S # {}
  PROVE  \E x \in S : \A y \in S : x <= y
<1>1. IsWellFoundedOn(Below, Nat)
  BY NatLessThanWellFounded DEF OpToRel, Below
<1>2. \E x \in S : \A y \in S : ~ (<<y, x>> \in Below)
  <2>1. S \subseteq Nat /\ S # {}
    OBVIOUS
  <2> QED BY ONLY <1>1, <2>1, WFMin
<1> PICK x \in S : \A y \in S : ~ (<<y, x>> \in Below)
  BY <1>2
<1>3. ASSUME NEW y \in S PROVE x <= y
  <2>1. ~ (<<y, x>> \in Below)
    OBVIOUS
  <2>2. ~ (y < x)
    BY <2>1, Zenon DEF Below
  <2> QED BY <2>2
<1> QED BY <1>3

\* With an entry there are the directories it lies in.
LEMMA Ancestors ==
  ASSUME NEW tree, IsTree(tree), NEW p \in DOMAIN tree, NEW k \in 0 .. Len(p)
  PROVE  SubSeq(p, 1, k) \in DOMAIN tree
<1>1. p \in Seq(Names) /\ Len(p) \in Nat
  BY DEF IsTree
<1> DEFINE Up(d) == SubSeq(p, 1, Len(p) - d)
           Missing == {d \in 0 .. Len(p) : Up(d) \notin DOMAIN tree}
<1>2. Up(0) = p
  <2>1. Len(p) - 0 = Len(p)
    BY <1>1
  <2> QED BY <1>1, <2>1, SubSeqFull
<1>3. ASSUME Missing # {} PROVE FALSE
  <2>1. Missing \in SUBSET Nat
    BY <1>1
  <2>2. PICK d \in Missing : \A e \in Missing : d <= e
    <3> HIDE DEF Missing
    <3> QED BY <1>3, <2>1, Least
  <2>3. d \in 0 .. Len(p) /\ Up(d) \notin DOMAIN tree
    OBVIOUS
  <2>4. d # 0
    BY <1>2, <2>3
  <2>5. d - 1 \in 0 .. Len(p) /\ ~(d <= d - 1)
    BY <1>1, <2>3, <2>4
  <2>6. Up(d - 1) \in DOMAIN tree
    BY <2>2, <2>5
  <2> DEFINE u == Up(d - 1)
             k1 == Len(p) - d
  <2>7. k1 \in Nat /\ Len(p) - (d - 1) = k1 + 1 /\ k1 + 1 <= Len(p) /\ 1 <= k1 + 1
    BY <1>1, <2>3, <2>4
  <2>8. u = SubSeq(p, 1, k1 + 1)
    BY <2>7
  <2> HIDE DEF k1
  <2>9. u \in Seq(Names) /\ Len(u) = k1 + 1 /\ \A j \in 1 .. k1 + 1 : u[j] = p[j]
    BY <1>1, <2>7, <2>8
  <2>u. u \in DOMAIN tree
    BY <2>6
  <2> HIDE DEF u
  <2>10. u # <<>>
    BY <2>7, <2>9
  <2>11. Front(u) \in DOMAIN tree
    BY <2>u, <2>10 DEF IsTree
  <2>12. Front(u) = SubSeq(p, 1, k1)
    <3> DEFINE b == SubSeq(p, 1, k1)
    <3>1. b \in Seq(Names) /\ Len(b) = k1 /\ \A j \in 1 .. k1 : b[j] = p[j]
      BY <1>1, <2>7
    <3>2. /\ Front(u) \in Seq(Names) /\ Len(Front(u)) = k1
          /\ \A j \in 1 .. k1 : Front(u)[j] = u[j]
      <4>1. Len(u) - 1 = k1
        BY <2>7, <2>9
      <4> QED BY <2>9, <2>10, <4>1, FrontIs
    <3> HIDE DEF b
    <3>3. \A j \in 1 .. k1 : Front(u)[j] = b[j]
      BY <2>7, <2>9, <3>1, <3>2
    <3>4. Front(u) = b
      BY <3>1, <3>2, <3>3, PathEqual
    <3> QED BY <3>4 DEF b
  <2> QED BY <2>3, <2>11, <2>12 DEF k1
<1>4. Len(p) - k \in 0 .. Len(p) /\ Len(p) - (Len(p) - k) = k
  BY <1>1
<1>5. Up(Len(p) - k) \in DOMAIN tree
  BY <1>3, <1>4
<1> QED BY <1>4, <1>5

\* What lies in a directory lies in, or is, one of its entries.
LEMMA Within ==
  ASSUME NEW tree, IsTree(tree), NEW p \in DOMAIN tree, NEW dir \in Seq(Names),
         IsPrefix(dir, p), p # dir
  PROVE  \E n \in Children(tree, dir) : /\ n \in Names /\ Append(dir, n) \in DOMAIN tree
                                        /\ IsPrefix(Append(dir, n), p)
<1>1. p \in Seq(Names) /\ Len(p) \in Nat /\ Len(dir) \in Nat
  BY DEF IsTree
<1>2. Len(dir) <= Len(p) /\ \A j \in 1 .. Len(dir) : dir[j] = p[j]
  BY <1>1, PrefixIs
<1>3. Len(dir) # Len(p)
  BY <1>1, <1>2, PathEqual
<1> DEFINE k == Len(dir) + 1
           n == p[k]
           u == SubSeq(p, 1, k)
<1>4. k \in 0 .. Len(p) /\ k \in 1 .. Len(p)
  BY <1>1, <1>2, <1>3
<1>5. n \in Names
  BY <1>1, <1>4
<1>6. u \in Seq(Names) /\ Len(u) = k /\ \A j \in 1 .. k : u[j] = p[j]
  BY <1>1, <1>4
<1>7. u \in DOMAIN tree
  BY <1>4, Ancestors
<1> HIDE DEF u, n
<1>8. /\ Append(dir, n) \in Seq(Names) /\ Len(Append(dir, n)) = k
      /\ Append(dir, n)[k] = n /\ \A j \in 1 .. Len(dir) : Append(dir, n)[j] = dir[j]
  BY <1>5, AppendIs
<1>9. \A j \in 1 .. k : Append(dir, n)[j] = p[j]
  BY <1>1, <1>2, <1>8 DEF n
<1>10. Append(dir, n) = u
  <2>1. \A j \in 1 .. Len(u) : u[j] = Append(dir, n)[j]
    BY <1>6, <1>9
  <2> QED BY <1>6, <1>8, <2>1, PathEqual
<1>11. IsPrefix(Append(dir, n), p)
  <2> DEFINE a == Append(dir, n)
  <2>1. a \in Seq(Names) /\ Len(a) <= Len(p) /\ \A j \in 1 .. Len(a) : a[j] = p[j]
    BY <1>4, <1>8, <1>9
  <2> HIDE DEF a
  <2>2. IsPrefix(a, p)
    BY <1>1, <2>1, PrefixIs
  <2> QED BY <2>2 DEF a
<1>12. n \in Children(tree, dir)
  BY <1>5, <1>7, <1>10, ChildrenAre
<1> QED BY <1>5, <1>7, <1>10, <1>11, <1>12

\* Putting an entry into a directory.
LEMMA PutIs ==
  ASSUME NEW tree, NEW path, NEW entry
  PROVE  /\ Put(tree, path, entry)[path] = entry
         /\ \A p \in DOMAIN tree : p # path => Put(tree, path, entry)[p] = tree[p]
BY DEF Put

LEMMA PutKinds ==
  ASSUME NEW tree, NEW path, NEW entry, path \in DOMAIN tree => entry.kind = tree[path].kind
  PROVE  \A p \in DOMAIN tree : Put(tree, path, entry)[p].kind = tree[p].kind
BY PutIs

LEMMA PutKeeps ==
  ASSUME NEW tree, IsTree(tree), NEW path \in Seq(Names), NEW entry,
         path # <<>> => Front(path) \in DOMAIN tree /\ tree[Front(path)].kind = "dir",
         path \in DOMAIN tree => entry.kind = tree[path].kind
  PROVE  /\ IsTree(Put(tree, path, entry))
         /\ DOMAIN Put(tree, path, entry) = DOMAIN tree \cup {path}
<1> DEFINE t == Put(tree, path, entry)
<1>1. DOMAIN t = DOMAIN tree \cup {path}
  BY DEF Put
<1>2. \A p \in DOMAIN tree : t[p].kind = tree[p].kind
  BY PutKinds
<1> HIDE DEF t
<1>3. DOMAIN t \subseteq Seq(Names)
  BY <1>1 DEF IsTree
<1>4. ASSUME NEW p \in DOMAIN t, p # <<>> PROVE Front(p) \in DOMAIN t /\ t[Front(p)].kind = "dir"
  <2>1. CASE p \in DOMAIN tree
    <3>1. Front(p) \in DOMAIN tree /\ tree[Front(p)].kind = "dir"
      BY <1>4, <2>1 DEF IsTree
    <3> QED BY <1>1, <1>2, <3>1
  <2>2. CASE p = path
    BY <1>1, <1>2, <1>4, <2>2
  <2> QED BY <1>1, <2>1, <2>2
<1>5. IsTree(t)
  BY <1>3, <1>4 DEF IsTree
<1> QED BY <1>1, <1>5 DEF t

\* Removing an entry that has none of its own.
LEMMA WithoutKeeps ==
  ASSUME NEW tree, IsTree(tree), NEW path \in DOMAIN tree,
         tree[path].kind # "dir" \/ Children(tree, path) = {}
  PROVE  /\ IsTree(Without(tree, path))
         /\ DOMAIN Without(tree, path) = DOMAIN tree \ {path}
         /\ \A p \in DOMAIN tree \ {path} : Without(tree, path)[p] = tree[p]
         /\ \A p \in DOMAIN tree : IsPrefix(path, p) => p = path
<1> DEFINE t == Without(tree, path)
<1>1. DOMAIN t = DOMAIN tree \ {path} /\ \A p \in DOMAIN tree \ {path} : t[p] = tree[p]
  BY DEF Without
<1> HIDE DEF t
<1>2. path \in Seq(Names) /\ DOMAIN tree \subseteq Seq(Names)
  BY DEF IsTree
<1>3. ASSUME NEW n \in Children(tree, path) PROVE FALSE
  <2>1. n \in Names /\ Append(path, n) \in DOMAIN tree
    BY <1>2, ChildrenAre
  <2>2. Append(path, n) # <<>> /\ Front(Append(path, n)) = path
    BY <1>2, <2>1, AppendIs
  <2>3. tree[path].kind = "dir"
    BY <2>1, <2>2 DEF IsTree
  <2> QED BY <2>3
<1>4. ASSUME NEW p \in DOMAIN tree, IsPrefix(path, p) PROVE p = path
  BY <1>2, <1>3, <1>4, Within
<1>5. ASSUME NEW p \in DOMAIN t, p # <<>> PROVE Front(p) \in DOMAIN t /\ t[Front(p)].kind = "dir"
  <2>1. p \in DOMAIN tree /\ p \in Seq(Names)
    BY <1>1, <1>2
  <2>2. Front(p) \in DOMAIN tree /\ tree[Front(p)].kind = "dir"
    BY <1>5, <2>1 DEF IsTree
  <2>3. Front(p) # path
    <3>1. Last(p) \in Names /\ Append(Front(p), Last(p)) = p
      BY <1>5, <2>1, FrontIs
    <3> SUFFICES ASSUME Front(p) = path PROVE FALSE
      OBVIOUS
    <3>2. Last(p) \in Children(tree, path)
      BY <1>2, <2>1, <3>1, ChildrenAre
    <3> QED BY <1>3, <3>2
  <2> QED BY <1>1, <2>2, <2>3
<1>6. IsTree(t)
  BY <1>1, <1>2, <1>5 DEF IsTree
<1> QED BY <1>1, <1>4, <1>6 DEF t


-----------------------------------------------------------------------------
(* Loops over sequences, as recursive functions.                             *)

IsLoop(g, X, base, n, turn) ==
  g \in [0 .. n -> X] /\ g[0] = base /\ \A k \in 1 .. n : g[k] = turn[<<g[k - 1], k>>]

GoOnAlike(f, g, n) == f[0] = g[0] /\ \A k \in 1 .. n : f[k - 1] = g[k - 1] => f[k] = g[k]

Alike(f, g, n) == \A k \in 0 .. n : f[k] = g[k]

\* A loop whose turns keep to X ends in X ...
LEMMA LoopRuns ==
  ASSUME NEW X, NEW base \in X, NEW n \in Nat, NEW turn \in [X \X (1 .. n) -> X]
  PROVE  \E g : IsLoop(g, X, base, n, turn)
<1> DEFINE Runs(m, g) == /\ g \in [0 .. m -> X] /\ g[0] = base
                         /\ \A k \in 1 .. m : g[k] = turn[<<g[k - 1], k>>]
           Bad == {m \in 0 .. n : ~\E g : Runs(m, g)}
<1>1. Bad = {}
  <2> SUFFICES ASSUME Bad # {} PROVE FALSE
    OBVIOUS
  <2>1. Bad \in SUBSET Nat
    OBVIOUS
  <2>2. PICK m \in Bad : \A y \in Bad : m <= y
    <3> HIDE DEF Bad
    <3> QED BY <2>1, Least
  <2>3. m \in 0 .. n /\ ~\E g : Runs(m, g)
    OBVIOUS
  <2>4. m # 0
    <3> SUFFICES ASSUME m = 0 PROVE FALSE
      OBVIOUS
    <3> DEFINE g == [k \in 0 .. 0 |-> base]
    <3>1. Runs(0, g)
      OBVIOUS
    <3> QED BY <2>3, <3>1
  <2>5. m - 1 \in 0 .. n /\ ~(m <= m - 1) /\ m - 1 \in Nat /\ m \in 1 .. n
    BY <2>3, <2>4
  <2>6. PICK g : Runs(m - 1, g)
    <3> HIDE DEF Runs
    <3> QED BY <2>2, <2>5
  <2> DEFINE h == [k \in 0 .. m |-> IF k = m THEN turn[<<g[m - 1], m>>] ELSE g[k]]
  <2>7. m - 1 \in 0 .. m - 1 /\ g[m - 1] \in X
    BY <2>5, <2>6
  <2>8. turn[<<g[m - 1], m>>] \in X
    BY <2>5, <2>7
  <2>9. \A k \in 0 .. m : k = m \/ k \in 0 .. m - 1
    BY <2>5
  <2>10. h \in [0 .. m -> X]
    BY <2>6, <2>8, <2>9
  <2>11. h[0] = base
    BY <2>5, <2>6
  <2>12. ASSUME NEW k \in 1 .. m PROVE h[k] = turn[<<h[k - 1], k>>]
    <3>1. k \in 0 .. m /\ k - 1 \in 0 .. m /\ k - 1 # m
      BY <2>5
    <3>2. h[k - 1] = g[k - 1]
      BY <3>1
    <3>3. CASE k = m
      BY <3>1, <3>2, <3>3
    <3>4. CASE k # m
      <4>1. k \in 1 .. m - 1
        BY <2>5, <3>4
      <4>2. g[k] = turn[<<g[k - 1], k>>]
        BY <2>6, <4>1
      <4>3. h[k] = g[k]
        BY <3>1, <3>4
      <4> QED BY <3>2, <4>2, <4>3
    <3> QED BY <3>3, <3>4
  <2>13. Runs(m, h)
    <3> HIDE DEF h
    <3> QED BY <2>10, <2>11, <2>12
  <2> HIDE DEF Runs, h
  <2> QED BY <2>3, <2>13
<1>2. \E g : Runs(n, g)
  <2> HIDE DEF Runs
  <2> QED BY <1>1
<1> QED BY <1>2 DEF IsLoop

\* ... and in no other way.
LEMMA LoopsAgree ==
  ASSUME NEW n \in Nat, NEW f, NEW g, GoOnAlike(f, g, n)
  PROVE  Alike(f, g, n)
<1> DEFINE Bad == {k \in 0 .. n : f[k] # g[k]}
<1> SUFFICES ASSUME Bad # {} PROVE FALSE
  BY DEF Alike
<1>0. f[0] = g[0] /\ \A k \in 1 .. n : f[k - 1] = g[k - 1] => f[k] = g[k]
  BY DEF GoOnAlike
<1>1. Bad \in SUBSET Nat
  OBVIOUS
<1>2. PICK m \in Bad : \A y \in Bad : m <= y
  <2> HIDE DEF Bad
  <2> QED BY <1>1, Least
<1>3. m \in 0 .. n /\ f[m] # g[m]
  OBVIOUS
<1>4. m \in 1 .. n /\ m - 1 \in 0 .. n /\ ~(m <= m - 1)
  BY <1>0, <1>3
<1>5. f[m - 1] = g[m - 1]
  BY <1>2, <1>4
<1> QED BY <1>0, <1>3, <1>4, <1>5

-----------------------------------------------------------------------------
(* The compile command.                                                      *)

\* The loop over the words of the recorded command.
KeptFrom(source, g) ==
  /\ g[0] = [skip |-> FALSE, arguments |-> <<>>]
  /\ \A k \in 1 .. Len(source) : g[k] = Kept(g[k - 1], source[k])
  /\ CompileArguments(source) = g[Len(source)].arguments

LEMMA CommandLoop ==
  ASSUME NEW source \in Seq(Argument), NEW X, [skip |-> FALSE, arguments |-> <<>>] \in X,
         \A x \in X : \A i \in 1 .. Len(source) : Kept(x, source[i]) \in X
  PROVE  \E g \in [0 .. Len(source) -> X] : KeptFrom(source, g)
<1> DEFINE N == Len(source)
           base == [skip |-> FALSE, arguments |-> <<>>]
           turn == [x \in X \X (1 .. N) |-> Kept(x[1], source[x[2]])]
           Step1(f) == [k \in 0 .. N |-> IF k = 0 THEN base ELSE Kept(f[k - 1], source[k])]
           upTo == CHOOSE f : f = Step1(f)
<1>1. CompileArguments(source) = upTo[N].arguments
  BY DEF CompileArguments
<1>2. N \in Nat /\ base \in X
  OBVIOUS
<1>5. turn \in [X \X (1 .. N) -> X]
  <2> HIDE DEF N
  <2> QED BY DEF N
<1>6. PICK g \in [0 .. N -> X] : g[0] = base /\ \A k \in 1 .. N : g[k] = turn[<<g[k - 1], k>>]
  <2> HIDE DEF N, base, turn
  <2>1. \E g : IsLoop(g, X, base, N, turn)
    BY ONLY <1>2, <1>5, LoopRuns
  <2> QED BY <2>1 DEF IsLoop
<1> HIDE DEF N, base
<1>7. ASSUME NEW k \in 1 .. N PROVE g[k] = Kept(g[k - 1], source[k])
  <2>1. k - 1 \in 0 .. N
    BY <1>2
  <2>2. <<g[k - 1], k>> \in X \X (1 .. N)
    BY <1>6, <2>1
  <2>3. turn[<<g[k - 1], k>>] = Kept(g[k - 1], source[k])
    BY <2>2
  <2> QED BY <1>6, <2>3
<1>8. g = Step1(g)
  <2>1. \A k \in 0 .. N : k = 0 \/ k \in 1 .. N
    BY <1>2
  <2>2. \A k \in 0 .. N : g[k] = Step1(g)[k]
    BY <1>6, <1>7, <2>1
  <2>3. g = [k \in 0 .. N |-> g[k]]
    BY <1>6
  <2>4. Step1(g) = [k \in 0 .. N |-> Step1(g)[k]]
    OBVIOUS
  <2> HIDE DEF Step1
  <2> QED BY <2>2, <2>3, <2>4
<1>9. upTo = Step1(upTo)
  <2> HIDE DEF Step1
  <2>1. \E f : f = Step1(f)
    BY <1>8
  <2> QED BY <2>1
<1> DEFINE f == upTo
<1>10. f = Step1(f) /\ CompileArguments(source) = f[N].arguments
  BY <1>1, <1>9
<1> HIDE DEF f
<1>11. f[0] = g[0]
  <2>1. 0 \in 0 .. N
    BY <1>2
  <2>2. f[0] = Step1(f)[0]
    BY <1>10
  <2> QED BY <1>6, <2>1, <2>2
<1>12. ASSUME NEW k \in 1 .. N, f[k - 1] = g[k - 1] PROVE f[k] = g[k]
  <2>1. k \in 0 .. N /\ k # 0
    BY <1>2
  <2>2. f[k] = Step1(f)[k]
    BY <1>10
  <2>3. f[k] = Kept(f[k - 1], source[k])
    BY <2>1, <2>2
  <2> QED BY <1>7, <1>12, <2>3
<1> HIDE DEF Step1
<1>13. f[N] = g[N]
  <2>1. GoOnAlike(f, g, N)
    BY <1>11, <1>12 DEF GoOnAlike
  <2>2. Alike(f, g, N)
    BY <1>2, <2>1, LoopsAgree
  <2>3. N \in 0 .. N
    BY <1>2
  <2> QED BY <2>2, <2>3 DEF Alike
<1>14. CompileArguments(source) = g[N].arguments
  BY <1>10, <1>13
<1> QED BY <1>6, <1>7, <1>14 DEF KeptFrom, N, base

\* What one turn does, and that it keeps to lists of certain words.
LEMMA KeptIs ==
  ASSUME NEW S, NEW x \in [skip : BOOLEAN, arguments : Seq(S)], NEW a,
         a.as # "-o=" => RewritePath(a) \in S
  PROVE  LET new == Kept(x, a) IN
         /\ new \in [skip : BOOLEAN, arguments : Seq(S)]
         /\ new.skip => a.as = "-o"
         /\ new.arguments = IF x.skip \/ a.as \in {"-o", "-c", "-o="} THEN x.arguments
                            ELSE Append(x.arguments, RewritePath(a))
<1> DEFINE b == RewritePath(a)
           new == IF x.skip \/ a.as \in {"-o", "-c", "-o="} THEN x.arguments
                  ELSE Append(x.arguments, b)
           skip == ~x.skip /\ a.as = "-o"
<1>1. Kept(x, a) = [skip |-> skip, arguments |-> new]
  BY DEF Kept
<1> HIDE DEF b
<1>2. x.arguments \in Seq(S) /\ x.skip \in BOOLEAN /\ (a.as # "-o=" => b \in S)
  BY DEF b
<1>3. b \in S => Append(x.arguments, b) \in Seq(S)
  BY <1>2
<1>4. new \in Seq(S)
  BY <1>2, <1>3
<1>5. skip \in BOOLEAN /\ (skip => a.as = "-o")
  OBVIOUS
<1>6. new = IF x.skip \/ a.as \in {"-o", "-c", "-o="} THEN x.arguments ELSE Append(x.arguments, b)
  OBVIOUS
<1> HIDE DEF new, skip
<1>7. [skip |-> skip, arguments |-> new] \in [skip : BOOLEAN, arguments : Seq(S)]
  BY <1>4, <1>5
<1>8. [skip |-> skip, arguments |-> new].skip = skip
      /\ [skip |-> skip, arguments |-> new].arguments = new
  OBVIOUS
<1> QED BY <1>1, <1>5, <1>6, <1>7, <1>8 DEF b

\* No word that holds an output option and its value is kept, and any other
\* output as it was.
LEMMA OutputsGone ==
  ASSUME NEW source \in Seq(Argument)
  PROVE  \A i \in DOMAIN CompileArguments(source) :
           LET a == CompileArguments(source)[i] IN
           a.as # "-o=" /\ (a.as = "-W" => \E k \in DOMAIN source : a = source[k])
<1> DEFINE S == {a \in {RewritePath(source[i]) : i \in 1 .. Len(source)} : a.as # "-o="}
           X == [skip : BOOLEAN, arguments : Seq(S)]
<1>1. [skip |-> FALSE, arguments |-> <<>>] \in X
  OBVIOUS
<1>2. ASSUME NEW x \in X, NEW i \in 1 .. Len(source) PROVE Kept(x, source[i]) \in X
  <2> DEFINE a == source[i]
  <2>1. a.as # "-o=" => RewritePath(a) \in S
    BY DEF RewritePath
  <2> HIDE DEF S, a
  <2> QED BY <2>1, KeptIs DEF a
<1>3. PICK g \in [0 .. Len(source) -> X] : KeptFrom(source, g)
  <2> HIDE DEF X
  <2> QED BY <1>1, <1>2, CommandLoop
<1>4. CompileArguments(source) \in Seq(S)
  <2>1. Len(source) \in 0 .. Len(source)
    OBVIOUS
  <2> HIDE DEF S
  <2> QED BY <1>3, <2>1 DEF KeptFrom
<1> DEFINE args == CompileArguments(source)
<1>5. \A i \in DOMAIN args : args[i] \in S
  BY <1>4
<1>6. ASSUME NEW a \in S, a.as = "-W" PROVE \E k \in DOMAIN source : a = source[k]
  <2>1. PICK k \in 1 .. Len(source) : a = RewritePath(source[k])
    OBVIOUS
  <2>2. a = source[k]
    BY <1>6, <2>1 DEF RewritePath
  <2> QED BY <2>2
<1> QED BY <1>5, <1>6

\* A file that is not the value of an output option is kept.
LEMMA FilesKept ==
  ASSUME NEW source \in Seq(Argument), NEW i \in DOMAIN source, source[i].as = "file",
         i > 1 => source[i - 1].as # "-o"
  PROVE  RewritePath(source[i]) \in ToSet(CompileArguments(source))
<1> DEFINE N == Len(source)
           S == {RewritePath(source[k]) : k \in 1 .. N}
           X == [skip : BOOLEAN, arguments : Seq(S)]
           b == RewritePath(source[i])
<1>1. [skip |-> FALSE, arguments |-> <<>>] \in X /\ N \in Nat /\ i \in 1 .. N
  OBVIOUS
<1>2. ASSUME NEW x \in X, NEW k \in 1 .. N
      PROVE  LET new == Kept(x, source[k]) IN
             /\ new \in X /\ (new.skip => source[k].as = "-o")
             /\ new.arguments = IF x.skip \/ source[k].as \in {"-o", "-c", "-o="} THEN x.arguments
                                ELSE Append(x.arguments, RewritePath(source[k]))
  <2>1. RewritePath(source[k]) \in S
    OBVIOUS
  <2> DEFINE a == source[k]
  <2> HIDE DEF S, a
  <2> QED BY <2>1, KeptIs DEF a
<1>3. PICK g \in [0 .. N -> X] : KeptFrom(source, g)
  <2> HIDE DEF X
  <2>1. \A x \in X : \A k \in 1 .. N : Kept(x, source[k]) \in X
    BY <1>2
  <2> QED BY <1>1, <2>1, CommandLoop
<1> HIDE DEF X, N
<1>4. ASSUME NEW k \in 1 .. N
      PROVE  /\ k - 1 \in 0 .. N /\ k \in 0 .. N /\ g[k - 1] \in X /\ g[k] \in X
             /\ g[k].skip => source[k].as = "-o"
             /\ g[k].arguments =
                  IF g[k - 1].skip \/ source[k].as \in {"-o", "-c", "-o="} THEN g[k - 1].arguments
                  ELSE Append(g[k - 1].arguments, RewritePath(source[k]))
  <2>1. k - 1 \in 0 .. N /\ k \in 0 .. N
    BY <1>1
  <2>2. g[k - 1] \in X /\ g[k] \in X
    BY <1>3, <2>1
  <2>3. g[k] = Kept(g[k - 1], source[k])
    BY <1>3 DEF KeptFrom, N
  <2> QED BY <1>2, <2>1, <2>2, <2>3
<1>5. \A k \in 0 .. N : g[k].arguments \in Seq(S)
  BY <1>3 DEF X
<1>6. g[i - 1].skip = FALSE
  <2>1. CASE i = 1
    <3>1. g[0].skip = FALSE
      BY <1>3 DEF KeptFrom
    <3>2. i - 1 = 0
      BY <2>1
    <3> QED BY <3>1, <3>2
  <2>2. CASE i # 1
    <3>1. i - 1 \in 1 .. N /\ i > 1
      BY <1>1, <2>2
    <3>2. ~g[i - 1].skip
      BY <1>4, <3>1
    <3>3. g[i - 1].skip \in BOOLEAN
      <4>1. i - 1 \in 0 .. N
        BY <1>1
      <4> QED BY <1>3, <4>1 DEF X
    <3> QED BY <3>2, <3>3
  <2> QED BY <2>1, <2>2
<1> HIDE DEF S, b
<1>7. ASSUME NEW args \in Seq(S), NEW w
      PROVE  /\ w \in S => w \in ToSet(Append(args, w))
             /\ w \in S /\ b \in ToSet(args) => b \in ToSet(Append(args, w))
  <2>1. \A s \in Seq(S) : \A y : y \in ToSet(s) <=> \E j \in 1 .. Len(s) : y = s[j]
    BY DEF ToSet
  <2> SUFFICES ASSUME w \in S
               PROVE  /\ w \in ToSet(Append(args, w))
                      /\ b \in ToSet(args) => b \in ToSet(Append(args, w))
    OBVIOUS
  <2> DEFINE more == Append(args, w)
  <2>2. /\ more \in Seq(S) /\ Len(more) = Len(args) + 1 /\ more[Len(args) + 1] = w
        /\ Len(args) \in Nat /\ \A j \in 1 .. Len(args) : more[j] = args[j]
    OBVIOUS
  <2> HIDE DEF more
  <2>3. Len(args) + 1 \in 1 .. Len(more) /\ \A j \in 1 .. Len(args) : j \in 1 .. Len(more)
    BY <2>2
  <2>4. w \in ToSet(more)
    BY <2>1, <2>2, <2>3
  <2>5. b \in ToSet(args) => b \in ToSet(more)
    BY <2>1, <2>2, <2>3
  <2> QED BY <2>4, <2>5 DEF more
<1>8. \A k \in 1 .. N : RewritePath(source[k]) \in S
  BY DEF S, N
<1>9. b \in ToSet(g[i].arguments)
  <2>1. g[i].arguments = Append(g[i - 1].arguments, b)
    <3>1. source[i].as \notin {"-o", "-c", "-o="}
      OBVIOUS
    <3> QED BY <1>1, <1>4, <1>6, <3>1 DEF b
  <2>2. b \in S /\ g[i - 1].arguments \in Seq(S)
    BY <1>1, <1>4, <1>5, <1>8 DEF b
  <2> QED BY <1>7, <2>1, <2>2
<1> DEFINE Bad == {k \in 0 .. N : k >= i /\ b \notin ToSet(g[k].arguments)}
<1>10. Bad = {}
  <2> SUFFICES ASSUME Bad # {} PROVE FALSE
    OBVIOUS
  <2>1. Bad \in SUBSET Nat
    BY <1>1
  <2>2. PICK k \in Bad : \A y \in Bad : k <= y
    <3> HIDE DEF Bad
    <3> QED BY <2>1, Least
  <2>3. k \in 0 .. N /\ k >= i /\ b \notin ToSet(g[k].arguments)
    OBVIOUS
  <2>4. k # i
    BY <1>9, <2>3
  <2>5. k \in 1 .. N /\ k - 1 \in 0 .. N /\ k - 1 >= i /\ ~(k <= k - 1)
    BY <1>1, <2>3, <2>4
  <2>6. b \in ToSet(g[k - 1].arguments)
    BY <2>2, <2>5
  <2>7. g[k - 1].arguments \in Seq(S) /\ RewritePath(source[k]) \in S
    BY <1>5, <1>8, <2>5
  <2>8. \/ g[k].arguments = g[k - 1].arguments
        \/ g[k].arguments = Append(g[k - 1].arguments, RewritePath(source[k]))
    BY <1>4, <2>5
  <2> QED BY <1>7, <2>3, <2>6, <2>7, <2>8
<1>11. b \in ToSet(g[N].arguments)
  <2>1. N \in 0 .. N /\ N >= i
    BY <1>1
  <2> QED BY <1>10, <2>1
<1> QED BY <1>3, <1>11 DEF KeptFrom, N, b

-----------------------------------------------------------------------------
(* The recursions.  The frames are the directories on the way to the one at  *)
(* work, each with the names it has still to visit.                          *)

FrameType == [dir : Seq(Names), left : SUBSET Names]

IsStack(fr) ==
  /\ fr \in Seq(FrameType)
  /\ \A i \in DOMAIN fr : /\ Len(fr[i].dir) = Len(fr) - i
                          /\ \A j \in 1 .. Len(fr) - i : fr[i].dir[j] = fr[1].dir[j]
  /\ \A i \in 2 .. Len(fr) : fr[1].dir[Len(fr) - i + 1] \notin fr[i].left

OnStack(fr, p) == \E i \in DOMAIN fr : p = fr[i].dir

\* p lies in, or is, an entry that is still to be visited.
Due(fr, p) == \E i \in DOMAIN fr : \E n \in fr[i].left : IsPrefix(Append(fr[i].dir, n), p)

\* The frames with the name visited, and with a frame for its directory.
Skipped(fr, name) == <<[Head(fr) EXCEPT !.left = @ \ {name}]>> \o Tail(fr)

Entered(fr, name, left) ==
  <<[dir |-> Append(Head(fr).dir, name), left |-> left]>> \o Skipped(fr, name)

LEMMA StackFacts ==
  ASSUME NEW fr, IsStack(fr), fr # <<>>
  PROVE  /\ Len(fr) \in Nat /\ Len(fr) > 0 /\ 1 \in DOMAIN fr /\ DOMAIN fr = 1 .. Len(fr)
         /\ Head(fr) = fr[1] /\ fr[1] \in FrameType /\ fr[1].dir \in Seq(Names)
         /\ fr[1].left \subseteq Names /\ Len(fr[1].dir) = Len(fr) - 1
         /\ \A i \in 1 .. Len(fr) : fr[i] \in FrameType /\ fr[i].dir \in Seq(Names)
                                    /\ fr[i].left \subseteq Names
<1>1. fr \in Seq(FrameType)
  BY DEF IsStack
<1>2. Len(fr) \in Nat /\ Len(fr) > 0 /\ DOMAIN fr = 1 .. Len(fr) /\ Head(fr) = fr[1]
  BY <1>1
<1>3. \A i \in 1 .. Len(fr) : fr[i] \in FrameType
  BY <1>1
<1>4. \A i \in 1 .. Len(fr) : fr[i].dir \in Seq(Names) /\ fr[i].left \subseteq Names
  BY <1>3 DEF FrameType
<1>5. 1 \in 1 .. Len(fr)
  BY <1>2
<1>6. Len(fr[1].dir) = Len(fr) - 1
  BY <1>2, <1>5 DEF IsStack
<1> QED BY <1>2, <1>3, <1>4, <1>5, <1>6

LEMMA SkippedIs ==
  ASSUME NEW fr, IsStack(fr), fr # <<>>, NEW name
  PROVE  LET new == Skipped(fr, name) IN
         /\ IsStack(new) /\ Len(new) = Len(fr) /\ new # <<>>
         /\ new[1].dir = fr[1].dir /\ new[1].left = fr[1].left \ {name}
         /\ \A i \in 2 .. Len(fr) : new[i] = fr[i]
<1> DEFINE x == [fr[1] EXCEPT !.left = @ \ {name}]
           new == <<x>> \o Tail(fr)
<1>1. /\ Len(fr) \in Nat /\ Len(fr) > 0 /\ Head(fr) = fr[1] /\ fr[1] \in FrameType
      /\ fr \in Seq(FrameType)
  BY StackFacts DEF IsStack
<1>2. x \in FrameType /\ x.dir = fr[1].dir /\ x.left = fr[1].left \ {name}
  BY <1>1 DEF FrameType
<1> HIDE DEF x
<1>3. /\ new \in Seq(FrameType) /\ Len(new) = Len(fr) /\ new[1] = x
      /\ \A i \in 2 .. Len(fr) : new[i] = fr[i]
  BY <1>1, <1>2
<1>4. Skipped(fr, name) = new
  BY <1>1 DEF Skipped, x
<1> HIDE DEF new
<1>5. \A i \in 1 .. Len(fr) : i = 1 \/ i \in 2 .. Len(fr)
  OBVIOUS
<1>6. \A i \in 1 .. Len(fr) : new[i].dir = fr[i].dir
  BY <1>2, <1>3, <1>5
<1>7. DOMAIN new = 1 .. Len(fr) /\ DOMAIN fr = 1 .. Len(fr) /\ 1 \in 1 .. Len(fr) /\ new # <<>>
  BY <1>1, <1>3
<1>8. IsStack(new)
  BY <1>3, <1>6, <1>7 DEF IsStack
<1> QED BY <1>2, <1>3, <1>4, <1>7, <1>8

LEMMA EnteredIs ==
  ASSUME NEW fr, IsStack(fr), fr # <<>>, NEW name \in fr[1].left, NEW left \in SUBSET Names
  PROVE  LET new == Entered(fr, name, left) IN
         /\ IsStack(new) /\ Len(new) = Len(fr) + 1 /\ new # <<>>
         /\ new[1].dir = Append(fr[1].dir, name) /\ new[1].left = left
         /\ new[2].dir = fr[1].dir /\ new[2].left = fr[1].left \ {name}
         /\ \A i \in 3 .. Len(fr) + 1 : new[i] = fr[i - 1]
<1> DEFINE s == Skipped(fr, name)
           x == [dir |-> Append(fr[1].dir, name), left |-> left]
           new == <<x>> \o s
<1>1. /\ Len(fr) \in Nat /\ Len(fr) > 0 /\ Head(fr) = fr[1]
      /\ fr[1].dir \in Seq(Names) /\ name \in Names /\ Len(fr[1].dir) = Len(fr) - 1
      /\ \A i \in 1 .. Len(fr) : fr[i].dir \in Seq(Names)
  BY StackFacts
<1>2. /\ IsStack(s) /\ s \in Seq(FrameType) /\ Len(s) = Len(fr)
      /\ s[1].dir = fr[1].dir /\ s[1].left = fr[1].left \ {name}
      /\ \A i \in 2 .. Len(fr) : s[i] = fr[i]
  <2>1. /\ IsStack(s) /\ Len(s) = Len(fr)
        /\ s[1].dir = fr[1].dir /\ s[1].left = fr[1].left \ {name}
        /\ \A i \in 2 .. Len(fr) : s[i] = fr[i]
    BY SkippedIs
  <2> HIDE DEF s
  <2>2. s \in Seq(FrameType)
    BY <2>1 DEF IsStack
  <2> QED BY <2>1, <2>2
<1>3. /\ Append(fr[1].dir, name) \in Seq(Names) /\ Len(Append(fr[1].dir, name)) = Len(fr)
      /\ Append(fr[1].dir, name)[Len(fr)] = name
      /\ \A j \in 1 .. Len(fr) - 1 : Append(fr[1].dir, name)[j] = fr[1].dir[j]
  BY <1>1, AppendIs
<1>4. x \in FrameType /\ x.dir = Append(fr[1].dir, name) /\ x.left = left
  BY <1>3 DEF FrameType
<1>5. Entered(fr, name, left) = new
  BY <1>1 DEF Entered
<1> HIDE DEF x, s
<1>6. /\ new \in Seq(FrameType) /\ Len(new) = Len(fr) + 1 /\ new[1] = x
      /\ \A i \in 2 .. Len(fr) + 1 : new[i] = s[i - 1]
  BY <1>1, <1>2, <1>4
<1> HIDE DEF new
<1>7. /\ DOMAIN new = 1 .. Len(fr) + 1 /\ new # <<>> /\ DOMAIN s = 1 .. Len(fr)
      /\ 1 \in 1 .. Len(fr) + 1 /\ 2 \in 2 .. Len(fr) + 1 /\ 2 - 1 = 1
  BY <1>1, <1>2, <1>6
<1>8. new[2].dir = fr[1].dir /\ new[2].left = fr[1].left \ {name}
  BY <1>2, <1>6, <1>7
<1>9. \A i \in 3 .. Len(fr) + 1 : new[i] = fr[i - 1]
  BY <1>1, <1>2, <1>6
<1>10. \A i \in 1 .. Len(fr) + 1 : i = 1 \/ (i \in 2 .. Len(fr) + 1 /\ i - 1 \in 1 .. Len(fr))
  BY <1>1
<1>11. ASSUME NEW i \in 1 .. Len(fr) + 1
       PROVE  /\ Len(new[i].dir) = Len(fr) + 1 - i
              /\ \A j \in 1 .. Len(fr) + 1 - i : new[i].dir[j] = new[1].dir[j]
  <2>1. CASE i = 1
    BY <1>1, <1>3, <1>4, <1>6, <2>1
  <2>2. CASE i # 1
    <3>1. i \in 2 .. Len(fr) + 1 /\ i - 1 \in 1 .. Len(fr)
      BY <1>10, <2>2
    <3>2. new[i] = s[i - 1]
      BY <1>6, <3>1
    <3>3. /\ Len(s[i - 1].dir) = Len(s) - (i - 1)
          /\ \A j \in 1 .. Len(s) - (i - 1) : s[i - 1].dir[j] = s[1].dir[j]
      BY <1>2, <1>7, <3>1 DEF IsStack
    <3>4. Len(s) - (i - 1) = Len(fr) + 1 - i /\ Len(fr) + 1 - i <= Len(fr) - 1
      BY <1>1, <1>2, <3>1
    <3>5. \A j \in 1 .. Len(fr) + 1 - i : j \in 1 .. Len(fr) - 1
      BY <1>1, <3>1, <3>4
    <3>6. \A j \in 1 .. Len(fr) - 1 : s[1].dir[j] = new[1].dir[j]
      BY <1>2, <1>3, <1>4, <1>6
    <3> QED BY <3>2, <3>3, <3>4, <3>5, <3>6
  <2> QED BY <2>1, <2>2
<1>12. ASSUME NEW i \in 2 .. Len(fr) + 1
       PROVE  new[1].dir[Len(fr) + 1 - i + 1] \notin new[i].left
  <2>1. CASE i = 2
    <3>1. Len(fr) + 1 - i + 1 = Len(fr)
      BY <1>1, <2>1
    <3>2. new[1].dir[Len(fr)] = name
      BY <1>3, <1>4, <1>6
    <3> QED BY <1>8, <2>1, <3>1, <3>2
  <2>2. CASE i # 2
    <3>1. /\ i - 1 \in 2 .. Len(fr) /\ Len(s) - (i - 1) + 1 = Len(fr) + 1 - i + 1
          /\ Len(fr) + 1 - i + 1 \in 1 .. Len(fr) - 1
      BY <1>1, <1>2, <2>2
    <3>2. s[1].dir[Len(s) - (i - 1) + 1] \notin s[i - 1].left
      BY <1>2, <3>1 DEF IsStack
    <3>3. new[1].dir[Len(fr) + 1 - i + 1] = s[1].dir[Len(s) - (i - 1) + 1]
      BY <1>2, <1>3, <1>4, <1>6, <3>1
    <3> QED BY <1>6, <3>2, <3>3
  <2> QED BY <2>1, <2>2
<1>13. IsStack(new)
  <2>1. ASSUME NEW i \in DOMAIN new
        PROVE  /\ Len(new[i].dir) = Len(new) - i
               /\ \A j \in 1 .. Len(new) - i : new[i].dir[j] = new[1].dir[j]
    <3>1. Len(new) - i = Len(fr) + 1 - i
      BY <1>6
    <3>2. i \in 1 .. Len(fr) + 1
      BY <1>7
    <3> QED BY <1>11, <3>1, <3>2, Zenon
  <2>2. \A i \in 2 .. Len(new) : new[1].dir[Len(new) - i + 1] \notin new[i].left
    BY <1>6, <1>12
  <2> QED BY <1>6, <2>1, <2>2 DEF IsStack
<1> QED BY <1>4, <1>5, <1>6, <1>7, <1>8, <1>9, <1>13

LEMMA TailIs ==
  ASSUME NEW fr, IsStack(fr), fr # <<>>
  PROVE  /\ IsStack(Tail(fr)) /\ Len(Tail(fr)) = Len(fr) - 1
         /\ DOMAIN Tail(fr) = 1 .. Len(fr) - 1
         /\ \A i \in 1 .. Len(fr) - 1 : Tail(fr)[i] = fr[i + 1]
         /\ Tail(fr) = <<>> <=> Len(fr) = 1
<1> DEFINE new == Tail(fr)
<1>1. /\ Len(fr) \in Nat /\ Len(fr) > 0 /\ fr \in Seq(FrameType) /\ DOMAIN fr = 1 .. Len(fr)
      /\ \A i \in 1 .. Len(fr) : fr[i].dir \in Seq(Names)
  BY StackFacts DEF IsStack
<1>2. /\ new \in Seq(FrameType) /\ Len(new) = Len(fr) - 1 /\ DOMAIN new = 1 .. Len(fr) - 1
      /\ \A i \in 1 .. Len(fr) - 1 : new[i] = fr[i + 1]
      /\ new = <<>> <=> Len(fr) = 1
  <2>1. /\ new \in Seq(FrameType) /\ Len(new) = Len(fr) - 1
        /\ \A i \in 1 .. Len(fr) - 1 : new[i] = fr[i + 1]
    BY <1>1, HeadTailProperties
  <2> HIDE DEF new
  <2>2. DOMAIN new = 1 .. Len(new) /\ (new = <<>> <=> Len(new) = 0)
    BY <2>1
  <2>3. Len(fr) - 1 = 0 <=> Len(fr) = 1
    BY <1>1
  <2> QED BY <2>1, <2>2, <2>3
<1> HIDE DEF new
<1>3. ASSUME NEW i \in 1 .. Len(fr) - 1
      PROVE  /\ Len(new[i].dir) = Len(new) - i
             /\ \A j \in 1 .. Len(new) - i : new[i].dir[j] = new[1].dir[j]
  <2>1. /\ i + 1 \in 1 .. Len(fr) /\ 1 + 1 \in 1 .. Len(fr) /\ 1 \in 1 .. Len(fr) - 1
        /\ Len(new) - i = Len(fr) - (i + 1) /\ Len(new) - i <= Len(fr) - (1 + 1)
    BY <1>1, <1>2
  <2>2. /\ Len(fr[i + 1].dir) = Len(fr) - (i + 1)
        /\ \A j \in 1 .. Len(fr) - (i + 1) : fr[i + 1].dir[j] = fr[1].dir[j]
        /\ \A j \in 1 .. Len(fr) - (1 + 1) : fr[1 + 1].dir[j] = fr[1].dir[j]
    BY <1>1, <2>1 DEF IsStack
  <2>3. \A j \in 1 .. Len(new) - i : j \in 1 .. Len(fr) - (1 + 1)
    BY <1>1, <1>2, <2>1
  <2>4. new[i] = fr[i + 1] /\ new[1] = fr[1 + 1]
    BY <1>2, <2>1
  <2> QED BY <2>1, <2>2, <2>3, <2>4
<1>4. ASSUME NEW i \in 2 .. Len(new)
      PROVE  new[1].dir[Len(new) - i + 1] \notin new[i].left
  <2>1. /\ i \in 1 .. Len(fr) - 1 /\ i + 1 \in 2 .. Len(fr) /\ 1 + 1 \in 1 .. Len(fr)
        /\ 1 \in 1 .. Len(fr) - 1 /\ Len(new) - i + 1 = Len(fr) - (i + 1) + 1
        /\ Len(new) - i + 1 \in 1 .. Len(fr) - (1 + 1)
    BY <1>1, <1>2
  <2>2. /\ fr[1].dir[Len(fr) - (i + 1) + 1] \notin fr[i + 1].left
        /\ \A j \in 1 .. Len(fr) - (1 + 1) : fr[1 + 1].dir[j] = fr[1].dir[j]
    BY <1>1, <2>1 DEF IsStack
  <2>3. new[i] = fr[i + 1] /\ new[1] = fr[1 + 1]
    BY <1>2, <2>1
  <2> QED BY <2>1, <2>2, <2>3
<1>5. IsStack(new)
  BY <1>2, <1>3, <1>4 DEF IsStack
<1> QED BY <1>2, <1>5 DEF new

LEMMA SkippedDue ==
  ASSUME NEW fr, IsStack(fr), fr # <<>>, NEW name, NEW p
  PROVE  /\ OnStack(fr, p) => OnStack(Skipped(fr, name), p)
         /\ Due(fr, p) => Due(Skipped(fr, name), p) \/ IsPrefix(Append(fr[1].dir, name), p)
<1> DEFINE new == Skipped(fr, name)
<1>1. /\ IsStack(new) /\ Len(new) = Len(fr) /\ new # <<>>
      /\ new[1].dir = fr[1].dir /\ new[1].left = fr[1].left \ {name}
      /\ \A i \in 2 .. Len(fr) : new[i] = fr[i]
  BY SkippedIs
<1> HIDE DEF new
<1>2. DOMAIN fr = 1 .. Len(fr) /\ DOMAIN new = 1 .. Len(fr) /\ Len(fr) \in Nat
  BY <1>1, StackFacts
<1>3. \A i \in 1 .. Len(fr) : i = 1 \/ i \in 2 .. Len(fr)
  BY <1>2
<1>4. \A i \in 1 .. Len(fr) : new[i].dir = fr[i].dir
  BY <1>1, <1>3
<1>5. OnStack(fr, p) => OnStack(new, p)
  BY <1>2, <1>4 DEF OnStack
<1>6. ASSUME Due(fr, p), ~IsPrefix(Append(fr[1].dir, name), p) PROVE Due(new, p)
  <2>1. PICK i \in 1 .. Len(fr) : \E n \in fr[i].left : IsPrefix(Append(fr[i].dir, n), p)
    BY <1>2, <1>6 DEF Due
  <2>2. PICK n \in fr[i].left : IsPrefix(Append(fr[i].dir, n), p)
    BY <2>1
  <2>3. n \in new[i].left
    BY <1>1, <1>3, <1>6, <2>2
  <2> QED BY <1>2, <1>4, <2>2, <2>3 DEF Due
<1> QED BY <1>5, <1>6 DEF new

LEMMA EnteredDue ==
  ASSUME NEW fr, IsStack(fr), fr # <<>>, NEW name \in fr[1].left, NEW left \in SUBSET Names,
         NEW p
  PROVE  /\ OnStack(fr, p) => OnStack(Entered(fr, name, left), p)
         /\ Due(fr, p) => Due(Entered(fr, name, left), p) \/ IsPrefix(Append(fr[1].dir, name), p)
<1> DEFINE s == Skipped(fr, name)
           new == Entered(fr, name, left)
<1>1. /\ IsStack(new) /\ Len(new) = Len(fr) + 1 /\ new # <<>>
      /\ new[2].dir = fr[1].dir /\ new[2].left = fr[1].left \ {name}
      /\ \A i \in 3 .. Len(fr) + 1 : new[i] = fr[i - 1]
  BY EnteredIs
<1>2. /\ IsStack(s) /\ Len(s) = Len(fr) /\ s # <<>>
      /\ s[1].dir = fr[1].dir /\ s[1].left = fr[1].left \ {name}
      /\ \A i \in 2 .. Len(fr) : s[i] = fr[i]
  BY SkippedIs
<1>3. /\ OnStack(fr, p) => OnStack(s, p)
      /\ Due(fr, p) => Due(s, p) \/ IsPrefix(Append(fr[1].dir, name), p)
  BY SkippedDue
<1> HIDE DEF new, s
<1>4. DOMAIN s = 1 .. Len(fr) /\ DOMAIN new = 1 .. Len(fr) + 1 /\ Len(fr) \in Nat /\ Len(fr) > 0
  <2>1. DOMAIN s = 1 .. Len(s) /\ DOMAIN new = 1 .. Len(new) /\ Len(fr) \in Nat /\ Len(fr) > 0
    BY <1>1, <1>2, StackFacts
  <2> QED BY <1>1, <1>2, <2>1
<1>5. ASSUME NEW i \in 1 .. Len(fr)
      PROVE  i + 1 \in 1 .. Len(fr) + 1 /\ new[i + 1].dir = s[i].dir /\ new[i + 1].left = s[i].left
  <2>1. CASE i = 1
    <3>1. i + 1 = 2 /\ 2 \in 1 .. Len(fr) + 1
      BY <1>4, <2>1
    <3> QED BY <1>1, <1>2, <2>1, <3>1
  <2>2. CASE i # 1
    <3>1. i \in 2 .. Len(fr) /\ i + 1 \in 3 .. Len(fr) + 1 /\ i + 1 - 1 = i
          /\ i + 1 \in 1 .. Len(fr) + 1
      BY <1>4, <2>2
    <3>2. new[i + 1] = fr[i] /\ s[i] = fr[i]
      BY <1>1, <1>2, <3>1
    <3> QED BY <3>1, <3>2
  <2> QED BY <2>1, <2>2
<1>6. OnStack(s, p) => OnStack(new, p)
  BY <1>4, <1>5 DEF OnStack
<1>7. Due(s, p) => Due(new, p)
  BY <1>4, <1>5 DEF Due
<1> QED BY <1>3, <1>6, <1>7 DEF new

LEMMA TailDue ==
  ASSUME NEW fr, IsStack(fr), fr # <<>>, NEW p
  PROVE  /\ OnStack(fr, p) => OnStack(Tail(fr), p) \/ p = fr[1].dir
         /\ Due(fr, p) => \/ Due(Tail(fr), p)
                          \/ \E n \in fr[1].left : IsPrefix(Append(fr[1].dir, n), p)
<1> DEFINE new == Tail(fr)
<1>1. /\ DOMAIN new = 1 .. Len(fr) - 1
      /\ \A i \in 1 .. Len(fr) - 1 : new[i] = fr[i + 1]
  BY TailIs
<1> HIDE DEF new
<1>2. DOMAIN fr = 1 .. Len(fr) /\ Len(fr) \in Nat
  BY StackFacts
<1>3. ASSUME NEW i \in 1 .. Len(fr), i # 1
      PROVE  i - 1 \in DOMAIN new /\ new[i - 1] = fr[i]
  <2>1. i - 1 \in 1 .. Len(fr) - 1 /\ i - 1 + 1 = i
    BY <1>2, <1>3
  <2> QED BY <1>1, <2>1
<1>4. OnStack(fr, p) => OnStack(new, p) \/ p = fr[1].dir
  BY <1>2, <1>3 DEF OnStack
<1>5. Due(fr, p) => Due(new, p) \/ \E n \in fr[1].left : IsPrefix(Append(fr[1].dir, n), p)
  BY <1>2, <1>3 DEF Due
<1> QED BY <1>4, <1>5 DEF new

\* The frames are exactly the way to the directory at work.
LEMMA WayIsOnStack ==
  ASSUME NEW fr, IsStack(fr), fr # <<>>, NEW p \in Seq(Names), IsPrefix(p, fr[1].dir)
  PROVE  OnStack(fr, p)
<1>1. /\ Len(fr) \in Nat /\ DOMAIN fr = 1 .. Len(fr) /\ fr[1].dir \in Seq(Names)
      /\ Len(fr[1].dir) = Len(fr) - 1
      /\ \A i \in 1 .. Len(fr) : fr[i].dir \in Seq(Names)
  BY StackFacts
<1>2. Len(p) \in Nat /\ Len(p) <= Len(fr[1].dir) /\ \A j \in 1 .. Len(p) : p[j] = fr[1].dir[j]
  <2> DEFINE d == fr[1].dir
  <2>1. d \in Seq(Names) /\ IsPrefix(p, d)
    BY <1>1
  <2> HIDE DEF d
  <2>2. Len(p) \in Nat /\ Len(p) <= Len(d) /\ \A j \in 1 .. Len(p) : p[j] = d[j]
    BY <2>1, PrefixIs
  <2> QED BY <2>2 DEF d
<1> DEFINE i == Len(fr) - Len(p)
<1>3. i \in 1 .. Len(fr) /\ Len(fr) - i = Len(p)
  <2>1. Len(p) <= Len(fr) - 1 /\ Len(p) \in Nat /\ Len(fr) \in Nat
    BY <1>1, <1>2
  <2> QED BY ONLY <2>1 DEF i
<1> HIDE DEF i
<1>4. Len(fr[i].dir) = Len(p) /\ \A j \in 1 .. Len(p) : fr[i].dir[j] = fr[1].dir[j]
  <2>1. /\ Len(fr[i].dir) = Len(fr) - i
        /\ \A j \in 1 .. Len(fr) - i : fr[i].dir[j] = fr[1].dir[j]
    BY <1>1, <1>3 DEF IsStack
  <2> QED BY <1>3, <2>1
<1>5. \A j \in 1 .. Len(p) : p[j] = fr[i].dir[j]
  BY <1>2, <1>4
<1>6. p = fr[i].dir
  <2>1. fr[i].dir \in Seq(Names)
    BY <1>1, <1>3
  <2> QED BY <1>4, <1>5, <2>1, PathEqual
<1> QED BY <1>1, <1>3, <1>6 DEF OnStack

\* What is still to be visited below the directory at work, is so from its
\* own frame: the frames around it have left the name on the way behind them.
LEMMA DueBelow ==
  ASSUME NEW fr, IsStack(fr), fr # <<>>, NEW p \in Seq(Names), IsPrefix(fr[1].dir, p)
  PROVE  /\ OnStack(fr, p) => p = fr[1].dir
         /\ Due(fr, p) => \E n \in fr[1].left : IsPrefix(Append(fr[1].dir, n), p)
<1>1. /\ Len(fr) \in Nat /\ DOMAIN fr = 1 .. Len(fr) /\ fr[1].dir \in Seq(Names)
      /\ Len(fr[1].dir) = Len(fr) - 1
      /\ \A i \in 1 .. Len(fr) : fr[i].dir \in Seq(Names) /\ fr[i].left \subseteq Names
  BY StackFacts
<1>2. Len(p) \in Nat /\ Len(fr) - 1 <= Len(p) /\ \A j \in 1 .. Len(fr) - 1 : p[j] = fr[1].dir[j]
  <2> DEFINE d == fr[1].dir
  <2>1. d \in Seq(Names) /\ IsPrefix(d, p) /\ Len(d) = Len(fr) - 1
    BY <1>1
  <2> HIDE DEF d
  <2>2. Len(p) \in Nat /\ Len(d) <= Len(p) /\ \A j \in 1 .. Len(d) : d[j] = p[j]
    BY <2>1, PrefixIs
  <2>3. Len(fr) - 1 <= Len(p) /\ \A j \in 1 .. Len(fr) - 1 : d[j] = p[j]
    BY <2>1, <2>2
  <2> QED BY <2>2, <2>3 DEF d
<1>3. \A i \in 1 .. Len(fr) : Len(fr[i].dir) = Len(fr) - i
  BY <1>1 DEF IsStack
<1>4. OnStack(fr, p) => p = fr[1].dir
  <2> SUFFICES ASSUME NEW i \in DOMAIN fr, p = fr[i].dir PROVE p = fr[1].dir
    BY DEF OnStack
  <2>0. i \in 1 .. Len(fr)
    BY <1>1
  <2>1. Len(p) = Len(fr) - i
    BY <1>3, <2>0
  <2>2. i = 1
    <3>1. Len(fr) \in Nat /\ Len(fr) - 1 <= Len(fr) - i
      BY <1>1, <1>2, <2>1
    <3> QED BY ONLY <2>0, <3>1
  <2> QED BY <2>2
<1>5. ASSUME NEW i \in 1 .. Len(fr), NEW n \in fr[i].left, IsPrefix(Append(fr[i].dir, n), p)
      PROVE  i = 1
  <2> SUFFICES ASSUME i # 1 PROVE FALSE
    OBVIOUS
  <2> DEFINE a == Append(fr[i].dir, n)
             k == Len(fr) - i + 1
  <2>1. fr[i].dir \in Seq(Names) /\ n \in Names /\ Len(fr[i].dir) = Len(fr) - i
    BY <1>1, <1>3
  <2>2. a \in Seq(Names) /\ Len(a) = k /\ a[k] = n
    <3> DEFINE d == fr[i].dir
    <3>1. d \in Seq(Names) /\ n \in Names /\ Len(d) + 1 = k
      BY <2>1
    <3> HIDE DEF d, k
    <3>2. Append(d, n) \in Seq(Names) /\ Len(Append(d, n)) = k /\ Append(d, n)[k] = n
      BY <3>1, AppendIs
    <3> QED BY <3>2 DEF d
  <2>3. k \in 1 .. Len(fr) - 1 /\ k \in 1 .. k /\ i \in 2 .. Len(fr)
    <3>1. Len(fr) \in Nat /\ i \in 1 .. Len(fr) /\ i # 1
      BY <1>1
    <3> QED BY ONLY <3>1
  <2>4. \A j \in 1 .. Len(a) : a[j] = p[j]
    <3> HIDE DEF a
    <3>1. IsPrefix(a, p)
      BY <1>5 DEF a
    <3> QED BY <2>2, <3>1, PrefixIs
  <2> HIDE DEF a
  <2>5. p[k] = n
    BY <2>2, <2>3, <2>4
  <2>6. fr[1].dir[k] = n
    BY <1>2, <2>3, <2>5
  <2>7. fr[1].dir[k] \notin fr[i].left
    BY <2>3 DEF IsStack
  <2> QED BY <2>6, <2>7
<1>6. Due(fr, p) => \E n \in fr[1].left : IsPrefix(Append(fr[1].dir, n), p)
  BY <1>1, <1>5 DEF Due
<1> QED BY <1>4, <1>6

\* p is an entry that one of the frames still lists.
Awaited(fr, p) == \E i \in DOMAIN fr : \E n \in fr[i].left : p = Append(fr[i].dir, n)

\* A name that was taken from its frame does not come again.
LEMMA SkippedBack ==
  ASSUME NEW fr, IsStack(fr), fr # <<>>, NEW name \in Names, NEW p
  PROVE  LET path == Append(fr[1].dir, name) IN
         /\ OnStack(Skipped(fr, name), p) => OnStack(fr, p) /\ p # path
         /\ Awaited(Skipped(fr, name), p) => Awaited(fr, p) /\ p # path
<1> DEFINE new == Skipped(fr, name)
           path == Append(fr[1].dir, name)
<1>1. /\ IsStack(new) /\ Len(new) = Len(fr) /\ new # <<>>
      /\ new[1].dir = fr[1].dir /\ new[1].left = fr[1].left \ {name}
      /\ \A i \in 2 .. Len(fr) : new[i] = fr[i]
  BY SkippedIs
<1> HIDE DEF new
<1>2. /\ Len(fr) \in Nat /\ DOMAIN fr = 1 .. Len(fr) /\ fr[1].dir \in Seq(Names)
      /\ Len(fr[1].dir) = Len(fr) - 1
      /\ \A i \in 1 .. Len(fr) : fr[i].dir \in Seq(Names) /\ fr[i].left \subseteq Names
  BY StackFacts
<1>n. Len(fr) \in Nat /\ Len(fr) > 0
  BY StackFacts
<1>d. Len(fr[1].dir) = Len(fr) - 1
  BY <1>2
<1>3. path \in Seq(Names) /\ Len(path) = Len(fr) /\ path[Len(fr)] = name
      /\ Front(path) = fr[1].dir /\ Last(path) = name
  <2>1. Len(fr[1].dir) + 1 = Len(fr)
    BY <1>n, <1>d
  <2> DEFINE d == fr[1].dir
  <2>2. d \in Seq(Names) /\ Len(d) + 1 = Len(fr)
    BY <1>2, <2>1
  <2> HIDE DEF d
  <2>3. /\ Append(d, name) \in Seq(Names) /\ Len(Append(d, name)) = Len(fr)
        /\ Append(d, name)[Len(fr)] = name
        /\ Front(Append(d, name)) = d /\ Last(Append(d, name)) = name
    BY <2>2, AppendIs
  <2> QED BY <2>3 DEF d
<1> HIDE DEF path
<1>4. DOMAIN new = 1 .. Len(fr)
  <2>1. DOMAIN new = 1 .. Len(new)
    BY <1>1, StackFacts
  <2> QED BY <1>1, <2>1
<1>5. ASSUME NEW i \in 1 .. Len(fr)
      PROVE  /\ new[i].dir = fr[i].dir /\ new[i].left \subseteq fr[i].left
             /\ Len(fr[i].dir) = Len(fr) - i
             /\ i = 1 => name \notin new[i].left
  <2>1. i = 1 \/ i \in 2 .. Len(fr)
    BY <1>n
  <2>2. Len(fr[i].dir) = Len(fr) - i
    BY <1>2 DEF IsStack
  <2> QED BY <1>1, <2>1, <2>2
<1>6. ASSUME NEW i \in 1 .. Len(fr) PROVE fr[i].dir # path
  <2>1. Len(fr) - i # Len(fr)
    BY <1>n
  <2> QED BY <1>3, <1>5, <2>1
<1>7. ASSUME NEW i \in 1 .. Len(fr), NEW n \in new[i].left PROVE Append(fr[i].dir, n) # path
  <2>1. n \in Names /\ fr[i].dir \in Seq(Names)
    BY <1>2, <1>5
  <2>2. Front(Append(fr[i].dir, n)) = fr[i].dir /\ Last(Append(fr[i].dir, n)) = n
    BY <2>1, AppendIs
  <2> SUFFICES ASSUME Append(fr[i].dir, n) = path PROVE FALSE
    OBVIOUS
  <2>3. fr[i].dir = fr[1].dir /\ n = name
    BY <1>3, <2>2
  <2>4. Len(fr) - i = Len(fr) - 1
    BY <1>2, <1>5, <2>3
  <2>5. i = 1
    BY <1>n, <2>4
  <2> QED BY <1>5, <2>3, <2>5
<1>8. OnStack(new, p) => OnStack(fr, p) /\ p # path
  BY <1>2, <1>4, <1>5, <1>6 DEF OnStack
<1>9. Awaited(new, p) => Awaited(fr, p) /\ p # path
  <2> SUFFICES ASSUME NEW i \in 1 .. Len(fr), NEW n \in new[i].left, p = Append(new[i].dir, n)
               PROVE  Awaited(fr, p) /\ p # path
    BY <1>4 DEF Awaited
  <2>1. p = Append(fr[i].dir, n) /\ n \in fr[i].left
    BY <1>5
  <2> QED BY <1>2, <1>7, <2>1 DEF Awaited
<1> QED BY <1>8, <1>9 DEF new, path

LEMMA EnteredBack ==
  ASSUME NEW fr, IsStack(fr), fr # <<>>, NEW name \in fr[1].left, NEW left \in SUBSET Names,
         NEW p
  PROVE  LET path == Append(fr[1].dir, name) IN
         /\ OnStack(Entered(fr, name, left), p) => OnStack(fr, p) \/ p = path
         /\ Awaited(Entered(fr, name, left), p) =>
              Awaited(fr, p) \/ \E n \in left : p = Append(path, n)
         /\ OnStack(Entered(fr, name, left), path)
         /\ \A n \in left : Awaited(Entered(fr, name, left), Append(path, n))
<1> DEFINE new == Entered(fr, name, left)
           path == Append(fr[1].dir, name)
<1>1. /\ IsStack(new) /\ Len(new) = Len(fr) + 1 /\ new # <<>>
      /\ new[1].dir = path /\ new[1].left = left
      /\ new[2].dir = fr[1].dir /\ new[2].left = fr[1].left \ {name}
      /\ \A i \in 3 .. Len(fr) + 1 : new[i] = fr[i - 1]
  BY EnteredIs
<1> HIDE DEF new, path
<1>2. /\ Len(fr) \in Nat /\ Len(fr) > 0 /\ DOMAIN fr = 1 .. Len(fr)
  BY StackFacts
<1>3. DOMAIN new = 1 .. Len(fr) + 1 /\ 1 \in DOMAIN new
  <2>1. DOMAIN new = 1 .. Len(new)
    BY <1>1, StackFacts
  <2> QED BY <1>1, <1>2, <2>1
<1>4. ASSUME NEW i \in DOMAIN new
      PROVE  \/ new[i].dir = path /\ new[i].left = left
             \/ \E j \in DOMAIN fr : new[i].dir = fr[j].dir /\ new[i].left \subseteq fr[j].left
  <2>1. CASE i = 1
    BY <1>1, <2>1
  <2>2. CASE i = 2
    <3>1. 1 \in DOMAIN fr
      BY <1>2
    <3> QED BY <1>1, <2>2, <3>1
  <2>3. CASE i # 1 /\ i # 2
    <3>1. i \in 3 .. Len(fr) + 1 /\ i - 1 \in DOMAIN fr
      BY <1>2, <1>3, <2>3
    <3> QED BY <1>1, <3>1
  <2> QED BY <2>1, <2>2, <2>3
<1>5. OnStack(new, p) => OnStack(fr, p) \/ p = path
  BY <1>4 DEF OnStack
<1>6. Awaited(new, p) => Awaited(fr, p) \/ \E n \in left : p = Append(path, n)
  BY <1>4 DEF Awaited
<1>7. OnStack(new, path) /\ \A n \in left : Awaited(new, Append(path, n))
  BY <1>1, <1>3 DEF OnStack, Awaited
<1> QED BY <1>5, <1>6, <1>7 DEF new, path

LEMMA TailBack ==
  ASSUME NEW fr, IsStack(fr), fr # <<>>, NEW p
  PROVE  /\ OnStack(Tail(fr), p) => OnStack(fr, p) /\ p # fr[1].dir
         /\ Awaited(Tail(fr), p) => Awaited(fr, p) /\ p # fr[1].dir
<1> DEFINE new == Tail(fr)
<1>1. /\ DOMAIN new = 1 .. Len(fr) - 1
      /\ \A i \in 1 .. Len(fr) - 1 : new[i] = fr[i + 1]
  BY TailIs
<1> HIDE DEF new
<1>2. /\ Len(fr) \in Nat /\ DOMAIN fr = 1 .. Len(fr) /\ fr[1].dir \in Seq(Names)
      /\ Len(fr[1].dir) = Len(fr) - 1
      /\ \A i \in 1 .. Len(fr) : fr[i].dir \in Seq(Names) /\ fr[i].left \subseteq Names
  BY StackFacts
<1>n. Len(fr) \in Nat /\ Len(fr) > 0 /\ DOMAIN new = 1 .. Len(fr) - 1
  BY <1>1, StackFacts
<1>3. ASSUME NEW i \in DOMAIN new
      PROVE  /\ i + 1 \in DOMAIN fr /\ new[i] = fr[i + 1] /\ i + 1 \in 1 .. Len(fr)
             /\ Len(fr[i + 1].dir) = Len(fr) - (i + 1)
  <2>1. i + 1 \in 1 .. Len(fr)
    BY <1>n
  <2> QED BY <1>1, <1>2, <2>1 DEF IsStack
<1>4. OnStack(new, p) => OnStack(fr, p) /\ p # fr[1].dir
  <2> SUFFICES ASSUME NEW i \in DOMAIN new, p = new[i].dir
               PROVE  OnStack(fr, p) /\ p # fr[1].dir
    BY DEF OnStack
  <2>1. Len(fr) - (i + 1) # Len(fr) - 1
    BY <1>n
  <2> QED BY <1>2, <1>3, <2>1 DEF OnStack
<1>5. Awaited(new, p) => Awaited(fr, p) /\ p # fr[1].dir
  <2> SUFFICES ASSUME NEW i \in DOMAIN new, NEW n \in new[i].left, p = Append(new[i].dir, n)
               PROVE  Awaited(fr, p) /\ p # fr[1].dir
    BY DEF Awaited
  <2>1. /\ n \in fr[i + 1].left /\ p = Append(fr[i + 1].dir, n)
        /\ fr[i + 1].dir \in Seq(Names) /\ n \in Names
    BY <1>2, <1>3
  <2>2. Awaited(fr, p)
    BY <1>3, <2>1 DEF Awaited
  <2> SUFFICES ASSUME p = fr[1].dir PROVE FALSE
    BY <2>2
  <2>3. p[Len(fr) - (i + 1) + 1] = n /\ Len(fr) - (i + 1) + 1 = Len(fr) - i
    <3>1. p[Len(fr[i + 1].dir) + 1] = n
      BY <2>1, AppendIs
    <3>2. Len(fr) - (i + 1) + 1 = Len(fr) - i
      BY <1>n
    <3> QED BY <1>3, <3>1, <3>2
  <2>4. i + 1 \in 2 .. Len(fr)
    BY <1>n
  <2>5. fr[1].dir[Len(fr) - (i + 1) + 1] \notin fr[i + 1].left
    BY <2>4 DEF IsStack
  <2> QED BY <2>1, <2>3, <2>5
<1> QED BY <1>4, <1>5 DEF new
-----------------------------------------------------------------------------
(* The inductive invariant.                                                  *)

\* A path of the project in the copy.
Moved(path) == <<"project">> \o path

\* The types.
Placed ==
  /\ case \in Cases
  /\ IsTree(project) /\ IsTree(temp)
  /\ pc \in {"make tree", "copy", "apply", "build", "compile", "rewrite", "test", "remove",
             "done"}
  /\ err \in BOOLEAN /\ pending \in BOOLEAN /\ ran \in BOOLEAN
  /\ outcome \in {"none", "inconclusive", "survived", "killed"}
  /\ IsStack(frames)
  /\ frames # <<>> => pc \in {"copy", "remove"}

\* The tops of the trees are directories; the temporary one is there until its
\* own removal, and that of the copy while it is worked in.
Rooted ==
  /\ <<>> \in DOMAIN project /\ project[<<>>].kind = "dir"
  /\ pc \notin {"make tree", "done"} => <<>> \in DOMAIN temp
  /\ pc = "make tree" => DOMAIN temp = {}
  /\ pc \in {"apply", "build", "compile", "rewrite", "test"} \/ (pc = "copy" /\ frames # <<>>) =>
       Moved(<<>>) \in DOMAIN temp
  /\ \A p \in {<<>>, Moved(<<>>)} \cap DOMAIN temp : temp[p].kind = "dir"

InPlace(fr, paths) ==
  \A i \in DOMAIN fr : /\ fr[i].dir \in paths
                       /\ \A n \in fr[i].left : Append(fr[i].dir, n) \in paths

\* The copy is made inside the directories that were made.
Copying ==
  pc = "copy" =>
    /\ InPlace(frames, DOMAIN project)
    /\ \A i \in DOMAIN frames : /\ project[frames[i].dir].kind = "dir"
                                /\ Moved(frames[i].dir) \in DOMAIN temp

\* Until the compiler writes, whatever is in the copy is of the kind it has in
\* the project, and a link is the same link.
Mirrored ==
  pc \in {"copy", "apply", "build", "compile"} =>
    \A q \in DOMAIN temp :
      q # <<>> => \E p \in DOMAIN project :
                    /\ q = Moved(p) /\ temp[q].kind = project[p].kind
                    /\ temp[q].kind = "link" => temp[q] = project[p]

\* Links lead to places that a command line could name as well.
LinksTyped(tree) == \A p \in DOMAIN tree : tree[p].kind = "link" => tree[p].to \in Location

Linked == LinksTyped(project) /\ LinksTyped(temp)

\* No word of the compile command holds an output option and its value, and one
\* that holds an unknown output is a word of the recorded command.
OutputsDropped ==
  pc = "compile" =>
    \A i \in DOMAIN command.arguments :
      LET a == command.arguments[i] IN
      a.as # "-o=" /\ (a.as = "-W" => a.at \in Location /\ a.at.path # <<>>)

\* What is to be visited is still there.
Removing == pc = "remove" => InPlace(frames, DOMAIN temp)

\* p has a reason to stay.
Stays(p) == \E k \in kept \cap DOMAIN temp : IsPrefix(k, p) \/ IsPrefix(p, k)

\* Whatever is there will be visited, is being visited, or has a reason to stay.
Unvisited ==
  /\ pc = "remove" /\ frames # <<>> =>
       \A p \in DOMAIN temp : Stays(p) \/ OnStack(frames, p) \/ Due(frames, p)
  /\ pc = "done" => \A p \in DOMAIN temp : Stays(p)

\* Before the removal only one step gives the candidate an outcome and then
\* goes there.
Unanswered ==
  /\ pc \notin {"remove", "done"} => outcome = "none" /\ fate = "none"
  /\ pc = "make tree" => err = pending

CopyInv ==
  /\ Placed /\ Rooted /\ Copying /\ Mirrored /\ OutputsDropped
  /\ Removing /\ Unvisited /\ Unanswered

-----------------------------------------------------------------------------
(* What the steps need of paths, stacks and writes.                          *)

LEMMA PrefixFacts ==
  ASSUME NEW p \in Seq(Names), NEW d \in Seq(Names), NEW n \in Names
  PROVE  /\ IsPrefix(p, p) /\ IsPrefix(<<>>, p)
         /\ IsPrefix(d, Append(d, n)) /\ ~IsPrefix(Append(d, n), d)
         /\ IsPrefix(p, Append(d, n)) => p = Append(d, n) \/ IsPrefix(p, d)
         /\ IsPrefix(p, <<>>) => p = <<>>
<1> DEFINE a == Append(d, n)
<1>1. /\ a \in Seq(Names) /\ Len(a) = Len(d) + 1 /\ Len(d) \in Nat
      /\ \A j \in 1 .. Len(d) : a[j] = d[j]
  BY AppendIs
<1>2. Len(p) \in Nat
  OBVIOUS
<1> HIDE DEF a
<1>3. IsPrefix(p, p)
  BY <1>2, PrefixIs
<1>4. IsPrefix(<<>>, p)
  <2> DEFINE e == <<>>
  <2>1. e \in Seq(Names) /\ Len(e) = 0
    OBVIOUS
  <2> HIDE DEF e
  <2>2. IsPrefix(e, p) <=> Len(e) <= Len(p) /\ \A j \in 1 .. Len(e) : e[j] = p[j]
    BY ONLY <2>1, p \in Seq(Names), PrefixIs
  <2>3. IsPrefix(e, p)
    BY <1>2, <2>1, <2>2
  <2> QED BY <2>3 DEF e
<1>5. IsPrefix(d, a)
  BY <1>1, PrefixIs
<1>6. ~IsPrefix(a, d)
  BY <1>1, PrefixIs
<1>7. IsPrefix(p, a) => p = a \/ IsPrefix(p, d)
  <2> SUFFICES ASSUME IsPrefix(p, a) PROVE p = a \/ IsPrefix(p, d)
    OBVIOUS
  <2>1. Len(p) <= Len(a) /\ \A j \in 1 .. Len(p) : p[j] = a[j]
    BY <1>1, PrefixIs
  <2>2. CASE Len(p) = Len(a)
    BY <1>1, <2>1, <2>2, PathEqual
  <2>3. CASE Len(p) # Len(a)
    <3>1. Len(p) <= Len(d)
      BY <1>1, <1>2, <2>1, <2>3
    <3>2. \A j \in 1 .. Len(p) : p[j] = d[j]
      BY <1>1, <1>2, <2>1, <3>1
    <3> QED BY <3>1, <3>2, PrefixIs
  <2> QED BY <2>2, <2>3
<1>8. IsPrefix(p, <<>>) => p = <<>>
  <2> DEFINE e == <<>>
  <2>1. e \in Seq(Names) /\ Len(e) = 0
    OBVIOUS
  <2> HIDE DEF e
  <2>2. IsPrefix(p, e) => Len(p) = 0
    <3>1. IsPrefix(p, e) => Len(p) <= Len(e)
      BY ONLY <2>1, p \in Seq(Names), PrefixIs
    <3> QED BY <1>2, <2>1, <3>1
  <2>3. Len(p) = 0 => p = e
    BY <2>1, PathEqual
  <2> QED BY <2>2, <2>3 DEF e
<1> QED BY <1>3, <1>4, <1>5, <1>6, <1>7, <1>8 DEF a

LEMMA PrefixChain ==
  ASSUME NEW p \in Seq(Names), NEW q \in Seq(Names), NEW r \in Seq(Names),
         IsPrefix(p, q), IsPrefix(q, r)
  PROVE  IsPrefix(p, r)
<1>1. /\ Len(p) \in Nat /\ Len(q) \in Nat /\ Len(r) \in Nat
      /\ Len(p) <= Len(q) /\ \A j \in 1 .. Len(p) : p[j] = q[j]
      /\ Len(q) <= Len(r) /\ \A j \in 1 .. Len(q) : q[j] = r[j]
  BY PrefixIs
<1>2. Len(p) <= Len(r) /\ \A j \in 1 .. Len(p) : p[j] = r[j]
  BY <1>1
<1> QED BY <1>2, PrefixIs

LEMMA InPlaceIs ==
  ASSUME NEW fr, NEW paths
  PROVE  InPlace(fr, paths) <=> \A p : OnStack(fr, p) \/ Awaited(fr, p) => p \in paths
BY DEF InPlace, OnStack, Awaited

\* The stack of a recursion that starts at the top of a tree.
LEMMA OneFrame ==
  ASSUME NEW left \in SUBSET Names
  PROVE  LET fr == <<[dir |-> <<>>, left |-> left]>> IN
         /\ IsStack(fr) /\ fr # <<>> /\ Tail(fr) = <<>>
         /\ fr[1].dir = <<>> /\ fr[1].left = left /\ DOMAIN fr = {1}
<1> DEFINE e == <<>>
           x == [dir |-> e, left |-> left]
           fr == <<x>>
<1>1. e \in Seq(Names) /\ Len(e) = 0
  OBVIOUS
<1> HIDE DEF e
<1>2. x \in FrameType /\ x.dir = e /\ x.left = left
  BY <1>1 DEF FrameType
<1> HIDE DEF x
<1>3. fr \in Seq(FrameType) /\ Len(fr) = 1 /\ fr[1] = x /\ fr # <<>> /\ Tail(fr) = <<>>
  BY <1>2
<1> HIDE DEF fr
<1>4. DOMAIN fr = {1}
  BY <1>3
<1>5. \A i \in DOMAIN fr : /\ Len(fr[i].dir) = Len(fr) - i
                           /\ \A j \in 1 .. Len(fr) - i : fr[i].dir[j] = fr[1].dir[j]
  BY <1>1, <1>2, <1>3, <1>4
<1>6. IsStack(fr)
  BY <1>3, <1>5 DEF IsStack
<1> QED BY <1>2, <1>3, <1>4, <1>6 DEF fr, x, e

LEMMA NoFrames ==
  /\ IsStack(<<>>)
  /\ \A p : ~OnStack(<<>>, p) /\ ~Due(<<>>, p) /\ ~Awaited(<<>>, p)
<1>1. IsStack(<<>>)
  BY DEF IsStack
<1> QED BY <1>1 DEF OnStack, Due, Awaited

LEMMA MovedIs ==
  ASSUME NEW p \in Seq(Names)
  PROVE  /\ Moved(p) \in Seq(Names) /\ Moved(p) # <<>> /\ Len(Moved(p)) = Len(p) + 1
         /\ Moved(p)[1] = "project" /\ \A j \in 1 .. Len(p) : Moved(p)[j + 1] = p[j]
         /\ InCopy(p).path = Moved(p) /\ InCopy(p).root = "temp"
         /\ \A n \in Names : Moved(Append(p, n)) = Append(Moved(p), n)
         /\ \A q \in Seq(Names) : Moved(q) = Moved(p) => q = p
<1> DEFINE w == "project"
           M(q) == <<w>> \o q
<1>1. w \in Names
  BY NamesOK
<1>2. \A q : Moved(q) = M(q)
  BY DEF Moved
<1>3. InCopy(p).path = M(p) /\ InCopy(p).root = "temp"
  BY DEF InCopy, At
<1> HIDE DEF w
<1>4. ASSUME NEW q \in Seq(Names)
      PROVE  /\ M(q) \in Seq(Names) /\ M(q) # <<>> /\ Len(M(q)) = Len(q) + 1
             /\ M(q)[1] = w /\ \A j \in 1 .. Len(q) : M(q)[j + 1] = q[j]
  BY <1>1
<1>5. ASSUME NEW n \in Names PROVE M(Append(p, n)) = Append(M(p), n)
  BY <1>1
<1>6. ASSUME NEW q \in Seq(Names), M(q) = M(p) PROVE q = p
  <2> DEFINE m == M(p)
  <2>1. /\ Len(m) = Len(p) + 1 /\ \A j \in 1 .. Len(p) : m[j + 1] = p[j]
        /\ Len(m) = Len(q) + 1 /\ \A j \in 1 .. Len(q) : m[j + 1] = q[j]
    BY <1>4, <1>6
  <2> HIDE DEF m
  <2>2. Len(p) = Len(q) /\ \A j \in 1 .. Len(q) : q[j] = p[j]
    BY <2>1
  <2> QED BY <2>2, PathEqual
<1> HIDE DEF M
<1> QED BY <1>2, <1>3, <1>4, <1>5, <1>6 DEF w

\* The top of the copy and the entries beside and in it.
LEMMA CopyPlaces ==
  /\ <<>> \in Seq(Names) /\ Moved(<<>>) = <<"project">> /\ Front(Moved(<<>>)) = <<>>
  /\ InCopy(<<>>).path = Moved(<<>>)
  /\ \A n \in {"out", "late"} :
       /\ n \in Names /\ InCopy(<<n>>).path = Append(Moved(<<>>), n)
       /\ Append(Moved(<<>>), n) \in Seq(Names)
       /\ Front(Append(Moved(<<>>), n)) = Moved(<<>>) /\ InCopy(<<n>>).root = "temp"
<1>1. <<>> \in Seq(Names)
  OBVIOUS
<1>2. Moved(<<>>) = <<"project">>
  <2> DEFINE w == "project"
  <2> HIDE DEF w
  <2>1. <<w>> \o <<>> = <<w>>
    OBVIOUS
  <2> QED BY <2>1, Zenon DEF Moved, w
<1>3. Front(Moved(<<>>)) = <<>>
  <2> DEFINE w == "project"
  <2>1. w \in Names
    BY NamesOK
  <2> HIDE DEF w
  <2>2. Append(<<>>, w) = <<w>>
    OBVIOUS
  <2>3. Front(Append(<<>>, w)) = <<>>
    BY <1>1, <2>1, AppendIs
  <2>4. Front(<<w>>) = <<>>
    BY <2>2, <2>3, Zenon
  <2> QED BY <1>2, <2>4 DEF w
<1>4. InCopy(<<>>).path = Moved(<<>>)
  BY <1>1, MovedIs
<1>5. ASSUME NEW n \in {"out", "late"}
      PROVE  /\ n \in Names /\ InCopy(<<n>>).path = Append(Moved(<<>>), n)
             /\ Append(Moved(<<>>), n) \in Seq(Names)
             /\ Front(Append(Moved(<<>>), n)) = Moved(<<>>) /\ InCopy(<<n>>).root = "temp"
  <2>1. n \in Names
    BY NamesOK
  <2>2. Append(<<>>, n) = <<n>> /\ <<n>> \in Seq(Names)
    BY <2>1
  <2>3. InCopy(<<n>>).path = Moved(<<n>>) /\ InCopy(<<n>>).root = "temp"
    BY <2>2, MovedIs
  <2>4. Moved(Append(<<>>, n)) = Append(Moved(<<>>), n)
    BY <1>1, <2>1, MovedIs
  <2>5. Moved(<<>>) \in Seq(Names)
    BY <1>1, MovedIs
  <2>6. /\ Append(Moved(<<>>), n) \in Seq(Names)
        /\ Front(Append(Moved(<<>>), n)) = Moved(<<>>)
    BY <2>1, <2>5, AppendIs
  <2>7. InCopy(<<n>>).path = Append(Moved(<<>>), n)
    BY <2>2, <2>3, <2>4, Zenon
  <2> QED BY <2>1, <2>3, <2>6, <2>7
<1> QED BY <1>1, <1>2, <1>3, <1>4, <1>5
-----------------------------------------------------------------------------
(* Making the temporary directory and the copy.                              *)

LEMMA InitHolds == Init => CopyInv
<1> SUFFICES ASSUME Init PROVE CopyInv
  OBVIOUS
<1>1. IsTree(project) /\ <<>> \in DOMAIN project /\ project[<<>>].kind = "dir"
  <2>1. IsTree(case.tree) /\ <<>> \in DOMAIN case.tree /\ case.tree[<<>>] = Dir
    BY CasesOK DEF Init
  <2>2. Dir.kind = "dir"
    BY DEF Dir
  <2>3. project = case.tree
    BY DEF Init
  <2> QED BY ONLY <2>1, <2>2, <2>3
<1>2. IsTree(temp) /\ DOMAIN temp = {}
  <2>1. DOMAIN temp = {}
    BY DEF Init, Empty
  <2> QED BY <2>1 DEF IsTree
<1>3. Placed
  BY <1>1, <1>2, NoFrames DEF Placed, Init
<1>4. Rooted
  BY <1>1, <1>2 DEF Rooted, Init
<1>5. Copying /\ Mirrored /\ OutputsDropped /\ Removing /\ Unvisited /\ Unanswered
  BY DEF Copying, Mirrored, OutputsDropped, Removing, Unvisited, Unanswered, Init
<1> QED BY <1>3, <1>4, <1>5 DEF CopyInv

\* The trees by their roots.
LEMMA TreesAre ==
  /\ Tree("project") = project
  /\ Tree("temp") = temp
<1>1. "project" \notin DOMAIN Elsewhere /\ "temp" \notin DOMAIN Elsewhere /\ "temp" # "project"
  BY CasesOK
<1>2. Tree("project") = project
  BY <1>1, Zenon DEF Tree
<1>3. Tree("temp") = temp
  BY <1>1, Zenon DEF Tree
<1> QED BY <1>2, <1>3

LEMMA MakeTreeStep ==
  ASSUME CopyInv, MakeTree
  PROVE  CopyInv'
<1> DEFINE new == Put(temp, <<>>, Dir)
<1>1. pc = "make tree" /\ DOMAIN temp = {} /\ IsTree(temp)
  BY DEF MakeTree, CopyInv, Rooted, Placed
<1>2. frames = <<>> /\ frames' = <<>>
  BY <1>1 DEF MakeTree, CopyInv, Placed
<1>3. IsTree(new) /\ DOMAIN new = {<<>>} /\ new[<<>>].kind = "dir"
  <2>1. <<>> \in Seq(Names)
    OBVIOUS
  <2>2. IsTree(new) /\ DOMAIN new = DOMAIN temp \cup {<<>>}
    BY <1>1, <2>1, PutKeeps
  <2>3. new[<<>>] = Dir
    BY PutIs
  <2>4. Dir.kind = "dir"
    BY DEF Dir
  <2> QED BY ONLY <1>1, <2>2, <2>3, <2>4
<1> HIDE DEF new
<1>4. CASE temp' = temp /\ err' = TRUE /\ pc' = "done"
  <2>1. Placed'
    BY <1>4 DEF CopyInv, Placed, MakeTree, history
  <2>2. Rooted'
    BY <1>1, <1>4 DEF CopyInv, Rooted, MakeTree
  <2>3. (Copying /\ Mirrored /\ OutputsDropped /\ Removing /\ Unanswered)'
    BY <1>4 DEF Copying, Mirrored, OutputsDropped, Removing, Unanswered
  <2>4. Unvisited'
    BY <1>1, <1>4 DEF Unvisited
  <2> QED BY <2>1, <2>2, <2>3, <2>4 DEF CopyInv
<1>5. CASE temp' = new /\ err' = TRUE /\ pc' = "remove"
  <2>1. Placed'
    BY <1>2, <1>3, <1>5 DEF CopyInv, Placed, MakeTree, history
  <2>2. Rooted'
    BY <1>3, <1>5 DEF CopyInv, Rooted, MakeTree
  <2>3. (Copying /\ Mirrored /\ OutputsDropped /\ Unanswered)'
    BY <1>5 DEF Copying, Mirrored, OutputsDropped, Unanswered
  <2>4. Removing' /\ Unvisited'
    BY <1>2, <1>5 DEF Removing, Unvisited, InPlace
  <2> QED BY <2>1, <2>2, <2>3, <2>4 DEF CopyInv
<1>6. CASE temp' = new /\ err' = err /\ pc' = "copy"
  <2>1. Placed'
    BY <1>2, <1>3, <1>6 DEF CopyInv, Placed, MakeTree, history
  <2>2. Rooted'
    BY <1>2, <1>3, <1>6 DEF CopyInv, Rooted, MakeTree
  <2>3. (OutputsDropped /\ Removing /\ Unvisited)'
    BY <1>6 DEF OutputsDropped, Removing, Unvisited
  <2>4. Copying' /\ Mirrored'
    BY <1>2, <1>3, <1>6 DEF Copying, Mirrored, InPlace
  <2>5. Unanswered'
    BY <1>1, <1>6 DEF CopyInv, Unanswered, MakeTree, history
  <2> QED BY <2>1, <2>2, <2>3, <2>4, <2>5 DEF CopyInv
<1> QED BY <1>4, <1>5, <1>6 DEF MakeTree, new

\* A step that gives up the copy, the edit or the command for the removal.
LEMMA GivesUp ==
  ASSUME CopyInv, pc \notin {"make tree", "done"}, pc' = "remove", frames' = <<>>,
         case' = case, pending' = pending, err' \in BOOLEAN, ran' \in BOOLEAN,
         outcome' \in {"none", "inconclusive", "survived", "killed"},
         IsTree(project)', DOMAIN project \subseteq DOMAIN project',
         \A p \in DOMAIN project : project'[p].kind = project[p].kind,
         IsTree(temp)', DOMAIN temp \subseteq DOMAIN temp',
         \A p \in {<<>>, Moved(<<>>)} \cap DOMAIN temp' : temp'[p].kind = "dir"
  PROVE  CopyInv'
<1>1. Placed'
  BY NoFrames DEF CopyInv, Placed
<1>2. Rooted'
  BY DEF CopyInv, Rooted
<1>3. (Copying /\ Mirrored /\ OutputsDropped /\ Unanswered)'
  BY DEF Copying, Mirrored, OutputsDropped, Unanswered
<1>4. Removing' /\ Unvisited'
  <2>1. InPlace(frames', DOMAIN temp')
    BY NoFrames, InPlaceIs
  <2> QED BY <2>1 DEF Removing, Unvisited
<1> QED BY <1>1, <1>2, <1>3, <1>4 DEF CopyInv

LEMMA CopyTopStep ==
  ASSUME CopyInv, CopyTop
  PROVE  CopyInv'
<1> DEFINE top == Moved(<<>>)
           new == Put(temp, top, Dir)
           left == Children(project, <<>>) \ Ignored
           fr == <<[dir |-> <<>>, left |-> left]>>
<1>1. /\ pc = "copy" /\ frames = <<>> /\ IsTree(temp) /\ IsTree(project)
      /\ <<>> \in DOMAIN temp /\ temp[<<>>].kind = "dir"
      /\ top \in DOMAIN temp => temp[top].kind = "dir"
      /\ <<>> \in DOMAIN project /\ project[<<>>].kind = "dir"
  BY DEF CopyTop, CopyInv, Placed, Rooted
<1>2. /\ InCopy(<<>>).path = top /\ top \in Seq(Names) /\ top # <<>> /\ Front(top) = <<>>
      /\ <<>> \in Seq(Names)
  BY CopyPlaces, MovedIs
<1>3. Dir.kind = "dir"
  BY DEF Dir
<1> HIDE DEF top
<1>4. /\ IsTree(new) /\ DOMAIN new = DOMAIN temp \cup {top} /\ new[top] = Dir
      /\ \A p \in DOMAIN temp : p # top => new[p] = temp[p]
      /\ \A p \in DOMAIN temp : new[p].kind = temp[p].kind
  <2>1. new[top] = Dir /\ \A p \in DOMAIN temp : p # top => new[p] = temp[p]
    BY PutIs
  <2>2. IsTree(new) /\ DOMAIN new = DOMAIN temp \cup {top}
    <3>1. top # <<>> => Front(top) \in DOMAIN temp /\ temp[Front(top)].kind = "dir"
      BY <1>1, <1>2
    <3>2. top \in DOMAIN temp => Dir.kind = temp[top].kind
      BY <1>1, <1>3
    <3>3. IsTree(temp) /\ top \in Seq(Names)
      BY <1>1, <1>2
    <3> QED BY ONLY <3>1, <3>2, <3>3, PutKeeps
  <2>3. \A p \in DOMAIN temp : new[p].kind = temp[p].kind
    BY <1>1, <1>3, PutKinds
  <2> QED BY <2>1, <2>2, <2>3
<1> HIDE DEF new
<1>5. \A p \in {<<>>, top} \cap DOMAIN new : new[p].kind = "dir"
  BY <1>1, <1>3, <1>4
<1>6. CASE temp' = new /\ err' = FALSE /\ frames' = <<Listed(<<>>)>> /\ pc' = pc
  <2>1. left \subseteq Names /\ \A n \in left : Append(<<>>, n) \in DOMAIN project
    BY <1>1, <1>2, ChildrenAre
  <2>2. frames' = fr
    BY <1>6 DEF Listed
  <2> HIDE DEF left
  <2>3. IsStack(fr) /\ fr # <<>> /\ fr[1].dir = <<>> /\ fr[1].left = left /\ DOMAIN fr = {1}
    BY <2>1, OneFrame
  <2> HIDE DEF fr
  <2>4. Placed'
    BY <1>1, <1>4, <1>6, <2>2, <2>3 DEF CopyInv, Placed, CopyTop, history
  <2>5. Rooted'
    BY <1>1, <1>4, <1>5, <1>6 DEF CopyInv, Rooted, CopyTop, top
  <2>6. Copying'
    BY <1>1, <1>4, <1>6, <2>1, <2>2, <2>3 DEF CopyInv, Copying, CopyTop, InPlace, top
  <2>7. Mirrored'
    BY <1>1, <1>2, <1>3, <1>4, <1>6 DEF CopyInv, Mirrored, CopyTop, top
  <2>8. (OutputsDropped /\ Removing /\ Unvisited /\ Unanswered)'
    BY <1>1, <1>6 DEF CopyInv, OutputsDropped, Removing, Unvisited, Unanswered, CopyTop, history
  <2> QED BY <2>4, <2>5, <2>6, <2>7, <2>8 DEF CopyInv
<1>7. CASE temp' \in {temp, new} /\ err' = TRUE /\ pc' = "remove" /\ frames' = frames
  <2>1. /\ IsTree(temp)' /\ DOMAIN temp \subseteq DOMAIN temp'
        /\ \A p \in {<<>>, top} \cap DOMAIN temp' : temp'[p].kind = "dir"
    BY <1>1, <1>4, <1>5, <1>7
  <2>2. case' = case /\ project' = project /\ pending' = pending /\ outcome' = outcome /\ ran' = ran
    BY DEF CopyTop, history
  <2>3. ran \in BOOLEAN /\ outcome \in {"none", "inconclusive", "survived", "killed"}
    BY DEF CopyInv, Placed
  <2> QED BY <1>1, <1>7, <2>1, <2>2, <2>3, GivesUp DEF top
<1> QED BY <1>2, <1>6, <1>7 DEF CopyTop, new
-----------------------------------------------------------------------------
(* Copying the entries.                                                      *)

LEMMA OnStackAll ==
  ASSUME NEW fr, NEW proj, NEW paths
  PROVE  (\A i \in DOMAIN fr : proj[fr[i].dir].kind = "dir" /\ Moved(fr[i].dir) \in paths)
         <=> \A p : OnStack(fr, p) => proj[p].kind = "dir" /\ Moved(p) \in paths
BY DEF OnStack

\* An entry that is next in the directory at work, and where it goes.
LEMMA NextToCopy ==
  ASSUME CopyInv, pc = "copy", frames # <<>>, NEW name \in Head(frames).left
  PROVE  LET d == frames[1].dir
             path == Append(d, name)
             q == Moved(path)
         IN /\ Head(frames) = frames[1] /\ name \in frames[1].left /\ name \in Names
            /\ d \in Seq(Names) /\ path \in Seq(Names) /\ q \in Seq(Names) /\ q # <<>>
            /\ path \in DOMAIN project /\ InCopy(path).path = q
            /\ q # Moved(<<>>)
            /\ Front(q) \in DOMAIN temp /\ temp[Front(q)].kind = "dir"
            /\ q \in DOMAIN temp => temp[q].kind = project[path].kind
<1> DEFINE d == frames[1].dir
           path == Append(d, name)
           q == Moved(path)
<1>1. IsStack(frames) /\ IsTree(project) /\ IsTree(temp)
  BY DEF CopyInv, Placed
<1>2. /\ Head(frames) = frames[1] /\ d \in Seq(Names) /\ name \in Names /\ name \in frames[1].left
      /\ 1 \in DOMAIN frames
  BY <1>1, StackFacts
<1>3. /\ d \in DOMAIN project /\ path \in DOMAIN project
      /\ project[d].kind = "dir" /\ Moved(d) \in DOMAIN temp
  BY <1>2 DEF CopyInv, Copying, InPlace
<1> HIDE DEF d
<1>4. path \in Seq(Names) /\ path # <<>>
  BY <1>2, AppendIs
<1>5. /\ q = Append(Moved(d), name) /\ Moved(d) \in Seq(Names) /\ Moved(d) # <<>>
      /\ \A x \in Seq(Names) : Moved(x) = Moved(d) => x = d
  BY <1>2, MovedIs
<1>6. /\ q \in Seq(Names) /\ q # <<>> /\ InCopy(path).path = q
      /\ \A x \in Seq(Names) : Moved(x) = q => x = path
  BY <1>4, MovedIs
<1>7. Front(q) = Moved(d)
  BY <1>2, <1>5, AppendIs
<1>8. \A x \in DOMAIN temp :
        x # <<>> => \E p \in DOMAIN project : x = Moved(p) /\ temp[x].kind = project[p].kind
  BY DEF CopyInv, Mirrored
<1>9. DOMAIN project \subseteq Seq(Names)
  BY <1>1 DEF IsTree
<1>10. temp[Moved(d)].kind = "dir"
  BY <1>3, <1>5, <1>8, <1>9
<1>11. q \in DOMAIN temp => temp[q].kind = project[path].kind
  BY <1>6, <1>8, <1>9
<1>12. q # Moved(<<>>)
  <2>1. <<>> \in Seq(Names)
    OBVIOUS
  <2> QED BY <1>4, <1>6, <2>1
<1> QED BY <1>2, <1>3, <1>4, <1>6, <1>7, <1>10, <1>11, <1>12 DEF d

LEMMA CopyEntryStep ==
  ASSUME CopyInv, CopyEntry
  PROVE  CopyInv'
<1>1. pc = "copy" /\ frames # <<>> /\ IsStack(frames) /\ IsTree(project) /\ IsTree(temp)
  BY DEF CopyInv, Placed, CopyEntry
<1>2. PICK name \in Head(frames).left :
        LET path  == Append(Head(frames).dir, name)
            entry == project[path]
        IN /\ temp' = IF entry.kind = "other" THEN temp
                      ELSE Put(temp, InCopy(path).path, entry)
           /\ frames' = IF entry.kind = "dir" THEN <<Listed(path)>> \o Done(name) ELSE Done(name)
  BY DEF CopyEntry
<1> DEFINE d == frames[1].dir
           path == Append(d, name)
           q == Moved(path)
           entry == project[path]
           left == Children(project, path) \ Ignored
<1>3. /\ Head(frames) = frames[1] /\ name \in frames[1].left /\ name \in Names
      /\ d \in Seq(Names) /\ path \in Seq(Names) /\ q \in Seq(Names) /\ q # <<>>
      /\ path \in DOMAIN project /\ InCopy(path).path = q
      /\ q # Moved(<<>>)
      /\ Front(q) \in DOMAIN temp /\ temp[Front(q)].kind = "dir"
      /\ q \in DOMAIN temp => temp[q].kind = entry.kind
  BY <1>1, NextToCopy
<1>4. temp' = IF entry.kind = "other" THEN temp ELSE Put(temp, q, entry)
  BY <1>2, <1>3
<1>5. frames' = IF entry.kind = "dir" THEN Entered(frames, name, left) ELSE Skipped(frames, name)
  BY <1>2, <1>3 DEF Listed, Done, Entered, Skipped
<1>6. /\ case' = case /\ project' = project /\ pc' = pc /\ err' = err /\ pending' = pending
      /\ command' = command /\ outcome' = outcome /\ fate' = fate /\ ran' = ran /\ kept' = kept
  BY DEF CopyEntry, history
<1>p. path = Append(frames[1].dir, name)
  OBVIOUS
<1>q. q = Moved(path)
  OBVIOUS
<1> HIDE DEF path, q
<1> HIDE DEF entry, d
<1>7. /\ IsTree(temp') /\ DOMAIN temp \subseteq DOMAIN temp'
      /\ DOMAIN temp' \subseteq DOMAIN temp \cup {q}
      /\ entry.kind = "dir" => q \in DOMAIN temp'
      /\ \A x \in DOMAIN temp : x # q => temp'[x] = temp[x]
      /\ \A x \in DOMAIN temp : temp'[x].kind = temp[x].kind
      /\ q \in DOMAIN temp' /\ entry.kind # "other" => temp'[q] = entry
      /\ entry.kind = "other" => temp' = temp
  <2>1. CASE entry.kind = "other"
    BY <1>1, <1>4, <2>1
  <2>2. CASE entry.kind # "other"
    <3> DEFINE new == Put(temp, q, entry)
    <3>1. new[q] = entry /\ \A p \in DOMAIN temp : p # q => new[p] = temp[p]
      BY PutIs
    <3>2. \A p \in DOMAIN temp : new[p].kind = temp[p].kind
      BY <1>3, PutKinds
    <3>3. IsTree(new) /\ DOMAIN new = DOMAIN temp \cup {q}
      <4>1. q # <<>> => Front(q) \in DOMAIN temp /\ temp[Front(q)].kind = "dir"
        BY <1>3
      <4>2. q \in DOMAIN temp => entry.kind = temp[q].kind
        BY <1>3
      <4>3. IsTree(temp) /\ q \in Seq(Names)
        BY <1>1, <1>3
      <4> QED BY ONLY <4>1, <4>2, <4>3, PutKeeps
    <3>4. temp' = new
      BY <1>4, <2>2
    <3> HIDE DEF new
    <3> QED BY <2>2, <3>1, <3>2, <3>3, <3>4
  <2> QED BY <2>1, <2>2
<1>8. left \in SUBSET Names /\ \A n \in left : Append(path, n) \in DOMAIN project
  BY <1>1, <1>3, ChildrenAre
<1> HIDE DEF left
<1>9. /\ IsStack(frames') /\ frames' # <<>>
      /\ \A p : OnStack(frames', p) =>
                  OnStack(frames, p) \/ (p = path /\ entry.kind = "dir")
      /\ \A p : Awaited(frames', p) => Awaited(frames, p) \/ \E n \in left : p = Append(path, n)
  <2>1. CASE entry.kind = "dir"
    <3>1. frames' = Entered(frames, name, left)
      BY <1>5, <2>1
    <3>2. IsStack(Entered(frames, name, left)) /\ Entered(frames, name, left) # <<>>
      BY <1>1, <1>3, <1>8, EnteredIs
    <3> DEFINE new == Entered(frames, name, left)
               put == Append(frames[1].dir, name)
    <3>3. ASSUME NEW p
          PROVE  /\ OnStack(new, p) => OnStack(frames, p) \/ p = put
                 /\ Awaited(new, p) => Awaited(frames, p) \/ \E n \in left : p = Append(put, n)
      <4>1. IsStack(frames) /\ frames # <<>> /\ name \in frames[1].left /\ left \in SUBSET Names
        BY <1>1, <1>3, <1>8
      <4> QED BY <4>1, EnteredBack
    <3>4. put = path
      BY <1>p
    <3> HIDE DEF new, put
    <3>5. \A p : /\ OnStack(new, p) => OnStack(frames, p) \/ p = path
                 /\ Awaited(new, p) => Awaited(frames, p) \/ \E n \in left : p = Append(path, n)
      BY <3>3, <3>4
    <3> QED BY <2>1, <3>1, <3>2, <3>5 DEF new
  <2>2. CASE entry.kind # "dir"
    <3>1. frames' = Skipped(frames, name)
      BY <1>5, <2>2
    <3>2. IsStack(Skipped(frames, name)) /\ Skipped(frames, name) # <<>>
      BY <1>1, SkippedIs
    <3>3. \A p : /\ OnStack(Skipped(frames, name), p) => OnStack(frames, p)
                 /\ Awaited(Skipped(frames, name), p) => Awaited(frames, p)
      BY <1>1, <1>3, SkippedBack
    <3> QED BY <3>1, <3>2, <3>3
  <2> QED BY <2>1, <2>2
<1>10. Placed'
  BY <1>1, <1>6, <1>7, <1>9 DEF CopyInv, Placed
<1>11. Rooted'
  <2>1. Moved(<<>>) \in DOMAIN temp /\ <<>> \in DOMAIN temp
    BY <1>1 DEF CopyInv, Rooted
  <2> QED BY <1>1, <1>6, <1>7, <2>1 DEF CopyInv, Rooted
<1>12. Copying'
  <2>1. /\ \A p : OnStack(frames, p) \/ Awaited(frames, p) => p \in DOMAIN project
        /\ \A p : OnStack(frames, p) => project[p].kind = "dir" /\ Moved(p) \in DOMAIN temp
    BY <1>1, InPlaceIs, OnStackAll DEF CopyInv, Copying
  <2>2. ASSUME NEW p, OnStack(frames', p) \/ Awaited(frames', p) PROVE p \in DOMAIN project
    <3>1. \/ OnStack(frames, p) \/ Awaited(frames, p)
          \/ p = path \/ \E n \in left : p = Append(path, n)
      BY <1>9, <2>2
    <3> HIDE DEF path
    <3> QED BY <1>3, <1>8, <2>1, <3>1
  <2>3. \A p : OnStack(frames', p) => project[p].kind = "dir" /\ Moved(p) \in DOMAIN temp'
    BY <1>7, <1>9, <1>q, <2>1 DEF entry
  <2>4. InPlace(frames', DOMAIN project)
    BY <2>2, InPlaceIs
  <2>5. \A i \in DOMAIN frames' : /\ project[frames'[i].dir].kind = "dir"
                                  /\ Moved(frames'[i].dir) \in DOMAIN temp'
    BY <2>3, OnStackAll
  <2> QED BY <1>6, <2>4, <2>5 DEF Copying
<1>13. Mirrored'
  <2>1. \A x \in DOMAIN temp :
          x # <<>> => \E p \in DOMAIN project :
                        /\ x = Moved(p) /\ temp[x].kind = project[p].kind
                        /\ temp[x].kind = "link" => temp[x] = project[p]
    BY <1>1 DEF CopyInv, Mirrored
  <2>2. ASSUME NEW x \in DOMAIN temp', x # <<>>
        PROVE  \E p \in DOMAIN project :
                 /\ x = Moved(p) /\ temp'[x].kind = project[p].kind
                 /\ temp'[x].kind = "link" => temp'[x] = project[p]
    <3>1. CASE entry.kind = "other"
      BY <1>7, <2>1, <2>2, <3>1
    <3>2. CASE x = q /\ entry.kind # "other"
      BY <1>3, <1>7, <1>q, <3>2 DEF entry
    <3>3. CASE x # q
      BY <1>7, <2>1, <2>2, <3>3
    <3> QED BY <3>1, <3>2, <3>3
  <2> QED BY <1>6, <2>2 DEF Mirrored
<1>14. (OutputsDropped /\ Removing /\ Unvisited /\ Unanswered)'
  BY <1>1, <1>6 DEF CopyInv, OutputsDropped, Removing, Unvisited, Unanswered
<1> QED BY <1>10, <1>11, <1>12, <1>13, <1>14 DEF CopyInv

LEMMA EndDirectoryStep ==
  ASSUME CopyInv, EndDirectory
  PROVE  CopyInv'
<1>1. /\ pc = "copy" /\ frames # <<>> /\ frames' = Tail(frames)
      /\ pc' = IF Tail(frames) = <<>> THEN "apply" ELSE "copy"
      /\ case' = case /\ project' = project /\ temp' = temp /\ err' = err /\ pending' = pending
      /\ command' = command /\ outcome' = outcome /\ fate' = fate /\ ran' = ran /\ kept' = kept
  BY DEF EndDirectory, history
<1>2. IsStack(frames) /\ IsStack(Tail(frames))
  BY <1>1, TailIs DEF CopyInv, Placed
<1>3. \A p : /\ OnStack(Tail(frames), p) => OnStack(frames, p)
             /\ Awaited(Tail(frames), p) => Awaited(frames, p)
  BY <1>1, <1>2, TailBack
<1>4. Placed'
  BY <1>1, <1>2 DEF CopyInv, Placed
<1>5. Rooted'
  BY <1>1 DEF CopyInv, Rooted
<1>6. Copying'
  <2>1. /\ \A p : OnStack(frames, p) \/ Awaited(frames, p) => p \in DOMAIN project
        /\ \A p : OnStack(frames, p) => project[p].kind = "dir" /\ Moved(p) \in DOMAIN temp
    BY <1>1, InPlaceIs, OnStackAll DEF CopyInv, Copying
  <2>2. InPlace(Tail(frames), DOMAIN project)
    BY <1>3, <2>1, InPlaceIs
  <2>3. \A i \in DOMAIN Tail(frames) : /\ project[Tail(frames)[i].dir].kind = "dir"
                                       /\ Moved(Tail(frames)[i].dir) \in DOMAIN temp
    <3>1. \A p : OnStack(Tail(frames), p) => project[p].kind = "dir" /\ Moved(p) \in DOMAIN temp
      BY <1>3, <2>1
    <3> QED BY <3>1, OnStackAll
  <2> QED BY <1>1, <2>2, <2>3 DEF Copying
<1>7. Mirrored'
  BY <1>1 DEF CopyInv, Mirrored
<1>8. (OutputsDropped /\ Removing /\ Unvisited /\ Unanswered)'
  BY <1>1 DEF CopyInv, OutputsDropped, Removing, Unvisited, Unanswered
<1> QED BY <1>4, <1>5, <1>6, <1>7, <1>8 DEF CopyInv

LEMMA CopyFailsStep ==
  ASSUME CopyInv, CopyFails
  PROVE  CopyInv'
<1>1. /\ pc = "copy" /\ frames # <<>> /\ frames' = <<>> /\ pc' = "remove" /\ err' \in BOOLEAN
      /\ case' = case /\ project' = project /\ pending' = pending
      /\ outcome' = outcome /\ ran' = ran
  BY DEF CopyFails, history
<1>2. /\ IsTree(temp) /\ IsTree(project) /\ ran \in BOOLEAN
      /\ outcome \in {"none", "inconclusive", "survived", "killed"}
      /\ Moved(<<>>) \in DOMAIN temp /\ <<>> \in DOMAIN temp
      /\ \A p \in {<<>>, Moved(<<>>)} \cap DOMAIN temp : temp[p].kind = "dir"
  BY <1>1 DEF CopyInv, Placed, Rooted
<1>3. \/ temp' = temp
      \/ \E name \in Head(frames).left : \E entry :
           LET path == Append(Head(frames).dir, name) IN
           /\ temp' = Put(temp, InCopy(path).path, entry)
           /\ entry.kind = project[path].kind
  <2>1. Dir.kind = "dir" /\ \A t : File(t, "broken").kind = "file"
    BY DEF Dir, File
  <2> QED BY <2>1 DEF CopyFails
<1>4. /\ IsTree(temp') /\ DOMAIN temp \subseteq DOMAIN temp'
      /\ \A p \in DOMAIN temp : temp'[p].kind = temp[p].kind
  <2>1. CASE temp' = temp
    BY <1>2, <2>1
  <2>2. CASE \E name \in Head(frames).left : \E entry :
               LET path == Append(Head(frames).dir, name) IN
               /\ temp' = Put(temp, InCopy(path).path, entry)
               /\ entry.kind = project[path].kind
    <3> DEFINE path(n) == Append(frames[1].dir, n)
    <3>n. PICK name \in Head(frames).left : \E entry :
            LET p == Append(Head(frames).dir, name) IN
            temp' = Put(temp, InCopy(p).path, entry) /\ entry.kind = project[p].kind
      BY <2>2
    <3>1. PICK entry :
            LET p == Append(Head(frames).dir, name) IN
            temp' = Put(temp, InCopy(p).path, entry) /\ entry.kind = project[p].kind
      BY <3>n
    <3> DEFINE q == Moved(path(name))
    <3>2. /\ q \in Seq(Names) /\ InCopy(path(name)).path = q /\ Head(frames) = frames[1]
          /\ Front(q) \in DOMAIN temp /\ temp[Front(q)].kind = "dir"
          /\ q \in DOMAIN temp => temp[q].kind = project[path(name)].kind
      BY <1>1, NextToCopy
    <3>3. temp' = Put(temp, q, entry) /\ (q \in DOMAIN temp => entry.kind = temp[q].kind)
      BY <3>1, <3>2
    <3> HIDE DEF q
    <3>4. \A p \in DOMAIN temp : Put(temp, q, entry)[p].kind = temp[p].kind
      BY <3>3, PutKinds
    <3>5. IsTree(Put(temp, q, entry)) /\ DOMAIN Put(temp, q, entry) = DOMAIN temp \cup {q}
      <4>1. q # <<>> => Front(q) \in DOMAIN temp /\ temp[Front(q)].kind = "dir"
        BY <3>2
      <4>2. q \in DOMAIN temp => entry.kind = temp[q].kind
        BY <3>3
      <4>3. IsTree(temp) /\ q \in Seq(Names)
        BY <1>2, <3>2
      <4> QED BY ONLY <4>1, <4>2, <4>3, PutKeeps
    <3> QED BY <3>3, <3>4, <3>5
  <2> QED BY <1>3, <2>1, <2>2
<1>5. \A p \in {<<>>, Moved(<<>>)} \cap DOMAIN temp' : temp'[p].kind = "dir"
  BY <1>2, <1>4
<1> QED BY <1>1, <1>2, <1>4, <1>5, GivesUp
-----------------------------------------------------------------------------
(* The edit, the compiler and the test.                                      *)

\* Where a file can be written: in a directory, and over nothing but a file.
Takes(at, entry) ==
  /\ at.path \in Seq(Names) /\ entry.kind = "file"
  /\ at.path # <<>> =>
       /\ Front(at.path) \in DOMAIN Tree(at.root)
       /\ Tree(at.root)[Front(at.path)].kind = "dir"
  /\ at.path \in DOMAIN Tree(at.root) => Tree(at.root)[at.path].kind = "file"

LEMMA WriteKeeps ==
  ASSUME IsTree(project), IsTree(temp), NEW at, NEW entry,
         at.root \in {"project", "temp"} => Takes(at, entry), Write(at, entry)
  PROVE  /\ IsTree(project') /\ DOMAIN project \subseteq DOMAIN project'
         /\ \A p \in DOMAIN project :
              /\ project'[p].kind = project[p].kind
              /\ project[p].kind # "file" => project'[p] = project[p]
         /\ IsTree(temp') /\ DOMAIN temp \subseteq DOMAIN temp'
         /\ \A p \in DOMAIN temp :
              /\ temp'[p].kind = temp[p].kind
              /\ temp[p].kind # "file" => temp'[p] = temp[p]
         /\ at.path \in DOMAIN Tree(at.root) => DOMAIN temp' = DOMAIN temp
<1>1. ASSUME NEW tree, IsTree(tree), Takes(at, entry), tree = Tree(at.root)
      PROVE  LET new == Put(tree, at.path, entry) IN
             /\ IsTree(new) /\ DOMAIN new = DOMAIN tree \cup {at.path}
             /\ \A p \in DOMAIN tree : /\ new[p].kind = tree[p].kind
                                       /\ tree[p].kind # "file" => new[p] = tree[p]
  <2> DEFINE path == at.path
             new == Put(tree, path, entry)
  <2>1. /\ path \in Seq(Names) /\ entry.kind = "file"
        /\ path # <<>> => Front(path) \in DOMAIN tree /\ tree[Front(path)].kind = "dir"
        /\ path \in DOMAIN tree => tree[path].kind = "file"
    BY <1>1 DEF Takes
  <2> HIDE DEF path
  <2>2. path \in DOMAIN tree => entry.kind = tree[path].kind
    BY <2>1
  <2>3. IsTree(new) /\ DOMAIN new = DOMAIN tree \cup {path}
    BY ONLY <1>1, <2>1, <2>2, PutKeeps
  <2>4. \A p \in DOMAIN tree : new[p].kind = tree[p].kind
    BY <2>2, PutKinds
  <2>5. \A p \in DOMAIN tree : p # path => new[p] = tree[p]
    BY PutIs
  <2> HIDE DEF new
  <2>6. \A p \in DOMAIN tree : tree[p].kind # "file" => new[p] = tree[p]
    BY <2>1, <2>5
  <2> QED BY <2>3, <2>4, <2>6 DEF new, path
<1>2. CASE at.root = "project"
  <2> DEFINE new == Put(project, at.path, entry)
  <2>1. Takes(at, entry) /\ project = Tree(at.root)
    BY <1>2, TreesAre
  <2>2. /\ IsTree(new) /\ DOMAIN new = DOMAIN project \cup {at.path}
        /\ \A p \in DOMAIN project : /\ new[p].kind = project[p].kind
                                     /\ project[p].kind # "file" => new[p] = project[p]
    BY <1>1, <2>1
  <2>3. project' = new /\ temp' = temp
    BY <1>2 DEF Write
  <2> HIDE DEF new
  <2> QED BY <2>2, <2>3
<1>3. CASE at.root = "temp"
  <2> DEFINE new == Put(temp, at.path, entry)
  <2>1. Takes(at, entry) /\ temp = Tree(at.root)
    BY <1>3, TreesAre
  <2>2. /\ IsTree(new) /\ DOMAIN new = DOMAIN temp \cup {at.path}
        /\ \A p \in DOMAIN temp : /\ new[p].kind = temp[p].kind
                                  /\ temp[p].kind # "file" => new[p] = temp[p]
    BY <1>1, <2>1
  <2>3. project' = project /\ temp' = new
    BY <1>3 DEF Write
  <2> HIDE DEF new
  <2> QED BY <2>1, <2>2, <2>3
<1>4. CASE at.root \notin {"project", "temp"}
  BY <1>4 DEF Write
<1> QED BY <1>2, <1>3, <1>4

LEMMA Working ==
  ASSUME CopyInv, pc \in {"apply", "build", "compile", "rewrite", "test"}
  PROVE  /\ frames = <<>> /\ IsTree(project) /\ IsTree(temp) /\ case \in Cases
         /\ pc \notin {"make tree", "done"}
         /\ <<>> \in DOMAIN temp /\ Moved(<<>>) \in DOMAIN temp
         /\ temp[<<>>].kind = "dir" /\ temp[Moved(<<>>)].kind = "dir"
         /\ err \in BOOLEAN /\ pending \in BOOLEAN /\ ran \in BOOLEAN
         /\ outcome = "none" /\ fate = "none"
         /\ outcome \in {"none", "inconclusive", "survived", "killed"}
BY DEF CopyInv, Placed, Rooted, Unanswered

LEMMA ApplyCandidateStep ==
  ASSUME CopyInv, ApplyCandidate
  PROVE  CopyInv'
<1>1. pc = "apply"
  BY DEF ApplyCandidate
<1>2. /\ frames = <<>> /\ IsTree(project) /\ IsTree(temp) /\ case \in Cases
      /\ pc \notin {"make tree", "done"}
      /\ <<>> \in DOMAIN temp /\ Moved(<<>>) \in DOMAIN temp
      /\ temp[<<>>].kind = "dir" /\ temp[Moved(<<>>)].kind = "dir"
      /\ ran \in BOOLEAN /\ outcome \in {"none", "inconclusive", "survived", "killed"}
  BY <1>1, Working
<1>3. /\ case' = case /\ pending' = pending /\ frames' = frames /\ command' = command
      /\ outcome' = outcome /\ fate' = fate /\ ran' = ran /\ kept' = kept
  BY DEF ApplyCandidate, history
<1> DEFINE t == Target(case.candidate.at)
<1>4. \/ /\ OriginalFound(t) /\ \E state : Write(t, File(Entry(t).text, state))
         /\ (pc' = "build" /\ err' = err) \/ (pc' = "remove" /\ err' \in BOOLEAN)
      \/ pc' = "remove" /\ err' \in BOOLEAN /\ project' = project /\ temp' = temp
  BY DEF ApplyCandidate
<1> HIDE DEF t
<1>5. ASSUME OriginalFound(t), NEW state, Write(t, File(Entry(t).text, state))
      PROVE  /\ IsTree(project') /\ DOMAIN project \subseteq DOMAIN project'
             /\ \A p \in DOMAIN project :
                  /\ project'[p].kind = project[p].kind
                  /\ project[p].kind # "file" => project'[p] = project[p]
             /\ IsTree(temp') /\ DOMAIN temp' = DOMAIN temp
             /\ \A p \in DOMAIN temp :
                  /\ temp'[p].kind = temp[p].kind
                  /\ temp[p].kind # "file" => temp'[p] = temp[p]
  <2> DEFINE entry == File(Entry(t).text, state)
             tree == Tree(t.root)
  <2>1. t.path \in DOMAIN tree /\ tree[t.path].kind = "file"
    BY <1>5 DEF OriginalFound, Exists, Entry
  <2>2. entry.kind = "file"
    BY DEF File
  <2>3. t.root \in {"project", "temp"} => IsTree(tree)
    BY <1>2, TreesAre
  <2> HIDE DEF entry
  <2>4. t.root \in {"project", "temp"} => Takes(t, entry)
    <3> SUFFICES ASSUME t.root \in {"project", "temp"} PROVE Takes(t, entry)
      OBVIOUS
    <3>1. t.path \in Seq(Names)
      BY <2>1, <2>3 DEF IsTree
    <3>2. t.path # <<>> => Front(t.path) \in DOMAIN tree /\ tree[Front(t.path)].kind = "dir"
      BY <2>1, <2>3 DEF IsTree
    <3> QED BY <2>1, <2>2, <3>1, <3>2 DEF Takes
  <2>5. Write(t, entry)
    BY <1>5 DEF entry
  <2> HIDE DEF tree
  <2>6. /\ IsTree(project') /\ DOMAIN project \subseteq DOMAIN project'
        /\ \A p \in DOMAIN project :
             /\ project'[p].kind = project[p].kind
             /\ project[p].kind # "file" => project'[p] = project[p]
        /\ IsTree(temp')
        /\ \A p \in DOMAIN temp :
             /\ temp'[p].kind = temp[p].kind
             /\ temp[p].kind # "file" => temp'[p] = temp[p]
        /\ t.path \in DOMAIN Tree(t.root) => DOMAIN temp' = DOMAIN temp
    BY <1>2, <2>4, <2>5, WriteKeeps
  <2> QED BY <2>1, <2>6 DEF tree
<1>6. /\ IsTree(project') /\ DOMAIN project \subseteq DOMAIN project'
      /\ \A p \in DOMAIN project :
           /\ project'[p].kind = project[p].kind
           /\ project[p].kind # "file" => project'[p] = project[p]
      /\ IsTree(temp') /\ DOMAIN temp' = DOMAIN temp
      /\ \A p \in DOMAIN temp :
           /\ temp'[p].kind = temp[p].kind
           /\ temp[p].kind # "file" => temp'[p] = temp[p]
  BY <1>2, <1>4, <1>5
<1>7. \A p \in {<<>>, Moved(<<>>)} \cap DOMAIN temp' : temp'[p].kind = "dir"
  BY <1>2, <1>6
<1>8. CASE pc' = "remove" /\ err' \in BOOLEAN
  BY <1>2, <1>3, <1>6, <1>7, <1>8, GivesUp
<1>9. CASE pc' = "build" /\ err' = err
  <2>1. Placed'
    BY <1>2, <1>3, <1>6, <1>9 DEF CopyInv, Placed
  <2>2. Rooted'
    BY <1>2, <1>3, <1>6, <1>7, <1>9 DEF CopyInv, Rooted
  <2>3. Mirrored'
    <3>1. \A x \in DOMAIN temp :
            x # <<>> => \E p \in DOMAIN project :
                          /\ x = Moved(p) /\ temp[x].kind = project[p].kind
                          /\ temp[x].kind = "link" => temp[x] = project[p]
      BY <1>1 DEF CopyInv, Mirrored
    <3>2. \A x \in DOMAIN temp' :
            x # <<>> => \E p \in DOMAIN project' :
                          /\ x = Moved(p) /\ temp'[x].kind = project'[p].kind
                          /\ temp'[x].kind = "link" => temp'[x] = project'[p]
      <4> SUFFICES ASSUME NEW x \in DOMAIN temp', x # <<>>
                   PROVE  \E p \in DOMAIN project' :
                            /\ x = Moved(p) /\ temp'[x].kind = project'[p].kind
                            /\ temp'[x].kind = "link" => temp'[x] = project'[p]
        OBVIOUS
      <4>1. PICK p \in DOMAIN project :
              /\ x = Moved(p) /\ temp[x].kind = project[p].kind
              /\ temp[x].kind = "link" => temp[x] = project[p]
        BY <1>6, <3>1
      <4>2. p \in DOMAIN project' /\ temp'[x].kind = project'[p].kind
        BY <1>6, <4>1
      <4>3. ASSUME temp'[x].kind = "link" PROVE temp'[x] = project'[p]
        <5>1. temp[x].kind = "link" /\ project[p].kind = "link"
          BY <1>6, <4>1, <4>3
        <5>2. temp'[x] = temp[x] /\ project'[p] = project[p]
          BY <1>6, <4>1, <5>1
        <5> QED BY <4>1, <5>1, <5>2
      <4> QED BY <4>1, <4>2, <4>3
    <3> QED BY <3>2 DEF Mirrored
  <2>4. (Copying /\ OutputsDropped /\ Removing /\ Unvisited)'
    BY <1>9 DEF Copying, OutputsDropped, Removing, Unvisited
  <2>5. Unanswered'
    BY <1>1, <1>3, <1>9 DEF CopyInv, Unanswered
  <2> QED BY <2>1, <2>2, <2>3, <2>4, <2>5 DEF CopyInv
<1> QED BY <1>4, <1>8, <1>9

LEMMA BuildCompileCommandStep ==
  ASSUME CopyInv, BuildCompileCommand
  PROVE  CopyInv'
<1>1. pc = "build"
  BY DEF BuildCompileCommand
<1>2. /\ frames = <<>> /\ IsTree(project) /\ IsTree(temp) /\ case \in Cases
      /\ pc \notin {"make tree", "done"}
      /\ <<>> \in DOMAIN temp /\ Moved(<<>>) \in DOMAIN temp
      /\ temp[<<>>].kind = "dir" /\ temp[Moved(<<>>)].kind = "dir"
      /\ ran \in BOOLEAN /\ outcome \in {"none", "inconclusive", "survived", "killed"}
  BY <1>1, Working
<1>3. /\ case' = case /\ project' = project /\ temp' = temp /\ pending' = pending
      /\ frames' = frames /\ outcome' = outcome /\ fate' = fate /\ ran' = ran /\ kept' = kept
  BY DEF BuildCompileCommand, history
<1>4. CASE pc' = "remove" /\ err' \in BOOLEAN
  <2>1. \A p \in {<<>>, Moved(<<>>)} \cap DOMAIN temp' : temp'[p].kind = "dir"
    BY <1>2, <1>3
  <2> QED BY <1>2, <1>3, <1>4, <2>1, GivesUp
<1>5. CASE /\ command'.arguments = CompileArguments(case.compile.arguments)
           /\ pc' = "compile" /\ err' = err
  <2>1. Placed'
    BY <1>2, <1>3, <1>5 DEF CopyInv, Placed
  <2>2. Rooted'
    BY <1>1, <1>2, <1>3, <1>5 DEF CopyInv, Rooted
  <2>3. Mirrored'
    BY <1>1, <1>3, <1>5 DEF CopyInv, Mirrored
  <2>4. (Copying /\ Removing /\ Unvisited)'
    BY <1>5 DEF Copying, Removing, Unvisited
  <2>5. Unanswered'
    BY <1>1, <1>3, <1>5 DEF CopyInv, Unanswered
  <2>6. OutputsDropped'
    <3>1. case.compile.arguments \in Seq(Argument)
      BY <1>2, CasesOK
    <3> DEFINE args == CompileArguments(case.compile.arguments)
    <3>2. \A i \in DOMAIN args :
            /\ args[i].as # "-o="
            /\ args[i].as = "-W" => \E k \in DOMAIN case.compile.arguments :
                                      args[i] = case.compile.arguments[k]
      BY <3>1, OutputsGone
    <3>3. ASSUME NEW k \in DOMAIN case.compile.arguments, case.compile.arguments[k].as = "-W"
          PROVE  LET a == case.compile.arguments[k] IN
                 a.at \in Location /\ a.at.path # <<>>
      <4> DEFINE a == case.compile.arguments[k]
      <4>1. a \in Argument
        BY <3>1
      <4>2. a.at \in Location
        BY <4>1 DEF Argument
      <4>3. a.at.path # <<>>
        BY <1>2, <3>3, CasesOK
      <4> QED BY <4>2, <4>3
    <3> HIDE DEF args
    <3>4. \A i \in DOMAIN args :
            /\ args[i].as # "-o="
            /\ args[i].as = "-W" => args[i].at \in Location /\ args[i].at.path # <<>>
      BY <3>2, <3>3
    <3>5. command'.arguments = args
      BY <1>5 DEF args
    <3> QED BY <3>4, <3>5 DEF OutputsDropped
  <2> QED BY <2>1, <2>2, <2>3, <2>4, <2>5, <2>6 DEF CopyInv
<1> QED BY <1>4, <1>5 DEF BuildCompileCommand

LEMMA OutcomeTypes ==
  ASSUME err \in BOOLEAN, NEW o \in OutcomesOfCommand
  PROVE  o.err \in BOOLEAN /\ Classify(o) \in {"inconclusive", "survived", "killed"}
<1>1. o.err \in BOOLEAN
  BY DEF OutcomesOfCommand, OutcomesGiven, Ended, Killed, Lost
<1>2. Classify(o) \in {"inconclusive", "survived", "killed"}
  BY Zenon DEF Classify
<1> QED BY <1>1, <1>2

\* Where there are files at all.
LEMMA RootsAre ==
  ASSUME NEW at, Exists(at)
  PROVE  at.root \in {"project", "temp"} \cup DOMAIN Elsewhere
<1> SUFFICES ASSUME at.root \notin {"project", "temp"} \cup DOMAIN Elsewhere PROVE FALSE
  OBVIOUS
<1>1. at.root # "project" /\ at.root # "temp" /\ at.root \notin DOMAIN Elsewhere
  OBVIOUS
<1>2. Tree(at.root) = Empty
  BY <1>1, Zenon DEF Tree
<1>3. DOMAIN Empty = {}
  BY DEF Empty
<1> QED BY <1>2, <1>3 DEF Exists

\* A link is followed to a place of the trees that can be written.
LEMMA EnteredPath ==
  ASSUME IsTree(project), IsTree(temp), Linked, case \in Cases, NEW at, NEW name,
         Enter(at, name).root \in {"project", "temp"}
  PROVE  Enter(at, name).path \in Seq(Names)
<1> DEFINE next == At(at.root, Append(at.path, name))
           link == Entry(next).to
           end == Enter(at, name)
<1>1. end = IF ~Exists(next) THEN Nowhere
            ELSE IF Entry(next).kind # "link" THEN next
            ELSE IF link.root = "here" THEN At(at.root, Top(at.root).path \o link.path)
            ELSE link
  BY DEF Enter
<1>2. Nowhere.root = "nowhere" /\ next.root = at.root
  BY DEF Nowhere, At
<1>3. at.root = "project" \/ at.root = "temp" => \A p \in DOMAIN Tree(at.root) : p \in Seq(Names)
  BY TreesAre DEF IsTree
<1> HIDE DEF next, link, end
<1>4. CASE Exists(next) /\ Entry(next).kind # "link"
  BY <1>1, <1>2, <1>3, <1>4 DEF Exists, end
<1>5. CASE Exists(next) /\ Entry(next).kind = "link"
  <2>1. link \in Location
    <3>1. CASE next.root = "project" \/ next.root = "temp"
      BY <1>5, <3>1, TreesAre DEF Exists, Entry, Linked, LinksTyped, link
    <3>2. CASE next.root \in DOMAIN Elsewhere /\ next.root # "project" /\ next.root # "temp"
      <4>1. Tree(next.root) = Elsewhere[next.root]
        BY <3>2, Zenon DEF Tree
      <4> QED BY <1>5, <3>2, <4>1, LinksOK DEF Exists, Entry, link
    <3> QED BY <1>5, <3>1, <3>2, RootsAre
  <2>2. link.path \in Seq(Names)
    BY <2>1 DEF Location
  <2>3. Top(at.root).path \in Seq(Names)
    <3>1. <<"project">> \o <<>> \in Seq(Names) /\ <<>> \in Seq(Names)
      BY NamesOK
    <3> QED BY <3>1 DEF Top, InCopy, At
  <2>4. Top(at.root).path \o link.path \in Seq(Names)
    BY <2>2, <2>3
  <2> QED BY <1>1, <1>5, <2>2, <2>4 DEF At, end
<1>6. CASE ~Exists(next)
  BY <1>1, <1>2, <1>6 DEF end
<1> QED BY <1>4, <1>5, <1>6 DEF end

\* What can be opened to write it can be written.
LEMMA OpenedTakes ==
  ASSUME IsTree(project), IsTree(temp), Linked, case \in Cases, NEW at, NEW entry,
         at.root \in {"project", "temp"} => at.path \in Seq(Names),
         Writable(Opened(at)), entry.kind = "file", Opened(at).root \in {"project", "temp"}
  PROVE  Takes(Opened(at), entry)
<1> DEFINE file == Opened(at)
<1>1. file.path \in Seq(Names)
  BY EnteredPath DEF Opened
<1> HIDE DEF file
<1>2. /\ Front(file.path) \in DOMAIN Tree(file.root)
      /\ Tree(file.root)[Front(file.path)].kind = "dir"
      /\ file.path \in DOMAIN Tree(file.root) => Tree(file.root)[file.path].kind = "file"
  BY DEF Writable, Exists, Entry, At, file
<1> QED BY <1>1, <1>2 DEF Takes, file

\* realpath finds what there is.
LEMMA RealExists == \A at : Real(at) = Nowhere \/ Exists(Real(at))
<1> SUFFICES ASSUME NEW at PROVE Real(at) = Nowhere \/ Exists(Real(at))
  OBVIOUS
<1> DEFINE found == CHOOSE f : f = [k \in 0 .. Len(at.path) |->
                                      IF k = 0 THEN At(at.root, <<>>)
                                      ELSE Enter(f[k - 1], at.path[k])]
           end == found[Len(at.path)]
<1>1. Real(at) = IF Exists(end) THEN end ELSE Nowhere
  BY DEF Real
<1> HIDE DEF end
<1> QED BY <1>1

\* Places of outputs.
LEMMA OutputsAre ==
  ASSUME CopyInv, pc \in {"compile", "test"}, CanRun, NEW at \in Outputs,
         at.root \in {"project", "temp"}
  PROVE  at.path \in Seq(Names)
<1>1. IsTree(project) /\ IsTree(temp)
  BY DEF CopyInv, Placed
<1>2. ASSUME NEW dir, Exists(dir), NEW name \in Names, at = Inside(dir, name)
      PROVE  at.path \in Seq(Names)
  <2>1. dir.root = at.root /\ at.path = Append(dir.path, name)
    BY <1>2 DEF Inside, At
  <2>2. dir.path \in Seq(Names)
    BY <1>1, <1>2, <2>1, TreesAre DEF Exists, IsTree
  <2> QED BY <1>2, <2>1, <2>2, AppendIs
<1>3. CASE pc = "test"
  <2> DEFINE n == "out"
  <2>1. at = InCopy(<<n>>)
    BY <1>3 DEF Outputs
  <2>2. InCopy(<<n>>).path \in Seq(Names)
    BY CopyPlaces
  <2> QED BY <2>1, <2>2
<1>4. CASE pc = "compile"
  <2>1. PICK a \in ToSet(command.arguments) : a.as \in {"-MD", "-o=", "-W"} /\ at = Output(a)
    BY <1>4 DEF Outputs
  <2>2. PICK i \in DOMAIN command.arguments : a = command.arguments[i]
    BY <2>1 DEF ToSet
  <2>3. a.as # "-o=" /\ (a.as = "-W" => a.at.path \in Seq(Names) /\ a.at.path # <<>>)
    BY <1>4, <2>2 DEF CopyInv, OutputsDropped, Location
  <2>4. CASE a.as = "-MD"
    <3> DEFINE n == "deps.d"
    <3>1. n \in Names /\ Exists(WorkingDirectory)
      BY NamesOK DEF CanRun
    <3>2. at = Inside(WorkingDirectory, n)
      BY <2>1, <2>4 DEF Output
    <3> HIDE DEF n
    <3> QED BY <1>2, <3>1, <3>2
  <2>5. CASE a.as = "-W"
    <3> DEFINE dir == Resolve(WorkingDirectory, At(a.at.root, Front(a.at.path)))
               n == Last(a.at.path)
    <3>1. n \in Names
      BY <2>3, <2>5, FrontIs
    <3>2. at = Inside(dir, n)
      BY <2>1, <2>5 DEF Output
    <3>3. dir = Nowhere \/ Exists(dir)
      BY RealExists DEF Resolve
    <3> HIDE DEF dir, n
    <3>4. dir # Nowhere
      BY <3>2 DEF Inside, At, Nowhere
    <3> QED BY <1>2, <3>1, <3>2, <3>3, <3>4
  <2> QED BY <2>1, <2>3, <2>4, <2>5
<1> QED BY <1>3, <1>4

\* What a program writes leaves the trees trees.
LEMMA ProgramKeeps ==
  ASSUME CopyInv, Linked, pc \in {"compile", "test"}, NEW entry, entry.kind = "file",
         ProgramWrites(entry)
  PROVE  /\ IsTree(project') /\ DOMAIN project \subseteq DOMAIN project'
         /\ \A p \in DOMAIN project : project'[p].kind = project[p].kind
         /\ IsTree(temp') /\ DOMAIN temp \subseteq DOMAIN temp'
         /\ \A p \in DOMAIN temp : temp'[p].kind = temp[p].kind
<1>1. IsTree(project) /\ IsTree(temp) /\ case \in Cases
  BY DEF CopyInv, Placed
<1>2. CASE project' = project /\ temp' = temp
  BY <1>1, <1>2
<1>3. CASE CanRun /\ \E at \in Outputs : Writable(Opened(at)) /\ Write(Opened(at), entry)
  <2>1. PICK at \in Outputs : Writable(Opened(at)) /\ Write(Opened(at), entry)
    BY <1>3
  <2>2. at.root \in {"project", "temp"} => at.path \in Seq(Names)
    BY <1>3, OutputsAre
  <2> DEFINE file == Opened(at)
  <2>3. file.root \in {"project", "temp"} => Takes(file, entry)
    BY <1>1, <2>1, <2>2, OpenedTakes
  <2>4. Write(file, entry)
    BY <2>1
  <2> HIDE DEF file
  <2> QED BY <1>1, <2>3, <2>4, WriteKeeps
<1> QED BY <1>2, <1>3 DEF ProgramWrites

LEMMA CompileStep ==
  ASSUME CopyInv, Linked, Compile
  PROVE  CopyInv'
<1>1. pc = "compile"
  BY DEF Compile
<1>2. /\ frames = <<>> /\ IsTree(project) /\ IsTree(temp) /\ case \in Cases
      /\ pc \notin {"make tree", "done"}
      /\ <<>> \in DOMAIN temp /\ Moved(<<>>) \in DOMAIN temp
      /\ temp[<<>>].kind = "dir" /\ temp[Moved(<<>>)].kind = "dir"
      /\ err \in BOOLEAN /\ ran \in BOOLEAN
      /\ outcome \in {"none", "inconclusive", "survived", "killed"}
  BY <1>1, Working
<1>3. /\ case' = case /\ pending' = pending /\ frames' = frames /\ command' = command
      /\ fate' = fate /\ ran' = ran /\ kept' = kept
  BY DEF Compile
<1>4. /\ err' \in BOOLEAN
      /\ (pc' = "remove" /\ outcome' = "inconclusive") \/ (pc' = "rewrite" /\ outcome' = outcome)
  BY <1>2, OutcomeTypes DEF Compile
<1>7. /\ IsTree(project') /\ DOMAIN project \subseteq DOMAIN project'
      /\ \A p \in DOMAIN project : project'[p].kind = project[p].kind
      /\ IsTree(temp') /\ DOMAIN temp \subseteq DOMAIN temp'
      /\ \A p \in DOMAIN temp : temp'[p].kind = temp[p].kind
  <2>1. ProgramWrites(File("deps", "clean")) /\ File("deps", "clean").kind = "file"
    BY DEF Compile, File
  <2> QED BY <1>1, <2>1, ProgramKeeps
<1>8. \A p \in {<<>>, Moved(<<>>)} \cap DOMAIN temp' : temp'[p].kind = "dir"
  BY <1>2, <1>7
<1>9. CASE pc' = "remove" /\ outcome' = "inconclusive"
  BY <1>2, <1>3, <1>4, <1>7, <1>8, <1>9, GivesUp
<1>10. CASE pc' = "rewrite" /\ outcome' = outcome
  <2>1. Placed'
    BY <1>2, <1>3, <1>4, <1>7, <1>10 DEF CopyInv, Placed
  <2>2. Rooted'
    BY <1>2, <1>3, <1>7, <1>8, <1>10 DEF CopyInv, Rooted
  <2>3. (Copying /\ Mirrored /\ OutputsDropped /\ Removing /\ Unvisited)'
    BY <1>10 DEF Copying, Mirrored, OutputsDropped, Removing, Unvisited
  <2>4. Unanswered'
    BY <1>1, <1>3, <1>10 DEF CopyInv, Unanswered
  <2> QED BY <2>1, <2>2, <2>3, <2>4 DEF CopyInv
<1> QED BY <1>4, <1>9, <1>10

LEMMA RewriteCommandStep ==
  ASSUME CopyInv, RewriteCommand
  PROVE  CopyInv'
<1>1. pc = "rewrite"
  BY DEF RewriteCommand
<1>2. /\ frames = <<>> /\ IsTree(project) /\ IsTree(temp) /\ case \in Cases
      /\ pc \notin {"make tree", "done"}
      /\ <<>> \in DOMAIN temp /\ Moved(<<>>) \in DOMAIN temp
      /\ temp[<<>>].kind = "dir" /\ temp[Moved(<<>>)].kind = "dir"
      /\ err \in BOOLEAN /\ ran \in BOOLEAN
      /\ outcome \in {"none", "inconclusive", "survived", "killed"}
  BY <1>1, Working
<1>3. /\ case' = case /\ project' = project /\ temp' = temp /\ pending' = pending
      /\ frames' = frames /\ outcome' = outcome /\ fate' = fate /\ ran' = ran /\ kept' = kept
      /\ err' \in BOOLEAN /\ (pc' = "remove" \/ (pc' = "test" /\ err' = err))
  BY <1>2 DEF RewriteCommand, history
<1>4. \A p \in {<<>>, Moved(<<>>)} \cap DOMAIN temp' : temp'[p].kind = "dir"
  BY <1>2, <1>3
<1>5. CASE pc' = "remove"
  BY <1>2, <1>3, <1>4, <1>5, GivesUp
<1>6. CASE pc' = "test" /\ err' = err
  <2>1. Placed'
    BY <1>2, <1>3, <1>6 DEF CopyInv, Placed
  <2>2. Rooted'
    BY <1>2, <1>3, <1>4, <1>6 DEF CopyInv, Rooted
  <2>3. (Copying /\ Mirrored /\ OutputsDropped /\ Removing /\ Unvisited)'
    BY <1>6 DEF Copying, Mirrored, OutputsDropped, Removing, Unvisited
  <2>4. Unanswered'
    BY <1>1, <1>3, <1>6 DEF CopyInv, Unanswered
  <2> QED BY <2>1, <2>2, <2>3, <2>4 DEF CopyInv
<1> QED BY <1>3, <1>5, <1>6

LEMMA RunTestStep ==
  ASSUME CopyInv, Linked, RunTest
  PROVE  CopyInv'
<1>1. pc = "test"
  BY DEF RunTest
<1>2. /\ frames = <<>> /\ IsTree(project) /\ IsTree(temp) /\ case \in Cases
      /\ pc \notin {"make tree", "done"}
      /\ <<>> \in DOMAIN temp /\ Moved(<<>>) \in DOMAIN temp
      /\ temp[<<>>].kind = "dir" /\ temp[Moved(<<>>)].kind = "dir"
      /\ err \in BOOLEAN
  BY <1>1, Working
<1>3. /\ case' = case /\ pending' = pending /\ frames' = frames
      /\ pc' = "remove" /\ ran' = CanRun
  BY DEF RunTest
<1>4. /\ err' \in BOOLEAN /\ outcome' \in {"none", "inconclusive", "survived", "killed"}
      /\ ran' \in BOOLEAN
  <2>1. CanRun \in BOOLEAN
    BY DEF CanRun
  <2>2. \E o \in OutcomesOfCommand : err' = o.err /\ outcome' = Classify(o)
    BY DEF RunTest
  <2> QED BY <1>2, <1>3, <2>1, <2>2, OutcomeTypes
<1>5. /\ IsTree(project') /\ DOMAIN project \subseteq DOMAIN project'
      /\ \A p \in DOMAIN project : project'[p].kind = project[p].kind
      /\ IsTree(temp') /\ DOMAIN temp \subseteq DOMAIN temp'
      /\ \A p \in DOMAIN temp : temp'[p].kind = temp[p].kind
  <2>1. ProgramWrites(File("out", "clean")) /\ File("out", "clean").kind = "file"
    BY DEF RunTest, File
  <2> QED BY <1>1, <2>1, ProgramKeeps
<1>6. \A p \in {<<>>, Moved(<<>>)} \cap DOMAIN temp' : temp'[p].kind = "dir"
  BY <1>2, <1>5
<1> QED BY <1>2, <1>3, <1>4, <1>5, <1>6, GivesUp
-----------------------------------------------------------------------------
(* The removal.                                                              *)

\* A reason to stay holds on while something else is removed: what stays for
\* the sake of what it holds is around it, and being visited itself.
LEMMA StayOrVisit ==
  ASSUME NEW tree, IsTree(tree), NEW gone \in DOMAIN tree,
         \A p \in DOMAIN tree : IsPrefix(gone, p) => p = gone,
         NEW p \in DOMAIN tree, p # gone, NEW keep,
         \E k \in keep \cap DOMAIN tree : IsPrefix(k, p) \/ IsPrefix(p, k)
  PROVE  \/ \E k \in keep \cap (DOMAIN tree \ {gone}) : IsPrefix(k, p) \/ IsPrefix(p, k)
         \/ IsPrefix(p, gone)
OBVIOUS

LEMMA RemoveTopStep ==
  ASSUME CopyInv, RemoveTop
  PROVE  CopyInv'
<1>1. /\ pc = "remove" /\ frames = <<>> /\ IsTree(temp) /\ <<>> \in DOMAIN temp
      /\ <<>> \in Seq(Names)
  BY DEF RemoveTop, CopyInv, Placed, Rooted
<1>2. /\ case' = case /\ project' = project /\ temp' = temp /\ err' = err /\ pending' = pending
      /\ outcome' = outcome /\ fate' = fate /\ ran' = ran
  BY DEF RemoveTop, history
<1>3. CASE frames' = <<Frame(temp, <<>>)>> /\ pc' = pc /\ kept' = kept
  <2> DEFINE left == Children(temp, <<>>)
             fr == <<[dir |-> <<>>, left |-> left]>>
  <2>1. left \subseteq Names /\ \A n \in left : Append(<<>>, n) \in DOMAIN temp
    BY <1>1, ChildrenAre
  <2>2. frames' = fr
    BY <1>3 DEF Frame
  <2>3. \A p \in DOMAIN temp : p = <<>> \/ \E n \in left : IsPrefix(Append(<<>>, n), p)
    <3> SUFFICES ASSUME NEW p \in DOMAIN temp, p # <<>>
                 PROVE  \E n \in left : IsPrefix(Append(<<>>, n), p)
      OBVIOUS
    <3>1. p \in Seq(Names)
      BY <1>1 DEF IsTree
    <3>2. IsPrefix(<<>>, p)
      BY <3>1, NamesOK, PrefixFacts
    <3> QED BY <1>1, <3>2, Within
  <2> HIDE DEF left
  <2>4. IsStack(fr) /\ fr # <<>> /\ fr[1].dir = <<>> /\ fr[1].left = left /\ DOMAIN fr = {1}
    BY <2>1, OneFrame
  <2> HIDE DEF fr
  <2>5. Placed'
    BY <1>1, <1>2, <1>3, <2>2, <2>4 DEF CopyInv, Placed
  <2>6. Rooted'
    BY <1>1, <1>2, <1>3 DEF CopyInv, Rooted
  <2>7. (Copying /\ Mirrored /\ OutputsDropped)'
    BY <1>1, <1>3 DEF Copying, Mirrored, OutputsDropped
  <2>8. Unanswered'
    BY <1>1, <1>3 DEF Unanswered
  <2>9. Removing'
    BY <1>1, <1>2, <2>1, <2>2, <2>4 DEF Removing, InPlace
  <2>10. Unvisited'
    <3>1. \A p \in DOMAIN temp : OnStack(fr, p) \/ Due(fr, p)
      BY <2>3, <2>4 DEF OnStack, Due
    <3> QED BY <1>1, <1>2, <1>3, <2>2, <3>1 DEF Unvisited
  <2> QED BY <2>5, <2>6, <2>7, <2>8, <2>9, <2>10 DEF CopyInv
<1>4. CASE kept' = kept \cup {<<>>} /\ pc' = "done" /\ frames' = frames
  <2>1. Placed'
    BY <1>1, <1>2, <1>4 DEF CopyInv, Placed
  <2>2. Rooted'
    BY <1>1, <1>2, <1>4 DEF CopyInv, Rooted
  <2>3. (Copying /\ Mirrored /\ OutputsDropped /\ Removing /\ Unanswered)'
    BY <1>4 DEF Copying, Mirrored, OutputsDropped, Removing, Unanswered
  <2>4. Unvisited'
    <3>1. \A p \in DOMAIN temp : IsPrefix(<<>>, p)
      BY <1>1, NamesOK, PrefixFacts DEF IsTree
    <3>2. <<>> \in kept' \cap DOMAIN temp'
      BY <1>1, <1>2, <1>4
    <3>3. \A p \in DOMAIN temp' : Stays(p)'
      BY <1>2, <3>1, <3>2 DEF Stays
    <3> QED BY <1>4, <3>3 DEF Unvisited
  <2> QED BY <2>1, <2>2, <2>3, <2>4 DEF CopyInv
<1> QED BY <1>3, <1>4 DEF RemoveTop

\* The entry that is next in the directory at work.
LEMMA NextToRemove ==
  ASSUME CopyInv, pc = "remove", frames # <<>>, NEW name \in Head(frames).left
  PROVE  LET d == frames[1].dir
             path == Append(d, name)
         IN /\ IsStack(frames) /\ IsTree(temp)
            /\ Head(frames) = frames[1] /\ name \in frames[1].left /\ name \in Names
            /\ d \in Seq(Names) /\ path \in Seq(Names) /\ path # <<>> /\ path \in DOMAIN temp
            /\ \A p : OnStack(frames, p) \/ Awaited(frames, p) => p \in DOMAIN temp
            /\ \A p \in DOMAIN temp : Stays(p) \/ OnStack(frames, p) \/ Due(frames, p)
            /\ \A p \in Seq(Names) : IsPrefix(p, path) => p = path \/ OnStack(frames, p)
<1> DEFINE d == frames[1].dir
           path == Append(d, name)
<1>1. IsStack(frames) /\ IsTree(temp)
  BY DEF CopyInv, Placed
<1>2. /\ Head(frames) = frames[1] /\ d \in Seq(Names) /\ name \in Names /\ name \in frames[1].left
      /\ 1 \in DOMAIN frames
  BY <1>1, StackFacts
<1>3. path \in DOMAIN temp
  BY <1>2 DEF CopyInv, Removing, InPlace
<1>4. \A p : OnStack(frames, p) \/ Awaited(frames, p) => p \in DOMAIN temp
  BY InPlaceIs DEF CopyInv, Removing
<1>5. \A p \in DOMAIN temp : Stays(p) \/ OnStack(frames, p) \/ Due(frames, p)
  BY DEF CopyInv, Unvisited
<1>6. ASSUME NEW p \in Seq(Names), IsPrefix(p, path) PROVE p = path \/ OnStack(frames, p)
  <2>1. p = path \/ IsPrefix(p, d)
    <3> HIDE DEF d
    <3> QED BY <1>2, <1>6, PrefixFacts
  <2> QED BY <1>1, <2>1, WayIsOnStack
<1> HIDE DEF d
<1>7. path \in Seq(Names) /\ path # <<>>
  BY <1>2, AppendIs
<1> QED BY <1>1, <1>2, <1>3, <1>4, <1>5, <1>6, <1>7 DEF d

LEMMA RemoveEntryStep ==
  ASSUME CopyInv, RemoveEntry
  PROVE  CopyInv'
<1>1. pc = "remove" /\ frames # <<>> /\ <<>> \in DOMAIN temp
  BY DEF RemoveEntry, CopyInv, Rooted
<1>2. /\ case' = case /\ project' = project /\ pc' = pc /\ err' = err /\ pending' = pending
      /\ outcome' = outcome /\ fate' = fate /\ ran' = ran
  BY DEF RemoveEntry, history
<1>3. PICK name \in Head(frames).left :
        LET path == Append(Head(frames).dir, name) IN
        \/ /\ temp[path].kind = "dir"
           /\ frames' = <<Frame(temp, path)>> \o Done(name)
           /\ UNCHANGED <<temp, kept>>
        \/ /\ temp[path].kind # "dir"
           /\ temp' = Without(temp, path)
           /\ frames' = Done(name)
           /\ UNCHANGED kept
        \/ /\ kept' = kept \cup {path}
           /\ frames' = Done(name)
           /\ UNCHANGED temp
  BY DEF RemoveEntry
<1> DEFINE d == frames[1].dir
           path == Append(d, name)
           left == Children(temp, path)
           skipped == Skipped(frames, name)
           entered == Entered(frames, name, left)
<1>4. /\ IsStack(frames) /\ IsTree(temp)
      /\ Head(frames) = frames[1] /\ name \in frames[1].left /\ name \in Names
      /\ d \in Seq(Names) /\ path \in Seq(Names) /\ path # <<>> /\ path \in DOMAIN temp
      /\ \A p : OnStack(frames, p) \/ Awaited(frames, p) => p \in DOMAIN temp
      /\ \A p \in DOMAIN temp : Stays(p) \/ OnStack(frames, p) \/ Due(frames, p)
      /\ \A p \in Seq(Names) : IsPrefix(p, path) => p = path \/ OnStack(frames, p)
  BY <1>1, <1>3, NextToRemove
<1>5. \/ /\ temp[path].kind = "dir" /\ frames' = entered /\ temp' = temp /\ kept' = kept
      \/ /\ temp[path].kind # "dir" /\ temp' = Without(temp, path)
         /\ frames' = skipped /\ kept' = kept
      \/ kept' = kept \cup {path} /\ frames' = skipped /\ temp' = temp
  BY <1>3, <1>4 DEF Frame, Done, Entered, Skipped
<1>6. /\ IsStack(skipped) /\ skipped # <<>>
      /\ \A p : /\ OnStack(frames, p) => OnStack(skipped, p)
                /\ Due(frames, p) => Due(skipped, p) \/ IsPrefix(path, p)
                /\ OnStack(skipped, p) \/ Awaited(skipped, p) => p \in DOMAIN temp /\ p # path
  <2>1. IsStack(skipped) /\ skipped # <<>>
    BY <1>1, <1>4, SkippedIs
  <2>2. ASSUME NEW p
        PROVE  /\ OnStack(frames, p) => OnStack(skipped, p)
               /\ Due(frames, p) => Due(skipped, p) \/ IsPrefix(path, p)
    BY <1>1, <1>4, SkippedDue
  <2>3. ASSUME NEW p
        PROVE  OnStack(skipped, p) \/ Awaited(skipped, p) => p \in DOMAIN temp /\ p # path
    <3>1. OnStack(skipped, p) => OnStack(frames, p) /\ p # path
      BY <1>1, <1>4, SkippedBack
    <3>2. Awaited(skipped, p) => Awaited(frames, p) /\ p # path
      BY <1>1, <1>4, SkippedBack
    <3> HIDE DEF skipped, path
    <3> QED BY <1>4, <3>1, <3>2
  <2> QED BY <2>1, <2>2, <2>3
<1>7. left \in SUBSET Names /\ \A n \in left : Append(path, n) \in DOMAIN temp
  BY <1>4, ChildrenAre
<1>8. \A p \in DOMAIN temp : IsPrefix(path, p) /\ p # path =>
                               \E n \in left : IsPrefix(Append(path, n), p)
  BY <1>4, Within
<1> HIDE DEF left
<1>9. /\ IsStack(entered) /\ entered # <<>>
      /\ \A p : /\ OnStack(frames, p) => OnStack(entered, p)
                /\ Due(frames, p) => Due(entered, p) \/ IsPrefix(path, p)
      /\ OnStack(entered, path)
      /\ \A p : (\E n \in left : IsPrefix(Append(path, n), p)) => Due(entered, p)
      /\ \A p : OnStack(entered, p) \/ Awaited(entered, p) => p \in DOMAIN temp
  <2>1. /\ IsStack(entered) /\ entered # <<>> /\ entered[1].dir = path /\ entered[1].left = left
    BY <1>1, <1>4, <1>7, EnteredIs
  <2>2. ASSUME NEW p
        PROVE  /\ OnStack(frames, p) => OnStack(entered, p)
               /\ Due(frames, p) => Due(entered, p) \/ IsPrefix(path, p)
    BY <1>1, <1>4, <1>7, EnteredDue
  <2>3. ASSUME NEW p
        PROVE  /\ OnStack(entered, p) => OnStack(frames, p) \/ p = path
               /\ Awaited(entered, p) =>
                    Awaited(frames, p) \/ \E n \in left : p = Append(path, n)
               /\ OnStack(entered, path)
    BY <1>1, <1>4, <1>7, EnteredBack
  <2> HIDE DEF path, entered
  <2>4. 1 \in DOMAIN entered
    BY <2>1, StackFacts
  <2>5. \A p : (\E n \in left : IsPrefix(Append(path, n), p)) => Due(entered, p)
    BY <2>1, <2>4 DEF Due
  <2>6. \A p : OnStack(entered, p) \/ Awaited(entered, p) => p \in DOMAIN temp
    BY <1>4, <1>7, <2>3
  <2> QED BY <2>1, <2>2, <2>3, <2>5, <2>6
<1> HIDE DEF path, skipped, entered
<1>10. (Copying /\ Mirrored /\ OutputsDropped /\ Unanswered)'
  BY <1>1, <1>2 DEF Copying, Mirrored, OutputsDropped, Unanswered
<1>11. CASE frames' = entered /\ temp' = temp /\ kept' = kept
  <2>1. Placed'
    BY <1>1, <1>2, <1>9, <1>11 DEF CopyInv, Placed
  <2>2. Rooted'
    BY <1>1, <1>2, <1>11 DEF CopyInv, Rooted
  <2>3. Removing'
    <3>1. InPlace(entered, DOMAIN temp)
      BY <1>9, InPlaceIs
    <3> QED BY <1>11, <3>1 DEF Removing
  <2>4. Unvisited'
    <3>1. ASSUME NEW p \in DOMAIN temp PROVE Stays(p) \/ OnStack(entered, p) \/ Due(entered, p)
      BY <1>4, <1>8, <1>9
    <3>2. ASSUME NEW p, Stays(p) PROVE Stays(p)'
      BY <1>11, <3>2 DEF Stays
    <3> QED BY <1>1, <1>2, <1>11, <3>1, <3>2 DEF Unvisited
  <2> QED BY <1>10, <2>1, <2>2, <2>3, <2>4 DEF CopyInv
<1>12. CASE /\ temp[path].kind # "dir" /\ temp' = Without(temp, path)
            /\ frames' = skipped /\ kept' = kept
  <2> DEFINE new == Without(temp, path)
  <2>1. /\ IsTree(new) /\ DOMAIN new = DOMAIN temp \ {path}
        /\ \A p \in DOMAIN temp \ {path} : new[p] = temp[p]
        /\ \A p \in DOMAIN temp : IsPrefix(path, p) => p = path
    BY <1>4, <1>12, WithoutKeeps
  <2> HIDE DEF new
  <2>2. temp' = new
    BY <1>12 DEF new
  <2>3. Placed'
    BY <1>1, <1>2, <1>6, <1>12, <2>1, <2>2 DEF CopyInv, Placed
  <2>4. Rooted'
    BY <1>1, <1>2, <1>4, <2>1, <2>2 DEF CopyInv, Rooted
  <2>5. Removing'
    <3>1. InPlace(skipped, DOMAIN new)
      BY <1>6, <2>1, InPlaceIs
    <3> QED BY <1>12, <2>2, <3>1 DEF Removing
  <2>6. Unvisited'
    <3>1. ASSUME NEW p \in DOMAIN new
          PROVE  Stays(p)' \/ OnStack(skipped, p) \/ Due(skipped, p)
      <4>1. p \in DOMAIN temp /\ p # path /\ ~IsPrefix(path, p) /\ p \in Seq(Names)
        BY <1>4, <2>1, <3>1 DEF IsTree
      <4>2. CASE Stays(p)
        <5>1. \/ \E k \in kept \cap (DOMAIN temp \ {path}) : IsPrefix(k, p) \/ IsPrefix(p, k)
              \/ IsPrefix(p, path)
          BY <1>4, <2>1, <4>1, <4>2, StayOrVisit DEF Stays
        <5>2. CASE IsPrefix(p, path)
          BY <1>4, <1>6, <4>1, <5>2
        <5>3. CASE \E k \in kept \cap (DOMAIN temp \ {path}) : IsPrefix(k, p) \/ IsPrefix(p, k)
          BY <1>12, <2>1, <2>2, <5>3 DEF Stays
        <5> QED BY <5>1, <5>2, <5>3
      <4>3. CASE OnStack(frames, p) \/ Due(frames, p)
        BY <1>6, <4>1, <4>3
      <4> QED BY <1>4, <4>1, <4>2, <4>3
    <3> QED BY <1>1, <1>2, <1>12, <2>2, <3>1 DEF Unvisited
  <2> QED BY <1>10, <2>3, <2>4, <2>5, <2>6 DEF CopyInv
<1>13. CASE kept' = kept \cup {path} /\ frames' = skipped /\ temp' = temp
  <2>1. Placed'
    BY <1>1, <1>2, <1>6, <1>13 DEF CopyInv, Placed
  <2>2. Rooted'
    BY <1>1, <1>2, <1>13 DEF CopyInv, Rooted
  <2>3. Removing'
    <3>1. InPlace(skipped, DOMAIN temp)
      BY <1>6, InPlaceIs
    <3> QED BY <1>13, <3>1 DEF Removing
  <2>4. Unvisited'
    <3>1. ASSUME NEW p \in DOMAIN temp
          PROVE  Stays(p)' \/ OnStack(skipped, p) \/ Due(skipped, p)
      <4>1. Stays(p) => Stays(p)'
        BY <1>13 DEF Stays
      <4>2. IsPrefix(path, p) => Stays(p)'
        BY <1>4, <1>13 DEF Stays
      <4> QED BY <1>4, <1>6, <4>1, <4>2
    <3> QED BY <1>1, <1>2, <1>13, <3>1 DEF Unvisited
  <2> QED BY <1>10, <2>1, <2>2, <2>3, <2>4 DEF CopyInv
<1> QED BY <1>5, <1>11, <1>12, <1>13

\* A directory that still holds something has a reason to stay.
LEMMA FullDirectoryStays ==
  ASSUME CopyInv, pc = "remove", frames # <<>>, frames[1].left = {},
         Children(temp, frames[1].dir) # {}
  PROVE  Stays(frames[1].dir)
<1> DEFINE d == frames[1].dir
<1>1. IsStack(frames) /\ IsTree(temp) /\ d \in Seq(Names)
  BY StackFacts DEF CopyInv, Placed
<1>2. \A p \in DOMAIN temp : Stays(p) \/ OnStack(frames, p) \/ Due(frames, p)
  BY DEF CopyInv, Unvisited
<1>3. PICK n \in Children(temp, d) : TRUE
  OBVIOUS
<1> DEFINE c == Append(d, n)
<1>4. n \in Names /\ c \in DOMAIN temp /\ c \in Seq(Names)
  <2> HIDE DEF d
  <2> QED BY <1>1, <1>3, ChildrenAre, AppendIs
<1>5. IsPrefix(d, c) /\ IsPrefix(d, d) /\ ~IsPrefix(c, d)
  <2> HIDE DEF d
  <2> QED BY <1>1, <1>4, PrefixFacts
<1>6. \A k \in Seq(Names) : IsPrefix(k, c) => k = c \/ IsPrefix(k, d)
  <2> HIDE DEF d
  <2> QED BY <1>1, <1>4, PrefixFacts
<1>7. ~OnStack(frames, c) /\ ~Due(frames, c)
  <2>1. OnStack(frames, c) => c = d
    <3> HIDE DEF c
    <3> QED BY <1>1, <1>4, <1>5, DueBelow
  <2>2. ~Due(frames, c)
    <3> HIDE DEF c
    <3> QED BY <1>1, <1>4, <1>5, DueBelow
  <2> QED BY <1>5, <2>1, <2>2
<1> HIDE DEF c, d
<1>8. PICK k \in kept \cap DOMAIN temp : IsPrefix(k, c) \/ IsPrefix(c, k)
  BY <1>2, <1>4, <1>7 DEF Stays
<1>9. k \in Seq(Names)
  BY <1>1 DEF IsTree
<1>10. IsPrefix(c, k) => IsPrefix(d, k)
  BY <1>1, <1>4, <1>5, <1>9, PrefixChain
<1>11. IsPrefix(k, d) \/ IsPrefix(d, k)
  BY <1>5, <1>6, <1>8, <1>9, <1>10
<1> QED BY <1>11 DEF Stays, d

LEMMA LeaveDirectoryStep ==
  ASSUME CopyInv, LeaveDirectory
  PROVE  CopyInv'
<1> DEFINE d == frames[1].dir
           tail == Tail(frames)
           held == Children(temp, d) # {}
<1>1. /\ pc = "remove" /\ frames # <<>> /\ IsStack(frames) /\ IsTree(temp)
      /\ Head(frames) = frames[1] /\ d \in Seq(Names) /\ 1 \in DOMAIN frames
      /\ DOMAIN temp \subseteq Seq(Names)
  BY StackFacts DEF LeaveDirectory, CopyInv, Placed, IsTree
<1>2. /\ case' = case /\ project' = project /\ err' = err /\ pending' = pending
      /\ outcome' = outcome /\ fate' = fate /\ ran' = ran /\ frames' = tail
      /\ pc' = IF tail = <<>> THEN "done" ELSE "remove"
  BY DEF LeaveDirectory, history
<1>3. \/ /\ frames[1].left = {} /\ temp' = (IF held THEN temp ELSE Without(temp, d))
         /\ kept' = kept
      \/ kept' = kept \cup {d} /\ temp' = temp
  BY <1>1 DEF LeaveDirectory
<1>4. /\ \A p : OnStack(frames, p) \/ Awaited(frames, p) => p \in DOMAIN temp
      /\ \A p \in DOMAIN temp : Stays(p) \/ OnStack(frames, p) \/ Due(frames, p)
  BY <1>1, InPlaceIs DEF CopyInv, Removing, Unvisited
<1>5. d \in DOMAIN temp
  BY <1>1, <1>4 DEF OnStack
<1>6. IsStack(tail)
  BY <1>1, TailIs
<1>7. \A p : OnStack(tail, p) \/ Awaited(tail, p) => p \in DOMAIN temp /\ p # d
  BY <1>1, <1>4, TailBack
<1>8. \A p : /\ OnStack(frames, p) => OnStack(tail, p) \/ p = d
             /\ Due(frames, p) => \/ Due(tail, p)
                                  \/ \E n \in frames[1].left : IsPrefix(Append(d, n), p)
  BY <1>1, TailDue
<1>9. \A p \in Seq(Names) : IsPrefix(p, d) => OnStack(frames, p)
  BY <1>1, WayIsOnStack
<1>10. frames[1].left = {} /\ held => Stays(d)
  BY <1>1, FullDirectoryStays
<1>11. \A n \in frames[1].left : \A p \in DOMAIN temp : IsPrefix(Append(d, n), p) => IsPrefix(d, p)
  <2>1. frames[1].left \subseteq Names
    BY <1>1, StackFacts
  <2> SUFFICES ASSUME NEW n \in Names, NEW p \in Seq(Names), IsPrefix(Append(d, n), p)
               PROVE  IsPrefix(d, p)
    BY <1>1, <2>1
  <2> HIDE DEF d
  <2>2. Append(d, n) \in Seq(Names) /\ IsPrefix(d, Append(d, n))
    BY <1>1, AppendIs, PrefixFacts
  <2> QED BY <1>1, <2>2, PrefixChain
<1>12. frames[1].left = {} /\ ~held =>
         /\ IsTree(Without(temp, d))
         /\ DOMAIN Without(temp, d) = DOMAIN temp \ {d}
         /\ \A p \in DOMAIN temp \ {d} : Without(temp, d)[p] = temp[p]
         /\ \A p \in DOMAIN temp : IsPrefix(d, p) => p = d
  <2> HIDE DEF d
  <2> QED BY <1>1, <1>5, WithoutKeeps
<1>13. IsPrefix(d, d)
  <2> HIDE DEF d
  <2> QED BY <1>1, NamesOK, PrefixFacts
<1>14. tail # <<>> => OnStack(tail, <<>>)
  <2> SUFFICES ASSUME tail # <<>> PROVE OnStack(tail, <<>>)
    OBVIOUS
  <2> HIDE DEF tail
  <2>1. tail[1].dir \in Seq(Names) /\ <<>> \in Seq(Names)
    BY <1>6, StackFacts
  <2>2. IsPrefix(<<>>, tail[1].dir)
    BY <2>1, NamesOK, PrefixFacts
  <2> QED BY <1>6, <2>1, <2>2, WayIsOnStack
<1>15. tail = <<>> => \A p : ~OnStack(tail, p) /\ ~Due(tail, p)
  BY NoFrames
<1> HIDE DEF d, tail, held
<1>16. /\ IsTree(temp') /\ DOMAIN temp' \subseteq DOMAIN temp
       /\ DOMAIN temp \ {d} \subseteq DOMAIN temp'
       /\ \A p \in DOMAIN temp' : temp'[p] = temp[p]
  <2>1. CASE temp' = temp
    BY <1>1, <2>1
  <2>2. CASE frames[1].left = {} /\ ~held /\ temp' = Without(temp, d)
    <3> DEFINE new == Without(temp, d)
    <3>1. /\ IsTree(new) /\ DOMAIN new = DOMAIN temp \ {d}
          /\ \A p \in DOMAIN temp \ {d} : new[p] = temp[p]
      BY <1>12, <2>2
    <3>2. temp' = new
      BY <2>2
    <3> HIDE DEF new
    <3> QED BY <3>1, <3>2
  <2> QED BY <1>3, <2>1, <2>2
<1>17. ASSUME NEW p \in DOMAIN temp'
       PROVE  Stays(p)' \/ OnStack(tail, p) \/ Due(tail, p)
  <2>1. p \in DOMAIN temp /\ p \in Seq(Names)
    BY <1>1, <1>16
  <2>2. CASE frames[1].left = {} /\ ~held /\ temp' = Without(temp, d) /\ kept' = kept
    <3>1. /\ p # d /\ DOMAIN temp' = DOMAIN temp \ {d}
          /\ \A q \in DOMAIN temp : IsPrefix(d, q) => q = d
      BY <1>12, <2>2
    <3>2. Stays(p) => Stays(p)' \/ IsPrefix(p, d)
      <4>1. Stays(p) => \/ \E k \in kept \cap (DOMAIN temp \ {d}) : IsPrefix(k, p) \/ IsPrefix(p, k)
                        \/ IsPrefix(p, d)
        BY <1>1, <1>5, <2>1, <3>1, StayOrVisit DEF Stays
      <4> QED BY <2>2, <3>1, <4>1 DEF Stays
    <3> QED BY <1>4, <1>8, <1>9, <2>1, <2>2, <3>1, <3>2
  <2>3. CASE frames[1].left = {} /\ held /\ temp' = temp /\ kept' = kept
    <3>1. \A q : Stays(q) => Stays(q)'
      BY <2>3 DEF Stays
    <3> QED BY <1>4, <1>8, <1>10, <2>1, <2>3, <3>1
  <2>4. CASE kept' = kept \cup {d} /\ temp' = temp
    <3>1. Stays(p) => Stays(p)'
      BY <2>4 DEF Stays
    <3>2. IsPrefix(d, p) => Stays(p)'
      BY <1>5, <2>4 DEF Stays
    <3> QED BY <1>4, <1>8, <1>11, <1>13, <2>1, <3>1, <3>2
  <2> QED BY <1>3, <2>2, <2>3, <2>4
<1>18. \A p : OnStack(tail, p) \/ Awaited(tail, p) => p \in DOMAIN temp'
  BY <1>7, <1>16
<1>19. Placed'
  <2>1. tail # <<>> => pc' = "remove"
    BY <1>2
  <2>2. pc' \in {"remove", "done"}
    BY <1>2
  <2> QED BY <1>2, <1>6, <1>16, <2>1, <2>2 DEF CopyInv, Placed
<1>20. Rooted'
  <2>1. pc' = "remove" => <<>> \in DOMAIN temp'
    BY <1>2, <1>14, <1>18
  <2>2. pc' \in {"remove", "done"}
    BY <1>2
  <2>3. \A p \in {<<>>, Moved(<<>>)} \cap DOMAIN temp' : temp'[p].kind = "dir"
    BY <1>16 DEF CopyInv, Rooted
  <2>4. <<>> \in DOMAIN project' /\ project'[<<>>].kind = "dir"
    BY <1>2 DEF CopyInv, Rooted
  <2> QED BY <2>1, <2>2, <2>3, <2>4 DEF Rooted
<1>21. (Copying /\ Mirrored /\ OutputsDropped /\ Unanswered)'
  <2>1. pc' \in {"remove", "done"}
    BY <1>2
  <2> QED BY <2>1 DEF Copying, Mirrored, OutputsDropped, Unanswered
<1>22. Removing'
  <2>1. InPlace(tail, DOMAIN temp')
    BY <1>18, InPlaceIs
  <2> QED BY <1>2, <2>1 DEF Removing
<1>23. Unvisited'
  <2>1. pc' = "done" => tail = <<>>
    BY <1>2
  <2> QED BY <1>2, <1>15, <1>17, <2>1 DEF Unvisited
<1> QED BY <1>19, <1>20, <1>21, <1>22, <1>23 DEF CopyInv

LEMMA StragglerWritesStep ==
  ASSUME CopyInv, StragglerWrites
  PROVE  CopyInv'
<1> DEFINE w == "late"
           q == Append(Moved(<<>>), w)
           entry == File("late", "clean")
           new == Put(temp, q, entry)
<1>1. /\ pc = "remove" /\ IsTree(temp) /\ Moved(<<>>) \in DOMAIN temp
      /\ temp[Moved(<<>>)].kind = "dir" /\ <<>> \in DOMAIN temp /\ temp[<<>>].kind = "dir"
  BY CopyPlaces DEF StragglerWrites, CopyInv, Placed, Rooted
<1>2. /\ case' = case /\ project' = project /\ pc' = pc /\ err' = err /\ pending' = pending
      /\ outcome' = outcome /\ fate' = fate /\ ran' = ran /\ frames' = frames
  BY DEF StragglerWrites, history
<1>3. /\ q \in Seq(Names) /\ Front(q) = Moved(<<>>) /\ q = InCopy(<<w>>).path
      /\ Moved(<<>>) \in Seq(Names)
  <2>1. <<>> \in Seq(Names)
    OBVIOUS
  <2> QED BY <2>1, CopyPlaces, MovedIs
<1>4. q \notin DOMAIN temp /\ temp' = new /\ kept' = kept \cup {q}
  BY <1>3 DEF StragglerWrites
<1> HIDE DEF q, entry
<1>5. IsTree(new) /\ DOMAIN new = DOMAIN temp \cup {q}
  <2>1. q # <<>> => Front(q) \in DOMAIN temp /\ temp[Front(q)].kind = "dir"
    BY <1>1, <1>3
  <2>2. q \in DOMAIN temp => entry.kind = temp[q].kind
    BY <1>4
  <2>3. IsTree(temp) /\ q \in Seq(Names)
    BY <1>1, <1>3
  <2> QED BY ONLY <2>1, <2>2, <2>3, PutKeeps
<1>6. \A p \in DOMAIN temp : new[p] = temp[p]
  BY <1>4, PutIs
<1>7. IsPrefix(q, q)
  BY <1>3, NamesOK, PrefixFacts
<1> HIDE DEF new
<1>8. Placed'
  BY <1>2, <1>4, <1>5 DEF CopyInv, Placed
<1>9. Rooted'
  <2>1. \A p \in {<<>>, Moved(<<>>)} : temp'[p].kind = "dir"
    BY <1>1, <1>4, <1>6
  <2> QED BY <1>1, <1>2, <1>4, <1>5, <2>1 DEF CopyInv, Rooted
<1>10. (Copying /\ Mirrored /\ OutputsDropped /\ Unanswered)'
  BY <1>1, <1>2 DEF Copying, Mirrored, OutputsDropped, Unanswered
<1>11. Removing'
  BY <1>1, <1>2, <1>4, <1>5 DEF CopyInv, Removing, InPlace
<1>12. Unvisited'
  <2>1. ASSUME NEW p \in DOMAIN temp', frames # <<>>
        PROVE  Stays(p)' \/ OnStack(frames, p) \/ Due(frames, p)
    <3>1. CASE p = q
      BY <1>4, <1>5, <1>7, <3>1 DEF Stays
    <3>2. CASE p # q
      <4>1. Stays(p) => Stays(p)'
        BY <1>4, <1>5 DEF Stays
      <4> QED BY <1>1, <1>4, <1>5, <2>1, <3>2, <4>1 DEF CopyInv, Unvisited
    <3> QED BY <3>1, <3>2
  <2> QED BY <1>1, <1>2, <2>1 DEF Unvisited
<1> QED BY <1>8, <1>9, <1>10, <1>11, <1>12 DEF CopyInv

-----------------------------------------------------------------------------
(* The theorems.                                                             *)

LEMMA FinishedStep ==
  ASSUME CopyInv, UNCHANGED vars
  PROVE  CopyInv'
<1>1. /\ case' = case /\ project' = project /\ temp' = temp /\ pc' = pc /\ err' = err
      /\ pending' = pending /\ frames' = frames /\ command' = command /\ outcome' = outcome
      /\ fate' = fate /\ ran' = ran /\ kept' = kept
  BY DEF vars
<1>2. Placed' /\ Rooted'
  BY <1>1 DEF CopyInv, Placed, Rooted
<1>3. Copying' /\ Mirrored' /\ OutputsDropped' /\ Removing'
  BY <1>1 DEF CopyInv, Copying, Mirrored, OutputsDropped, Removing
<1>4. Unvisited' /\ Unanswered'
  BY <1>1 DEF CopyInv, Unvisited, Stays, Unanswered
<1> QED BY <1>2, <1>3, <1>4 DEF CopyInv

\* An entry that is no new link leaves the links typed.
LEMMA PutLinks ==
  ASSUME NEW tree, LinksTyped(tree), NEW path, NEW entry,
         entry.kind = "link" => entry.to \in Location
  PROVE  LinksTyped(Put(tree, path, entry))
<1>1. ASSUME NEW p \in DOMAIN Put(tree, path, entry), Put(tree, path, entry)[p].kind = "link"
      PROVE  Put(tree, path, entry)[p].to \in Location
  <2>1. CASE p = path
    BY <1>1, <2>1, PutIs
  <2>2. CASE p # path
    <3>1. p \in DOMAIN tree /\ Put(tree, path, entry)[p] = tree[p]
      BY <1>1, <2>2 DEF Put
    <3> QED BY <1>1, <3>1 DEF LinksTyped
  <2> QED BY <2>1, <2>2
<1> QED BY <1>1 DEF LinksTyped

\* Nothing makes a link but the copy.
LEMMA LinksStay ==
  ASSUME CopyInv, Linked, [Next]_vars
  PROVE  Linked'
<1>1. LinksTyped(project) /\ LinksTyped(temp)
  BY DEF Linked
<1>2. \A text, state : File(text, state).kind # "link"
  BY DEF File
<1>3. Dir.kind # "link"
  BY DEF Dir
<1>4. ASSUME NEW at, NEW text, NEW state, Write(at, File(text, state)) PROVE Linked'
  <2>1. /\ project' = project \/ project' = Put(project, at.path, File(text, state))
        /\ temp' = temp \/ temp' = Put(temp, at.path, File(text, state))
    BY <1>4 DEF Write
  <2> QED BY <1>1, <1>2, <2>1, PutLinks DEF Linked
<1>5. ASSUME project' = project, temp' = temp PROVE Linked'
  BY <1>1, <1>5 DEF Linked
<1>6. ASSUME project' = project, NEW path, NEW entry, temp' = Put(temp, path, entry),
             entry.kind = "link" => entry.to \in Location
      PROVE  Linked'
  BY <1>1, <1>6, PutLinks DEF Linked
<1>7. ASSUME project' = project, NEW path, temp' = Without(temp, path) PROVE Linked'
  BY <1>1, <1>7 DEF Linked, LinksTyped, Without
<1>8. CASE MakeTree \/ CopyTop
  <2>1. /\ project' = project
        /\ \/ temp' = temp
           \/ \E path : temp' = Put(temp, path, Dir)
    BY <1>8 DEF MakeTree, CopyTop
  <2> QED BY <1>3, <1>5, <1>6, <2>1
<1>9. CASE CopyEntry
  <2>1. PICK name \in Head(frames).left :
          LET path  == Append(Head(frames).dir, name)
              entry == project[path]
          IN temp' = IF entry.kind = "other" THEN temp ELSE Put(temp, InCopy(path).path, entry)
    BY <1>9 DEF CopyEntry
  <2> DEFINE path == Append(Head(frames).dir, name)
  <2>2. project' = project /\ (temp' = temp \/ temp' = Put(temp, InCopy(path).path, project[path]))
    BY <1>9, <2>1 DEF CopyEntry
  <2>3. path \in DOMAIN project
    <3>1. pc = "copy" /\ frames # <<>>
      BY <1>9 DEF CopyEntry
    <3>2. Head(frames) = frames[1] /\ Append(frames[1].dir, name) \in DOMAIN project
      BY <3>1, NextToCopy
    <3> QED BY <3>2
  <2> HIDE DEF path
  <2>4. project[path].kind = "link" => project[path].to \in Location
    BY <1>1, <2>3 DEF LinksTyped
  <2> QED BY <1>5, <1>6, <2>2, <2>4
<1>10. CASE CopyFails
  <2>1. /\ project' = project
        /\ \/ temp' = temp
           \/ \E path : temp' = Put(temp, path, Dir)
           \/ \E path, text : temp' = Put(temp, path, File(text, "broken"))
    BY <1>10 DEF CopyFails
  <2> QED BY <1>2, <1>3, <1>5, <1>6, <2>1
<1>11. CASE ApplyCandidate
  <2>1. \/ project' = project /\ temp' = temp
        \/ \E at, text, state : Write(at, File(text, state))
    BY <1>11 DEF ApplyCandidate
  <2> QED BY <1>4, <1>5, <2>1
<1>12. CASE Compile \/ RunTest
  <2>1. \E text : ProgramWrites(File(text, "clean"))
    BY <1>12 DEF Compile, RunTest
  <2>2. \/ project' = project /\ temp' = temp
        \/ \E at, text : Write(at, File(text, "clean"))
    BY <2>1 DEF ProgramWrites
  <2> QED BY <1>4, <1>5, <2>2
<1>13. CASE EndDirectory \/ BuildCompileCommand \/ RewriteCommand \/ RemoveTop
  BY <1>5, <1>13 DEF EndDirectory, BuildCompileCommand, RewriteCommand, RemoveTop
<1>14. CASE RemoveEntry \/ LeaveDirectory
  <2>1. /\ project' = project
        /\ \/ temp' = temp
           \/ \E path : temp' = Without(temp, path)
    BY <1>14 DEF RemoveEntry, LeaveDirectory
  <2> QED BY <1>5, <1>7, <2>1
<1>15. CASE StragglerWrites
  <2>1. project' = project /\ \E path : temp' = Put(temp, path, File("late", "clean"))
    BY <1>15 DEF StragglerWrites
  <2> QED BY <1>2, <1>6, <2>1
<1>16. CASE Finished \/ UNCHANGED vars
  BY <1>5, <1>16 DEF Finished, vars
<1> QED BY <1>8, <1>9, <1>10, <1>11, <1>12, <1>13, <1>14, <1>15, <1>16 DEF Next

LEMMA InitLinked == Init => Linked
<1> SUFFICES ASSUME Init PROVE Linked
  OBVIOUS
<1>1. case \in Cases /\ project = case.tree /\ DOMAIN temp = {}
  BY DEF Init, Empty
<1> QED BY <1>1, LinksOK DEF Linked, LinksTyped

LEMMA CopyInvHolds == Spec => []CopyInv
<1>1. Init => CopyInv /\ Linked
  BY InitHolds, InitLinked
<1>2. CopyInv /\ Linked /\ [Next]_vars => CopyInv' /\ Linked'
  <2> SUFFICES ASSUME CopyInv, Linked, [Next]_vars PROVE CopyInv'
    BY LinksStay
  <2>1. CASE MakeTree
    BY <2>1, MakeTreeStep
  <2>2. CASE CopyTop
    BY <2>2, CopyTopStep
  <2>3. CASE CopyEntry
    BY <2>3, CopyEntryStep
  <2>4. CASE EndDirectory
    BY <2>4, EndDirectoryStep
  <2>5. CASE CopyFails
    BY <2>5, CopyFailsStep
  <2>6. CASE ApplyCandidate
    BY <2>6, ApplyCandidateStep
  <2>7. CASE BuildCompileCommand
    BY <2>7, BuildCompileCommandStep
  <2>8. CASE Compile
    BY <2>8, CompileStep
  <2>9. CASE RewriteCommand
    BY <2>9, RewriteCommandStep
  <2>10. CASE RunTest
    BY <2>10, RunTestStep
  <2>11. CASE RemoveTop
    BY <2>11, RemoveTopStep
  <2>12. CASE RemoveEntry
    BY <2>12, RemoveEntryStep
  <2>13. CASE LeaveDirectory
    BY <2>13, LeaveDirectoryStep
  <2>14. CASE StragglerWrites
    BY <2>14, StragglerWritesStep
  <2>15. CASE Finished \/ UNCHANGED vars
    BY <2>15, FinishedStep DEF Finished
  <2> QED BY <2>1, <2>2, <2>3, <2>4, <2>5, <2>6, <2>7, <2>8, <2>9, <2>10, <2>11, <2>12, <2>13,
             <2>14, <2>15 DEF Next
<1> QED BY <1>1, <1>2, PTL DEF Spec

\* Each frame is for an entry of the directory of the frame around it.
LEMMA FramesNest ==
  ASSUME NEW fr, IsStack(fr), NEW i \in 1 .. Len(fr) - 1
  PROVE  Front(fr[i].dir) = fr[i + 1].dir
<1>1. Len(fr) \in Nat /\ fr # <<>>
  BY DEF IsStack
<1>2. i \in 1 .. Len(fr) /\ i + 1 \in 1 .. Len(fr)
  BY <1>1
<1> DEFINE d == fr[i].dir
           e == fr[i + 1].dir
           k == Len(fr) - (i + 1)
<1>3. /\ d \in Seq(Names) /\ e \in Seq(Names) /\ Len(d) = Len(fr) - i /\ Len(e) = k
      /\ \A j \in 1 .. Len(fr) - i : d[j] = fr[1].dir[j]
      /\ \A j \in 1 .. k : e[j] = fr[1].dir[j]
  BY <1>1, <1>2, StackFacts DEF IsStack
<1>4. k \in Nat /\ Len(fr) - i = k + 1
  BY <1>1
<1> HIDE DEF d, e, k
<1>5. /\ d \in Seq(Names) /\ e \in Seq(Names) /\ k \in Nat /\ Len(d) = k + 1 /\ Len(e) = k
      /\ \A j \in 1 .. k : e[j] = d[j]
  <2>1. Len(d) = k + 1
    BY <1>3, <1>4
  <2>2. ASSUME NEW j \in 1 .. k PROVE e[j] = d[j]
    <3>1. j \in 1 .. k + 1
      BY <1>4
    <3>2. j \in 1 .. Len(fr) - i
      BY <1>4, <3>1
    <3> QED BY <1>3, <3>2
  <2> QED BY <1>3, <1>4, <2>1, <2>2
<1>6. Front(d) \in Seq(Names) /\ Len(Front(d)) = k /\ \A j \in 1 .. k : Front(d)[j] = d[j]
  <2>1. d # <<>> /\ Len(d) - 1 = k
    BY <1>5
  <2> QED BY <1>5, <2>1, FrontIs
<1>7. \A j \in 1 .. k : Front(d)[j] = e[j]
  BY <1>5, <1>6
<1>8. Front(d) = e
  BY <1>5, <1>6, <1>7, PathEqual
<1> QED BY <1>8 DEF d, e

\* Types, and that the recursions of copy_tree and remove_tree go down through
\* directories that lie within one another and, for the removal, are there.
THEOREM TypeCorrectness == Spec => []TypeOK
<1>1. CopyInv => TypeOK
  <2> SUFFICES ASSUME CopyInv PROVE TypeOK
    OBVIOUS
  <2>1. \A i \in 1 .. Len(frames) - 1 : Front(frames[i].dir) = frames[i + 1].dir
    BY FramesNest DEF CopyInv, Placed
  <2>2. pc = "remove" => \A i \in DOMAIN frames : frames[i].dir \in DOMAIN temp
    BY DEF CopyInv, Removing, InPlace
  <2> QED BY <2>1, <2>2 DEF CopyInv, Placed, TypeOK
<1> QED BY <1>1, CopyInvHolds, PTL

\* p101_mutation_remove_tree goes on past every failure: what it leaves is there
\* for the sake of an entry at which a call failed.
THEOREM Thoroughness == Spec => []RemovalIsThorough
<1>1. CopyInv => RemovalIsThorough
  BY DEF CopyInv, Unvisited, Stays, RemovalIsThorough
<1> QED BY <1>1, CopyInvHolds, PTL

-----------------------------------------------------------------------------
(* The campaign's view of a candidate.                                       *)

\* p101_mutation_copy_tree has reset the error object before it copies entries.
Reset == pc = "copy" /\ frames # <<>> => err = FALSE

LEMMA ResetHolds == Spec => []Reset
<1>1. Init => Reset
  BY DEF Init, Reset
<1>2. CopyInv /\ Reset /\ [Next]_vars => Reset'
  <2> SUFFICES ASSUME CopyInv, Reset, [Next]_vars, pc' = "copy", frames' # <<>> PROVE err' = FALSE
    BY DEF Reset
  <2>1. pc = "make tree" => frames = <<>>
    BY DEF CopyInv, Placed
  <2>2. MakeTree => FALSE
    BY <2>1 DEF MakeTree
  <2>3. CopyTop \/ CopyEntry \/ EndDirectory => err' = FALSE
    BY DEF CopyTop, CopyEntry, EndDirectory, Reset
  <2>4. CopyFails \/ ApplyCandidate \/ BuildCompileCommand \/ Compile \/ RewriteCommand
        \/ RunTest => FALSE
    BY DEF CopyFails, ApplyCandidate, BuildCompileCommand, Compile, RewriteCommand, RunTest
  <2>5. RemoveTop \/ RemoveEntry \/ LeaveDirectory \/ StragglerWrites => FALSE
    BY DEF RemoveTop, RemoveEntry, LeaveDirectory, StragglerWrites
  <2>6. Finished \/ UNCHANGED vars => err' = FALSE
    BY DEF Finished, vars, Reset
  <2> QED BY <2>2, <2>3, <2>4, <2>5, <2>6 DEF Next
<1> QED BY <1>1, <1>2, CopyInvHolds, PTL DEF Spec

\* MutationCampaign and this module read the same outcomes in the same way.
LEMMA SameOutcomes ==
  /\ \A e : C!OutcomesGiven(e) = OutcomesGiven(e)
  /\ \A o : C!Classify(o) = Classify(o)
  /\ \A o \in OutcomesOfCommand : o \in OutcomesGiven(err)
<1>1. \A e : C!OutcomesGiven(e) = OutcomesGiven(e)
  BY DEF C!OutcomesGiven, OutcomesGiven, C!Lost, Lost, C!Killed, Killed, C!Ended, Ended, C!NoCode,
         NoCode
<1>2. \A o : C!Classify(o) = Classify(o)
  BY Zenon DEF C!Classify, Classify
<1>3. \A o \in OutcomesOfCommand : o \in OutcomesGiven(err)
  BY DEF OutcomesOfCommand
<1> QED BY <1>1, <1>2, <1>3

LEMMA MakeTreeMaps ==
  ASSUME CopyInv, MakeTree
  PROVE  C!MakeTree
<1>1. /\ pc = "make tree" /\ DOMAIN temp = {} /\ outcome = "none" /\ fate = "none"
      /\ err = pending
  BY DEF MakeTree, CopyInv, Rooted, Unanswered
<1>2. outcome' = outcome /\ fate' = fate /\ pending' = pending
  BY DEF MakeTree, history
<1>3. DOMAIN Put(temp, <<>>, Dir) # {}
  BY DEF Put
<1>4. Append(<<>>, "none") = <<"none">>
  OBVIOUS
<1>5. CASE err' = TRUE /\ pc' = "done" /\ temp' = temp
  BY <1>1, <1>2, <1>4, <1>5 DEF C!MakeTree, C!arguments, C!scan
<1>6. CASE /\ DOMAIN temp' # {}
           /\ \/ err' = TRUE /\ pc' = "remove"
              \/ err' = err /\ pc' = "copy"
  BY <1>1, <1>2, <1>4, <1>6 DEF C!MakeTree, C!arguments, C!scan
<1> QED BY <1>3, <1>5, <1>6 DEF MakeTree

\* Steps inside one of the campaign's.
Inner ==
  /\ pc' = pc /\ outcome' = outcome /\ fate' = fate
  /\ pc # "done" /\ DOMAIN temp # {} /\ DOMAIN temp' # {}
  /\ IF pc = "copy" THEN pending' = pending ELSE err' = err

LEMMA InnerStutters == Inner => UNCHANGED C!vars
BY DEF Inner, C!vars

LEMMA CopyMaps ==
  ASSUME CopyInv, CopyInv', Reset, CopyTop \/ CopyEntry \/ EndDirectory \/ CopyFails
  PROVE  C!CopyTree \/ UNCHANGED C!vars
<1>1. /\ pc = "copy" /\ outcome' = outcome /\ fate' = fate /\ pending' = pending
      /\ pc' \in {"copy", "apply", "remove"} /\ err' \in BOOLEAN
  BY DEF CopyInv, Placed, CopyTop, CopyEntry, EndDirectory, CopyFails, history
<1>2. DOMAIN temp # {} /\ DOMAIN temp' # {}
  BY <1>1 DEF CopyInv, Rooted
<1>3. CASE pc' = "copy"
  BY <1>1, <1>2, <1>3, InnerStutters DEF Inner
<1>4. CASE pc' = "apply"
  <2>1. err' = FALSE
    BY <1>4 DEF CopyTop, CopyEntry, EndDirectory, CopyFails, Reset
  <2> QED BY <1>1, <1>2, <1>4, <2>1 DEF C!CopyTree, C!arguments, C!scan, C!candidate, C!history
<1>5. CASE pc' = "remove"
  BY <1>1, <1>2, <1>5 DEF C!CopyTree, C!arguments, C!scan, C!candidate, C!history
<1> QED BY <1>1, <1>3, <1>4, <1>5

LEMMA WorkMaps ==
  ASSUME CopyInv, CopyInv'
  PROVE  /\ ApplyCandidate => C!ApplyCandidate
         /\ BuildCompileCommand => C!BuildCompileCommand
         /\ Compile => C!Compile
         /\ RewriteCommand => C!RewriteCommand
         /\ RunTest => C!RunTest
<1>1. ASSUME pc \in {"apply", "build", "compile", "rewrite", "test"},
             pc' \notin {"make tree", "done"}
      PROVE  /\ DOMAIN temp # {} /\ DOMAIN temp' # {}
             /\ outcome = "none" /\ fate = "none" /\ err \in BOOLEAN
  BY <1>1 DEF CopyInv, Placed, Rooted, Unanswered
<1>2. ASSUME ApplyCandidate PROVE C!ApplyCandidate
  <2>1. /\ pc = "apply" /\ outcome' = outcome /\ fate' = fate
        /\ \/ err' = err /\ pc' = "build"
           \/ err' \in BOOLEAN /\ pc' = "remove"
    BY <1>2 DEF ApplyCandidate, history
  <2> QED BY <1>1, <2>1 DEF C!ApplyCandidate, C!arguments, C!scan, C!candidate, C!history
<1>3. ASSUME BuildCompileCommand PROVE C!BuildCompileCommand
  <2>1. /\ pc = "build" /\ outcome' = outcome /\ fate' = fate
        /\ \/ err' = err /\ pc' = "compile"
           \/ err' \in BOOLEAN /\ pc' = "remove"
    BY <1>3 DEF BuildCompileCommand, history
  <2> QED BY <1>1, <2>1 DEF C!BuildCompileCommand, C!arguments, C!scan, C!candidate, C!history
<1>4. ASSUME Compile PROVE C!Compile
  <2>1. pc = "compile" /\ fate' = fate
    BY <1>4 DEF Compile
  <2>2. PICK o \in OutcomesGiven(err) :
          /\ err' = o.err
          /\ \/ /\ o.timedOut \/ o.code # 0
                /\ outcome' = "inconclusive" /\ pc' = "remove"
             \/ /\ ~o.timedOut /\ o.code = 0
                /\ outcome' = outcome /\ pc' = "rewrite"
    BY <1>4, SameOutcomes DEF Compile
  <2>3. o \in C!OutcomesGiven(err)
    BY <2>2, SameOutcomes
  <2>4. DOMAIN temp # {} /\ DOMAIN temp' # {} /\ outcome = "none" /\ fate = "none"
    BY <1>1, <2>1, <2>2
  <2>5. Append(<<>>, "inconclusive") = <<"inconclusive">>
    OBVIOUS
  <2> QED BY <2>1, <2>2, <2>3, <2>4, <2>5 DEF C!Compile, C!arguments, C!scan, C!history
<1>5. ASSUME RewriteCommand PROVE C!RewriteCommand
  <2>1. /\ pc = "rewrite" /\ outcome' = outcome /\ fate' = fate
        /\ pc' \in {"remove", "test"}
    BY <1>5 DEF RewriteCommand, history
  <2>2. /\ \E fails \in BOOLEAN : err' = (err \/ fails)
        /\ pc' = IF err' THEN "remove" ELSE "test"
    <3>1. err \in BOOLEAN
      BY <1>1, <2>1
    <3>2. CASE err' = err /\ pc' = IF err THEN "remove" ELSE "test"
      <4>1. err' = (err \/ FALSE)
        BY <3>1, <3>2
      <4>2. pc' = IF err' THEN "remove" ELSE "test"
        BY <3>2
      <4> QED BY <4>1, <4>2
    <3>3. CASE err' = TRUE /\ pc' = "remove"
      <4>1. err' = (err \/ TRUE)
        BY <3>3
      <4>2. pc' = IF err' THEN "remove" ELSE "test"
        BY <3>3
      <4> QED BY <4>1, <4>2
    <3> QED BY <1>5, <3>2, <3>3 DEF RewriteCommand
  <2> QED BY <1>1, <2>1, <2>2 DEF C!RewriteCommand, C!arguments, C!scan, C!candidate, C!history
<1>6. ASSUME RunTest PROVE C!RunTest
  <2>1. pc = "test" /\ pc' = "remove"
    BY <1>6 DEF RunTest
  <2>2. PICK o \in OutcomesGiven(err) :
          err' = o.err /\ fate' = C!Fate(o) /\ outcome' = Classify(o)
    BY <1>6, SameOutcomes DEF RunTest
  <2>3. o \in C!OutcomesGiven(err) /\ outcome' = C!Classify(o)
    BY <2>2, SameOutcomes
  <2>4. DOMAIN temp # {} /\ DOMAIN temp' # {} /\ outcome = "none" /\ fate = "none"
    BY <1>1, <2>1
  <2>5. outcome' # "none"
    BY <2>2, Zenon DEF Classify
  <2>6. [<<fate>> EXCEPT ![1] = C!Fate(o)] = <<fate'>> /\ Append(<<>>, C!Classify(o)) = <<outcome'>>
    BY <2>2, <2>3
  <2> QED BY <2>1, <2>2, <2>3, <2>4, <2>5, <2>6 DEF C!RunTest, C!arguments, C!scan
<1> QED BY <1>2, <1>3, <1>4, <1>5, <1>6

LEMMA RemovalMaps ==
  ASSUME CopyInv, CopyInv',
         RemoveTop \/ RemoveEntry \/ LeaveDirectory \/ StragglerWrites
  PROVE  C!RemoveTree \/ UNCHANGED C!vars
<1>1. /\ pc = "remove" /\ pc' \in {"remove", "done"} /\ err' = err
      /\ outcome' = outcome /\ fate' = fate
  BY DEF RemoveTop, RemoveEntry, LeaveDirectory, StragglerWrites, history
<1>2. DOMAIN temp # {} /\ (pc' = "remove" => DOMAIN temp' # {})
  BY <1>1 DEF CopyInv, Rooted
<1>3. CASE pc' = "remove"
  BY <1>1, <1>2, <1>3, InnerStutters DEF Inner
<1>4. CASE pc' = "done" /\ DOMAIN temp' = {}
  BY <1>1, <1>2, <1>4 DEF C!RemoveTree, C!arguments, C!scan, C!history
<1>5. CASE pc' = "done" /\ DOMAIN temp' # {}
  BY <1>1, <1>2, <1>5 DEF C!RemoveTree, C!arguments, C!scan, C!history
<1> QED BY <1>1, <1>3, <1>4, <1>5

LEMMA NothingMaps ==
  ASSUME UNCHANGED vars
  PROVE  UNCHANGED C!vars
BY DEF vars, C!vars

\* Every step on the trees is, for the campaign, one of the steps it knows of a
\* candidate with a result it allows for, or is inside one.
THEOREM Refinement == Spec => KeepsToCampaign
<1>1. CopyInv /\ CopyInv' /\ Reset /\ [Next]_vars => [C!Next]_(C!vars)
  <2> SUFFICES ASSUME CopyInv, CopyInv', Reset, [Next]_vars
               PROVE  C!Step \/ UNCHANGED C!vars
    BY DEF C!Next
  <2>1. CASE MakeTree
    BY <2>1, MakeTreeMaps DEF C!Step
  <2>2. CASE CopyTop \/ CopyEntry \/ EndDirectory \/ CopyFails
    BY <2>2, CopyMaps DEF C!Step
  <2>3. CASE ApplyCandidate \/ BuildCompileCommand \/ Compile \/ RewriteCommand \/ RunTest
    BY <2>3, WorkMaps DEF C!Step
  <2>4. CASE RemoveTop \/ RemoveEntry \/ LeaveDirectory \/ StragglerWrites
    BY <2>4, RemovalMaps DEF C!Step
  <2>5. CASE Finished \/ UNCHANGED vars
    BY <2>5, NothingMaps DEF Finished
  <2> QED BY <2>1, <2>2, <2>3, <2>4, <2>5 DEF Next
<1> QED BY <1>1, CopyInvHolds, ResetHolds, PTL DEF Spec, KeepsToCampaign

-----------------------------------------------------------------------------
(* Where realpath leads.                                                     *)

\* g follows the path of at, name by name.
Walks(at, g) ==
  g[0] = At(at.root, <<>>) /\ \A k \in 1 .. Len(at.path) : g[k] = Enter(g[k - 1], at.path[k])

EndOf(at, g) == IF Exists(g[Len(at.path)]) THEN g[Len(at.path)] ELSE Nowhere

RealFacts ==
  \A at, g, X : /\ Len(at.path) \in Nat /\ g \in [0 .. Len(at.path) -> X]
                /\ Walks(at, g)
                => Real(at) = EndOf(at, g)

LEMMA RealIs == RealFacts
<1> SUFFICES ASSUME NEW at, NEW g, NEW X, Len(at.path) \in Nat, g \in [0 .. Len(at.path) -> X],
                    Walks(at, g)
             PROVE  Real(at) = EndOf(at, g)
  BY DEF RealFacts
<1> DEFINE N == Len(at.path)
           Step1(f) == [k \in 0 .. N |-> IF k = 0 THEN At(at.root, <<>>)
                                         ELSE Enter(f[k - 1], at.path[k])]
           found == CHOOSE f : f = Step1(f)
<1>1. Real(at) = IF Exists(found[N]) THEN found[N] ELSE Nowhere
  BY DEF Real
<1>2. g = Step1(g)
  <2>1. \A k \in 0 .. N : k = 0 \/ k \in 1 .. N
    OBVIOUS
  <2>2. \A k \in 0 .. N : g[k] = Step1(g)[k]
    BY <2>1 DEF Walks
  <2>3. g = [k \in 0 .. N |-> g[k]]
    OBVIOUS
  <2>4. Step1(g) = [k \in 0 .. N |-> Step1(g)[k]]
    OBVIOUS
  <2> HIDE DEF Step1
  <2> QED BY <2>2, <2>3, <2>4
<1>3. found = Step1(found)
  <2> HIDE DEF Step1
  <2>1. \E f : f = Step1(f)
    BY <1>2
  <2> QED BY <2>1
<1> DEFINE f == found
<1>4. f = Step1(f) /\ Real(at) = IF Exists(f[N]) THEN f[N] ELSE Nowhere
  BY <1>1, <1>3
<1> HIDE DEF f
<1>5. f[0] = g[0]
  <2>1. 0 \in 0 .. N
    OBVIOUS
  <2>2. f[0] = Step1(f)[0]
    BY <1>4
  <2> QED BY <2>1, <2>2 DEF Walks
<1>6. ASSUME NEW k \in 1 .. N, f[k - 1] = g[k - 1] PROVE f[k] = g[k]
  <2>1. k \in 0 .. N /\ k # 0
    OBVIOUS
  <2>2. f[k] = Step1(f)[k]
    BY <1>4
  <2>3. f[k] = Enter(f[k - 1], at.path[k])
    BY <2>1, <2>2
  <2> QED BY <1>6, <2>3 DEF Walks
<1> HIDE DEF Step1, found
<1>7. f[N] = g[N]
  <2>1. GoOnAlike(f, g, N)
    BY <1>5, <1>6 DEF GoOnAlike
  <2>2. Alike(f, g, N)
    BY <2>1, LoopsAgree
  <2> QED BY <2>2 DEF Alike
<1> QED BY <1>4, <1>7 DEF EndOf

\* A path can be followed to its end, if every turn is in some set.
LEMMA WalkEnds ==
  ASSUME NEW at, Len(at.path) \in Nat, NEW X, At(at.root, <<>>) \in X,
         \A x \in X : \A k \in 1 .. Len(at.path) : Enter(x, at.path[k]) \in X
  PROVE  \E g \in [0 .. Len(at.path) -> X] : Walks(at, g)
<1> DEFINE N == Len(at.path)
           base == At(at.root, <<>>)
           turn == [x \in X \X (1 .. N) |-> Enter(x[1], at.path[x[2]])]
<1>1. turn \in [X \X (1 .. N) -> X]
  OBVIOUS
<1>2. PICK g \in [0 .. N -> X] : g[0] = base /\ \A k \in 1 .. N : g[k] = turn[<<g[k - 1], k>>]
  <2> HIDE DEF N, base, turn
  <2>0. N \in Nat /\ base \in X
    BY DEF N, base
  <2>1. \E g : IsLoop(g, X, base, N, turn)
    BY ONLY <1>1, <2>0, LoopRuns
  <2> QED BY <2>1 DEF IsLoop
<1>3. ASSUME NEW k \in 1 .. N PROVE g[k] = Enter(g[k - 1], at.path[k])
  <2>1. k - 1 \in 0 .. N
    OBVIOUS
  <2>2. <<g[k - 1], k>> \in X \X (1 .. N)
    BY <1>2, <2>1
  <2>3. turn[<<g[k - 1], k>>] = Enter(g[k - 1], at.path[k])
    BY <2>2
  <2> QED BY <1>2, <2>3
<1> QED BY <1>2, <1>3 DEF Walks

\* Where a path can lead.
Anywhere ==
  [root : {"project", "here", "sibling", "system", "temp", "nowhere"}, path : Seq(Names)]

\* In the project, only to what is not behind a link.
Clear(x) == x.root = "project" => Straight(project, x.path)

LEMMA PlacesAre ==
  /\ Nowhere \in Anywhere /\ Clear(Nowhere) /\ Nowhere.root = "nowhere"
  /\ \A root, path : At(root, path).root = root /\ At(root, path).path = path
  /\ \A x \in Anywhere : x = At(x.root, x.path)
BY DEF Anywhere, Nowhere, Clear, At

LEMMA StraightGrows ==
  ASSUME NEW tree, NEW path \in Seq(Names), NEW name \in Names, Straight(tree, path),
         Append(path, name) \in DOMAIN tree => tree[Append(path, name)].kind # "link"
  PROVE  Straight(tree, Append(path, name))
<1> DEFINE a == Append(path, name)
<1>1. a \in Seq(Names) /\ Len(a) = Len(path) + 1 /\ Len(path) \in Nat
  BY AppendIs
<1>2. \A k \in 0 .. Len(path) : SubSeq(a, 1, k) = SubSeq(path, 1, k)
  OBVIOUS
<1>3. SubSeq(a, 1, Len(path) + 1) = a
  <2> HIDE DEF a
  <2> QED BY <1>1, SubSeqFull
<1> HIDE DEF a
<1>4. ASSUME NEW k \in 0 .. Len(a), SubSeq(a, 1, k) \in DOMAIN tree
      PROVE  tree[SubSeq(a, 1, k)].kind # "link"
  <2>1. k \in 0 .. Len(path) \/ k = Len(path) + 1
    BY <1>1
  <2>2. CASE k \in 0 .. Len(path)
    BY <1>2, <1>4, <2>2 DEF Straight
  <2>3. CASE k = Len(path) + 1
    BY <1>3, <1>4, <2>3 DEF a
  <2> QED BY <2>1, <2>2, <2>3
<1>5. Straight(tree, a)
  BY <1>4, Zenon DEF Straight
<1> QED BY <1>5 DEF a

\* The trees that are neither the project nor the copy.
LEMMA OthersAre ==
  /\ Tree("sibling") = Elsewhere["sibling"] /\ Tree("system") = Elsewhere["system"]
  /\ \A p : p \notin DOMAIN Tree("here") /\ p \notin DOMAIN Tree("nowhere")
<1>1. /\ "sibling" \in DOMAIN Elsewhere /\ "system" \in DOMAIN Elsewhere
      /\ "here" \notin DOMAIN Elsewhere /\ "nowhere" \notin DOMAIN Elsewhere
  BY CasesOK
<1>2. /\ "sibling" # "project" /\ "sibling" # "temp" /\ "system" # "project" /\ "system" # "temp"
      /\ "here" # "project" /\ "here" # "temp" /\ "nowhere" # "project" /\ "nowhere" # "temp"
  OBVIOUS
<1>3. Tree("sibling") = Elsewhere["sibling"] /\ Tree("system") = Elsewhere["system"]
  BY <1>1, <1>2, Zenon DEF Tree
<1>4. Tree("here") = Empty /\ Tree("nowhere") = Empty
  BY <1>1, <1>2, Zenon DEF Tree
<1>5. \A p : p \notin DOMAIN Empty
  BY DEF Empty
<1> QED BY <1>3, <1>4, <1>5

\* Links lead to places in the project that are not behind another link.
LEMMA LinkIs ==
  ASSUME CopyInv, project = case.tree, pc \in {"apply", "build", "compile"},
         NEW x \in Anywhere, Exists(x), Entry(x).kind = "link"
  PROVE  LET to == Entry(x).to IN
         /\ to \in Location
         /\ to.root = "project" => Straight(project, to.path)
         /\ x.root = "project" /\ to.root = "here" => Straight(project, to.path)
<1> DEFINE to == Entry(x).to
<1>1. /\ case \in Cases
      /\ \A q \in DOMAIN temp :
           q # <<>> => \E p \in DOMAIN project :
                         temp[q].kind = "link" => project[p].kind = "link" /\ temp[q] = project[p]
      /\ <<>> \in DOMAIN temp => temp[<<>>].kind = "dir"
  <2>1. ASSUME NEW q \in DOMAIN temp, q # <<>>
        PROVE  \E p \in DOMAIN project :
                 temp[q].kind = "link" => project[p].kind = "link" /\ temp[q] = project[p]
    <3>1. PICK p \in DOMAIN project : /\ temp[q].kind = project[p].kind
                                      /\ temp[q].kind = "link" => temp[q] = project[p]
      BY <2>1 DEF CopyInv, Mirrored
    <3> QED BY <3>1
  <2>2. case \in Cases /\ (<<>> \in DOMAIN temp => temp[<<>>].kind = "dir")
    BY DEF CopyInv, Placed, Rooted
  <2> QED BY <2>1, <2>2
<1>2. \A p \in DOMAIN project : project[p].kind = "link" =>
        /\ project[p].to \in Location
        /\ project[p].to.root \in {"here", "project"} => Straight(project, project[p].to.path)
  BY <1>1, LinksOK
<1>3. \A root \in DOMAIN Elsewhere : \A p \in DOMAIN Elsewhere[root] :
        Elsewhere[root][p].kind = "link" =>
          /\ Elsewhere[root][p].to \in Location
          /\ Elsewhere[root][p].to.root = "project" =>
               Straight(project, Elsewhere[root][p].to.path)
  BY <1>1, LinksOK
<1>4. CASE x.root = "project"
  BY <1>2, <1>4, TreesAre DEF Exists, Entry
<1>5. CASE x.root = "temp"
  <2>1. x.path \in DOMAIN temp /\ temp[x.path].kind = "link" /\ to = temp[x.path].to
    BY <1>5, TreesAre DEF Exists, Entry
  <2>2. x.path # <<>>
    BY <1>1, <2>1
  <2>3. PICK p \in DOMAIN project : project[p].kind = "link" /\ temp[x.path] = project[p]
    BY <1>1, <2>1, <2>2
  <2> QED BY <1>2, <1>5, <2>1, <2>3
<1>6. CASE x.root \in {"sibling", "system"}
  <2>1. x.root \in DOMAIN Elsewhere
    BY <1>6, CasesOK
  <2>2. Tree(x.root) = Elsewhere[x.root]
    BY <1>6, OthersAre
  <2> QED BY <1>3, <1>6, <2>1, <2>2 DEF Exists, Entry
<1>7. CASE x.root \in {"here", "nowhere"}
  BY <1>7, OthersAre DEF Exists
<1> QED BY <1>4, <1>5, <1>6, <1>7 DEF Anywhere

LEMMA EnterKeeps ==
  ASSUME CopyInv, project = case.tree, pc \in {"apply", "build", "compile"},
         NEW x \in Anywhere, NEW name \in Names
  PROVE  /\ Enter(x, name) \in Anywhere
         /\ Clear(x) => Clear(Enter(x, name))
<1> DEFINE next == At(x.root, Append(x.path, name))
           link == Entry(next).to
<1>1. x.path \in Seq(Names) /\ Append(x.path, name) \in Seq(Names)
      /\ x.root \in {"project", "here", "sibling", "system", "temp", "nowhere"}
  BY DEF Anywhere
<1>2. next \in Anywhere /\ next.root = x.root /\ next.path = Append(x.path, name)
  BY <1>1 DEF Anywhere, At
<1>3. Enter(x, name) = IF ~Exists(next) THEN Nowhere
                       ELSE IF Entry(next).kind # "link" THEN next
                       ELSE IF link.root = "here" THEN At(x.root, Top(x.root).path \o link.path)
                       ELSE link
  BY DEF Enter
<1>4. /\ Top(x.root).path \in Seq(Names)
      /\ x.root = "project" => Top(x.root).path = <<>>
  <2>1. <<"project">> \o <<>> \in Seq(Names) /\ <<>> \in Seq(Names)
    BY NamesOK
  <2> QED BY <2>1 DEF Top, InCopy, At
<1> HIDE DEF next, link
<1>5. CASE ~Exists(next)
  BY <1>3, <1>5, PlacesAre
<1>6. CASE Exists(next) /\ Entry(next).kind # "link"
  <2>1. Enter(x, name) = next
    BY <1>3, <1>6
  <2>2. ASSUME Clear(x), x.root = "project" PROVE Straight(project, next.path)
    <3>1. Straight(project, x.path)
      BY <2>2 DEF Clear
    <3>2. Append(x.path, name) \in DOMAIN project => project[Append(x.path, name)].kind # "link"
      BY <1>2, <1>6, <2>2, TreesAre DEF Entry
    <3>3. Straight(project, Append(x.path, name))
      BY <1>1, <3>1, <3>2, StraightGrows
    <3> QED BY <1>2, <3>3
  <2> QED BY <1>2, <2>1, <2>2 DEF Clear
<1>7. CASE Exists(next) /\ Entry(next).kind = "link"
  <2>1. /\ link \in Location
        /\ link.root = "project" => Straight(project, link.path)
        /\ next.root = "project" /\ link.root = "here" => Straight(project, link.path)
    BY <1>2, <1>7, LinkIs DEF link
  <2>2. link \in Anywhere /\ link.path \in Seq(Names)
    BY <2>1 DEF Location, Anywhere
  <2>3. CASE link.root = "here"
    <3> DEFINE t == Top(x.root).path \o link.path
    <3>1. t \in Seq(Names)
      BY <1>4, <2>2
    <3>2. x.root = "project" => t = link.path
      <4> DEFINE s == link.path
      <4>1. s \in Seq(Names)
        BY <2>2
      <4> HIDE DEF s
      <4>2. <<>> \o s = s
        BY <4>1
      <4>3. x.root = "project" => t = <<>> \o s
        BY <1>4 DEF s
      <4> QED BY <4>2, <4>3 DEF s
    <3> HIDE DEF t
    <3>3. Enter(x, name) = At(x.root, t)
      BY <1>3, <1>7, <2>3 DEF t
    <3>4. At(x.root, t) \in Anywhere
      BY <1>1, <3>1 DEF Anywhere, At
    <3>5. Clear(At(x.root, t))
      BY <1>2, <2>1, <2>3, <3>2, PlacesAre DEF Clear
    <3> QED BY <3>3, <3>4, <3>5
  <2>4. CASE link.root # "here"
    BY <1>3, <1>7, <2>1, <2>2, <2>4 DEF Clear
  <2> QED BY <2>3, <2>4
<1> QED BY <1>5, <1>6, <1>7

LEMMA RealKeeps ==
  ASSUME CopyInv, project = case.tree, pc \in {"apply", "build", "compile"}, NEW at \in Anywhere
  PROVE  Real(at) \in Anywhere /\ Clear(Real(at))
<1> DEFINE X == {x \in Anywhere : Clear(x)}
           base == At(at.root, <<>>)
<1>1. at.path \in Seq(Names) /\ Len(at.path) \in Nat
      /\ at.root \in {"project", "here", "sibling", "system", "temp", "nowhere"}
  BY DEF Anywhere
<1>2. base \in X
  <2>1. <<>> \in Seq(Names)
    OBVIOUS
  <2>2. base \in Anywhere /\ base.path = <<>>
    BY <1>1, <2>1 DEF Anywhere, At
  <2>3. Straight(project, <<>>)
    <3>1. project[<<>>].kind = "dir"
      BY DEF CopyInv, Rooted
    <3>2. \A k \in 0 .. Len(<<>>) : SubSeq(<<>>, 1, k) = <<>>
      OBVIOUS
    <3>3. \A k \in 0 .. Len(<<>>) : project[SubSeq(<<>>, 1, k)].kind # "link"
      BY <3>1, <3>2
    <3> QED BY <3>3, Zenon DEF Straight
  <2> HIDE DEF base
  <2> QED BY <2>2, <2>3 DEF Clear
<1>3. \A x \in X : \A k \in 1 .. Len(at.path) : Enter(x, at.path[k]) \in X
  <2> SUFFICES ASSUME NEW x \in X, NEW k \in 1 .. Len(at.path) PROVE Enter(x, at.path[k]) \in X
    OBVIOUS
  <2>1. at.path[k] \in Names /\ x \in Anywhere /\ Clear(x)
    BY <1>1
  <2> QED BY <2>1, EnterKeeps
<1>4. PICK g \in [0 .. Len(at.path) -> X] : Walks(at, g)
  <2> HIDE DEF X
  <2> QED BY <1>1, <1>2, <1>3, WalkEnds
<1>5. Real(at) = EndOf(at, g)
  <2> HIDE DEF X
  <2> QED BY <1>1, <1>4, RealIs DEF RealFacts
<1>6. g[Len(at.path)] \in X
  BY <1>1, <1>4
<1> QED BY <1>5, <1>6, PlacesAre DEF EndOf

\* A relative working directory is none: the program has not moved to one.
LEMMA RealOfRelative ==
  ASSUME NEW at \in Anywhere, at.root = "here"
  PROVE  Real(at).root \in {"here", "nowhere"}
<1> DEFINE X == {At("here", <<>>), Nowhere}
<1>1. Len(at.path) \in Nat /\ At(at.root, <<>>) \in X
  BY DEF Anywhere
<1>2. \A x \in X : \A k \in 1 .. Len(at.path) : Enter(x, at.path[k]) \in X
  <2> SUFFICES ASSUME NEW x \in X, NEW name PROVE Enter(x, name) \in X
    OBVIOUS
  <2>1. x.root \in {"here", "nowhere"}
    BY PlacesAre
  <2>2. ~Exists(At(x.root, Append(x.path, name)))
    BY <2>1, OthersAre, PlacesAre DEF Exists
  <2>3. Enter(x, name) = Nowhere
    BY <2>2 DEF Enter
  <2> QED BY <2>3
<1>3. PICK g \in [0 .. Len(at.path) -> X] : Walks(at, g)
  <2> HIDE DEF X
  <2> QED BY <1>1, <1>2, WalkEnds
<1>4. Real(at) = EndOf(at, g)
  <2> HIDE DEF X
  <2> QED BY <1>1, <1>3, RealIs DEF RealFacts
<1>5. g[Len(at.path)] \in X
  BY <1>1, <1>3
<1>6. Real(at) \in X
  BY <1>4, <1>5 DEF EndOf
<1> QED BY <1>6, PlacesAre

\* In the copy, a way that has no link in the project leads nowhere else.
LEMMA CopyHolds ==
  ASSUME CopyInv, project = case.tree, pc \in {"apply", "build", "compile"},
         NEW path \in Seq(Names), Straight(project, path)
  PROVE  \/ Real(InCopy(path)) = Nowhere
         \/ Real(InCopy(path)) = InCopy(path)
<1> DEFINE at == InCopy(path)
           p == at.path
           N == Len(p)
<1>1. /\ p = Moved(path) /\ p \in Seq(Names) /\ N \in Nat /\ N = Len(path) + 1 /\ N = Len(p)
      /\ at.root = "temp" /\ at \in Anywhere /\ at = At("temp", p)
  <2>1. p = Moved(path) /\ p \in Seq(Names) /\ N = Len(path) + 1 /\ at.root = "temp"
    BY MovedIs
  <2>2. at = At("temp", p)
    BY DEF InCopy, At
  <2>3. N \in Nat
    BY <2>1
  <2> HIDE DEF p, at
  <2> QED BY <2>1, <2>2, <2>3 DEF Anywhere, At
<1> HIDE DEF at, p, N
<1>2. PICK g \in [0 .. N -> Anywhere] : Walks(at, g)
  <2>1. <<>> \in Seq(Names)
    OBVIOUS
  <2>2. At(at.root, <<>>) \in Anywhere
    BY <1>1, <2>1 DEF Anywhere, At
  <2>3. \A x \in Anywhere : \A k \in 1 .. N : Enter(x, p[k]) \in Anywhere
    <3>1. \A k \in 1 .. N : p[k] \in Names
      BY <1>1
    <3> QED BY <3>1, EnterKeeps
  <2>4. \E g \in [0 .. Len(at.path) -> Anywhere] : Walks(at, g)
    BY <1>1, <2>2, <2>3, WalkEnds DEF N, p
  <2> QED BY <2>4 DEF N, p
<1>3. g[0] = At("temp", <<>>) /\ \A k \in 1 .. N : g[k] = Enter(g[k - 1], p[k])
  BY <1>1, <1>2 DEF Walks, N, p
<1> DEFINE Way(k) == SubSeq(p, 1, k)
<1>4. ASSUME NEW k \in 1 .. N, NEW x \in {Nowhere, At("temp", Way(k - 1))}
      PROVE  Enter(x, p[k]) \in {Nowhere, At("temp", Way(k))}
  <2>1. CASE x = Nowhere
    <3>1. ~Exists(At(x.root, Append(x.path, p[k])))
      BY <2>1, OthersAre, PlacesAre DEF Exists
    <3> QED BY <3>1 DEF Enter
  <2>2. CASE x = At("temp", Way(k - 1))
    <3> DEFINE next == At("temp", Way(k))
    <3>1. Append(Way(k - 1), p[k]) = Way(k) /\ Way(k) \in Seq(Names)
      BY <1>1
    <3>2. At(x.root, Append(x.path, p[k])) = next
      <4> HIDE DEF Way
      <4>1. x.root = "temp" /\ x.path = Way(k - 1)
        BY <2>2, PlacesAre
      <4> QED BY <3>1, <4>1
    <3>3. Enter(x, p[k]) = Nowhere \/ (Exists(next) /\ Entry(next).kind = "link")
          \/ Enter(x, p[k]) = next
      BY <3>2 DEF Enter
    <3>4. ASSUME Exists(next) PROVE Entry(next).kind # "link"
      <4>1. Way(k) \in DOMAIN temp /\ Entry(next) = temp[Way(k)]
        BY <3>4, TreesAre, PlacesAre DEF Exists, Entry
      <4> DEFINE up == SubSeq(path, 1, k - 1)
      <4>2. up \in Seq(Names) /\ k - 1 \in 0 .. Len(path) /\ Moved(up) = Way(k)
        <5>1. k - 1 \in 0 .. Len(path) /\ k \in Nat /\ k - 1 \in Nat /\ Len(path) \in Nat
              /\ k <= N
          BY <1>1
        <5>2. up \in Seq(Names) /\ Len(up) = k - 1 /\ \A j \in 1 .. k - 1 : up[j] = path[j]
          BY <5>1
        <5> HIDE DEF up
        <5>3. /\ Moved(up) \in Seq(Names) /\ Len(Moved(up)) = k /\ Moved(up)[1] = "project"
              /\ \A j \in 1 .. k - 1 : Moved(up)[j + 1] = path[j]
          <6>1. /\ Moved(up) \in Seq(Names) /\ Len(Moved(up)) = Len(up) + 1
                /\ Moved(up)[1] = "project" /\ \A j \in 1 .. Len(up) : Moved(up)[j + 1] = up[j]
            BY <5>2, MovedIs
          <6>2. Len(up) + 1 = k
            BY <5>1, <5>2
          <6> QED BY <5>2, <6>1, <6>2
        <5>4. p[1] = "project" /\ \A j \in 1 .. Len(path) : p[j + 1] = path[j]
          BY <1>1, MovedIs
        <5>5. Way(k) \in Seq(Names) /\ Len(Way(k)) = k /\ \A j \in 1 .. k : Way(k)[j] = p[j]
          BY <1>1, <5>1
        <5>6. ASSUME NEW j \in 1 .. k PROVE Moved(up)[j] = Way(k)[j]
          <6>1. CASE j = 1
            BY <5>3, <5>4, <5>5, <6>1
          <6>2. CASE j # 1
            <7>1. j - 1 \in 1 .. k - 1 /\ j - 1 \in 1 .. Len(path) /\ j - 1 + 1 = j
              BY <5>1, <6>2
            <7>2. Moved(up)[j - 1 + 1] = path[j - 1] /\ p[j - 1 + 1] = path[j - 1]
              BY <5>3, <5>4, <7>1
            <7>3. Moved(up)[j] = p[j]
              BY <7>1, <7>2
            <7> HIDE DEF Way
            <7> QED BY <5>5, <7>3
          <6> QED BY <6>1, <6>2
        <5> HIDE DEF Way
        <5> QED BY <5>1, <5>2, <5>3, <5>5, <5>6, PathEqual
      <4> HIDE DEF up
      <4>3. Way(k) # <<>>
        BY <4>2, MovedIs
      <4>4. PICK q \in DOMAIN project : Way(k) = Moved(q) /\ temp[Way(k)].kind = project[q].kind
        BY <4>1, <4>3 DEF CopyInv, Mirrored
      <4>5. q = up
        <5>1. q \in Seq(Names)
          BY DEF CopyInv, Placed, IsTree
        <5> QED BY <4>2, <4>4, <5>1, MovedIs
      <4>6. project[up].kind # "link"
        BY <4>2, <4>4, <4>5 DEF Straight, up
      <4> QED BY <4>1, <4>4, <4>5, <4>6
    <3> QED BY <3>3, <3>4
  <2> QED BY <2>1, <2>2
<1>5. \A k \in 0 .. N : g[k] \in {Nowhere, At("temp", Way(k))}
  <2> DEFINE Bad == {k \in 0 .. N : g[k] \notin {Nowhere, At("temp", Way(k))}}
  <2> SUFFICES ASSUME Bad # {} PROVE FALSE
    OBVIOUS
  <2>1. Bad \in SUBSET Nat
    BY <1>1
  <2>2. PICK k \in Bad : \A y \in Bad : k <= y
    <3> HIDE DEF Bad
    <3> QED BY <2>1, Least
  <2>3. k # 0
    <3>1. Way(0) = <<>>
      BY <1>1
    <3> HIDE DEF Way
    <3> QED BY <1>3, <2>2, <3>1
  <2>4. k \in 1 .. N /\ k - 1 \in 0 .. N /\ ~(k <= k - 1)
    BY <1>1, <2>2, <2>3
  <2>5. g[k - 1] \in {Nowhere, At("temp", Way(k - 1))}
    BY <2>2, <2>4
  <2> HIDE DEF Way
  <2>6. g[k] \in {Nowhere, At("temp", Way(k))}
    BY <1>3, <1>4, <2>4, <2>5
  <2> QED BY <2>2, <2>6
<1>6. Real(at) = EndOf(at, g)
  BY <1>1, <1>2, RealIs DEF RealFacts, N, p
<1>7. g[N] \in {Nowhere, at}
  <2>1. Way(N) = p
    BY <1>1, SubSeqFull DEF N
  <2>2. N \in 0 .. N
    BY <1>1
  <2> HIDE DEF Way
  <2> QED BY <1>1, <1>5, <2>1, <2>2
<1> QED BY <1>6, <1>7 DEF EndOf, N, p, at

-----------------------------------------------------------------------------
(* The project is never edited.                                              *)

LEMMA RealIsNext == RealFacts'
BY RealIs, PTL

LEMMA RealStays ==
  ASSUME CopyInv, project = case.tree, pc \in {"apply", "build", "compile"},
         project' = project, temp' = temp, NEW at \in Anywhere
  PROVE  Real(at)' = Real(at)
<1>1. ASSUME NEW root PROVE Tree(root)' = Tree(root)
  BY Zenon DEF Tree
<1>2. ASSUME NEW x PROVE Exists(x)' = Exists(x) /\ Entry(x)' = Entry(x)
  BY <1>1 DEF Exists, Entry
<1>3. ASSUME NEW x, NEW name PROVE Enter(x, name)' = Enter(x, name)
  BY <1>2 DEF Enter
<1>4. Len(at.path) \in Nat /\ At(at.root, <<>>) \in Anywhere
      /\ \A k \in 1 .. Len(at.path) : at.path[k] \in Names
  BY DEF Anywhere, At
<1>5. PICK g \in [0 .. Len(at.path) -> Anywhere] : Walks(at, g)
  <2>1. \A x \in Anywhere : \A k \in 1 .. Len(at.path) : Enter(x, at.path[k]) \in Anywhere
    BY <1>4, EnterKeeps
  <2> QED BY <1>4, <2>1, WalkEnds
<1>6. Real(at) = EndOf(at, g)
  BY <1>4, <1>5, RealIs DEF RealFacts
<1>7. Walks(at, g)'
  BY <1>3, <1>5 DEF Walks
<1>8. Real(at)' = EndOf(at, g)'
  BY <1>4, <1>5, <1>7, RealIsNext DEF RealFacts
<1>9. EndOf(at, g)' = EndOf(at, g)
  BY <1>2 DEF EndOf
<1> QED BY <1>6, <1>8, <1>9

\* Until the compiler writes the project is as it was given, and the compiler
\* does not work in it.
Unedited ==
  /\ pc \notin {"rewrite", "test", "remove", "done"} => project = case.tree
  /\ pc = "compile" => command.directory \in Anywhere /\ WorkingDirectory.root # "project"

LEMMA ApplyElsewhere ==
  ASSUME CopyInv, Unedited, ApplyCandidate
  PROVE  project' = project
<1> DEFINE at == case.candidate.at
<1>1. pc = "apply" /\ case \in Cases /\ project = case.tree
  BY DEF ApplyCandidate, CopyInv, Placed, Unedited
<1>2. CASE project' = project
  BY <1>2
<1>3. CASE StartsWithProject(at) /\ \E entry : Write(Target(at), entry)
  <2>1. at \in Location /\ at.root \in {"project", "sibling"}
    BY <1>1, <1>3, CasesOK DEF StartsWithProject
  <2>2. at.root \in {"project", "here", "sibling", "system"} /\ at.path \in Seq(Names)
    BY <2>1 DEF Location
  <2>3. Place(at) \in Seq(Names) /\ Straight(project, Place(at))
    <3>1. CASE at.root = "project"
      <4>1. Place(at) = at.path
        BY <3>1 DEF Place
      <4>2. Straight(case.tree, Place(at))
        BY <1>1, <3>1, CandidatesOK
      <4> QED BY <1>1, <2>2, <4>1, <4>2
    <3>2. CASE at.root = "sibling"
      <4>1. Place(at) = <<Suffix>> \o at.path
        BY <3>2 DEF Place
      <4>2. Straight(case.tree, Place(at))
        BY <1>1, <3>2, CandidatesOK
      <4>3. <<Suffix>> \o at.path \in Seq(Names)
        BY <2>2, NamesOK
      <4> QED BY <1>1, <4>1, <4>2, <4>3
    <3> QED BY <2>1, <3>1, <3>2
  <2> DEFINE path == Place(at)
  <2>4. InCopy(path).root = "temp" /\ Nowhere.root = "nowhere"
    BY <2>3, MovedIs, PlacesAre
  <2> HIDE DEF path
  <2>5. Real(InCopy(path)) = Nowhere \/ Real(InCopy(path)) = InCopy(path)
    BY <1>1, <2>3, CopyHolds DEF path
  <2>6. Target(at).root # "project"
    BY <2>4, <2>5 DEF Target, path
  <2> QED BY <1>3, <2>6 DEF Write
<1> QED BY <1>2, <1>3 DEF ApplyCandidate

\* A command changes nothing in the project but what may go astray.
LEMMA ProgramStrays ==
  ASSUME CopyInv, Unedited, Compile \/ RunTest, NEW p, ~SameEntry(p),
         p \in DOMAIN project \cup DOMAIN project'
  PROVE  \E at \in Strays : at.root = "project" /\ at.path = p
<1>1. pc \in {"compile", "test"} /\ \E entry : ProgramWrites(entry)
  BY DEF Compile, RunTest
<1>2. project' # project
  BY DEF SameEntry
<1>3. PICK at \in Outputs : \E entry : Write(Opened(at), entry)
  BY <1>1, <1>2 DEF ProgramWrites
<1>e. PICK entry : Write(Opened(at), entry)
  BY <1>3
<1> DEFINE file == Opened(at)
<1>4. file.root = "project" /\ project' = Put(project, file.path, entry)
  BY <1>2, <1>e DEF Write
<1>5. file.path = p
  <2> HIDE DEF file
  <2>1. DOMAIN project' = DOMAIN project \cup {file.path}
        /\ \A q \in DOMAIN project : q # file.path => project'[q] = project[q]
    BY <1>4, PutIs DEF Put
  <2> QED BY <2>1 DEF SameEntry
<1>6. CASE IsLink(at)
  BY <1>4, <1>5, <1>6 DEF Strays
<1>7. CASE ~IsLink(at)
  <2>1. at.root = "project"
    BY <1>4, <1>7 DEF Opened
  <2>2. pc # "test"
    <3>1. InCopy(<<"out">>).root = "temp"
      BY PlacesAre DEF InCopy
    <3> QED BY <2>1, <3>1 DEF Outputs
  <2>3. pc = "compile" /\ WorkingDirectory.root # "project"
    BY <1>1, <2>2 DEF Unedited
  <2>4. PICK a \in ToSet(command.arguments) : a.as \in {"-MD", "-o=", "-W"} /\ at = Output(a)
    BY <2>2 DEF Outputs
  <2>5. a.as # "-o="
    BY <2>3, <2>4 DEF CopyInv, OutputsDropped, ToSet
  <2>6. a.as # "-MD"
    <3> SUFFICES ASSUME a.as = "-MD" PROVE FALSE
      OBVIOUS
    <3>1. at = Inside(WorkingDirectory, "deps.d")
      BY <2>4 DEF Output
    <3> QED BY <2>1, <2>3, <3>1, PlacesAre DEF Inside
  <2>7. file \in Strays
    BY <2>3, <2>4, <2>5, <2>6 DEF Strays
  <2> QED BY <1>4, <1>5, <2>7
<1> QED BY <1>6, <1>7

\* The compiler's directory is moved into the copy when it is in the project.
LEMMA DirectoryElsewhere ==
  ASSUME CopyInv, Unedited, BuildCompileCommand, pc' = "compile"
  PROVE  (command.directory \in Anywhere /\ WorkingDirectory.root # "project")'
<1> DEFINE dir == case.compile.directory
           arg == [as |-> "file", at |-> dir]
           new == command'.directory
<1>1. /\ pc = "build" /\ case \in Cases /\ project = case.tree
      /\ project' = project /\ temp' = temp /\ new = RewritePath(arg).at
  BY DEF BuildCompileCommand, CopyInv, Placed, Unedited
<1>2. dir \in Location /\ dir \in Anywhere
  BY <1>1, CasesOK DEF Location, Anywhere
<1> HIDE DEF dir
<1>3. \/ Real(dir).root = "project" /\ new = InCopy(Real(dir).path)
      \/ ~(dir.root # "here" /\ Real(dir).root = "project") /\ new = dir
  <2>1. arg.as = "file" /\ arg.at = dir
    OBVIOUS
  <2> HIDE DEF arg
  <2> QED BY <1>1, <2>1 DEF RewritePath
<1>4. Real(dir) \in Anywhere /\ Clear(Real(dir))
  BY <1>1, <1>2, RealKeeps
<1>5. new \in Anywhere /\ Real(new).root # "project"
  <2>1. CASE Real(dir).root = "project" /\ new = InCopy(Real(dir).path)
    <3> DEFINE path == Real(dir).path
    <3>1. path \in Seq(Names) /\ Straight(project, path)
      BY <1>4, <2>1 DEF Anywhere, Clear
    <3> HIDE DEF path
    <3>2. Real(InCopy(path)) = Nowhere \/ Real(InCopy(path)) = InCopy(path)
      BY <1>1, <3>1, CopyHolds
    <3>3. InCopy(path).root = "temp" /\ InCopy(path).path \in Seq(Names)
      BY <3>1, MovedIs
    <3>4. InCopy(path) \in Anywhere
      BY <3>3 DEF Anywhere, InCopy, At
    <3> QED BY <2>1, <3>2, <3>3, <3>4, PlacesAre DEF path
  <2>2. CASE ~(dir.root # "here" /\ Real(dir).root = "project") /\ new = dir
    BY <1>2, <2>2, RealOfRelative
  <2> QED BY <1>3, <2>1, <2>2
<1> HIDE DEF new
<1>6. PICK d \in Anywhere : d = new
  BY <1>5
<1>7. Real(d)' = Real(d)
  BY <1>1, RealStays
<1>8. command'.directory = d
  BY <1>6 DEF new
<1>9. WorkingDirectory' = Real(d)'
  BY <1>8 DEF WorkingDirectory
<1> QED BY <1>5, <1>6, <1>7, <1>8, <1>9

LEMMA UneditedHolds == Spec => []Unedited
<1>1. Init => Unedited
  BY DEF Init, Unedited
<1>2. CopyInv /\ Unedited /\ [Next]_vars => Unedited'
  <2> SUFFICES ASSUME CopyInv, Unedited, [Next]_vars PROVE Unedited'
    OBVIOUS
  <2>1. CASE ApplyCandidate
    <3>1. project' = project /\ case' = case /\ pc = "apply" /\ pc' # "compile"
      BY <2>1, ApplyElsewhere DEF ApplyCandidate
    <3> QED BY <3>1 DEF Unedited
  <2>2. CASE Compile
    <3>1. pc' \in {"remove", "rewrite"}
      BY <2>2 DEF Compile
    <3> QED BY <3>1 DEF Unedited
  <2>3. CASE BuildCompileCommand
    <3>1. project' = project /\ case' = case /\ pc = "build"
      BY <2>3 DEF BuildCompileCommand
    <3> QED BY <2>3, <3>1, DirectoryElsewhere DEF Unedited
  <2>4. CASE UNCHANGED vars
    <3>1. /\ project' = project /\ case' = case /\ pc' = pc /\ temp' = temp
          /\ command' = command
      BY <2>4 DEF vars
    <3>2. ASSUME pc = "compile" PROVE WorkingDirectory' = WorkingDirectory
      <4>1. PICK d \in Anywhere : d = command.directory
        BY <3>2 DEF Unedited
      <4>2. Real(d)' = Real(d)
        BY <3>1, <3>2, RealStays DEF Unedited
      <4>3. WorkingDirectory' = Real(d)' /\ WorkingDirectory = Real(d)
        BY <3>1, <4>1 DEF WorkingDirectory
      <4> QED BY <4>2, <4>3
    <3> QED BY <3>1, <3>2 DEF Unedited
  <2>5. CASE MakeTree \/ CopyTop \/ CopyEntry \/ EndDirectory \/ CopyFails
    <3>1. project' = project /\ case' = case /\ pc \in {"make tree", "copy"} /\ pc' # "compile"
      BY <2>5 DEF MakeTree, CopyTop, CopyEntry, EndDirectory, CopyFails
    <3> QED BY <3>1 DEF Unedited
  <2>6. CASE RewriteCommand \/ RunTest
    <3>1. pc' \in {"test", "remove"}
      BY <2>6 DEF RewriteCommand, RunTest
    <3> QED BY <3>1 DEF Unedited
  <2>7. CASE RemoveTop \/ RemoveEntry \/ LeaveDirectory \/ StragglerWrites
    <3>1. pc' \in {"remove", "done"}
      BY <2>7 DEF RemoveTop, RemoveEntry, LeaveDirectory, StragglerWrites
    <3> QED BY <3>1 DEF Unedited
  <2> QED BY <2>1, <2>2, <2>3, <2>4, <2>5, <2>6, <2>7 DEF Next, Finished
<1> QED BY <1>1, <1>2, CopyInvHolds, PTL DEF Spec

\* No write of the tool falls into the project, and none of the commands it
\* builds but for what can go astray: not through a link of the copy on the way to
\* the candidate, not through an output option, not from the working directory.
THEOREM Untouched == Spec => ProjectNeverEdited
<1> DEFINE Held(p) == SameEntry(p) \/ \E at \in Strays : at.root = "project" /\ at.path = p
           Changes == DOMAIN project \cup DOMAIN project'
<1>1. CopyInv /\ Unedited /\ [Next]_vars => [\A p \in Changes : Held(p)]_vars
  <2> SUFFICES ASSUME CopyInv, Unedited, Next PROVE \A p \in Changes : Held(p)
    BY DEF vars
  <2>1. CASE project' = project
    BY <2>1 DEF SameEntry
  <2>2. CASE ApplyCandidate
    BY <2>1, <2>2, ApplyElsewhere
  <2>3. CASE Compile \/ RunTest
    <3>1. ASSUME NEW p \in Changes, ~SameEntry(p) PROVE Held(p)
      BY <2>3, <3>1, ProgramStrays
    <3> QED BY <3>1
  <2>4. CASE MakeTree \/ CopyTop \/ CopyEntry \/ EndDirectory \/ CopyFails
    BY <2>1, <2>4 DEF MakeTree, CopyTop, CopyEntry, EndDirectory, CopyFails
  <2>5. CASE BuildCompileCommand \/ RewriteCommand
    BY <2>1, <2>5 DEF BuildCompileCommand, RewriteCommand
  <2>6. CASE RemoveTop \/ RemoveEntry \/ LeaveDirectory \/ StragglerWrites \/ Finished
    BY <2>1, <2>6 DEF RemoveTop, RemoveEntry, LeaveDirectory, StragglerWrites, Finished, vars
  <2> QED BY <2>2, <2>3, <2>4, <2>5, <2>6 DEF Next
<1> QED BY <1>1, CopyInvHolds, UneditedHolds, PTL DEF Spec, ProjectNeverEdited

-----------------------------------------------------------------------------
(* What is tested is the mutant.                                             *)

Stages == {"build", "compile"}

\* What is not behind an ignored name ...
Wanted == {p \in DOMAIN project : \A i \in DOMAIN p : p[i] \notin Ignored}

\* ... is to be copied, if it can be.
Belongs(p) == p \in Wanted /\ project[p].kind # "other"

\* What stands for an entry of the project in the copy.
Counterpart(p) ==
  IF pc \notin {"copy", "apply"} /\ p = case.candidate.at.path
  THEN File(project[p].text, "mutated") ELSE project[p]

\* Only what is to be copied is visited ...
Chosen == pc = "copy" => InPlace(frames, Wanted)

\* ... nothing else is in the copy ...
NothingElse ==
  pc \in {"copy", "apply"} \cup Stages =>
    \A q \in DOMAIN temp :
      \/ q = <<>>
      \/ \E p \in DOMAIN project : q = Moved(p) /\ Belongs(p) /\ temp[q] = Counterpart(p)

\* ... and everything is there, or will be.
AllThere ==
  (pc = "copy" /\ frames # <<>>) \/ pc \in {"apply"} \cup Stages =>
    \A p \in DOMAIN project : Belongs(p) => Moved(p) \in DOMAIN temp \/ Due(frames, p)

\* The text of the candidate was where the scan had seen it.
Found ==
  pc \in Stages =>
    LET at == case.candidate.at IN
    /\ at.root = "project" /\ at.path \in DOMAIN project /\ Belongs(at.path)
    /\ project[at.path].text = case.candidate.text

\* The compile command is in the recorded directory, or its place in the copy,
\* and names the candidate's file.
Commanded ==
  pc = "compile" =>
    /\ command.directory = RewritePath([as |-> "file", at |-> case.compile.directory]).at
    /\ \E a \in ToSet(case.compile.arguments) :
         /\ a.as = "file" /\ RewritePath(a) \in ToSet(command.arguments)
         /\ Resolve(Real(case.compile.directory), a.at) = case.candidate.at

\* What has a copy, and the copy it has, but for what a program has written.
CopyOf(p) ==
  LET copy == InCopy(p).path IN
  \/ InCopy(p) \in written
  \/ p \notin Copied /\ copy \notin DOMAIN temp
  \/ /\ p \in Copied /\ copy \in DOMAIN temp
     /\ temp[copy] = IF p = case.candidate.at.path THEN File(case.tree[p].text, "mutated")
                     ELSE case.tree[p]

\* The compiler has left the mutant in the copy.
Compiled ==
  pc \in {"rewrite", "test"} =>
    LET at == case.candidate.at IN
    /\ at.root = "project" /\ at.path \in Copied
    /\ case.tree[at.path].text = case.candidate.text
    /\ \A p \in DOMAIN case.tree : CopyOf(p)

Faithful == Chosen /\ NothingElse /\ AllThere /\ Found /\ Commanded /\ Compiled

\* A directory that is copied, and its names but the ignored ones.
LEMMA CopiedAre ==
  ASSUME NEW d \in Seq(Names), NEW n \in Names
  PROVE  /\ d \in Wanted /\ n \notin Ignored /\ Append(d, n) \in DOMAIN project =>
              Append(d, n) \in Wanted
         /\ \A p \in Wanted : p \in Seq(Names) /\ IsPrefix(Append(d, n), p) => n \notin Ignored
<1> DEFINE a == Append(d, n)
<1>1. /\ a \in Seq(Names) /\ Len(a) = Len(d) + 1 /\ Len(d) \in Nat
      /\ a[Len(d) + 1] = n /\ \A j \in 1 .. Len(d) : a[j] = d[j]
  BY AppendIs
<1>2. DOMAIN a = 1 .. Len(d) + 1 /\ DOMAIN d = 1 .. Len(d)
  <2> HIDE DEF a
  <2> QED BY <1>1
<1> HIDE DEF a
<1>3. d \in Wanted /\ n \notin Ignored /\ a \in DOMAIN project => a \in Wanted
  <2> SUFFICES ASSUME d \in Wanted, n \notin Ignored, NEW i \in 1 .. Len(d) + 1
               PROVE  a[i] \notin Ignored
    BY <1>2 DEF Wanted
  <2>1. i = Len(d) + 1 \/ i \in 1 .. Len(d)
    BY <1>1
  <2> QED BY <1>1, <1>2, <2>1 DEF Wanted
<1>4. ASSUME NEW p \in Wanted, p \in Seq(Names), IsPrefix(a, p) PROVE n \notin Ignored
  <2>1. Len(p) \in Nat /\ DOMAIN p = 1 .. Len(p)
    BY <1>4
  <2>2. Len(a) <= Len(p) /\ \A j \in 1 .. Len(a) : a[j] = p[j]
    BY <1>1, <1>4, PrefixIs
  <2>3. Len(d) + 1 \in 1 .. Len(a) /\ Len(d) + 1 \in 1 .. Len(p)
    BY <1>1, <2>1, <2>2
  <2>4. p[Len(d) + 1] = n
    BY <1>1, <2>2, <2>3
  <2> QED BY <2>1, <2>3, <2>4 DEF Wanted
<1> QED BY <1>3, <1>4 DEF a

\* What has a counterpart in the copy has only one.
LEMMA OnePlace ==
  ASSUME CopyInv, NothingElse, pc \in {"copy", "apply"} \cup Stages,
         NEW p \in DOMAIN project, Moved(p) \in DOMAIN temp
  PROVE  Belongs(p) /\ temp[Moved(p)] = Counterpart(p)
<1>1. DOMAIN project \subseteq Seq(Names)
  BY DEF CopyInv, Placed, IsTree
<1>2. p \in Seq(Names) /\ Moved(p) # <<>> /\ \A r \in DOMAIN project : Moved(r) = Moved(p) => r = p
  BY <1>1, MovedIs
<1> QED BY <1>2 DEF NothingElse

\* Where nothing is claimed yet, or any more.
LEMMA OffStage ==
  ASSUME pc' \in {"make tree", "remove", "done"}
  PROVE  Faithful'
BY DEF Faithful, Chosen, NothingElse, AllThere, Found, Commanded, Compiled, Stages

LEMMA SameProject ==
  ASSUME project' = project
  PROVE  Wanted' = Wanted /\ \A p : Belongs(p)' = Belongs(p)
BY DEF Wanted, Belongs

LEMMA MakeTreeFaithful ==
  ASSUME CopyInv, MakeTree
  PROVE  Faithful'
<1>1. CASE pc' = "copy"
  <2>1. /\ frames' = <<>> /\ DOMAIN temp' = {<<>>}
    BY <1>1 DEF MakeTree, CopyInv, Placed, Rooted, Put
  <2>2. InPlace(<<>>, Wanted')
    BY DEF InPlace
  <2> QED BY <1>1, <2>1, <2>2
         DEF Faithful, Chosen, NothingElse, AllThere, Found, Commanded, Compiled, Stages
<1>2. CASE pc' # "copy"
  <2>1. pc' \in {"remove", "done"}
    BY <1>2 DEF MakeTree
  <2> QED BY <2>1, OffStage
<1> QED BY <1>1, <1>2

LEMMA CopyTopFaithful ==
  ASSUME CopyInv, Unedited, Faithful, CopyTop
  PROVE  Faithful'
<1>1. CASE pc' = "remove"
  BY <1>1, OffStage
<1>2. CASE pc' # "remove"
  <2> DEFINE top == Moved(<<>>)
             left == Children(project, <<>>) \ Ignored
             fr == <<[dir |-> <<>>, left |-> left]>>
  <2>1. /\ pc = "copy" /\ pc' = "copy" /\ project' = project /\ case' = case
        /\ temp' = Put(temp, top, Dir) /\ frames' = fr
    BY <1>2, CopyPlaces DEF CopyTop, Listed
  <2>2. /\ <<>> \in Seq(Names) /\ IsTree(project) /\ <<>> \in DOMAIN project
        /\ DOMAIN project \subseteq Seq(Names)
    BY DEF CopyInv, Placed, Rooted, IsTree
  <2>3. project[<<>>] = Dir
    BY <2>1, CasesOK DEF CopyInv, Placed, Unedited
  <2>4. Belongs(<<>>)
    <3>1. Dir.kind = "dir"
      BY DEF Dir
    <3>2. \A i \in DOMAIN <<>> : <<>>[i] \notin Ignored
      OBVIOUS
    <3>3. <<>> \in Wanted
      BY <2>2, <3>2 DEF Wanted
    <3> QED BY <2>3, <3>1, <3>3 DEF Belongs
  <2>5. left \subseteq Names /\ \A n \in left : Append(<<>>, n) \in DOMAIN project
    BY <2>2, ChildrenAre
  <2>6. \A n \in left : n \notin Ignored
    OBVIOUS
  <2>7. \A n \in Children(project, <<>>) : n \notin Ignored => n \in left
    OBVIOUS
  <2>8. /\ temp'[top] = Dir /\ DOMAIN temp' = DOMAIN temp \cup {top}
        /\ \A q \in DOMAIN temp : q # top => temp'[q] = temp[q]
    <3>1. DOMAIN Put(temp, top, Dir) = DOMAIN temp \cup {top}
      BY DEF Put
    <3> QED BY <2>1, <3>1, PutIs
  <2> HIDE DEF left, top
  <2>9. IsStack(fr) /\ fr # <<>> /\ fr[1].dir = <<>> /\ fr[1].left = left /\ DOMAIN fr = {1}
    BY <2>5, OneFrame
  <2> HIDE DEF fr
  <2>10. Wanted' = Wanted /\ \A p : Belongs(p)' = Belongs(p)
    BY <2>1, SameProject
  <2>11. Chosen'
    <3>1. \A n \in left : Append(<<>>, n) \in Wanted
      BY <2>2, <2>4, <2>5, <2>6, CopiedAre DEF Belongs
    <3>2. InPlace(fr, Wanted)
      BY <2>4, <2>9, <3>1 DEF InPlace, Belongs
    <3> QED BY <2>1, <2>10, <3>2 DEF Chosen
  <2>12. \A p : Counterpart(p) = project[p] /\ Counterpart(p)' = project[p]
    BY <2>1 DEF Counterpart
  <2>13. NothingElse'
    <3>1. \A q \in DOMAIN temp :
            q = <<>> \/ \E p \in DOMAIN project : q = Moved(p) /\ Belongs(p) /\ temp[q] = project[p]
      BY <2>1, <2>12 DEF Faithful, NothingElse
    <3>2. ASSUME NEW q \in DOMAIN temp', q # <<>>
          PROVE  \E p \in DOMAIN project : q = Moved(p) /\ Belongs(p) /\ temp'[q] = project[p]
      <4>1. CASE q = top
        BY <2>2, <2>3, <2>4, <2>8, <4>1 DEF top
      <4>2. CASE q # top
        BY <2>8, <3>1, <3>2, <4>2
      <4> QED BY <4>1, <4>2
    <3> QED BY <2>1, <2>10, <2>12, <3>2 DEF NothingElse
  <2>14. AllThere'
    <3>1. ASSUME NEW p \in DOMAIN project, Belongs(p)
          PROVE  Moved(p) \in DOMAIN temp' \/ Due(fr, p)
      <4>1. CASE p = <<>>
        BY <2>8, <4>1 DEF top
      <4>2. CASE p # <<>>
        <5>1. p \in Seq(Names) /\ IsPrefix(<<>>, p)
          <6>1. p \in Seq(Names)
            BY <2>2
          <6>2. \A n \in Names : IsPrefix(<<>>, p)
            BY <6>1, PrefixFacts
          <6> QED BY <6>1, <6>2, NamesOK
        <5>2. PICK n \in Children(project, <<>>) : n \in Names /\ IsPrefix(Append(<<>>, n), p)
          BY <2>2, <4>2, <5>1, Within
        <5>3. n \notin Ignored
          BY <2>2, <3>1, <5>1, <5>2, CopiedAre DEF Belongs
        <5>4. n \in left
          BY <2>7, <5>3
        <5> QED BY <2>9, <5>2, <5>4 DEF Due
      <4> QED BY <4>1, <4>2
    <3> QED BY <2>1, <2>10, <3>1 DEF AllThere
  <2>15. (Found /\ Commanded /\ Compiled)'
    BY <2>1 DEF Found, Commanded, Compiled, Stages
  <2> QED BY <2>11, <2>13, <2>14, <2>15 DEF Faithful
<1> QED BY <1>1, <1>2

LEMMA CopyEntryFaithful ==
  ASSUME CopyInv, Faithful, CopyEntry
  PROVE  Faithful'
<1>1. pc = "copy" /\ frames # <<>> /\ IsStack(frames) /\ IsTree(project) /\ IsTree(temp)
  BY DEF CopyInv, Placed, CopyEntry
<1>2. PICK name \in Head(frames).left :
        LET path  == Append(Head(frames).dir, name)
            entry == project[path]
        IN /\ temp' = IF entry.kind = "other" THEN temp
                      ELSE Put(temp, InCopy(path).path, entry)
           /\ frames' = IF entry.kind = "dir" THEN <<Listed(path)>> \o Done(name) ELSE Done(name)
  BY DEF CopyEntry
<1> DEFINE path == Append(frames[1].dir, name)
           q == Moved(path)
           entry == project[path]
           left == Children(project, path) \ Ignored
<1>3. /\ Head(frames) = frames[1] /\ name \in frames[1].left /\ name \in Names
      /\ path \in Seq(Names) /\ q # <<>> /\ path \in DOMAIN project /\ InCopy(path).path = q
  BY <1>1, NextToCopy
<1>4. temp' = IF entry.kind = "other" THEN temp ELSE Put(temp, q, entry)
  BY <1>2, <1>3
<1>5. frames' = IF entry.kind = "dir" THEN Entered(frames, name, left) ELSE Skipped(frames, name)
  BY <1>2, <1>3 DEF Listed, Done, Entered, Skipped
<1>6. case' = case /\ project' = project /\ pc' = pc
  BY DEF CopyEntry
<1>7. DOMAIN project \subseteq Seq(Names)
  BY <1>1 DEF IsTree
<1>8. /\ left \in SUBSET Names
      /\ \A n \in left : Append(path, n) \in DOMAIN project /\ n \notin Ignored
      /\ \A n \in Children(project, path) : n \notin Ignored => n \in left
  BY <1>1, <1>3, ChildrenAre
<1>p. path = Append(frames[1].dir, name)
  OBVIOUS
<1> HIDE DEF left
<1>9. /\ Wanted' = Wanted /\ \A p : Belongs(p)' = Belongs(p)
      /\ \A p : Counterpart(p) = project[p] /\ Counterpart(p)' = project[p]
  BY <1>1, <1>6, SameProject DEF Counterpart
<1>10. \A p : OnStack(frames, p) \/ Awaited(frames, p) => p \in Wanted
  BY <1>1, InPlaceIs DEF Faithful, Chosen
<1>11. path \in Wanted
  <2>1. 1 \in DOMAIN frames
    BY <1>1, StackFacts
  <2>2. Awaited(frames, path)
    BY <1>3, <2>1 DEF Awaited
  <2> QED BY <1>10, <2>2
<1> HIDE DEF path, q
<1>12. /\ entry.kind # "other" => q \in DOMAIN temp' /\ temp'[q] = entry
       /\ DOMAIN temp \subseteq DOMAIN temp'
       /\ \A x \in DOMAIN temp' : (x \in DOMAIN temp /\ temp'[x] = temp[x])
                                  \/ (x = q /\ temp'[x] = entry /\ entry.kind # "other")
  <2> HIDE DEF entry
  <2>1. CASE entry.kind = "other"
    BY <1>4, <2>1
  <2>2. CASE entry.kind # "other"
    <3>1. temp' = Put(temp, q, entry) /\ DOMAIN Put(temp, q, entry) = DOMAIN temp \cup {q}
      BY <1>4, <2>2 DEF Put
    <3> QED BY <2>2, <3>1, PutIs
  <2> QED BY <2>1, <2>2
<1>13. Chosen'
  <2>1. ASSUME NEW p, OnStack(frames', p) \/ Awaited(frames', p) PROVE p \in Wanted
    <3>1. CASE entry.kind = "dir"
      <4> DEFINE new == Entered(frames, name, left)
                 put == Append(frames[1].dir, name)
      <4>1. /\ OnStack(new, p) => OnStack(frames, p) \/ p = put
            /\ Awaited(new, p) => Awaited(frames, p) \/ \E n \in left : p = Append(put, n)
        BY <1>1, <1>3, <1>8, EnteredBack
      <4>2. put = path /\ frames' = new
        BY <1>5, <1>p, <3>1
      <4> HIDE DEF new, put
      <4>3. \A n \in left : Append(path, n) \in Wanted
        BY <1>3, <1>8, <1>11, CopiedAre
      <4> QED BY <1>10, <1>11, <2>1, <4>1, <4>2, <4>3
    <3>2. CASE entry.kind # "dir"
      <4>1. /\ OnStack(Skipped(frames, name), p) => OnStack(frames, p)
            /\ Awaited(Skipped(frames, name), p) => Awaited(frames, p)
        BY <1>1, <1>3, SkippedBack
      <4> QED BY <1>5, <1>10, <2>1, <3>2, <4>1
    <3> QED BY <3>1, <3>2
  <2>2. InPlace(frames', Wanted)
    BY <2>1, InPlaceIs
  <2> QED BY <1>9, <2>2 DEF Chosen
<1>14. NothingElse'
  <2>1. \A x \in DOMAIN temp :
          x = <<>> \/ \E p \in DOMAIN project : x = Moved(p) /\ Belongs(p) /\ temp[x] = project[p]
    BY <1>1, <1>9 DEF Faithful, NothingElse
  <2>2. ASSUME NEW x \in DOMAIN temp', x # <<>>
        PROVE  \E p \in DOMAIN project : x = Moved(p) /\ Belongs(p) /\ temp'[x] = project[p]
    <3>1. CASE x \in DOMAIN temp /\ temp'[x] = temp[x]
      BY <2>1, <2>2, <3>1
    <3>2. CASE x = q /\ temp'[x] = entry /\ entry.kind # "other"
      BY <1>3, <1>11, <3>2 DEF q, Belongs
    <3> QED BY <1>12, <3>1, <3>2
  <2> QED BY <1>1, <1>6, <1>9, <2>2 DEF NothingElse
<1>15. AllThere'
  <2>1. ASSUME NEW p \in DOMAIN project, Belongs(p)
        PROVE  Moved(p) \in DOMAIN temp' \/ Due(frames', p)
    <3>1. p \in Seq(Names)
      BY <1>7
    <3>2. Moved(p) \in DOMAIN temp \/ Due(frames, p)
      BY <1>1, <2>1 DEF Faithful, AllThere
    <3>3. CASE Moved(p) \in DOMAIN temp
      BY <1>12, <3>3
    <3>4. CASE Due(frames, p)
      <4> DEFINE put == Append(frames[1].dir, name)
                 new == Entered(frames, name, left)
      <4>1. put = path
        BY <1>p
      <4>2. CASE ~IsPrefix(path, p)
        <5>1. Due(new, p) \/ IsPrefix(put, p)
          BY <1>1, <1>3, <1>8, <3>4, EnteredDue
        <5>2. Due(Skipped(frames, name), p) \/ IsPrefix(put, p)
          BY <1>1, <3>4, SkippedDue
        <5> HIDE DEF put, new
        <5>3. Due(new, p) /\ Due(Skipped(frames, name), p)
          BY <4>1, <4>2, <5>1, <5>2
        <5> QED BY <1>5, <5>3 DEF new
      <4>3. CASE p = path
        BY <1>12, <2>1, <4>3 DEF Belongs, q
      <4>4. CASE IsPrefix(path, p) /\ p # path
        <5>1. PICK n \in Children(project, path) :
                n \in Names /\ Append(path, n) \in DOMAIN project /\ IsPrefix(Append(path, n), p)
          BY <1>1, <1>3, <4>4, Within
        <5>2. n \in left
          BY <1>3, <1>8, <2>1, <3>1, <5>1, CopiedAre DEF Belongs
        <5>3. entry.kind = "dir"
          <6>1. Append(path, n) # <<>> /\ Front(Append(path, n)) = path
            BY <1>3, <5>1, AppendIs
          <6> QED BY <1>1, <5>1, <6>1 DEF IsTree
        <5>4. frames' = new
          BY <1>5, <5>3
        <5>5. new[1].dir = put /\ new[1].left = left /\ IsStack(new) /\ new # <<>>
          BY <1>1, <1>3, <1>8, EnteredIs
        <5> HIDE DEF new, put
        <5>6. 1 \in DOMAIN new
          BY <5>5, StackFacts
        <5>7. new[1].dir = path
          BY <4>1, <5>5
        <5> QED BY <5>1, <5>2, <5>4, <5>5, <5>6, <5>7 DEF Due
      <4> QED BY <4>2, <4>3, <4>4
    <3> QED BY <3>2, <3>3, <3>4
  <2> QED BY <1>6, <1>9, <2>1 DEF AllThere
<1>16. (Found /\ Commanded /\ Compiled)'
  BY <1>1, <1>6 DEF Found, Commanded, Compiled, Stages
<1> QED BY <1>13, <1>14, <1>15, <1>16 DEF Faithful

LEMMA EndDirectoryFaithful ==
  ASSUME CopyInv, Faithful, EndDirectory
  PROVE  Faithful'
<1>1. /\ pc = "copy" /\ frames # <<>> /\ Head(frames).left = {} /\ frames' = Tail(frames)
      /\ pc' = IF Tail(frames) = <<>> THEN "apply" ELSE "copy"
      /\ case' = case /\ project' = project /\ temp' = temp
  BY DEF EndDirectory
<1>2. IsStack(frames) /\ Head(frames) = frames[1]
  BY <1>1, StackFacts DEF CopyInv, Placed
<1>3. Wanted' = Wanted /\ \A p : Belongs(p)' = Belongs(p) /\ Counterpart(p)' = Counterpart(p)
  BY <1>1, SameProject DEF Counterpart
<1>4. Chosen'
  <2>1. \A p : OnStack(frames, p) \/ Awaited(frames, p) => p \in Wanted
    BY <1>1, InPlaceIs DEF Faithful, Chosen
  <2>2. \A p : /\ OnStack(Tail(frames), p) => OnStack(frames, p)
               /\ Awaited(Tail(frames), p) => Awaited(frames, p)
    BY <1>1, <1>2, TailBack
  <2>3. InPlace(Tail(frames), Wanted)
    BY <2>1, <2>2, InPlaceIs
  <2> QED BY <1>1, <1>3, <2>3 DEF Chosen
<1>5. NothingElse'
  <2>1. \A q \in DOMAIN temp :
          \/ q = <<>>
          \/ \E p \in DOMAIN project : q = Moved(p) /\ Belongs(p) /\ temp[q] = Counterpart(p)
    BY <1>1 DEF Faithful, NothingElse
  <2> QED BY <1>1, <1>3, <2>1 DEF NothingElse
<1>6. AllThere'
  <2>1. ASSUME NEW p \in DOMAIN project, Belongs(p)
        PROVE  Moved(p) \in DOMAIN temp \/ Due(Tail(frames), p)
    <3>1. Moved(p) \in DOMAIN temp \/ Due(frames, p)
      BY <1>1, <2>1 DEF Faithful, AllThere
    <3>2. Due(frames, p) => \/ Due(Tail(frames), p)
                            \/ \E n \in frames[1].left : IsPrefix(Append(frames[1].dir, n), p)
      BY <1>1, <1>2, TailDue
    <3> QED BY <1>1, <1>2, <3>1, <3>2
  <2> QED BY <1>1, <1>3, <2>1 DEF AllThere
<1>7. (Found /\ Commanded /\ Compiled)'
  BY <1>1 DEF Found, Commanded, Compiled, Stages
<1> QED BY <1>4, <1>5, <1>6, <1>7 DEF Faithful

LEMMA ApplyCandidateFaithful ==
  ASSUME CopyInv, Unedited, Faithful, ApplyCandidate, ~Mistaken
  PROVE  Faithful'
<1> DEFINE at == case.candidate.at
           path == Place(at)
           t == Target(at)
<1>1. /\ pc = "apply" /\ case \in Cases /\ case' = case /\ frames' = frames
      /\ project = case.tree /\ project' = project
  BY ApplyElsewhere DEF ApplyCandidate, CopyInv, Placed, Unedited
<1>2. DOMAIN project \subseteq Seq(Names)
  BY DEF CopyInv, Placed, IsTree
<1>3. at \in Location /\ at.path \in Seq(Names)
  BY <1>1, CasesOK DEF Location
<1>4. CASE pc' = "remove"
  BY <1>4, OffStage
<1>5. CASE pc' # "remove"
  <2>1. /\ pc' = "build" /\ StartsWithProject(at) /\ OriginalFound(t)
        /\ Write(t, File(Entry(t).text, "mutated"))
    BY <1>5 DEF ApplyCandidate
  <2>2. at.root \in {"project", "sibling"}
    BY <2>1 DEF StartsWithProject
  <2>3. path \in Seq(Names) /\ Straight(project, path)
    <3>1. CASE at.root = "project"
      <4>1. Place(at) = at.path
        BY <3>1 DEF Place
      <4>2. Straight(case.tree, Place(at))
        BY <1>1, <3>1, CandidatesOK
      <4> QED BY <1>1, <1>3, <4>1, <4>2
    <3>2. CASE at.root = "sibling"
      <4>1. Place(at) = <<Suffix>> \o at.path
        BY <3>2 DEF Place
      <4>2. Straight(case.tree, Place(at))
        BY <1>1, <3>2, CandidatesOK
      <4>3. <<Suffix>> \o at.path \in Seq(Names)
        BY <1>3, NamesOK
      <4> QED BY <1>1, <4>1, <4>2, <4>3
    <3> QED BY <2>2, <3>1, <3>2
  <2>4. at.root = "sibling" =>
          (path \in DOMAIN project /\ project[path].kind = "file" =>
             project[path].text # case.candidate.text)
    BY <1>1 DEF Mistaken
  <2>5. at.root = "project" => path = at.path
    BY DEF Place
  <2>6. t = Real(InCopy(path))
    BY DEF Target
  <2>7. Exists(t) /\ Entry(t).kind = "file" /\ Entry(t).text = case.candidate.text
    BY <2>1 DEF OriginalFound
  <2> HIDE DEF path, t, at
  <2>8. t = InCopy(path)
    <3>1. t = Nowhere \/ t = InCopy(path)
      BY <1>1, <2>3, <2>6, CopyHolds
    <3>2. ~Exists(Nowhere)
      BY OthersAre, PlacesAre DEF Exists
    <3> QED BY <2>7, <3>1, <3>2
  <2>9. t.root = "temp" /\ t.path = Moved(path) /\ Moved(path) # <<>>
        /\ \A p \in DOMAIN project : Moved(p) = Moved(path) => p = path
    BY <1>2, <2>3, <2>8, MovedIs
  <2> DEFINE q == Moved(path)
  <2>10. q \in DOMAIN temp /\ Entry(t) = temp[q]
    BY <2>7, <2>9, TreesAre DEF Exists, Entry
  <2>11. \A p : Counterpart(p) = project[p]
    BY <1>1 DEF Counterpart
  <2> HIDE DEF q
  <2>12. \A x \in DOMAIN temp :
           x = <<>> \/ \E p \in DOMAIN project : x = Moved(p) /\ Belongs(p) /\ temp[x] = project[p]
    BY <1>1, <2>11 DEF Faithful, NothingElse
  <2>13. path \in DOMAIN project /\ Belongs(path) /\ temp[q] = project[path]
    BY <2>9, <2>10, <2>12 DEF q
  <2>14. project[path].kind = "file" /\ project[path].text = case.candidate.text
    BY <2>7, <2>10, <2>13
  <2>15. at.root = "project" /\ path = at.path
    BY <2>2, <2>4, <2>5, <2>13, <2>14
  <2> DEFINE new == File(project[path].text, "mutated")
  <2>16. temp' = Put(temp, q, new)
    <3>1. File(Entry(t).text, "mutated") = new
      BY <2>10, <2>13
    <3> HIDE DEF new
    <3> QED BY <2>1, <2>9, <3>1 DEF Write, q
  <2>17. \A p : Counterpart(p)' = IF p = path THEN new ELSE project[p]
    BY <1>1, <2>1, <2>15 DEF Counterpart, at
  <2>18. Wanted' = Wanted /\ \A p : Belongs(p)' = Belongs(p)
    BY <1>1, SameProject
  <2> HIDE DEF new
  <2>19. /\ DOMAIN temp' = DOMAIN temp \cup {q} /\ temp'[q] = new
         /\ \A x \in DOMAIN temp : x # q => temp'[x] = temp[x]
    <3>1. DOMAIN Put(temp, q, new) = DOMAIN temp \cup {q}
      BY DEF Put
    <3> QED BY <2>16, <3>1, PutIs
  <2>20. NothingElse'
    <3>1. ASSUME NEW x \in DOMAIN temp', x # <<>>
          PROVE  \E p \in DOMAIN project :
                   x = Moved(p) /\ Belongs(p) /\ temp'[x] = IF p = path THEN new ELSE project[p]
      <4>1. CASE x = q
        BY <2>13, <2>19, <4>1 DEF q
      <4>2. CASE x # q
        <5>1. x \in DOMAIN temp /\ temp'[x] = temp[x]
          BY <2>19, <4>2
        <5>2. PICK p \in DOMAIN project : x = Moved(p) /\ Belongs(p) /\ temp[x] = project[p]
          BY <2>12, <3>1, <5>1
        <5>3. p # path
          BY <4>2, <5>2 DEF q
        <5> QED BY <5>1, <5>2, <5>3
      <4> QED BY <4>1, <4>2
    <3> QED BY <1>1, <2>17, <2>18, <3>1 DEF NothingElse
  <2>21. AllThere'
    <3>1. \A p \in DOMAIN project : Belongs(p) => Moved(p) \in DOMAIN temp \/ Due(frames, p)
      BY <1>1 DEF Faithful, AllThere
    <3> QED BY <1>1, <2>18, <2>19, <3>1 DEF AllThere
  <2>22. Found'
    BY <1>1, <2>13, <2>14, <2>15, <2>18 DEF Found, at
  <2>23. (Chosen /\ Commanded /\ Compiled)'
    BY <2>1 DEF Chosen, Commanded, Compiled
  <2> QED BY <2>20, <2>21, <2>22, <2>23 DEF Faithful
<1> QED BY <1>4, <1>5

\* No change of the trees between two steps of the work.
LEMMA SameCopy ==
  ASSUME Faithful, pc \in Stages, pc' \in Stages,
         case' = case, project' = project, temp' = temp, frames' = frames
  PROVE  (Chosen /\ NothingElse /\ AllThere /\ Found)'
<1>1. Wanted' = Wanted /\ \A p : Belongs(p)' = Belongs(p) /\ Counterpart(p)' = Counterpart(p)
  BY SameProject DEF Counterpart, Stages
<1>2. \A q \in DOMAIN temp :
        \/ q = <<>>
        \/ \E p \in DOMAIN project : q = Moved(p) /\ Belongs(p) /\ temp[q] = Counterpart(p)
  BY DEF Faithful, NothingElse
<1>3. NothingElse'
  BY <1>1, <1>2 DEF NothingElse, Stages
<1>4. AllThere'
  BY <1>1 DEF Faithful, AllThere
<1>5. Found'
  BY <1>1 DEF Faithful, Found
<1>6. Chosen'
  BY DEF Chosen, Stages
<1> QED BY <1>3, <1>4, <1>5, <1>6

-----------------------------------------------------------------------------
(* What a path outside of the copy leads to is the same at every step.       *)

Outside == [root : {"project", "here", "sibling", "system", "nowhere"}, path : Seq(Names)]

LEMMA OutsideIs ==
  /\ Outside \subseteq Anywhere /\ Location \subseteq Outside /\ Nowhere \in Outside
  /\ \A root \in {"project", "here", "sibling", "system", "nowhere"} : \A path \in Seq(Names) :
       At(root, path) \in Outside
<1>1. <<>> \in Seq(Names)
  OBVIOUS
<1> QED BY <1>1 DEF Outside, Anywhere, Location, Nowhere, At

LEMMA OutsideEnters ==
  ASSUME CopyInv, project = case.tree, NEW x \in Outside, NEW name \in Names
  PROVE  Enter(x, name) \in Outside
<1> DEFINE next == At(x.root, Append(x.path, name))
           link == Entry(next).to
<1>1. /\ x.path \in Seq(Names) /\ Append(x.path, name) \in Seq(Names)
      /\ x.root \in {"project", "here", "sibling", "system", "nowhere"} /\ case \in Cases
  <2>1. case \in Cases
    BY DEF CopyInv, Placed
  <2>2. /\ x.path \in Seq(Names)
        /\ x.root \in {"project", "here", "sibling", "system", "nowhere"}
    BY DEF Outside
  <2> QED BY <2>1, <2>2, AppendIs
<1>2. next \in Outside /\ next.root = x.root
  BY <1>1, OutsideIs DEF At
<1>3. Enter(x, name) = IF ~Exists(next) THEN Nowhere
                       ELSE IF Entry(next).kind # "link" THEN next
                       ELSE IF link.root = "here" THEN At(x.root, Top(x.root).path \o link.path)
                       ELSE link
  BY DEF Enter
<1>4. Top(x.root).path = <<>>
  BY <1>1 DEF Top, At
<1>5. ASSUME Exists(next), Entry(next).kind = "link" PROVE link \in Location
  <2> HIDE DEF next
  <2>1. next.path \in DOMAIN Tree(next.root) /\ Entry(next) = Tree(next.root)[next.path]
    BY <1>5 DEF Exists, Entry
  <2>2. CASE x.root = "project"
    <3>1. next.path \in DOMAIN project /\ Entry(next) = project[next.path]
      BY <1>2, <2>1, <2>2, TreesAre
    <3> QED BY <1>1, <1>5, <3>1, LinksOK
  <2>3. CASE x.root \in {"sibling", "system"}
    <3>1. x.root \in DOMAIN Elsewhere
      BY <2>3, CasesOK
    <3>2. Tree(x.root) = Elsewhere[x.root]
      BY <2>3, OthersAre
    <3> QED BY <1>1, <1>2, <1>5, <2>1, <3>1, <3>2, LinksOK
  <2>4. CASE x.root \in {"here", "nowhere"}
    BY <1>2, <2>1, <2>4, OthersAre
  <2> QED BY <1>1, <2>2, <2>3, <2>4
<1> HIDE DEF next, link
<1>6. CASE ~Exists(next)
  BY <1>3, <1>6, OutsideIs
<1>7. CASE Exists(next) /\ Entry(next).kind # "link"
  BY <1>2, <1>3, <1>7
<1>8. CASE Exists(next) /\ Entry(next).kind = "link"
  <2>1. link \in Location /\ link \in Outside /\ link.path \in Seq(Names)
    BY <1>5, <1>8, OutsideIs DEF Location
  <2>2. <<>> \o link.path = link.path
    <3> DEFINE p == link.path
    <3>1. p \in Seq(Names)
      BY <2>1
    <3> HIDE DEF p
    <3>2. <<>> \o p = p
      BY <3>1
    <3> QED BY <3>2 DEF p
  <2>3. At(x.root, link.path) \in Outside
    BY <1>1, <2>1, OutsideIs
  <2> QED BY <1>3, <1>4, <1>8, <2>1, <2>2, <2>3
<1> QED BY <1>6, <1>7, <1>8

LEMMA OutsideWalk ==
  ASSUME CopyInv, project = case.tree, NEW at \in Outside
  PROVE  \E g \in [0 .. Len(at.path) -> Outside] : Walks(at, g) /\ Real(at) = EndOf(at, g)
<1>1. at.path \in Seq(Names) /\ Len(at.path) \in Nat
      /\ at.root \in {"project", "here", "sibling", "system", "nowhere"}
  BY DEF Outside
<1>2. <<>> \in Seq(Names)
  OBVIOUS
<1>3. At(at.root, <<>>) \in Outside
  BY <1>1, <1>2, OutsideIs
<1>4. \A x \in Outside : \A k \in 1 .. Len(at.path) : Enter(x, at.path[k]) \in Outside
  <2>1. \A k \in 1 .. Len(at.path) : at.path[k] \in Names
    BY <1>1
  <2> QED BY <2>1, OutsideEnters
<1>5. PICK g \in [0 .. Len(at.path) -> Outside] : Walks(at, g)
  BY <1>1, <1>3, <1>4, WalkEnds
<1>6. Real(at) = EndOf(at, g)
  BY <1>1, <1>5, RealIs DEF RealFacts
<1> QED BY <1>5, <1>6

LEMMA OutsideReal ==
  ASSUME CopyInv, project = case.tree, NEW at \in Outside
  PROVE  Real(at) \in Outside
<1>1. PICK g \in [0 .. Len(at.path) -> Outside] : Walks(at, g) /\ Real(at) = EndOf(at, g)
  BY OutsideWalk
<1>2. g[Len(at.path)] \in Outside
  BY DEF Outside
<1> QED BY <1>1, <1>2, OutsideIs DEF EndOf

LEMMA OutsideStays ==
  ASSUME CopyInv, project = case.tree, project' = project, NEW at \in Outside
  PROVE  Real(at)' = Real(at)
<1>1. ASSUME NEW root, root # "temp" PROVE Tree(root)' = Tree(root)
  <2>1. "project" \notin DOMAIN Elsewhere /\ "temp" # "project"
    BY CasesOK
  <2>2. CASE root = "project"
    <3>1. Tree(root) = project /\ Tree(root)' = project'
      BY <2>1, <2>2, Zenon DEF Tree
    <3> QED BY <3>1
  <2>3. CASE root # "project" /\ root \in DOMAIN Elsewhere
    <3>1. Tree(root) = Elsewhere[root] /\ Tree(root)' = Elsewhere[root]
      BY <1>1, <2>3, Zenon DEF Tree
    <3> QED BY <3>1
  <2>4. CASE root # "project" /\ root \notin DOMAIN Elsewhere
    <3>1. Tree(root) = Empty /\ Tree(root)' = Empty
      BY <1>1, <2>4, Zenon DEF Tree
    <3> QED BY <3>1
  <2> QED BY <2>2, <2>3, <2>4
<1>2. ASSUME NEW x, x.root # "temp" PROVE Exists(x)' = Exists(x) /\ Entry(x)' = Entry(x)
  BY <1>1, <1>2 DEF Exists, Entry
<1>3. \A x \in Outside : x.root # "temp"
  BY DEF Outside
<1>4. ASSUME NEW x \in Outside, NEW name PROVE Enter(x, name)' = Enter(x, name)
  <2> DEFINE next == At(x.root, Append(x.path, name))
  <2>1. next.root # "temp"
    BY <1>3 DEF At
  <2>2. Exists(next)' = Exists(next) /\ Entry(next)' = Entry(next)
    BY <1>2, <2>1
  <2> QED BY <2>2 DEF Enter
<1>5. PICK g \in [0 .. Len(at.path) -> Outside] : Walks(at, g) /\ Real(at) = EndOf(at, g)
  BY OutsideWalk
<1>6. Len(at.path) \in Nat /\ \A k \in 1 .. Len(at.path) : g[k - 1] \in Outside
  <2>1. Len(at.path) \in Nat
    BY DEF Outside
  <2>2. \A k \in 1 .. Len(at.path) : k - 1 \in 0 .. Len(at.path)
    BY <2>1
  <2> QED BY <1>5, <2>1, <2>2
<1>7. Walks(at, g)'
  <2>1. \A k \in 1 .. Len(at.path) : Enter(g[k - 1], at.path[k])' = Enter(g[k - 1], at.path[k])
    BY <1>4, <1>6
  <2> QED BY <1>5, <2>1 DEF Walks
<1>8. Real(at)' = EndOf(at, g)'
  BY <1>6, <1>7, RealIsNext DEF RealFacts
<1>9. EndOf(at, g)' = EndOf(at, g)
  <2>1. g[Len(at.path)] \in Outside
    BY <1>5, <1>6
  <2>2. Exists(g[Len(at.path)])' = Exists(g[Len(at.path)])
    BY <1>2, <1>3, <2>1
  <2> QED BY <2>2 DEF EndOf
<1> QED BY <1>5, <1>8, <1>9

LEMMA OutsideResolves ==
  ASSUME CopyInv, project = case.tree, NEW from \in Outside, NEW at \in Outside
  PROVE  /\ Resolve(from, at) \in Outside
         /\ project' = project => Resolve(from, at)' = Resolve(from, at)
<1> DEFINE x == IF at.root = "here" THEN At(from.root, from.path \o at.path) ELSE at
<1>1. x \in Outside
  <2>1. from.path \in Seq(Names) /\ at.path \in Seq(Names)
        /\ from.root \in {"project", "here", "sibling", "system", "nowhere"}
    BY DEF Outside
  <2>2. from.path \o at.path \in Seq(Names)
    BY <2>1
  <2> QED BY <2>1, <2>2, OutsideIs
<1>2. Resolve(from, at) = Real(x) /\ Resolve(from, at)' = Real(x)'
  BY DEF Resolve
<1> HIDE DEF x
<1> QED BY <1>1, <1>2, OutsideReal, OutsideStays

LEMMA RewriteStays ==
  ASSUME CopyInv, project = case.tree, project' = project, NEW a, a.at \in Outside
  PROVE  RewritePath(a)' = RewritePath(a)
<1>1. PICK x \in Outside : x = Real(a.at)
  BY OutsideReal
<1>2. Real(a.at)' = x
  <2>1. PICK y \in Outside : y = a.at
    OBVIOUS
  <2>2. Real(y)' = Real(y)
    BY OutsideStays
  <2> QED BY <1>1, <2>1, <2>2
<1>3. RewritePath(a) = IF a.as = "file" /\ a.at.root # "here" /\ x.root = "project"
                       THEN [as |-> "file", at |-> InCopy(x.path)] ELSE a
  BY <1>1 DEF RewritePath
<1>4. RewritePath(a)' = IF a.as = "file" /\ a.at.root # "here" /\ x.root = "project"
                        THEN [as |-> "file", at |-> InCopy(x.path)] ELSE a
  BY <1>2 DEF RewritePath
<1> QED BY <1>3, <1>4

\* The compile command as it was built.
LEMMA CommandStays ==
  ASSUME CopyInv, project = case.tree, project' = project, case' = case,
         NEW directory, NEW arguments,
         directory = RewritePath([as |-> "file", at |-> case.compile.directory]).at,
         \E a \in ToSet(case.compile.arguments) :
           /\ a.as = "file" /\ RewritePath(a) \in ToSet(arguments)
           /\ Resolve(Real(case.compile.directory), a.at) = case.candidate.at,
         command'.directory = directory, command'.arguments = arguments
  PROVE  Commanded'
<1> DEFINE words == case.compile.arguments
<1>1. case \in Cases /\ case.compile.directory \in Location /\ words \in Seq(Argument)
  BY CasesOK DEF CopyInv, Placed
<1>2. PICK d \in Outside : d = case.compile.directory
  BY <1>1, OutsideIs
<1>3. PICK from \in Outside : from = Real(d)
  BY OutsideReal
<1>4. Real(d)' = from
  BY <1>3, OutsideStays
<1>5. PICK a \in Argument : /\ a \in ToSet(words) /\ a.as = "file"
                            /\ RewritePath(a) \in ToSet(arguments)
                            /\ Resolve(from, a.at) = case.candidate.at
  <2>1. ToSet(words) \subseteq Argument
    BY <1>1 DEF ToSet
  <2> QED BY <1>2, <1>3, <2>1
<1>6. a.at \in Outside
  BY OutsideIs DEF Argument
<1>7. RewritePath(a)' = RewritePath(a)
  BY <1>6, RewriteStays
<1>8. Resolve(from, a.at)' = Resolve(from, a.at)
  BY <1>6, OutsideResolves
<1> DEFINE rec == [as |-> "file", at |-> d]
<1>9. directory = RewritePath(rec).at /\ RewritePath(rec)' = RewritePath(rec)
  <2>1. rec.at \in Outside
    BY <1>2
  <2>2. directory = RewritePath(rec).at
    BY <1>2
  <2> HIDE DEF rec
  <2> QED BY <2>1, <2>2, RewriteStays
<1>10. command'.directory = directory /\ command'.arguments = arguments
  OBVIOUS
<1>11. command'.directory = RewritePath([as |-> "file", at |-> case.compile.directory])'.at
  BY <1>2, <1>9, <1>10
<1>12. /\ a \in ToSet(case'.compile.arguments)
       /\ RewritePath(a)' \in ToSet(command'.arguments)
  BY <1>5, <1>7, <1>10
<1>13. Resolve(Real(case.compile.directory), a.at)' = case'.candidate.at
  <2>1. Real(case.compile.directory)' = from
    BY <1>2, <1>4
  <2> QED BY <1>5, <1>8, <2>1
<1>14. \E b \in ToSet(case'.compile.arguments) :
         /\ b.as = "file" /\ RewritePath(b)' \in ToSet(command'.arguments)
         /\ Resolve(Real(case.compile.directory), b.at)' = case'.candidate.at
  BY <1>5, <1>12, <1>13
<1> QED BY <1>11, <1>14 DEF Commanded

LEMMA BuildCompileCommandFaithful ==
  ASSUME CopyInv, Unedited, Faithful, BuildCompileCommand
  PROVE  Faithful'
<1>1. CASE pc' = "remove"
  BY <1>1, OffStage
<1>2. CASE pc' # "remove"
  <2> DEFINE directory == RewritePath([as |-> "file", at |-> case.compile.directory]).at
             arguments == CompileArguments(case.compile.arguments)
  <2>1. /\ pc = "build" /\ pc' = "compile" /\ case' = case /\ project' = project
        /\ temp' = temp /\ frames' = frames /\ CompilesCandidate
        /\ command' = [directory |-> directory, arguments |-> arguments]
    BY <1>2 DEF BuildCompileCommand
  <2>2. project = case.tree /\ case.compile.arguments \in Seq(Argument)
    BY <2>1, CasesOK DEF CopyInv, Placed, Unedited
  <2>3. (Chosen /\ NothingElse /\ AllThere /\ Found)'
    BY <2>1, SameCopy DEF Stages
  <2>4. Compiled'
    BY <2>1 DEF Compiled
  <2>5. \E a \in ToSet(case.compile.arguments) :
          /\ a.as = "file" /\ RewritePath(a) \in ToSet(arguments)
          /\ Resolve(Real(case.compile.directory), a.at) = case.candidate.at
    <3> DEFINE words == case.compile.arguments
    <3>1. PICK i \in DOMAIN words :
            /\ words[i].as = "file" /\ (i > 1 => words[i - 1].as # "-o")
            /\ Resolve(Real(case.compile.directory), words[i].at) = case.candidate.at
      BY <2>1 DEF CompilesCandidate
    <3>2. RewritePath(words[i]) \in ToSet(arguments)
      BY <2>2, <3>1, FilesKept
    <3>3. words[i] \in ToSet(words)
      BY <3>1 DEF ToSet
    <3> QED BY <3>1, <3>2, <3>3
  <2> HIDE DEF directory, arguments
  <2>6. Commanded'
    <3>1. PICK r : r = directory
      OBVIOUS
    <3>2. PICK s : s = arguments
      OBVIOUS
    <3> QED BY <2>1, <2>2, <2>5, <3>1, <3>2, CommandStays DEF directory
  <2> QED BY <2>3, <2>4, <2>6 DEF Faithful
<1> QED BY <1>1, <1>2

-----------------------------------------------------------------------------
(* A relative path in the copy and in the project.                           *)

\* One name further, in the copy and in the project.
LEMMA SameTurn ==
  ASSUME CopyInv, project = case.tree, pc \in {"apply", "build", "compile"},
         NEW at \in Seq(Names), NEW name \in Names, NEW h \in {Nowhere, InCopy(at)},
         LET path == Append(at, name) IN
           path \in DOMAIN project /\ project[path].kind = "link" => project[path].to.root = "here"
  PROVE  LET g == Enter(At("project", at), name)
             new == Enter(h, name)
         IN new = Nowhere \/ (g.root = "project" /\ new = InCopy(g.path))
<1> DEFINE path == Append(at, name)
           q == Moved(path)
           g == Enter(At("project", at), name)
           new == Enter(h, name)
           there == At("temp", q)
           here == At("project", path)
<1>1. path \in Seq(Names) /\ Moved(at) \in Seq(Names) /\ q \in Seq(Names)
      /\ q = Append(Moved(at), name) /\ q # <<>>
      /\ \A p \in Seq(Names) : Moved(p) = q => p = path
  BY AppendIs, MovedIs
<1>2. CASE h = Nowhere
  <2>1. ~Exists(At(h.root, Append(h.path, name)))
    BY <1>2, OthersAre, PlacesAre DEF Exists
  <2> QED BY <2>1 DEF Enter
<1>3. CASE h = InCopy(at)
  <2>1. At(h.root, Append(h.path, name)) = there
    <3>1. h.root = "temp" /\ h.path = Moved(at)
      BY <1>3, MovedIs
    <3> QED BY <1>1, <3>1
  <2>2. At(At("project", at).root, Append(At("project", at).path, name)) = here
    BY PlacesAre
  <2>3. new = IF ~Exists(there) THEN Nowhere
              ELSE IF Entry(there).kind # "link" THEN there
              ELSE IF Entry(there).to.root = "here"
                   THEN At("temp", Top("temp").path \o Entry(there).to.path)
              ELSE Entry(there).to
    <3>1. h.root = "temp"
      BY <1>3, MovedIs
    <3> HIDE DEF there
    <3> QED BY <2>1, <3>1 DEF Enter
  <2>4. g = IF ~Exists(here) THEN Nowhere
            ELSE IF Entry(here).kind # "link" THEN here
            ELSE IF Entry(here).to.root = "here"
                 THEN At("project", Top("project").path \o Entry(here).to.path)
            ELSE Entry(here).to
    <3>1. At("project", at).root = "project"
      BY PlacesAre
    <3> HIDE DEF here
    <3> QED BY <2>2, <3>1 DEF Enter
  <2>5. CASE ~Exists(there)
    <3> HIDE DEF there
    <3> QED BY <2>3, <2>5
  <2>6. CASE Exists(there)
    <3>1. q \in DOMAIN temp /\ Entry(there) = temp[q]
      BY <2>6, TreesAre, PlacesAre DEF Exists, Entry
    <3>2. PICK p \in DOMAIN project : /\ q = Moved(p) /\ temp[q].kind = project[p].kind
                                      /\ temp[q].kind = "link" => temp[q] = project[p]
      <4> HIDE DEF q
      <4> QED BY <1>1, <3>1 DEF CopyInv, Mirrored
    <3>3. p = path
      <4>1. p \in Seq(Names)
        BY DEF CopyInv, Placed, IsTree
      <4> HIDE DEF q, path
      <4> QED BY <1>1, <3>2, <4>1
    <3>4. Exists(here) /\ Entry(here) = project[path]
      BY <3>3, TreesAre, PlacesAre DEF Exists, Entry
    <3>5. there = InCopy(path) /\ here.root = "project" /\ here.path = path
      BY PlacesAre DEF InCopy, Moved
    <3>6. CASE project[path].kind # "link"
      <4>1. Entry(there).kind # "link" /\ Entry(here).kind # "link"
        BY <3>1, <3>2, <3>3, <3>4, <3>6
      <4> HIDE DEF there, here
      <4>2. new = there /\ g = here
        BY <2>3, <2>4, <2>6, <3>4, <4>1
      <4> QED BY <3>5, <4>2
    <3>7. CASE project[path].kind = "link"
      <4> DEFINE to == project[path].to
      <4>1. Entry(there).kind = "link" /\ Entry(here).kind = "link"
            /\ Entry(there).to = to /\ Entry(here).to = to
        BY <3>1, <3>2, <3>3, <3>4, <3>7
      <4>2. to.root = "here"
        BY <3>3, <3>7
      <4>3. to.path \in Seq(Names)
        BY <3>3, <3>7, LinksOK DEF CopyInv, Placed, Location
      <4> DEFINE s == to.path
      <4> HIDE DEF to, there, here
      <4>4. new = At("temp", Top("temp").path \o s) /\ g = At("project", Top("project").path \o s)
        BY <2>3, <2>4, <2>6, <3>4, <4>1, <4>2
      <4>5. s \in Seq(Names)
        BY <4>3
      <4> HIDE DEF s
      <4>6. Top("temp").path = <<"project">> /\ Top("project").path = <<>>
        <5>1. Top("temp") = InCopy(<<>>) /\ Top("project") = At("project", <<>>)
          BY DEF Top
        <5> QED BY <5>1, CopyPlaces, PlacesAre
      <4>7. <<>> \o s = s /\ InCopy(s) = At("temp", <<"project">> \o s)
        BY <4>5 DEF InCopy
      <4>8. g = At("project", s) /\ new = InCopy(s)
        BY <4>4, <4>6, <4>7
      <4> QED BY <4>8, PlacesAre
    <3> QED BY <3>6, <3>7
  <2> QED BY <2>5, <2>6
<1> QED BY <1>2, <1>3

\* The names of a path up to one of them.
LEMMA PartIs ==
  ASSUME NEW full \in Seq(Names), NEW k \in 0 .. Len(full)
  PROVE  /\ SubSeq(full, 1, k) \in Seq(Names) /\ Len(SubSeq(full, 1, k)) = k /\ k \in Nat
         /\ \A j \in 1 .. k : SubSeq(full, 1, k)[j] = full[j]
         /\ \A j \in 0 .. k : SubSeq(SubSeq(full, 1, k), 1, j) = SubSeq(full, 1, j)
         /\ SubSeq(full, 1, 0) = <<>>
         /\ SubSeq(full, 1, Len(full)) = full
         /\ k > 0 => /\ Append(SubSeq(full, 1, k - 1), full[k]) = SubSeq(full, 1, k)
                     /\ full[k] \in Names
<1> DEFINE part == SubSeq(full, 1, k)
<1>1. part \in Seq(Names) /\ Len(part) = k /\ k \in Nat /\ \A j \in 1 .. k : part[j] = full[j]
  OBVIOUS
<1>2. ASSUME NEW j \in 0 .. k PROVE SubSeq(part, 1, j) = SubSeq(full, 1, j)
  <2>1. /\ SubSeq(full, 1, j) \in Seq(Names) /\ Len(SubSeq(full, 1, j)) = j
        /\ \A i \in 1 .. j : SubSeq(full, 1, j)[i] = full[i]
    OBVIOUS
  <2> HIDE DEF part
  <2>2. /\ SubSeq(part, 1, j) \in Seq(Names) /\ Len(SubSeq(part, 1, j)) = j
        /\ \A i \in 1 .. j : SubSeq(part, 1, j)[i] = part[i]
    BY <1>1
  <2>3. \A i \in 1 .. j : SubSeq(part, 1, j)[i] = SubSeq(full, 1, j)[i]
    BY <1>1, <2>1, <2>2
  <2> QED BY <2>1, <2>2, <2>3, PathEqual
<1>3. SubSeq(full, 1, 0) = <<>> /\ SubSeq(full, 1, Len(full)) = full
  BY SubSeqFull
<1>4. k > 0 => Append(SubSeq(full, 1, k - 1), full[k]) = part /\ full[k] \in Names
  OBVIOUS
<1> QED BY <1>1, <1>2, <1>3, <1>4

\* A way that has no link leads nowhere else.
LEMMA StraightReal ==
  ASSUME CopyInv, project = case.tree, NEW path \in Seq(Names), Straight(project, path)
  PROVE  Real(At("project", path)) \in {Nowhere, At("project", path)}
<1> DEFINE at == At("project", path)
           N == Len(path)
           Way(k) == SubSeq(path, 1, k)
<1>1. at \in Outside /\ at.path = path /\ at.root = "project" /\ N \in Nat
  BY OutsideIs, PlacesAre
<1> HIDE DEF at
<1>2. PICK g \in [0 .. Len(at.path) -> Outside] : Walks(at, g) /\ Real(at) = EndOf(at, g)
  BY <1>1, OutsideWalk
<1>3. g[0] = At("project", <<>>) /\ \A k \in 1 .. N : g[k] = Enter(g[k - 1], path[k])
  BY <1>1, <1>2 DEF Walks
<1>4. ASSUME NEW k \in 1 .. N, NEW x \in {Nowhere, At("project", Way(k - 1))}
      PROVE  Enter(x, path[k]) \in {Nowhere, At("project", Way(k))}
  <2>1. CASE x = Nowhere
    <3>1. ~Exists(At(x.root, Append(x.path, path[k])))
      BY <2>1, OthersAre, PlacesAre DEF Exists
    <3> QED BY <3>1 DEF Enter
  <2>2. CASE x = At("project", Way(k - 1))
    <3> DEFINE next == At("project", Way(k))
    <3>1. Append(Way(k - 1), path[k]) = Way(k)
      BY <1>1, PartIs
    <3>2. At(x.root, Append(x.path, path[k])) = next
      <4> HIDE DEF Way
      <4>1. x.root = "project" /\ x.path = Way(k - 1)
        BY <2>2, PlacesAre
      <4> QED BY <3>1, <4>1
    <3>3. Exists(next) => Entry(next).kind # "link"
      <4>1. Way(k) \in DOMAIN project => project[Way(k)].kind # "link"
        BY <1>1 DEF Straight
      <4> HIDE DEF Way
      <4>2. next.root = "project" /\ next.path = Way(k)
        BY PlacesAre
      <4> QED BY <4>1, <4>2, TreesAre DEF Exists, Entry
    <3> HIDE DEF next
    <3>4. Enter(x, path[k]) = Nowhere \/ (Exists(next) /\ Entry(next).kind = "link")
          \/ Enter(x, path[k]) = next
      BY <3>2 DEF Enter
    <3> QED BY <3>3, <3>4 DEF next
  <2> QED BY <2>1, <2>2
<1> DEFINE Bad == {k \in 0 .. N : g[k] \notin {Nowhere, At("project", Way(k))}}
<1>5. Bad = {}
  <2> SUFFICES ASSUME Bad # {} PROVE FALSE
    OBVIOUS
  <2>1. Bad \in SUBSET Nat
    BY <1>1
  <2>2. PICK k \in Bad : \A y \in Bad : k <= y
    <3> HIDE DEF Bad
    <3> QED BY <2>1, Least
  <2>3. Way(0) = <<>>
    BY <1>1, PartIs
  <2> HIDE DEF Way
  <2>4. k # 0
    BY <1>3, <2>2, <2>3
  <2>5. k \in 1 .. N /\ k - 1 \in 0 .. N /\ ~(k <= k - 1)
    BY <1>1, <2>2, <2>4
  <2>6. g[k - 1] \in {Nowhere, At("project", Way(k - 1))}
    BY <2>2, <2>5
  <2>7. g[k] \in {Nowhere, At("project", Way(k))}
    BY <1>3, <1>4, <2>5, <2>6
  <2> QED BY <2>2, <2>7
<1>6. g[N] \in {Nowhere, at}
  <2>1. Way(N) = path /\ N \in 0 .. N
    BY <1>1, PartIs
  <2> HIDE DEF Way
  <2> QED BY <1>5, <2>1 DEF at
<1> QED BY <1>1, <1>2, <1>6 DEF EndOf, at

\* A part of the way.
LEMMA PartOfWalk ==
  ASSUME CopyInv, project = case.tree, NEW full \in Seq(Names),
         NEW g \in [0 .. Len(full) -> Outside], Walks(At("project", full), g),
         NEW k \in 0 .. Len(full)
  PROVE  Real(At("project", SubSeq(full, 1, k))) = IF Exists(g[k]) THEN g[k] ELSE Nowhere
<1> DEFINE part == SubSeq(full, 1, k)
           at == At("project", part)
           f == [j \in 0 .. k |-> g[j]]
<1>1. part \in Seq(Names) /\ Len(part) = k /\ k \in Nat /\ Len(full) \in Nat
      /\ \A j \in 1 .. k : part[j] = full[j]
  BY PartIs
<1>2. at.path = part /\ at.root = "project"
  BY PlacesAre
<1> HIDE DEF part
<1>3. f \in [0 .. k -> Outside]
  OBVIOUS
<1>4. Walks(at, f)
  <2>1. g[0] = At("project", <<>>) /\ \A j \in 1 .. Len(full) : g[j] = Enter(g[j - 1], full[j])
    BY PlacesAre DEF Walks
  <2>2. 0 \in 0 .. k /\ \A j \in 1 .. k : j - 1 \in 0 .. k /\ j \in 0 .. k /\ j \in 1 .. Len(full)
    BY <1>1
  <2>3. f[0] = At(at.root, <<>>)
    BY <1>2, <2>1, <2>2
  <2>4. \A j \in 1 .. k : f[j] = Enter(f[j - 1], part[j])
    BY <1>1, <2>1, <2>2
  <2> HIDE DEF f, at
  <2> QED BY <1>1, <1>2, <2>3, <2>4 DEF Walks
<1>5. f[k] = g[k]
  BY <1>1
<1> HIDE DEF f, at
<1>6. Real(at) = EndOf(at, f)
  BY <1>1, <1>2, <1>3, <1>4, RealIs DEF RealFacts
<1> QED BY <1>1, <1>2, <1>5, <1>6 DEF EndOf, at, part

\* No link with an absolute target is met on the way.
Relative(full) ==
  \A k \in 1 .. Len(full) :
    LET way  == Real(At("project", SubSeq(full, 1, k - 1)))
        path == Append(way.path, full[k])
    IN way.root = "project" /\ path \in DOMAIN project /\ project[path].kind = "link" =>
         project[path].to.root = "here"

\* Such a path leads to the same place in the copy.
LEMMA SameWay ==
  ASSUME CopyInv, project = case.tree, pc \in {"apply", "build", "compile"},
         NEW full \in Seq(Names), Relative(full),
         NEW end, Real(At("project", full)) = At("project", end)
  PROVE  Real(InCopy(full)) \in {Nowhere, InCopy(end)}
<1> DEFINE at == At("project", full)
           to == InCopy(full)
           N == Len(full)
<1>1. /\ N \in Nat /\ at \in Outside /\ at.path = full /\ at.root = "project"
      /\ to.root = "temp" /\ to.path = Moved(full) /\ Moved(full) \in Seq(Names)
      /\ Len(Moved(full)) = N + 1 /\ Moved(full)[1] = "project"
      /\ \A k \in 1 .. N : Moved(full)[k + 1] = full[k]
  <2>1. N \in Nat /\ at \in Outside /\ at.path = full /\ at.root = "project"
    BY OutsideIs, PlacesAre
  <2> QED BY <2>1, MovedIs
<1> DEFINE more == Moved(full)
<1> HIDE DEF at, to, more
<1>2. PICK g \in [0 .. Len(at.path) -> Outside] : Walks(at, g) /\ Real(at) = EndOf(at, g)
  BY <1>1, OutsideWalk
<1>3. /\ g[0] = At("project", <<>>) /\ \A k \in 1 .. N : g[k] = Enter(g[k - 1], full[k])
      /\ \A k \in 0 .. N : g[k] \in Outside
  BY <1>1, <1>2 DEF Walks
<1>4. PICK h \in [0 .. N + 1 -> Anywhere] : Walks(to, h)
  <2>1. <<>> \in Seq(Names) /\ more \in Seq(Names) /\ Len(more) = N + 1
    BY <1>1 DEF more
  <2>2. At(to.root, <<>>) \in Anywhere
    BY <1>1, <2>1 DEF Anywhere, At
  <2>3. \A x \in Anywhere : \A k \in 1 .. N + 1 : Enter(x, more[k]) \in Anywhere
    <3>1. \A k \in 1 .. N + 1 : more[k] \in Names
      BY <2>1
    <3> QED BY <3>1, EnterKeeps
  <2>4. \E h \in [0 .. Len(to.path) -> Anywhere] : Walks(to, h)
    <3>1. to.path = more /\ Len(to.path) = N + 1 /\ Len(to.path) \in Nat
      BY <1>1 DEF more
    <3>2. \A x \in Anywhere : \A k \in 1 .. Len(to.path) : Enter(x, to.path[k]) \in Anywhere
      BY <2>3, <3>1
    <3> QED BY <2>2, <3>1, <3>2, WalkEnds
  <2> QED BY <1>1, <2>4
<1>5. Real(to) = EndOf(to, h)
  <2>1. Len(to.path) = N + 1 /\ N + 1 \in Nat
    BY <1>1
  <2> QED BY <1>4, <2>1, RealIs DEF RealFacts
<1>6. h[0] = At("temp", <<>>) /\ \A k \in 1 .. N + 1 : h[k] = Enter(h[k - 1], more[k])
  BY <1>1, <1>4 DEF Walks, more
<1> DEFINE Same(k) == h[k + 1] = Nowhere \/ (g[k].root = "project" /\ h[k + 1] = InCopy(g[k].path))
<1>7. Same(0)
  <2> DEFINE top == At("temp", Moved(<<>>))
  <2>1. h[1] = Enter(At("temp", <<>>), "project")
    <3>1. 1 \in 1 .. N + 1 /\ more[1] = "project"
      BY <1>1 DEF more
    <3> QED BY <1>6, <3>1
  <2>2. At(At("temp", <<>>).root, Append(At("temp", <<>>).path, "project")) = top
    <3>1. Append(<<>>, "project") = Moved(<<>>)
      BY CopyPlaces
    <3> QED BY <3>1, PlacesAre
  <2>3. Exists(top) /\ Entry(top) = temp[Moved(<<>>)] /\ temp[Moved(<<>>)].kind = "dir"
    <3>1. Moved(<<>>) \in DOMAIN temp /\ temp[Moved(<<>>)].kind = "dir"
      BY Working
    <3> QED BY <3>1, TreesAre, PlacesAre DEF Exists, Entry
  <2>4. top = InCopy(<<>>)
    BY DEF InCopy, Moved
  <2> HIDE DEF top
  <2>5. h[1] = top
    BY <2>1, <2>2, <2>3 DEF Enter
  <2>6. g[0].root = "project" /\ g[0].path = <<>>
    BY <1>3, PlacesAre
  <2> QED BY <2>4, <2>5, <2>6
<1>8. ASSUME NEW k \in 1 .. N, Same(k - 1) PROVE Same(k)
  <2>1. /\ k - 1 \in 0 .. N /\ k \in 1 .. N + 1 /\ k + 1 \in 1 .. N + 1 /\ k - 1 + 1 = k
        /\ k + 1 - 1 = k
    BY <1>1
  <2>2. g[k] = Enter(g[k - 1], full[k]) /\ h[k + 1] = Enter(h[k], full[k])
        /\ full[k] \in Names /\ g[k - 1] \in Outside
    <3>1. more[k + 1] = full[k]
      BY <1>1 DEF more
    <3>2. h[k + 1] = Enter(h[k + 1 - 1], more[k + 1])
      BY <1>6, <2>1
    <3>3. h[k + 1] = Enter(h[k], full[k])
      BY <2>1, <3>1, <3>2
    <3>4. full[k] \in Names
      OBVIOUS
    <3>5. g[k] = Enter(g[k - 1], full[k]) /\ g[k - 1] \in Outside
      BY <1>3, <2>1
    <3> QED BY <3>3, <3>4, <3>5
  <2>3. CASE h[k] = Nowhere
    <3>1. ~Exists(At(Nowhere.root, Append(Nowhere.path, full[k])))
      BY OthersAre, PlacesAre DEF Exists
    <3>2. Enter(Nowhere, full[k]) = Nowhere
      BY <3>1 DEF Enter
    <3> QED BY <2>2, <2>3, <3>2
  <2>4. CASE h[k] # Nowhere
    <3> DEFINE from == g[k - 1].path
               path == Append(from, full[k])
    <3>1. g[k - 1].root = "project" /\ h[k] = InCopy(from)
      BY <1>8, <2>1, <2>4
    <3>2. from \in Seq(Names) /\ g[k - 1] = At("project", from)
      <4>1. from \in Seq(Names) /\ g[k - 1] \in Anywhere
        BY <2>2, OutsideIs DEF Outside
      <4> QED BY <3>1, <4>1, PlacesAre
    <3> HIDE DEF from
    <3>3. ASSUME path \in DOMAIN project, project[path].kind = "link"
          PROVE  project[path].to.root = "here"
      <4>1. from \in DOMAIN project
        <5>1. path # <<>> /\ Front(path) = from
          BY <2>2, <3>2, AppendIs
        <5> HIDE DEF path
        <5> QED BY <3>3, <5>1 DEF CopyInv, Placed, IsTree
      <4>2. Exists(g[k - 1])
        BY <3>2, <4>1, PlacesAre, TreesAre DEF Exists
      <4>3. Real(At("project", SubSeq(full, 1, k - 1))) = g[k - 1]
        <5>1. Walks(At("project", full), g) /\ g \in [0 .. Len(full) -> Outside]
          BY <1>1, <1>2 DEF at
        <5> QED BY <2>1, <4>2, <5>1, PartOfWalk
      <4>4. g[k - 1].path = from
        BY DEF from
      <4> QED BY <3>1, <3>3, <4>3, <4>4 DEF Relative
    <3> DEFINE new == Enter(h[k], full[k])
               next == Enter(At("project", from), full[k])
    <3>4. new = Nowhere \/ (next.root = "project" /\ new = InCopy(next.path))
      BY <2>2, <3>1, <3>2, <3>3, SameTurn
    <3> QED BY <2>2, <3>2, <3>4
  <2> QED BY <2>3, <2>4
<1> HIDE DEF Same
<1> DEFINE Bad == {k \in 0 .. N : ~Same(k)}
<1>9. Bad = {}
  <2> SUFFICES ASSUME Bad # {} PROVE FALSE
    OBVIOUS
  <2>1. Bad \in SUBSET Nat
    BY <1>1
  <2>2. PICK k \in Bad : \A y \in Bad : k <= y
    <3> HIDE DEF Bad
    <3> QED BY <2>1, Least
  <2>3. k # 0
    BY <1>7, <2>2
  <2>4. k \in 1 .. N /\ k - 1 \in 0 .. N /\ ~(k <= k - 1)
    BY <1>1, <2>2, <2>3
  <2>5. Same(k - 1)
    BY <2>2, <2>4
  <2> QED BY <1>8, <2>2, <2>4, <2>5
<1>10. Same(N)
  <2>1. N \in 0 .. N
    BY <1>1
  <2> QED BY <1>9, <2>1
<1>11. g[N] = At("project", end)
  <2>1. Real(at) # Nowhere
    BY PlacesAre DEF at
  <2> QED BY <1>1, <1>2, <2>1 DEF EndOf, at
<1>12. h[N + 1] \in {Nowhere, InCopy(end)}
  BY <1>10, <1>11, PlacesAre DEF Same
<1>13. Real(to) \in {Nowhere, InCopy(end)}
  BY <1>1, <1>5, <1>12 DEF EndOf
<1> QED BY <1>13 DEF to

\* One path after another.
LEMMA TwoParts ==
  ASSUME NEW s \in Seq(Names), NEW t \in Seq(Names)
  PROVE  /\ s \o t \in Seq(Names) /\ Len(s \o t) = Len(s) + Len(t)
         /\ \A i \in 1 .. Len(s) : (s \o t)[i] = s[i]
         /\ \A i \in 1 .. Len(t) : (s \o t)[Len(s) + i] = t[i]
OBVIOUS

\* From a directory in the project that is not behind a link.
LEMMA RelativeFrom ==
  ASSUME CopyInv, project = case.tree, NEW base \in Seq(Names), Straight(project, base),
         NEW rest \in Seq(Names),
         \A j \in 1 .. Len(rest) :
           LET way  == Real(At("project", base \o SubSeq(rest, 1, j - 1)))
               path == Append(way.path, rest[j])
           IN way.root = "project" /\ path \in DOMAIN project /\ project[path].kind = "link" =>
                project[path].to.root = "here"
  PROVE  base \o rest \in Seq(Names) /\ Relative(base \o rest)
<1> DEFINE full == base \o rest
           B == Len(base)
           R == Len(rest)
<1>1. /\ full \in Seq(Names) /\ Len(full) = B + R /\ B \in Nat /\ R \in Nat
      /\ \A j \in 1 .. B : full[j] = base[j]
      /\ \A j \in 1 .. R : full[B + j] = rest[j]
  OBVIOUS
<1> HIDE DEF full
<1>2. ASSUME NEW k \in 1 .. B
      PROVE  /\ SubSeq(full, 1, k - 1) = SubSeq(base, 1, k - 1)
             /\ full[k] = base[k]
  <2>1. k - 1 \in 0 .. B /\ k - 1 \in 0 .. Len(full) /\ \A j \in 1 .. k - 1 : j \in 1 .. B
    BY <1>1
  <2>2. /\ SubSeq(full, 1, k - 1) \in Seq(Names) /\ Len(SubSeq(full, 1, k - 1)) = k - 1
        /\ \A j \in 1 .. k - 1 : SubSeq(full, 1, k - 1)[j] = full[j]
    BY <1>1, <2>1, PartIs
  <2>3. /\ SubSeq(base, 1, k - 1) \in Seq(Names) /\ Len(SubSeq(base, 1, k - 1)) = k - 1
        /\ \A j \in 1 .. k - 1 : SubSeq(base, 1, k - 1)[j] = base[j]
    BY <2>1, PartIs
  <2>4. \A j \in 1 .. k - 1 : SubSeq(full, 1, k - 1)[j] = SubSeq(base, 1, k - 1)[j]
    BY <1>1, <2>1, <2>2, <2>3
  <2> QED BY <1>1, <2>2, <2>3, <2>4, PathEqual
<1>3. ASSUME NEW k \in 1 .. B + R, k > B
      PROVE  /\ k - B \in 1 .. R /\ full[k] = rest[k - B]
             /\ SubSeq(full, 1, k - 1) = base \o SubSeq(rest, 1, k - B - 1)
  <2> DEFINE j == k - B
             part == SubSeq(rest, 1, j - 1)
             whole == base \o part
             way == SubSeq(full, 1, k - 1)
  <2>1. /\ j \in 1 .. R /\ j - 1 \in 0 .. R /\ k - 1 \in 0 .. Len(full) /\ B + j = k
        /\ B + (j - 1) = k - 1
    BY <1>1, <1>3
  <2> HIDE DEF j
  <2>2. full[k] = rest[j]
    BY <1>1, <2>1
  <2>3. part \in Seq(Names) /\ Len(part) = j - 1 /\ \A i \in 1 .. j - 1 : part[i] = rest[i]
    BY <2>1, PartIs
  <2>4. way \in Seq(Names) /\ Len(way) = k - 1 /\ \A i \in 1 .. k - 1 : way[i] = full[i]
    BY <1>1, <2>1, PartIs
  <2> HIDE DEF part, way
  <2>5. /\ whole \in Seq(Names) /\ Len(whole) = B + Len(part)
        /\ \A i \in 1 .. B : whole[i] = base[i]
        /\ \A i \in 1 .. Len(part) : whole[B + i] = part[i]
    BY <2>3, TwoParts
  <2> HIDE DEF whole
  <2>6. ASSUME NEW i \in 1 .. k - 1 PROVE way[i] = whole[i]
    <3>1. CASE i <= B
      <4>1. i \in 1 .. B
        BY <1>1, <3>1
      <4> QED BY <1>1, <2>4, <2>5, <4>1
    <3>2. CASE i > B
      <4>1. i - B \in 1 .. j - 1 /\ B + (i - B) = i /\ i - B \in 1 .. R
        BY <1>1, <2>1, <3>2
      <4>2. whole[B + (i - B)] = part[i - B] /\ full[B + (i - B)] = rest[i - B]
        BY <1>1, <2>3, <2>5, <4>1
      <4>3. part[i - B] = rest[i - B]
        BY <2>3, <4>1
      <4> QED BY <2>4, <4>1, <4>2, <4>3
    <3> QED BY <1>1, <3>1, <3>2
  <2>7. Len(whole) = k - 1
    BY <2>1, <2>3, <2>5
  <2>8. way = whole
    BY <2>4, <2>5, <2>6, <2>7, PathEqual
  <2> QED BY <2>1, <2>2, <2>8 DEF way, whole, part, j
<1>4. ASSUME NEW k \in 1 .. Len(full)
      PROVE  LET way  == Real(At("project", SubSeq(full, 1, k - 1)))
                 path == Append(way.path, full[k])
             IN way.root = "project" /\ path \in DOMAIN project /\ project[path].kind = "link" =>
                  project[path].to.root = "here"
  <2>1. CASE k <= B
    <3> DEFINE part == SubSeq(base, 1, k - 1)
    <3>1. k \in 1 .. B /\ k - 1 \in 0 .. B /\ k \in 0 .. B /\ k > 0
      BY <1>1, <2>1
    <3>2. SubSeq(full, 1, k - 1) = part /\ full[k] = base[k]
      BY <1>2, <3>1
    <3>3. /\ part \in Seq(Names) /\ \A j \in 0 .. k - 1 : SubSeq(part, 1, j) = SubSeq(base, 1, j)
          /\ Len(part) = k - 1 /\ \A j \in 0 .. k - 1 : j \in 0 .. B
      BY <3>1, PartIs
    <3>4. Append(part, base[k]) = SubSeq(base, 1, k)
      BY <3>1, PartIs
    <3>5. Straight(project, part)
      <4> HIDE DEF part
      <4> QED BY <3>3 DEF Straight
    <3>6. SubSeq(base, 1, k) \in DOMAIN project => project[SubSeq(base, 1, k)].kind # "link"
      BY <3>1 DEF Straight
    <3> HIDE DEF part
    <3>7. Real(At("project", part)) \in {Nowhere, At("project", part)}
      BY <3>3, <3>5, StraightReal
    <3>8. Real(At("project", part)).root = "project" => Real(At("project", part)).path = part
      BY <3>7, PlacesAre
    <3> QED BY <3>2, <3>4, <3>6, <3>8
  <2>2. CASE k > B
    <3>1. k \in 1 .. B + R
      BY <1>1
    <3>2. /\ k - B \in 1 .. R /\ full[k] = rest[k - B]
          /\ SubSeq(full, 1, k - 1) = base \o SubSeq(rest, 1, k - B - 1)
      BY <1>3, <2>2, <3>1
    <3> QED BY <3>2
  <2> QED BY <1>1, <2>1, <2>2
<1> QED BY <1>1, <1>4 DEF Relative, full

\* The file that the recorded command compiles is the mutant, after rewriting.
LEMMA LeadsToMutant ==
  ASSUME CopyInv, Unedited, Commanded, pc = "compile", Exists(WorkingDirectory),
         NEW a \in Argument, a.as = "file", Relocatable(a),
         NEW mutant \in Seq(Names), case.candidate.at = At("project", mutant),
         Straight(project, mutant),
         Resolve(Real(case.compile.directory), a.at) = case.candidate.at
  PROVE  Resolve(WorkingDirectory, RewritePath(a).at) \in {Nowhere, InCopy(mutant)}
<1>1. /\ project = case.tree /\ case \in Cases
      /\ command.directory = RewritePath([as |-> "file", at |-> case.compile.directory]).at
  BY DEF CopyInv, Placed, Unedited, Commanded
<1>2. PICK d \in Location : d = case.compile.directory
  BY <1>1, CasesOK
<1>3. a.at \in Location /\ a.at.path \in Seq(Names) /\ d \in Anywhere
  BY OutsideIs DEF Argument, Location
<1>4. CASE a.at.root # "here"
  <2>1. Real(a.at) = At("project", mutant)
    BY <1>4 DEF Resolve
  <2>2. RewritePath(a).at = InCopy(mutant)
    BY <1>4, <2>1, PlacesAre DEF RewritePath
  <2>3. InCopy(mutant).root # "here"
    BY MovedIs
  <2>4. Resolve(WorkingDirectory, RewritePath(a).at) = Real(InCopy(mutant))
    BY <2>2, <2>3 DEF Resolve
  <2> QED BY <1>1, <2>4, CopyHolds
<1>5. CASE a.at.root = "here"
  <2> DEFINE rest == a.at.path
             from == Real(d)
             base == from.path
             wd == WorkingDirectory
  <2>1. /\ from.root = "project"
        /\ \A k \in 1 .. Len(rest) :
             LET way  == Resolve(from, At("here", SubSeq(rest, 1, k - 1)))
                 path == Append(way.path, rest[k])
             IN way.root = "project" /\ path \in DOMAIN project /\ project[path].kind = "link" =>
                  project[path].to.root = "here"
    BY <1>2, <1>5 DEF Relocatable
  <2>2. from \in Anywhere /\ Clear(from) /\ rest \in Seq(Names)
    BY <1>1, <1>3, RealKeeps
  <2> HIDE DEF from, rest
  <2>3. base \in Seq(Names) /\ Straight(project, base) /\ from = At("project", base)
    BY <2>1, <2>2, PlacesAre DEF Anywhere, Clear
  <2> HIDE DEF base
  <2>4. from.root = "project" /\ from.path = base
    BY <2>1 DEF base
  <2>5. \A p : Resolve(from, At("here", p)) = Real(At("project", base \o p))
    BY <2>4, PlacesAre DEF Resolve
  <2>6. base \o rest \in Seq(Names) /\ Relative(base \o rest)
    <3>1. \A j \in 1 .. Len(rest) :
            LET way  == Real(At("project", base \o SubSeq(rest, 1, j - 1)))
                path == Append(way.path, rest[j])
            IN way.root = "project" /\ path \in DOMAIN project /\ project[path].kind = "link" =>
                 project[path].to.root = "here"
      BY <2>1, <2>5
    <3> QED BY <1>1, <2>2, <2>3, <3>1, RelativeFrom
  <2>7. Real(At("project", base \o rest)) = At("project", mutant)
    <3>1. a.at = At("here", rest)
      BY <1>3, <1>5, OutsideIs, PlacesAre DEF rest
    <3> QED BY <1>2, <2>5, <3>1 DEF from
  <2>8. Real(InCopy(base \o rest)) \in {Nowhere, InCopy(mutant)}
    BY <1>1, <2>6, <2>7, SameWay
  <2>9. wd = InCopy(base)
    <3> DEFINE arg == [as |-> "file", at |-> d]
    <3>1. d.root # "here"
      <4>1. from.root \notin {"here", "nowhere"}
        BY <2>4
      <4> QED BY <1>3, <4>1, RealOfRelative DEF from
    <3>2. arg.as = "file" /\ arg.at = d /\ command.directory = RewritePath(arg).at
      BY <1>1, <1>2
    <3> HIDE DEF arg
    <3>3. Real(arg.at).root = "project" /\ Real(arg.at).path = base
      BY <2>4, <3>2 DEF from
    <3>4. RewritePath(arg) = [as |-> "file", at |-> InCopy(base)]
      BY <3>1, <3>2, <3>3 DEF RewritePath
    <3>5. command.directory = InCopy(base)
      BY <3>2, <3>4
    <3>6. wd = Nowhere \/ wd = InCopy(base)
      BY <1>1, <2>3, <3>5, CopyHolds DEF WorkingDirectory
    <3>7. ~Exists(Nowhere)
      BY OthersAre, PlacesAre DEF Exists
    <3> QED BY <3>6, <3>7
  <2>10. Resolve(wd, RewritePath(a).at) = Real(At("temp", Moved(base) \o rest))
    <3>1. RewritePath(a) = a
      BY <1>5 DEF RewritePath
    <3>2. wd.root = "temp" /\ wd.path = Moved(base)
      BY <2>3, <2>9, MovedIs
    <3> HIDE DEF wd
    <3> QED BY <1>5, <3>1, <3>2 DEF Resolve, rest
  <2>11. Moved(base) \o rest = Moved(base \o rest)
    <3> DEFINE full == base \o rest
               B == Len(base)
               one == Moved(base)
    <3>1. /\ full \in Seq(Names) /\ Len(full) = B + Len(rest) /\ B \in Nat /\ Len(rest) \in Nat
          /\ \A i \in 1 .. B : full[i] = base[i]
          /\ \A i \in 1 .. Len(rest) : full[B + i] = rest[i]
      BY <2>2, <2>3, TwoParts
    <3>2. /\ one \in Seq(Names) /\ Len(one) = B + 1 /\ one[1] = "project"
          /\ \A i \in 1 .. B : one[i + 1] = base[i]
      BY <2>3, MovedIs
    <3> HIDE DEF one, full
    <3>3. /\ one \o rest \in Seq(Names) /\ Len(one \o rest) = Len(one) + Len(rest)
          /\ \A i \in 1 .. Len(one) : (one \o rest)[i] = one[i]
          /\ \A i \in 1 .. Len(rest) : (one \o rest)[Len(one) + i] = rest[i]
      BY <2>2, <3>2, TwoParts
    <3>4. /\ Moved(full) \in Seq(Names) /\ Len(Moved(full)) = Len(full) + 1
          /\ Moved(full)[1] = "project"
          /\ \A i \in 1 .. Len(full) : Moved(full)[i + 1] = full[i]
      BY <3>1, MovedIs
    <3>5. Len(one \o rest) = Len(Moved(full))
      BY <3>1, <3>2, <3>3, <3>4
    <3>6. ASSUME NEW i \in 1 .. Len(one \o rest) PROVE (one \o rest)[i] = Moved(full)[i]
      <4>1. i \in 1 .. B + 1 + Len(rest)
        BY <3>2, <3>3
      <4>2. CASE i = 1
        <5>1. 1 \in 1 .. Len(one)
          BY <3>1, <3>2
        <5> QED BY <3>2, <3>3, <3>4, <4>2, <5>1
      <4>3. CASE i \in 2 .. B + 1
        <5>1. i - 1 \in 1 .. B /\ i \in 1 .. Len(one) /\ i - 1 \in 1 .. Len(full) /\ i - 1 + 1 = i
          BY <3>1, <3>2, <4>3
        <5>2. one[i - 1 + 1] = base[i - 1] /\ Moved(full)[i - 1 + 1] = full[i - 1]
          BY <3>2, <3>4, <5>1
        <5> QED BY <3>1, <3>3, <5>1, <5>2
      <4>4. CASE i > B + 1
        <5>1. /\ i - B - 1 \in 1 .. Len(rest) /\ Len(one) + (i - B - 1) = i
              /\ i - 1 \in 1 .. Len(full) /\ i - 1 + 1 = i /\ B + (i - B - 1) = i - 1
          BY <3>1, <3>2, <4>1, <4>4
        <5>2. (one \o rest)[i] = rest[i - B - 1]
          BY <3>3, <5>1
        <5>3. Moved(full)[i - 1 + 1] = full[i - 1]
          BY <3>4, <5>1
        <5>4. full[i - 1] = rest[i - B - 1]
          BY <3>1, <5>1
        <5> QED BY <5>1, <5>2, <5>3, <5>4
      <4> QED BY <3>1, <4>1, <4>2, <4>3, <4>4
    <3> QED BY <3>3, <3>4, <3>5, <3>6, PathEqual DEF one, full
  <2>12. InCopy(base \o rest) = At("temp", Moved(base \o rest))
    BY DEF InCopy, Moved
  <2> QED BY <2>8, <2>10, <2>11, <2>12
<1> QED BY <1>4, <1>5

\* If it has run, the compiler has read the mutant.
LEMMA ReadsMutant ==
  ASSUME CopyInv, Unedited, Faithful, pc = "compile", CanRun,
         \A a \in ToSet(case.compile.arguments) : a.as = "file" => Relocatable(a)
  PROVE  InCopy(case.candidate.at.path) \in Files
<1> DEFINE at == case.candidate.at
           mutant == at.path
           words == case.compile.arguments
<1>1. project = case.tree /\ case \in Cases
  BY DEF CopyInv, Placed, Unedited
<1>2. at \in Location /\ words \in Seq(Argument)
  BY <1>1, CasesOK
<1>3. at.root = "project"
  BY DEF Faithful, Found, Stages
<1>4. Straight(project, mutant)
  BY <1>1, <1>3, CandidatesOK DEF Place
<1>5. PICK a \in ToSet(words) : /\ a.as = "file" /\ RewritePath(a) \in ToSet(command.arguments)
                                /\ Resolve(Real(case.compile.directory), a.at) = at
  BY DEF Faithful, Commanded
<1>6. a \in Argument /\ Relocatable(a)
  <2>1. ToSet(words) \subseteq Argument
    BY <1>2 DEF ToSet
  <2> QED BY <1>5, <2>1
<1> HIDE DEF at
<1>7. mutant \in Seq(Names) /\ at = At("project", mutant)
  <2>1. mutant \in Seq(Names) /\ at \in Anywhere
    BY <1>2, OutsideIs DEF Location
  <2> QED BY <1>3, <2>1, PlacesAre
<1> DEFINE y == Resolve(WorkingDirectory, RewritePath(a).at)
<1>8. y \in {Nowhere, InCopy(mutant)}
  <2>1. Exists(WorkingDirectory) /\ Commanded
    BY DEF CanRun, Faithful
  <2>2. /\ case.candidate.at = At("project", mutant)
        /\ Resolve(Real(case.compile.directory), a.at) = case.candidate.at
    BY <1>5, <1>7 DEF at
  <2> HIDE DEF mutant
  <2> QED BY <1>4, <1>5, <1>6, <1>7, <2>1, <2>2, LeadsToMutant
<1>9. y \in Files
  <2>1. RewritePath(a).as = "file"
    BY <1>5 DEF RewritePath
  <2>2. PICK i \in DOMAIN command.arguments : command.arguments[i] = RewritePath(a)
    BY <1>5 DEF ToSet
  <2> QED BY <2>1, <2>2 DEF Files
<1>10. y # Nowhere
  BY <1>9 DEF CanRun
<1> QED BY <1>8, <1>9, <1>10 DEF at

\* What the compiler opens is a place.
LEMMA CompilerOpens ==
  ASSUME CopyInv, Unedited, pc = "compile", NEW at \in Outputs
  PROVE  Opened(at) \in Anywhere
<1>1. project = case.tree
  BY DEF Unedited
<1>2. WorkingDirectory \in Anywhere
  BY <1>1, RealKeeps DEF Unedited, WorkingDirectory
<1>3. PICK a \in ToSet(command.arguments) : a.as \in {"-MD", "-o=", "-W"} /\ at = Output(a)
  BY DEF Outputs
<1>4. a.as # "-o=" /\ (a.as = "-W" => a.at \in Location /\ a.at.path # <<>>)
  BY <1>3 DEF CopyInv, OutputsDropped, ToSet
<1>5. \E dir \in Anywhere : \E name \in Names : at = Inside(dir, name)
  <2>1. CASE a.as = "-MD"
    <3> DEFINE n == "deps.d"
    <3>1. n \in Names /\ at = Inside(WorkingDirectory, n)
      BY <1>3, <2>1, NamesOK DEF Output
    <3> HIDE DEF n
    <3> QED BY <1>2, <3>1
  <2>2. CASE a.as = "-W"
    <3> DEFINE front == Front(a.at.path)
               root == a.at.root
               dir == Resolve(WorkingDirectory, At(root, front))
               n == Last(a.at.path)
    <3>1. a.at.path \in Seq(Names) /\ root \in {"project", "here", "sibling", "system"}
      BY <1>4, <2>2 DEF Location
    <3>2. front \in Seq(Names) /\ n \in Names
      BY <1>4, <2>2, <3>1, FrontIs
    <3>3. at = Inside(dir, n)
      BY <1>3, <2>2 DEF Output
    <3> HIDE DEF front, n, root
    <3>4. dir \in Anywhere
      <4> DEFINE to == IF root = "here"
                       THEN At(WorkingDirectory.root, WorkingDirectory.path \o front)
                       ELSE At(root, front)
      <4>1. dir = Real(to)
        BY PlacesAre DEF Resolve
      <4>2. WorkingDirectory.path \o front \in Seq(Names)
        BY <1>2, <3>2 DEF Anywhere
      <4>3. to \in Anywhere
        BY <1>2, <3>1, <3>2, <4>2 DEF Anywhere, At
      <4> HIDE DEF to
      <4> QED BY <1>1, <4>1, <4>3, RealKeeps
    <3> QED BY <3>2, <3>3, <3>4
  <2> QED BY <1>3, <1>4, <2>1, <2>2
<1>6. PICK dir \in Anywhere : \E name \in Names : at = Inside(dir, name)
  BY <1>5
<1>7. PICK name \in Names : at = Inside(dir, name)
  BY <1>6
<1>8. dir.path \in Seq(Names) /\ dir = At(dir.root, dir.path)
  BY PlacesAre DEF Anywhere
<1>9. at.root = dir.root /\ at.path = Append(dir.path, name)
  BY <1>7, PlacesAre DEF Inside
<1>10. at \in Anywhere
  BY <1>7, <1>8, AppendIs DEF Anywhere, Inside, At
<1>11. At(at.root, Front(at.path)) = dir /\ Last(at.path) = name
  BY <1>8, <1>9, AppendIs
<1> QED BY <1>1, <1>10, <1>11, EnterKeeps DEF Opened

\* The copy differs from what it was only where the compiler has written.
LEMMA CompilerWrites ==
  ASSUME CopyInv, Unedited, Compile
  PROVE  /\ DOMAIN temp \subseteq DOMAIN temp'
         /\ \A p \in Seq(Names) :
              \/ InCopy(p) \in written'
              \/ /\ Moved(p) \in DOMAIN temp' <=> Moved(p) \in DOMAIN temp
                 /\ Moved(p) \in DOMAIN temp => temp'[Moved(p)] = temp[Moved(p)]
<1>1. pc = "compile" /\ \E entry : ProgramWrites(entry)
  BY DEF Compile
<1>2. CASE temp' = temp
  BY <1>2
<1>3. CASE \E at, entry : Write(at, entry) /\ at \in written' /\ at \in Anywhere
  <2>1. PICK at, entry : Write(at, entry) /\ at \in written' /\ at \in Anywhere
    BY <1>3
  <2>2. CASE at.root # "temp"
    BY <1>2, <2>1, <2>2 DEF Write
  <2>3. CASE at.root = "temp"
    <3>1. DOMAIN temp' = DOMAIN temp \cup {at.path}
          /\ \A q \in DOMAIN temp : q # at.path => temp'[q] = temp[q]
      BY <2>1, <2>3, PutIs DEF Write, Put
    <3>2. ASSUME NEW p \in Seq(Names), Moved(p) = at.path PROVE InCopy(p) \in written'
      <4>1. InCopy(p) = At("temp", Moved(p))
        BY DEF InCopy, Moved
      <4>2. at = At("temp", at.path)
        BY <2>1, <2>3, PlacesAre
      <4> QED BY <2>1, <3>2, <4>1, <4>2
    <3> QED BY <3>1, <3>2
  <2> QED BY <2>2, <2>3
<1>4. \/ temp' = temp
      \/ \E at \in Outputs : \E entry : Write(Opened(at), entry) /\ Opened(at) \in written'
  BY <1>1 DEF ProgramWrites
<1> QED BY <1>1, <1>2, <1>3, <1>4, CompilerOpens

LEMMA CompileFaithful ==
  ASSUME CopyInv, Unedited, Faithful, Compile
  PROVE  Faithful'
<1>1. CASE pc' = "remove"
  BY <1>1, OffStage
<1>2. CASE pc' # "remove"
  <2>1. pc = "compile" /\ pc' = "rewrite" /\ case' = case /\ frames = <<>>
    BY <1>2, Working DEF Compile
  <2>2. project = case.tree /\ DOMAIN project \subseteq Seq(Names)
    BY <2>1 DEF CopyInv, Placed, IsTree, Unedited
  <2>3. \A p \in DOMAIN project : Belongs(p) <=> p \in Copied
    BY <2>2 DEF Belongs, Wanted, Copied
  <2> DEFINE mutant == case.candidate.at.path
             Edited(p) == IF p = mutant THEN File(case.tree[p].text, "mutated") ELSE case.tree[p]
  <2>4. ASSUME NEW p \in DOMAIN case.tree
        PROVE  /\ Moved(p) \in DOMAIN temp => p \in Copied /\ temp[Moved(p)] = Edited(p)
               /\ p \in Copied => Moved(p) \in DOMAIN temp
    <3>1. Counterpart(p) = Edited(p)
      BY <2>1, <2>2 DEF Counterpart
    <3> HIDE DEF Edited
    <3>2. Moved(p) \in DOMAIN temp => Belongs(p) /\ temp[Moved(p)] = Counterpart(p)
      BY <2>1, <2>2, OnePlace DEF Faithful, Stages
    <3>3. ~Due(frames, p)
      BY <2>1, NoFrames
    <3>4. Belongs(p) => Moved(p) \in DOMAIN temp
      BY <2>1, <2>2, <3>3 DEF Faithful, AllThere, Stages
    <3> QED BY <2>2, <2>3, <3>1, <3>2, <3>4
  <2> HIDE DEF mutant
  <2>5. ASSUME NEW p \in DOMAIN case.tree PROVE CopyOf(p)'
    <3>1. InCopy(p).path = Moved(p)
      BY <2>2, MovedIs
    <3>2. \/ InCopy(p) \in written'
          \/ /\ Moved(p) \in DOMAIN temp' <=> Moved(p) \in DOMAIN temp
             /\ Moved(p) \in DOMAIN temp => temp'[Moved(p)] = temp[Moved(p)]
      BY <2>2, CompilerWrites
    <3>3. Copied' = Copied /\ InCopy(p)' = InCopy(p)
      BY <2>1 DEF Copied, InCopy
    <3> QED BY <2>1, <2>4, <3>1, <3>2, <3>3 DEF CopyOf, mutant
  <2>6. Compiled'
    <3>1. /\ case.candidate.at.root = "project" /\ mutant \in Copied
          /\ case.tree[mutant].text = case.candidate.text
      BY <2>1, <2>2, <2>3 DEF Faithful, Found, Stages, mutant
    <3>2. Copied' = Copied
      BY <2>1 DEF Copied
    <3> QED BY <2>1, <2>5, <3>1, <3>2 DEF Compiled, mutant
  <2>7. (Chosen /\ NothingElse /\ AllThere /\ Found /\ Commanded)'
    BY <2>1 DEF Chosen, NothingElse, AllThere, Found, Commanded, Stages
  <2> QED BY <2>6, <2>7 DEF Faithful
<1> QED BY <1>1, <1>2

\* What the compiler has left, when nothing is written.
LEMMA CompiledStays ==
  ASSUME Compiled, pc' \in {"rewrite", "test"} => pc \in {"rewrite", "test"},
         case' = case, temp' = temp, written' = written
  PROVE  Compiled'
<1>1. Copied' = Copied
  BY DEF Copied
<1>2. \A p : CopyOf(p)' = CopyOf(p)
  BY <1>1 DEF CopyOf, InCopy
<1> QED BY <1>1, <1>2 DEF Compiled

LEMMA RewriteCommandFaithful ==
  ASSUME Faithful, RewriteCommand
  PROVE  Faithful'
<1>1. CASE pc' = "remove"
  BY <1>1, OffStage
<1>2. CASE pc' # "remove"
  <2>1. /\ pc = "rewrite" /\ pc' = "test" /\ case' = case /\ temp' = temp
        /\ written' = written
    BY <1>2 DEF RewriteCommand, history
  <2>2. Compiled'
    BY <2>1, CompiledStays DEF Faithful
  <2>3. (Chosen /\ NothingElse /\ AllThere /\ Found /\ Commanded)'
    BY <2>1 DEF Chosen, NothingElse, AllThere, Found, Commanded, Stages
  <2> QED BY <2>2, <2>3 DEF Faithful
<1> QED BY <1>1, <1>2

LEMMA NothingFaithful ==
  ASSUME CopyInv, Unedited, Faithful, UNCHANGED vars
  PROVE  Faithful'
<1>1. /\ pc' = pc /\ case' = case /\ project' = project /\ temp' = temp /\ frames' = frames
      /\ written' = written /\ command' = command
  BY DEF vars
<1>2. Wanted' = Wanted /\ \A p : Belongs(p)' = Belongs(p) /\ Counterpart(p)' = Counterpart(p)
  BY <1>1, SameProject DEF Counterpart
<1>3. (Chosen /\ NothingElse /\ AllThere /\ Found)'
  <2>1. Chosen'
    BY <1>1, <1>2 DEF Faithful, Chosen
  <2>2. NothingElse'
    BY <1>1, <1>2 DEF Faithful, NothingElse
  <2>3. AllThere'
    BY <1>1, <1>2 DEF Faithful, AllThere
  <2>4. Found'
    BY <1>1, <1>2 DEF Faithful, Found
  <2> QED BY <2>1, <2>2, <2>3, <2>4
<1>4. Compiled'
  BY <1>1, CompiledStays DEF Faithful
<1>5. Commanded'
  <2>1. CASE pc = "compile"
    <3>1. PICK r : r = command.directory
      OBVIOUS
    <3>2. PICK s : s = command.arguments
      OBVIOUS
    <3>3. project = case.tree
      BY <2>1 DEF Unedited
    <3> QED BY <1>1, <2>1, <3>1, <3>2, <3>3, CommandStays DEF Faithful, Commanded
  <2>2. CASE pc # "compile"
    BY <1>1, <2>2 DEF Commanded
  <2> QED BY <2>1, <2>2
<1> QED BY <1>3, <1>4, <1>5 DEF Faithful

LEMMA FaithfulHolds == Spec => [](~Mistaken => Faithful)
<1>1. Init => Faithful
  BY DEF Init, Faithful, Chosen, NothingElse, AllThere, Found, Commanded, Compiled, Stages
<1>2. CopyInv /\ Unedited /\ (~Mistaken => Faithful) /\ [Next]_vars => (~Mistaken' => Faithful')
  <2> SUFFICES ASSUME CopyInv, Unedited, Faithful, [Next]_vars, ~Mistaken PROVE Faithful'
    <3>1. [Next]_vars => case' = case
      BY DEF Next, vars, MakeTree, CopyTop, CopyEntry, EndDirectory, CopyFails, ApplyCandidate,
             BuildCompileCommand, Compile, RewriteCommand, RunTest, RemoveTop, RemoveEntry,
             LeaveDirectory, StragglerWrites, Finished
    <3>2. case' = case => Mistaken' = Mistaken
      BY DEF Mistaken
    <3> QED BY <3>1, <3>2
  <2>1. CASE MakeTree
    BY <2>1, MakeTreeFaithful
  <2>2. CASE CopyTop
    BY <2>2, CopyTopFaithful
  <2>3. CASE CopyEntry
    BY <2>3, CopyEntryFaithful
  <2>4. CASE EndDirectory
    BY <2>4, EndDirectoryFaithful
  <2>5. CASE ApplyCandidate
    BY <2>5, ApplyCandidateFaithful
  <2>6. CASE BuildCompileCommand
    BY <2>6, BuildCompileCommandFaithful
  <2>7. CASE Compile
    BY <2>7, CompileFaithful
  <2>8. CASE RewriteCommand
    BY <2>8, RewriteCommandFaithful
  <2>9. CASE CopyFails \/ RunTest \/ RemoveTop \/ RemoveEntry \/ LeaveDirectory \/ StragglerWrites
    <3>1. pc' \in {"remove", "done"}
      BY <2>9 DEF CopyFails, RunTest, RemoveTop, RemoveEntry, LeaveDirectory, StragglerWrites
    <3> QED BY <3>1, OffStage
  <2>10. CASE Finished \/ UNCHANGED vars
    BY <2>10, NothingFaithful DEF Finished
  <2> QED BY <2>1, <2>2, <2>3, <2>4, <2>5, <2>6, <2>7, <2>8, <2>9, <2>10 DEF Next
<1> QED BY <1>1, <1>2, CopyInvHolds, UneditedHolds, PTL DEF Spec

\* When the test runs, the copy is the project with this candidate's edit and
\* no other, but for what the compiler has written, and the compiler has been given
\* the edited file.
THEOREM TestedMutant == Spec => []MutantIsTested
<1>1. CopyInv /\ Unedited /\ (~Mistaken => Faithful) => MutantIsTested
  <2> SUFFICES ASSUME CopyInv, Unedited, Faithful, ~Mistaken PROVE MutantIsTested
    BY DEF MutantIsTested
  <2> DEFINE mutant == case.candidate.at.path
             sources == {a \in ToSet(case.compile.arguments) : a.as = "file"}
  <2>1. pc = "compile" /\ CanRun /\ (\A a \in sources : Relocatable(a)) =>
          InCopy(mutant) \in Files
    BY ReadsMutant
  <2>2. pc = "test" =>
          /\ case.candidate.at.root = "project"
          /\ mutant \in Copied /\ case.tree[mutant].text = case.candidate.text
          /\ \A p \in DOMAIN case.tree : CopyOf(p)
    BY DEF Faithful, Compiled
  <2> QED BY <2>1, <2>2 DEF MutantIsTested, CopyOf
<1> QED BY <1>1, CopyInvHolds, UneditedHolds, FaithfulHolds, PTL
=============================================================================
