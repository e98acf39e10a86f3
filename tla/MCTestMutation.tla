--------------------------- MODULE MCTestMutation ---------------------------
(* Command lines for checking TestMutation with TLC: every line of up to     *)
(* three of these pieces, and longer ones that end in a whole run.           *)
EXTENDS TestMutation

Pieces ==
  {<<"-h">>, <<"--help">>, <<"--list">>, <<"-d:json">>, <<"-d:xml">>, <<"-x">>, <<"project">>,
   <<"--compile-db">>, <<"--compile-db", "db">>, <<"--compile-db", "--">>,
   <<"--operator", "branch">>, <<"--operator", "brunch">>,
   <<"--max-mutants", "2">>, <<"--max-mutants", "0">>, <<"--max-mutants", "9">>,
   <<"--timeout", "0">>, <<"--timeout", "1.5">>,
   <<"--">>, <<"--", "make", "--list", "--max-mutants", "1">>}

Short == UNION {[1 .. n -> Pieces] : n \in 0 .. 3}

\* The later of two counts, and one operator more than there is room for.
Long ==
  {<<<<"--compile-db", "db">>, a, b, <<"project">>, <<"--", "make">>>> :
     a, b \in {<<"--max-mutants", "1">>, <<"--max-mutants", "2">>, <<"--operator", "call">>}}

MCLines == {FlattenSeq(s) : s \in Short \cup Long}

MCNumbers == [word \in {"0", "1", "2", "9"} |->
                CASE word = "0" -> 0 [] word = "1" -> 1 [] word = "2" -> 2 [] word = "9" -> 9]
=============================================================================
