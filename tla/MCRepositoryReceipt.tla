------------------------- MODULE MCRepositoryReceipt -------------------------
(* Directories for checking RepositoryReceipt with TLC.                      *)
EXTENDS RepositoryReceipt

Is(u, f) == [result |-> TRUE, good |-> TRUE, unit |-> u, fuzz |-> f]

Clean == Is("PASS", "PASS")

\* One file of every kind ...
Kinds == {Clean, Is("PASS", "MISSING"), Is("FAIL", "PASS"), Is("MISSING", "PASS"),
          Is("PASS", "FAIL"), Is("TIMEOUT", "PASS"), Is("PASS", "TIMEOUT"),
          [Clean EXCEPT !.good = FALSE], [Clean EXCEPT !.result = FALSE]}

\* ... or two of them, beside clean ones: up to one more than there is room for.
MCDirectories ==
  {[n \in {} |-> Clean]}
  \cup UNION {{[n \in names |-> IF n = first THEN k ELSE IF n = second THEN l ELSE Clean] :
                 first \in names, second \in names, k \in Kinds, l \in Kinds} :
                names \in SUBSET Names \ {{}}}
=============================================================================
