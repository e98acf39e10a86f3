---------------------------- MODULE MCConformance ----------------------------
(* Files for checking Conformance with TLC: one complete set, and every set   *)
(* with one or two defects.                                                   *)
EXTENDS Conformance

Api(n)         == [bad |-> FALSE, name |-> n, usr |-> n]
Test(u, f)     == [bad |-> FALSE, usr |-> u, fault |-> f]
Needs(u, a, r) == [bad |-> FALSE, usr |-> u, arguments |-> a, result |-> r]
Sym(s, c)      == [symbol |-> s, conditional |-> c]
Faults(u, ss)  == [bad |-> FALSE, usr |-> u, wrapper |-> u, symbols |-> ss]
Trace(u, o, e) == [bad |-> FALSE, ours |-> o, usr |-> u, env |-> e]
Call(n, k, p, l) == [bad |-> FALSE, name |-> n, kind |-> k, present |-> p, logged |-> l]
Out(w, s, p)   == [bad |-> FALSE, wrapper |-> w, symbol |-> s, pass |-> p]

Complete ==
  [help |-> FALSE, refused |-> FALSE, known |-> TRUE, audited |-> TRUE, macros |-> {"EIO"},
   apis |-> <<Api("open"), Api("size")>>,
   tests |-> <<Test("open", TRUE), Test("size", FALSE)>>,
   contracts |-> <<Needs("open", TRUE, TRUE), Needs("size", FALSE, FALSE)>>,
   faults |-> <<Faults("open", <<Sym("ENOENT", FALSE), Sym("EIO", TRUE), Sym("ENONE", TRUE)>>)>>,
   traces |-> <<Trace("open", TRUE, TRUE), Trace("size", TRUE, FALSE), Trace("x", FALSE, TRUE)>>,
   calls |-> <<Call("open", "enter", TRUE, TRUE), Call("open", "exit", TRUE, TRUE),
               Call("x", "other", FALSE, FALSE)>>,
   outcomes |-> <<Out("open", "ENOENT", TRUE), Out("open", "EIO", TRUE)>>]

\* Drop row i, repeat it at the end, or make it malformed.
Drop(s, i)   == SubSeq(s, 1, i - 1) \o SubSeq(s, i + 1, Len(s))
Repeat(s, i) == Append(s, s[i])
Spoil(s, i)  == [s EXCEPT ![i] = Bad]

Defects(x) ==
  UNION {UNION {{[x EXCEPT ![f] = Drop(@, i)], [x EXCEPT ![f] = Repeat(@, i)],
                 [x EXCEPT ![f] = Spoil(@, i)]} : i \in DOMAIN x[f]} : f \in Range(Files)}
  \cup {[x EXCEPT !.macros = {}], [x EXCEPT !.known = FALSE], [x EXCEPT !.audited = FALSE],
        [x EXCEPT !.help = TRUE], [x EXCEPT !.refused = TRUE],
        [x EXCEPT !.calls = Append(@, Call("open", "enter", TRUE, FALSE))],
        [x EXCEPT !.calls = @ \o <<Call("open", "enter", FALSE, FALSE),
                                   Call("open", "exit", TRUE, FALSE)>>],
        [x EXCEPT !.outcomes = Append(@, Out("open", "ENONE", TRUE))],
        [x EXCEPT !.tests = <<Test("open", TRUE), Test("size", TRUE)>>],
        [x EXCEPT !.traces = Append(@, Trace("size", TRUE, TRUE))],
        [x EXCEPT !.traces = Append(@, Trace("open", TRUE, FALSE))]}
  \cup {[x EXCEPT !.outcomes[i] = Out("open", "ENOENT", FALSE)] : i \in DOMAIN x.outcomes}

MCInputs == {Complete} \cup Defects(Complete) \cup UNION {Defects(x) : x \in Defects(Complete)}
=============================================================================
