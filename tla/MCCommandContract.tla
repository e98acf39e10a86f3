------------------------- MODULE MCCommandContract -------------------------
(* Behaviours and values for checking CommandContract with TLC: per mode,    *)
(* what that mode looks at varies and the rest is fixed.                     *)
EXTENDS CommandContract

CONSTANTS MaxTicks, MaxMillis, MaxOverhead

MCOverheads == 0 .. MaxOverhead

Bytes(b, n) == [bytes |-> b, size |-> n, probe |-> FALSE]

Quiet == [signalled |-> FALSE, code |-> 0, out |-> Bytes("x", 0), error |-> Bytes("x", 0),
          manifest |-> Unwritten, lasts |-> 0]

Sizes == 0 .. SizeModulus - 2

Endings == {Quiet, [Quiet EXCEPT !.code = 7], [Quiet EXCEPT !.code = 127],
            [Quiet EXCEPT !.signalled = TRUE]}

Printing == {[Quiet EXCEPT !.out = Bytes(b, n), !.error = Bytes(c, m)] :
               b \in {"x", "y"}, c \in {"x", "y"}, n \in 0 .. 1, m \in 0 .. 1}

MCBehaviours == [m \in Modes |->
  CASE m = "determinism" -> Endings \cup Printing
    [] m = "side-effect-determinism" ->
         {[b EXCEPT !.manifest = f] : b \in {Quiet, [Quiet EXCEPT !.code = 7]},
                                      f \in {Unwritten, "f", "g"}}
    [] m = "redaction" -> {[Quiet EXCEPT !.out.probe = p, !.error.probe = q] :
                             p \in BOOLEAN, q \in BOOLEAN}
    [] m = "output-limit" -> {[Quiet EXCEPT !.out = Bytes("x", n), !.error = Bytes("x", k)] :
                                n \in Sizes, k \in Sizes}
    [] m = "time-limit" -> {[Quiet EXCEPT !.lasts = t] : t \in 0 .. MaxTicks}
    [] OTHER -> Endings]

MCValues == [m \in Modes |->
  CASE m = "determinism" -> {}
    [] m = "side-effect-determinism" -> {0}
    [] m = "redaction" -> {0, Empty}
    [] m = "output-limit" -> 0 .. 2 * SizeModulus \cup {Garbled}
    [] m = "time-limit" -> 0 .. MaxMillis \cup {Garbled}
    [] OTHER -> {0, 7, 255, 256, 263, Garbled}]
=============================================================================
