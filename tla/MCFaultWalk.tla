---------------------------- MODULE MCFaultWalk ----------------------------
(* Bounds and values for checking FaultWalk with TLC.                        *)
EXTENDS FaultWalk

CONSTANTS MaxCases  \* the largest -n of a well-formed request

Plain == [help |-> FALSE, badOption |-> FALSE, command |-> TRUE, emptyText |-> FALSE,
          mode |-> "plain", name |-> FALSE, errno |-> FALSE, garbled |-> FALSE, max |-> MaxCases]

\* Well-formed requests with every bound, and requests with one defect.
MCRequests ==
  {[Plain EXCEPT !.max = m] : m \in 0 .. MaxCases}
  \cup {[Plain EXCEPT !.errno = TRUE, !.name = TRUE, !.mode = "named", !.max = 1],
        [Plain EXCEPT !.max = MaxFailuresLimit + 1],
        [Plain EXCEPT !.garbled = TRUE], [Plain EXCEPT !.mode = "unknown"],
        [Plain EXCEPT !.mode = "named"], [Plain EXCEPT !.emptyText = TRUE],
        [Plain EXCEPT !.command = FALSE], [Plain EXCEPT !.help = TRUE],
        [Plain EXCEPT !.help = TRUE, !.badOption = TRUE]}

MCNames == {NoName, "p101_read", "p101_old"}

Fault(n) == [kind |-> "fault", name |-> n]
Bad      == [kind |-> "damaged", name |-> NoName]
Other    == [kind |-> "other", name |-> NoName]

Parsed(n) == [file |-> "parsed", findings |-> n]
Failed(f) == [file |-> f, findings |-> 0]

Good(status, log, n) ==
  [status |-> status, logged |-> TRUE, faults |-> log,
   resources |-> Parsed(0), analysis |-> Parsed(n)]

Nil == [status |-> "success", logged |-> FALSE, faults |-> <<>>,
        resources |-> Failed("absent"), analysis |-> Failed("absent")]

HitRead == Good("findings", <<Fault("p101_read")>>, 1)
HitAnon == Good("success", <<Other, Fault(NoName), Bad>>, 0)

\* Complete evidence with and without a hit or a finding, and evidence with one
\* defect: each would be a verdict if the defect were overlooked.
MCWorlds ==
  {HitRead, HitAnon,
   Good("success", <<Other>>, 0), Good("findings", <<>>, 0), Good("findings", <<>>, 1),
   [HitRead EXCEPT !.status = "other"], [HitAnon EXCEPT !.logged = FALSE],
   [HitRead EXCEPT !.faults = <<Bad>> \o @],
   [HitRead EXCEPT !.resources = Failed("unreadable")],
   [HitRead EXCEPT !.analysis = Failed("absent")],
   [HitAnon EXCEPT !.analysis = Failed("garbled")]}

\* A caller that itself runs under the tools; a clean one differs from it only
\* until the first case has cleared the variables.
MCInheritedSets == {Controls}

\* No call fails, or two do.
MCFailureSets == {{}, {"call", "errno"}}

\* An earlier campaign's files, each of which can stand in for a missing one.
MCLeftover == Good("findings", <<Fault("p101_old")>>, 1)
=============================================================================
