------------------------------ MODULE MCStartup ------------------------------
(* Instances of Startup for TLC.                                           *)
EXTENDS Startup

Line(mode, natives, S, R) ==
  [mode |-> mode, usable |-> TRUE, complete |-> TRUE, file |-> "good", elf32 |-> TRUE,
   natives |-> natives, C |-> 12, S |-> S, R |-> R]

\* Every mode, up to three nodes, the limits in all combinations, and each way
\* for main to refuse.
MCOptions ==
  {Line("default", 1, S, R) : S, R \in {0, 7}}
    \cup {Line("default", n, 7, 5) : n \in {0, 2, 3}}
    \cup {Line(mode, 1, 7, 5) : mode \in {"benchmark", "null", "other"}}
    \cup {[Line("default", 1, 7, 5) EXCEPT !.usable = FALSE],
          [Line("null", 1, 7, 5) EXCEPT !.complete = FALSE],
          [Line("benchmark", 1, 7, 5) EXCEPT !.file = "bad"],
          [Line("benchmark", 1, 7, 5) EXCEPT !.elf32 = FALSE]}

=============================================================================
