----------------------------- MODULE MCFrontEnd -----------------------------
(* Instances of FrontEnd for TLC.                                          *)
EXTENDS FrontEnd

CONSTANTS a1, a2, tid1, tid2

\* One id per transaction.
MCTidOf == [a \in Act |-> IF a = a1 THEN tid1 ELSE tid2]

\* One action, and keys that tell its versions apart.
MCActionOf == [a \in Act |-> "action"]
MCKey == Action \X (1 .. MaxVersion)
MCKeyOf == [k \in MCKey |-> k]

=============================================================================
