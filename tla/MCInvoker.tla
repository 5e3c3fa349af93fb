----------------------------- MODULE MCInvoker -----------------------------
(***************************************************************************)
(* Instances of Invoker for TLC.  Cores c0 (messenger), c1, c2; requests   *)
(* t1, t2, t3, of which t1 and t2 invoke the same function.                *)
(***************************************************************************)
EXTENDS Invoker, TLC

CONSTANTS c0, c1, c2, t1, t2, t3, f1, f2

\* Two requests for one function and one for another.
MCFidOf == [t \in Request |-> IF t = t3 THEN f2 ELSE f1]

\* All requests invoke the same function.
MCOneFunction == [t \in Request |-> f1]

\* Every request invokes its own function.
MCOwnFunction == [t \in Request |-> IF t = t1 THEN f1 ELSE f2]

\* Every request has an id of its own.
MCOwnTid == [t \in Request |-> t]

\* The request for the second function has the id of one for the first.
MCSharedTid == [t \in Request |-> IF t = t3 THEN t2 ELSE t]

\* The two worker cores are interchangeable, and so are two requests for the
\* same function: no property of these runs tells them apart.
Symmetry == Permutations({c1, c2} \cap Core) \cup Permutations({t1, t2})

=============================================================================
