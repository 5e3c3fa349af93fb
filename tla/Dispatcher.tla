----------------------------- MODULE Dispatcher -----------------------------
(***************************************************************************)
(* What the invoker promises to its users, without pokes, starts, sessions *)
(* or caches: requests wait in one queue, are dispatched in the order of   *)
(* their arrival, each once and to one core with room for it, and retire.  *)
(* Invoker implements it (Invoker!DispatcherSpec).                         *)
(***************************************************************************)
EXTENDS Naturals, Sequences, FiniteSets

CONSTANTS Core, Request, ConcurrencyLimit

VARIABLES
  waiting,     \* requests in order of arrival
  serving,     \* the requests each core is serving
  served,      \* requests that have retired
  up           \* FALSE once the node has aborted

dvars == <<waiting, serving, served, up>>

Known(t) == t \in served \/ (\E i \in DOMAIN waiting : waiting[i] = t)
                         \/ (\E c \in Core : t \in serving[c])

DInit ==
  /\ waiting = <<>>
  /\ serving = [c \in Core |-> {}]
  /\ served = {}
  /\ up = TRUE

Arrive(t) ==
  /\ up
  /\ ~Known(t)
  /\ waiting' = Append(waiting, t)
  /\ UNCHANGED <<serving, served, up>>

Dispatch(c) ==
  /\ up
  /\ waiting # <<>>
  /\ Cardinality(serving[c]) < ConcurrencyLimit
  /\ waiting' = Tail(waiting)
  /\ serving' = [serving EXCEPT ![c] = @ \cup {Head(waiting)}]
  /\ UNCHANGED <<served, up>>

Retire(c, t) ==
  /\ up
  /\ t \in serving[c]
  /\ serving' = [serving EXCEPT ![c] = @ \ {t}]
  /\ served' = served \cup {t}
  /\ UNCHANGED <<waiting, up>>

Crash ==
  /\ up
  /\ up' = FALSE
  /\ UNCHANGED <<waiting, serving, served>>

DNext ==
  \/ \E t \in Request : Arrive(t)
  \/ \E c \in Core : Dispatch(c)
  \/ \E c \in Core, t \in Request : Retire(c, t)
  \/ Crash

DSpec == DInit /\ [][DNext]_dvars

\* While the node is up the queue moves, and whatever is served retires.
DFairSpec ==
  /\ DSpec
  /\ WF_dvars(\E c \in Core : Dispatch(c))
  /\ \A c \in Core, t \in Request : WF_dvars(Retire(c, t))

=============================================================================
