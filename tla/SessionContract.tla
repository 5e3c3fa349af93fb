--------------------------- MODULE SessionContract ---------------------------
(***************************************************************************)
(* What the invoker relies on in one InvocationSession: while the event    *)
(* that opened it is blocked it may reply once, it finishes once with a    *)
(* status, and only then does the blocked event return with that status.   *)
(* A reply may still come after a failure has been signalled, never after  *)
(* a success.  Actions Executed, Closed, Aborted and Resume* of Invoker    *)
(* are this contract; InvocationSession implements it.                     *)
(***************************************************************************)
CONSTANTS NoStatus

VARIABLES
  status,      \* NoStatus, or the status given to Finish
  replied,     \* Resolve was called
  returned,    \* the blocked event has returned and deleted the session
  broken       \* the session met undefined behaviour: anything may follow

cvars == <<status, replied, returned, broken>>

CInit ==
  /\ status = NoStatus
  /\ replied = FALSE
  /\ returned = FALSE
  /\ broken = FALSE

Reply ==
  /\ ~broken /\ ~returned /\ ~replied
  /\ status # "true"
  /\ replied' = TRUE
  /\ UNCHANGED <<returned, broken>>

Finish ==
  /\ ~broken /\ ~returned
  /\ status = NoStatus
  /\ status' \in {"true", "false"}
  /\ UNCHANGED <<returned, broken>>

\* A failed response is one event: Finish(false), then the reply.
FailAndReply == Reply /\ status = NoStatus /\ status' = "false"

Return ==
  /\ ~broken /\ ~returned
  /\ status # NoStatus
  /\ returned' = TRUE
  /\ UNCHANGED <<status, replied, broken>>

Break ==
  /\ ~broken
  /\ broken' = TRUE
  /\ status' \in {NoStatus, "true", "false"}
  /\ replied' \in BOOLEAN
  /\ returned' \in BOOLEAN

CNext ==
  \/ Reply /\ UNCHANGED status
  \/ Finish /\ UNCHANGED replied
  \/ FailAndReply
  \/ Return
  \/ Break

CSpec == CInit /\ [][CNext]_cvars

\* The contract the invoker's progress rests on: the blocked event returns.
CFairSpec == CSpec /\ <>(returned \/ broken)

=============================================================================
