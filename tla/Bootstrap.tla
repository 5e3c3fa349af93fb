------------------------------ MODULE Bootstrap ------------------------------
(***************************************************************************)
(* Startup of the native node (seuss::Init, Invoker::Init and              *)
(* InvokerRoot::Bootstrap, src/src/SeussInvoker.cc): one event creates the *)
(* channel and the invoker of every core, boots an instance to capture the *)
(* preinit snapshot, boots a second one from it to run a warm-up function  *)
(* and capture the base snapshot, and only then sets is_bootstrapped_.     *)
(* Requests may arrive as soon as the channel exists.                      *)
(***************************************************************************)
EXTENDS Naturals

CONSTANTS
  Count,         \* cores
  MaxRequests,   \* bound: requests that arrive
  NDEBUG         \* TRUE when kassert is compiled out

ASSUME BootAssumption ==
  /\ Count \in Nat \ {0}
  /\ MaxRequests \in Nat
  /\ NDEBUG \in BOOLEAN

VARIABLES
  boot,               \* where the startup event is
  inited,             \* the number of cores whose invoker is initialised
  preinit_env_,       \* the snapshot of the first boot was captured
  base_um_env_,       \* the base snapshot was captured
  is_bootstrapped_,
  armed,              \* the running instance has a checkpoint to reach
  halts,              \* umm::manager->Halt() events queued
  session,            \* the warm-up's session
  arrived,            \* requests received
  waiting,            \* requests in the queue
  node                \* "up", "aborted", or "undefined" behaviour reached

snapshots == <<preinit_env_, base_um_env_, is_bootstrapped_>>
run       == <<armed, halts, session>>
requests  == <<arrived, waiting>>
vars == <<boot, inited, snapshots, run, requests, node>>

Init ==
  /\ boot = "start"
  /\ inited = 0
  /\ preinit_env_ = FALSE
  /\ base_um_env_ = FALSE
  /\ is_bootstrapped_ = FALSE
  /\ armed = FALSE
  /\ halts = 0
  /\ session = "none"
  /\ arrived = 0
  /\ waiting = 0
  /\ node = "up"

Up == node = "up"

\* The SeussChannel comes first.
CreateChannel ==
  /\ Up
  /\ boot = "start"
  /\ boot' = "init"
  /\ UNCHANGED <<inited, snapshots, run, requests, node>>

\* The startup event blocks until the invoker of one more core has run Init.
InitCore ==
  /\ Up
  /\ boot = "init"
  /\ inited < Count
  /\ inited' = inited + 1
  /\ UNCHANGED <<boot, snapshots, run, requests, node>>

\* Bootstrap: the first instance is loaded, with its checkpoint, and run.
RunPreinit ==
  /\ Up
  /\ boot = "init"
  /\ inited = Count
  /\ boot' = "preinit"
  /\ armed' = TRUE
  /\ UNCHANGED <<inited, snapshots, halts, session, requests, node>>

\* Mutant: the handler of the first checkpoint loses the snapshot.
PreinitCheckpointLost ==
  /\ Up
  /\ boot = "preinit"
  /\ armed
  /\ armed' = FALSE
  /\ halts' = halts + 1
  /\ UNCHANGED <<boot, inited, snapshots, session, requests, node>>

\* The first instance reaches its checkpoint: captured, and Halt queued.
PreinitCheckpoint ==
  /\ Up
  /\ boot = "preinit"
  /\ armed
  /\ armed' = FALSE
  /\ preinit_env_' = TRUE
  /\ halts' = halts + 1
  /\ UNCHANGED <<boot, inited, base_um_env_, is_bootstrapped_, session, requests, node>>

\* Halt ends the first Run; the second instance, its session and its checkpoint.
RunWarmup ==
  /\ Up
  /\ boot = "preinit"
  /\ halts > 0
  /\ halts' = halts - 1
  /\ boot' = "warmup"
  /\ armed' = TRUE
  /\ session' = "open"
  /\ UNCHANGED <<inited, snapshots, requests, node>>

\* Mutant: this handler queues a Halt too, like the first one.
WarmupCheckpointHalts ==
  /\ Up
  /\ boot = "warmup"
  /\ armed
  /\ armed' = FALSE
  /\ base_um_env_' = TRUE
  /\ halts' = halts + 1
  /\ UNCHANGED <<boot, inited, preinit_env_, is_bootstrapped_, session, requests, node>>

\* The second instance reaches its checkpoint.
WarmupCheckpoint ==
  /\ Up
  /\ boot = "warmup"
  /\ armed
  /\ armed' = FALSE
  /\ base_um_env_' = TRUE
  /\ UNCHANGED <<boot, inited, preinit_env_, is_bootstrapped_, halts, session,
                 requests, node>>

\* Mutant: the close queues no Halt.
WarmupClosedSilently ==
  /\ Up
  /\ session = "open"
  /\ session' = "closed"
  /\ UNCHANGED <<boot, inited, snapshots, armed, halts, requests, node>>

\* The warm-up's connection closes, after its reply or without one.
WarmupClosed ==
  /\ Up
  /\ session = "open"
  /\ session' = "closed"
  /\ halts' = halts + 1
  /\ UNCHANGED <<boot, inited, snapshots, armed, requests, node>>

\* It is reset, or its timer fires: kabort.
WarmupAborted ==
  /\ Up
  /\ session = "open"
  /\ session' = "aborted"
  /\ node' = "aborted"
  /\ UNCHANGED <<boot, inited, snapshots, armed, halts, requests>>

\* Halt ends the second Run.
Bootstrapped ==
  /\ Up
  /\ boot = "warmup"
  /\ halts > 0
  /\ halts' = halts - 1
  /\ boot' = "done"
  /\ armed' = FALSE
  /\ is_bootstrapped_' = TRUE
  /\ UNCHANGED <<inited, preinit_env_, base_um_env_, session, requests, node>>

\* A request is received and queued; nothing asks whether the node is ready.
Queue ==
  /\ Up
  /\ boot # "start"
  /\ arrived < MaxRequests
  /\ arrived' = arrived + 1
  /\ waiting' = waiting + 1
  /\ UNCHANGED <<boot, inited, snapshots, run, node>>

\* A poked core takes it: no snapshot of the function, hence GetBaseSV.  Both
\* assert is_bootstrapped_; without kassert the pointer is used as it is.
Start ==
  /\ Up
  /\ waiting > 0
  /\ waiting' = waiting - 1
  /\ node' = CASE ~is_bootstrapped_ /\ ~NDEBUG -> "aborted"
               [] base_um_env_                 -> node
               [] OTHER                        -> "undefined"
  /\ UNCHANGED <<boot, inited, snapshots, run, arrived>>

\* The node is up for good, or it is down.
Terminated ==
  /\ ~Up \/ (boot = "done" /\ waiting = 0)
  /\ UNCHANGED vars

\* What the event loop runs of itself.
Boot == CreateChannel \/ InitCore \/ RunPreinit \/ RunWarmup \/ Bootstrapped

Next ==
  \/ Boot
  \/ PreinitCheckpoint \/ WarmupCheckpoint
  \/ WarmupClosed \/ WarmupAborted
  \/ Queue \/ Start
  \/ Terminated

Spec == Init /\ [][Next]_vars

\* Events are run, and the session of the warm-up ends: its timer sees to it.
\* Nothing obliges an instance to reach its checkpoint.
FairSpec == Spec /\ WF_vars(Boot) /\ WF_vars(WarmupClosed \/ WarmupAborted)

-----------------------------------------------------------------------------
(* Properties.                                                             *)

TypeOK ==
  /\ boot \in {"start", "init", "preinit", "warmup", "done"}
  /\ inited \in 0 .. Count
  /\ preinit_env_ \in BOOLEAN /\ base_um_env_ \in BOOLEAN
  /\ is_bootstrapped_ \in BOOLEAN
  /\ armed \in BOOLEAN /\ halts \in Nat
  /\ session \in {"none", "open", "closed", "aborted"}
  /\ arrived \in 0 .. MaxRequests /\ waiting \in 0 .. arrived
  /\ node \in {"up", "aborted", "undefined"}

\* The second instance is deployed from a snapshot that was taken, and a node
\* that is bootstrapped has initialised the invoker of every core.
SnapshotsInOrder ==
  /\ boot \in {"warmup", "done"} => preinit_env_
  /\ base_um_env_ => boot \in {"warmup", "done"}
  /\ is_bootstrapped_ => inited = Count

\* Each Run is ended by one Halt, its own: none is left to end a later Run, or
\* an instance that serves a request.
OneHaltPerRun ==
  /\ halts <= 1
  /\ boot = "preinit" /\ halts = 1 => preinit_env_
  /\ boot = "warmup" => (halts = 1 <=> session = "closed")
  /\ boot \notin {"preinit", "warmup"} => halts = 0

\* Once the first snapshot is taken the startup ends, one way or the other.
BootEnds == preinit_env_ ~> (is_bootstrapped_ \/ ~Up)

(* What the repository says and the code does not keep to.                 *)

\* is_bootstrapped_: "Have we created a base snapshot?".
BootstrappedMeansBase == is_bootstrapped_ => base_um_env_

\* GetSnapshot and GetBaseSV assert is_bootstrapped_ of every start.
StartsAreBootstrapped == node = "aborted" => session = "aborted"

=============================================================================
