----------------------------- MODULE Controller -----------------------------
(***************************************************************************)
(* The hosted front end: the Kafka consumer loop (openwhisk/kafka.cc), the *)
(* Controller's table of activations (SeussController.cc) and the channel  *)
(* to the native node (SeussChannel.cc).                                   *)
(*                                                                         *)
(* Three threads meet here: the consumer, which schedules an activation    *)
(* and then attaches a handler to its future; the thread on which          *)
(* RegisterNode runs; and the IO thread, which sends requests and resolves *)
(* replies.  Only the table is under the mutex m_.  The process may crash  *)
(* and be restarted: it resumes from the offset the broker has stored.     *)
(***************************************************************************)
EXTENDS Naturals, Sequences

CONSTANTS
  Act,           \* activations OpenWhisk publishes
  Tid,           \* transaction ids
  TidOf,         \* the id ScheduleActivation derives from the transaction
  HealthTest,    \* activations of invokerHealthTestAction0
  MaxReplies,    \* bound: replies the node may send to one request
  MaxRestarts,   \* bound: restarts of the process
  NDEBUG,        \* TRUE when assert and kassert are compiled out
  None

ASSUME ControllerAssumption ==
  /\ TidOf \in [Act -> Tid]
  /\ HealthTest \subseteq Act
  /\ MaxReplies \in Nat /\ MaxRestarts \in Nat
  /\ NDEBUG \in BOOLEAN
  /\ None \notin Act

VARIABLES
  topic,          \* the partition "invokerN"
  position,       \* the consumer's offset
  requested,      \* the last offset given to async_commit
  committed,      \* the offset the broker has stored
  thread,         \* where the consumer loop is
  nids,           \* RegisterNode: "none", "pushed" to _nids, "mapped" to a cpu
  io_cpu,         \* the node's entry in _frontEnd_cpus_map
  record_map_,    \* the activation recorded under each transaction id
  ready,          \* activations whose promise has its value
  attached,       \* activations whose future has its handler
  outbox,         \* SendRequest events spawned on the IO thread
  backend,        \* replies the node may still send, per transaction id
  completed,      \* messages produced on "completed0", per activation
  process,        \* "up" or "down"
  restarts

offsets == <<position, requested, committed>>
table   == <<record_map_, ready, attached>>
nodes   == <<nids, io_cpu>>
wire    == <<outbox, backend>>
vars == <<topic, offsets, thread, nodes, table, wire, completed, process, restarts>>

Polling == <<"poll">>

Init ==
  /\ topic = <<>>
  /\ position = 0
  /\ requested = 0
  /\ committed = 0
  /\ thread = Polling
  /\ nids = "none"
  /\ io_cpu = "none"
  /\ record_map_ = [t \in Tid |-> None]
  /\ ready = {}
  /\ attached = {}
  /\ outbox = <<>>
  /\ backend = [t \in Tid |-> 0]
  /\ completed = [a \in Act |-> 0]
  /\ process = "up"
  /\ restarts = 0

Published == {topic[i] : i \in DOMAIN topic}

\* OpenWhisk publishes an activation.
Publish(a) ==
  /\ a \notin Published
  /\ topic' = Append(topic, a)
  /\ UNCHANGED <<offsets, thread, nodes, table, wire, completed, process, restarts>>

-----------------------------------------------------------------------------
(* The consumer loop.                                                      *)

Up == process = "up"

\* The offset that stands for a message having been consumed.
NextOffset == position + 1

\* produce(completed0) for activation a.
Produce(a) == completed' = [completed EXCEPT ![a] = @ + 1]

\* Poll a message and commit it, before anything is done about it.  A health
\* test is answered at once.
Poll ==
  /\ Up
  /\ thread = Polling
  /\ position < Len(topic)
  /\ LET a == topic[position + 1]
     IN /\ requested' = NextOffset
        /\ position' = position + 1
        /\ IF a \in HealthTest
           THEN Produce(a) /\ UNCHANGED thread
           ELSE thread' = <<"schedule", a>> /\ UNCHANGED completed
  /\ UNCHANGED <<topic, committed, nodes, table, wire, process, restarts>>

\* async_commit reaches the broker some time later, or never.
CommitStored ==
  /\ Up
  /\ committed < requested
  /\ committed' = requested
  /\ UNCHANGED <<topic, position, requested, thread, nodes, table, wire,
                 completed, process, restarts>>

\* Mutant: the record never gets into the table.
RecordNot(a) == UNCHANGED record_map_

Record(a) == record_map_' = [record_map_ EXCEPT ![TidOf[a]] = a]

\* ScheduleActivation, under m_: a transaction id that is in use already is an
\* assertion failure; without assertions the new promise is dropped.
Schedule(a) ==
  /\ Up
  /\ thread = <<"schedule", a>>
  /\ IF record_map_[TidOf[a]] = None
     THEN Record(a) /\ UNCHANGED process
     ELSE UNCHANGED record_map_ /\ process' = IF NDEBUG THEN process ELSE "down"
  /\ thread' = <<"send", a>>
  /\ UNCHANGED <<topic, offsets, nodes, ready, attached, wire, completed, restarts>>

\* ScheduleActivation after m_: _nids.front(), and operator[] on the map of
\* cpus, which adds an entry for cpu 0 when RegisterNode has not added its own.
Send(a) ==
  /\ Up
  /\ thread = <<"send", a>>
  /\ nids # "none"
  /\ io_cpu' = IF io_cpu = "none" THEN "zero" ELSE io_cpu
  /\ outbox' = Append(outbox, a)
  /\ thread' = <<"attach", a>>
  /\ UNCHANGED <<topic, offsets, nids, table, backend, completed, process, restarts>>

\* The same with no node: kassert fails, or the front of an empty vector is
\* used, which ends the process or sends the request nowhere.
SendNowhere(a) ==
  /\ Up
  /\ thread = <<"send", a>>
  /\ nids = "none"
  /\ thread' = <<"attach", a>>
  /\ process' \in {"down"} \cup (IF NDEBUG THEN {"up"} ELSE {})
  /\ UNCHANGED <<topic, offsets, nodes, table, wire, completed, restarts>>

\* Mutant: Then runs its handler only for a value that is still to come.
AttachBlind(a) ==
  /\ Up
  /\ thread = <<"attach", a>>
  /\ attached' = attached \cup {a}
  /\ thread' = Polling
  /\ UNCHANGED <<topic, offsets, nodes, record_map_, ready, wire, completed,
                 process, restarts>>

\* cmf.Then: the handler runs at once when the reply was quicker.
Attach(a) ==
  /\ Up
  /\ thread = <<"attach", a>>
  /\ attached' = attached \cup {a}
  /\ IF a \in ready THEN Produce(a) ELSE UNCHANGED completed
  /\ thread' = Polling
  /\ UNCHANGED <<topic, offsets, nodes, record_map_, ready, wire, process, restarts>>

-----------------------------------------------------------------------------
(* The other threads.                                                      *)

\* RegisterNode, in two steps as it holds no lock.
RegisterPush ==
  /\ Up
  /\ nids = "none"
  /\ nids' = "pushed"
  /\ UNCHANGED <<topic, offsets, thread, io_cpu, table, wire, completed, process, restarts>>

\* map::insert leaves an entry that is there as it is.
RegisterMap ==
  /\ Up
  /\ nids = "pushed"
  /\ nids' = "mapped"
  /\ io_cpu' = IF io_cpu = "none" THEN "reserved" ELSE io_cpu
  /\ UNCHANGED <<topic, offsets, thread, table, wire, completed, process, restarts>>

\* The IO thread runs the oldest spawned SendRequest.
SendRequest ==
  /\ Up
  /\ outbox # <<>>
  /\ outbox' = Tail(outbox)
  /\ backend' = [backend EXCEPT ![TidOf[Head(outbox)]] = @ + MaxReplies]
  /\ UNCHANGED <<topic, offsets, thread, nodes, table, completed, process, restarts>>

\* Mutant: the record stays in the table.
EraseNot(t) == UNCHANGED record_map_

Erase(t) == record_map_' = [record_map_ EXCEPT ![t] = None]

\* A reply arrives and is resolved, under m_; the handler, when attached, runs
\* inside SetValue.  A reply with no record is ignored.
ResolveActivation(t) ==
  /\ Up
  /\ backend[t] > 0
  /\ backend' = [backend EXCEPT ![t] = @ - 1]
  /\ LET a == record_map_[t]
     IN IF a = None THEN UNCHANGED <<table, completed>>
        ELSE /\ Erase(t)
             /\ ready' = ready \cup {a}
             /\ IF a \in attached THEN Produce(a) ELSE UNCHANGED completed
             /\ UNCHANGED attached
  /\ UNCHANGED <<topic, offsets, thread, nodes, outbox, process, restarts>>

\* The process ends, and with it the nodes it allocated.
Crash ==
  /\ Up
  /\ process' = "down"
  /\ UNCHANGED <<topic, offsets, thread, nodes, table, wire, completed, restarts>>

\* A new process joins the consumer group: it resumes at the stored offset, or,
\* when there is none, where the group's policy says.
Restart ==
  /\ ~Up
  /\ restarts < MaxRestarts
  /\ restarts' = restarts + 1
  /\ process' = "up"
  /\ position' \in {committed} \cup (IF committed = 0 THEN {Len(topic)} ELSE {})
  /\ requested' = committed
  /\ thread' = Polling
  /\ nids' = "none"
  /\ io_cpu' = "none"
  /\ record_map_' = [t \in Tid |-> None]
  /\ ready' = {}
  /\ attached' = {}
  /\ outbox' = <<>>
  /\ backend' = [t \in Tid |-> 0]
  /\ UNCHANGED <<topic, committed, completed>>

Terminated == ~Up /\ restarts = MaxRestarts /\ UNCHANGED vars

\* The consumer's own thread.
Consumer == Poll \/ \E a \in Act : Schedule(a) \/ Send(a) \/ SendNowhere(a) \/ Attach(a)

Next ==
  \/ Consumer
  \/ \E a \in Act : Publish(a)
  \/ CommitStored
  \/ RegisterPush \/ RegisterMap
  \/ SendRequest
  \/ \E t \in Tid : ResolveActivation(t)
  \/ Crash \/ Restart
  \/ Terminated

\* The consumer's thread runs.  Nothing is expected of broker, node or network.
Spec == Init /\ [][Next]_vars

FairSpec == Spec /\ WF_vars(Consumer)

-----------------------------------------------------------------------------
(* Properties.                                                             *)

TypeOK ==
  /\ topic \in Seq(Act)
  /\ position \in 0 .. Len(topic)
  /\ requested \in 0 .. position
  /\ committed \in 0 .. requested
  /\ thread \in {Polling} \cup ({"schedule", "send", "attach"} \X Act)
  /\ nids \in {"none", "pushed", "mapped"}
  /\ io_cpu \in {"none", "reserved", "zero"}
  /\ record_map_ \in [Tid -> Act \cup {None}]
  /\ ready \subseteq Act
  /\ attached \subseteq Act
  /\ outbox \in Seq(Act)
  /\ backend \in [Tid -> Nat]
  /\ completed \in [Act -> Nat]
  /\ process \in {"up", "down"}
  /\ restarts \in 0 .. MaxRestarts

\* However often the node replies and whichever thread is first, one process
\* completes an activation at most once; only a restart may do it again.
CompletedOnce == \A a \in Act : completed[a] <= 1 + restarts

\* The record is in the table before the request can be answered: only a
\* repeated reply meets the "NO RECORD FOUND" of ResolveActivation.
FirstReplyFound ==
  \A a \in Act \ HealthTest :
    \/ \E i \in DOMAIN outbox : outbox[i] = a
    \/ backend[TidOf[a]] = MaxReplies
    => record_map_[TidOf[a]] = a

\* A reply that overtakes the handler is not lost: while the process is up, a
\* resolved activation gets its completion.
AnswerDelivered ==
  \A a \in Act : a \in ready ~> (completed[a] > 0 \/ ~Up)

(* What the repository says and the code does not keep to.                 *)

\* ScheduleActivation: "verify we have a backend node".
BackendKnown == Up /\ thread[1] = "send" => nids # "none"

\* ScheduleActivation: "Assert there was no collision on the key".
NoTidCollision ==
  Up /\ thread[1] = "schedule" => record_map_[TidOf[thread[2]]] = None

\* RegisterNode: "CPU: ... was reserved for" the node.
CpuReserved == nids = "mapped" => io_cpu = "reserved"

=============================================================================
