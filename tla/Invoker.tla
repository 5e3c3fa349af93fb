------------------------------ MODULE Invoker ------------------------------
(***************************************************************************)
(* The native invoker of SEUSS (src/src/SeussInvoker.cc, SeussInvoker.h):  *)
(* one shared InvokerRoot (work queue, snapshot cache) and one Invoker per *)
(* core (admission counter, cache of stalled "hot" instances).             *)
(*                                                                         *)
(* EbbRT runs events on a core one at a time and to completion, or to a    *)
(* Block().  A step here is a stretch of an event that touches shared      *)
(* state once: cpu[c] says where the event running on core c stands, and   *)
(* a core takes a new event only when it is idle.  A blocked event holds   *)
(* no core; it is the request that is "running" with a live session.       *)
(*                                                                         *)
(* A session (InvocationSession.cc) appears by its contract: it may signal *)
(* Executed once, and either Closed or Aborted, whose handlers call        *)
(* Finish, which lets the blocked event resume.                            *)
(***************************************************************************)
EXTENDS Integers, Sequences, FiniteSets, SequencesExt

CONSTANTS
  Core,               \* the cores of the native node
  IOCores,            \* the cores on which the messenger delivers requests
  Request,            \* the requests of this behaviour
  TidOf,              \* the transaction id of a request: ids may collide
  Fid,                \* function ids
  FidOf,              \* the function a request invokes
  ConcurrencyLimit,   \* request_concurrency_limit_ (Clim)
  CounterModulus,     \* 2^8: request_concurrency_ is a std::atomic<uint8_t>
  HotLimit,           \* hot_instance_limit_ (Slim)
  ReuseLimit,         \* hot_instance_reuse_limit_ (Rlim)
  SnapLimit,          \* default_snapmap_limit
  NDEBUG,             \* TRUE when the build compiles kassert out
  None

ASSUME CoreAssumption ==
  /\ IOCores \subseteq Core
  /\ IsFiniteSet(Core)
  /\ None \notin Core

ASSUME RequestAssumption ==
  /\ FidOf \in [Request -> Fid]
  /\ DOMAIN TidOf = Request
  /\ IsFiniteSet(Request)
  /\ IsFiniteSet(Fid)
  /\ None \notin Request \X {"warm", "cold"}

ASSUME LimitAssumption ==
  /\ ConcurrencyLimit \in Nat \ {0}
  /\ CounterModulus \in Nat \ {0, 1}
  /\ HotLimit \in Nat
  /\ ReuseLimit \in Nat
  /\ SnapLimit \in Nat
  /\ NDEBUG \in BOOLEAN

VARIABLES
  request_queue_,                    \* InvokerRoot, under qlock_: ids
  request_map_,                      \* and the records, at most one per id
  snapmap_,                          \* InvokerRoot: functions with a snapshot
  request_concurrency_,              \* per core
  stalled_instance_map_,             \* per core and function: an instance
  stalled_instance_fifo_,            \* per core: functions, oldest first
  stalled_instance_usage_count_,     \* per instance (0 = no entry)
  pokes,                             \* Poke events pending on each core
  cpu,                               \* where the event running on a core is
  stage,                             \* life of a request
  home,                              \* the core whose event runs the request
  start,                             \* the start under way: hot, warm, cold
  umi,                               \* the instance that start talks to
  session,                           \* "open", or the status given to Finish
  executed,                          \* when_executed_ was set
  replies,                           \* replies passed to the channel
  inst,                              \* life of an instance
  armed,                             \* instances with a checkpoint requested
  node                               \* "up", or "aborted" after a kabort

rootVars  == <<request_queue_, request_map_>>
hotVars   == <<stalled_instance_map_, stalled_instance_fifo_,
               stalled_instance_usage_count_>>
startVars == <<start, umi, session, executed>>
vars == <<rootVars, snapmap_, request_concurrency_, hotVars, pokes, cpu, stage,
          home, startVars, replies, inst, armed, node>>

\* The transaction ids: hashes, or random numbers.
Tid == {TidOf[t] : t \in Request}

\* A request makes at most one warm and one cold start, each with a fresh UMI.
Instance == Request \X {"warm", "cold"}

Idle == <<"idle">>

Running(c) == {t \in Request : stage[t] = "running" /\ home[t] = c}

\* Mutant: an off-by-one in the cache limit.
CacheIsOverfull == Cardinality(snapmap_) > SnapLimit

CacheIsFull == Cardinality(snapmap_) >= SnapLimit

\* GetSnapshot, and the find of SetSnapshot.
HasSnapshot(f) == f \in snapmap_

-----------------------------------------------------------------------------

Init ==
  /\ request_queue_ = <<>>
  /\ request_map_ = {}
  /\ snapmap_ = {}
  /\ request_concurrency_ = [c \in Core |-> 0]
  /\ stalled_instance_map_ = [c \in Core |-> [f \in Fid |-> None]]
  /\ stalled_instance_fifo_ = [c \in Core |-> <<>>]
  /\ stalled_instance_usage_count_ = [u \in Instance |-> 0]
  /\ pokes = [c \in Core |-> 0]
  /\ cpu = [c \in Core |-> Idle]
  /\ stage = [t \in Request |-> "unsent"]
  /\ home = [t \in Request |-> None]
  /\ start = [t \in Request |-> "none"]
  /\ umi = [t \in Request |-> None]
  /\ session = [t \in Request |-> "none"]
  /\ executed = [t \in Request |-> FALSE]
  /\ replies = [t \in Request |-> 0]
  /\ inst = [u \in Instance |-> "none"]
  /\ armed = {}
  /\ node = "up"

\* A new event may start on core c.
Free(c) == node = "up" /\ cpu[c] = Idle

-----------------------------------------------------------------------------
(* The work queue.                                                         *)

\* What request_map_.find returns: the record under this id, if there is one.
Records(x) == {t \in request_map_ : TidOf[t] = x}

\* emplace inserts the record: no other one is there under its id.
Inserted(t) == Records(TidOf[t]) = {}

\* Mutant: AddWork pokes the receiving core as well.
AddWorkPokesAll(c, t) ==
  /\ request_map_' = request_map_ \cup {t}
  /\ request_queue_' = Append(request_queue_, TidOf[t])
  /\ pokes' = [d \in Core |-> pokes[d] + 1]

\* Mutant: the record takes the place of another with its id, as it would with
\* operator[] instead of emplace.
AddWorkReplaces(c, t) ==
  /\ request_map_' = (request_map_ \ Records(TidOf[t])) \cup {t}
  /\ request_queue_' = Append(request_queue_, TidOf[t])
  /\ pokes' = [d \in Core |-> IF d = c THEN pokes[d] ELSE pokes[d] + 1]

\* InvokerRoot::AddWork, under qlock_: the id is pushed whether or not the
\* record was inserted, and every core is poked but its own.
AddWork(c, t) ==
  /\ request_map_' = request_map_ \cup (IF Inserted(t) THEN {t} ELSE {})
  /\ request_queue_' = Append(request_queue_, TidOf[t])
  /\ pokes' = [d \in Core |-> IF d = c THEN pokes[d] ELSE pokes[d] + 1]

\* InvokerRoot::GetWork on a queue that is not empty, under qlock_.
GetWork(t) ==
  /\ t \in Records(Head(request_queue_))
  /\ request_queue_' = Tail(request_queue_)
  /\ request_map_' = request_map_ \ {t}

\* A request reaches SeussChannel::ReceiveMessage on the core of the
\* messenger's connection, which calls Invoker::Queue.  A request whose record
\* is not inserted is dropped.
Queue(c, t) ==
  /\ Free(c)
  /\ c \in IOCores
  /\ stage[t] = "unsent"
  /\ Inserted(t) \/ NDEBUG
  /\ stage' = [stage EXCEPT ![t] = IF Inserted(t) THEN "queued" ELSE "dropped"]
  /\ AddWork(c, t)
  /\ UNCHANGED <<snapmap_, request_concurrency_, hotVars, cpu, home,
                 startVars, replies, inst, armed, node>>

\* AddWork's kassert(inserted), in a build that has it.
QueueAborts(c, t) ==
  /\ Free(c)
  /\ c \in IOCores
  /\ stage[t] = "unsent"
  /\ ~Inserted(t) /\ ~NDEBUG
  /\ node' = "aborted"
  /\ UNCHANGED <<rootVars, snapmap_, request_concurrency_, hotVars, pokes, cpu,
                 stage, home, startVars, replies, inst, armed>>

\* The 8-bit counter of the requests this core has under way.
Increment(n) == IF n = CounterModulus - 1 THEN 0 ELSE n + 1

\* Mutants: a slot given back twice, or never.
DecrementTwice(n) == n - 2
DecrementNot(n) == n

Decrement(n) == IF n = 0 THEN CounterModulus - 1 ELSE n - 1

\* Mutant: an off-by-one in Poke's check.
HasCapacityOffByOne(c) == request_concurrency_[c] <= ConcurrencyLimit

HasCapacity(c) == request_concurrency_[c] < ConcurrencyLimit

TakePoke(c) ==
  /\ Free(c)
  /\ pokes[c] > 0
  /\ pokes' = [pokes EXCEPT ![c] = @ - 1]

\* Poke finds the core at its limit, or the queue empty.
PokeInVain(c) ==
  /\ TakePoke(c)
  /\ ~HasCapacity(c) \/ request_queue_ = <<>>
  /\ UNCHANGED <<rootVars, snapmap_, request_concurrency_, hotVars, cpu, stage,
                 home, startVars, replies, inst, armed, node>>

\* Poke takes an id without a record: GetWork's kassert(req != end) stops the
\* node.  A build without it reads a record through the end of the map, a null
\* node, which is taken to stop the node too.
PokeMissing(c) ==
  /\ Free(c)
  /\ pokes[c] > 0
  /\ HasCapacity(c)
  /\ request_queue_ # <<>> /\ Records(Head(request_queue_)) = {}
  /\ node' = "aborted"
  /\ UNCHANGED <<rootVars, snapmap_, request_concurrency_, hotVars, pokes, cpu,
                 stage, home, startVars, replies, inst, armed>>

-----------------------------------------------------------------------------
(* Starts.  Open is new_invocation_session with the Load, Start, Connect   *)
(* and WhenFinished().Block() that follow it: the event leaves its core.   *)

Open(t, kind, u) ==
  /\ start' = [start EXCEPT ![t] = kind]
  /\ umi' = [umi EXCEPT ![t] = u]
  /\ session' = [session EXCEPT ![t] = "open"]
  /\ executed' = [executed EXCEPT ![t] = FALSE]
  /\ inst' = [inst EXCEPT ![u] = "active"]

\* Mutant: the oldest stalled instance is taken, whatever its function.
OldestHotInstance(c, f) ==
  IF stalled_instance_fifo_[c] = <<>> THEN None
  ELSE stalled_instance_map_[c][Head(stalled_instance_fifo_[c])]

HotInstance(c, f) == stalled_instance_map_[c][f]

HotInstanceExists(c, f) == HotInstance(c, f) # None

\* Mutants: the entry of the map, or of the fifo, is forgotten.
GetHotInstanceKeepsEntry(c, f) ==
  /\ stalled_instance_fifo_' = [stalled_instance_fifo_ EXCEPT ![c] = RemoveFirst(@, f)]
  /\ UNCHANGED <<stalled_instance_map_, stalled_instance_usage_count_>>

GetHotInstanceKeepsFifo(c, f) ==
  /\ stalled_instance_map_' = [stalled_instance_map_ EXCEPT ![c][f] = None]
  /\ UNCHANGED <<stalled_instance_fifo_, stalled_instance_usage_count_>>

\* get_hot_instance: out of the map and of the fifo.
GetHotInstance(c, f) ==
  /\ stalled_instance_map_' = [stalled_instance_map_ EXCEPT ![c][f] = None]
  /\ stalled_instance_fifo_' = [stalled_instance_fifo_ EXCEPT ![c] = RemoveFirst(@, f)]
  /\ UNCHANGED stalled_instance_usage_count_

\* Poke, GetWork, Invoke and process_hot_start up to where it blocks, or to
\* its "return false": the request then goes on to process_warm_start.
PokeTake(c, t) ==
  /\ TakePoke(c)
  /\ HasCapacity(c)
  /\ request_queue_ # <<>>
  /\ LET f == FidOf[t]
         u == HotInstance(c, f)
     IN /\ GetWork(t)
        /\ request_concurrency_' = [request_concurrency_ EXCEPT ![c] = Increment(@)]
        /\ stage' = [stage EXCEPT ![t] = "running"]
        /\ home' = [home EXCEPT ![t] = c]
        /\ IF HotLimit # 0 /\ HotInstanceExists(c, f)
           THEN GetHotInstance(c, f) ELSE UNCHANGED hotVars
        /\ IF HotLimit # 0 /\ HotInstanceExists(c, f) /\ inst[u] # "halted"
           THEN Open(t, "hot", u) /\ UNCHANGED cpu
           ELSE /\ cpu' = [cpu EXCEPT ![c] = <<"warm", t>>]
                /\ UNCHANGED <<startVars, inst>>
  /\ UNCHANGED <<snapmap_, replies, armed, node>>

\* process_warm_start: GetSnapshot, under qlock_.
WarmStart(c, t) ==
  /\ node = "up"
  /\ cpu[c] = <<"warm", t>>
  /\ IF HasSnapshot(FidOf[t])
     THEN Open(t, "warm", <<t, "warm">>) /\ cpu' = [cpu EXCEPT ![c] = Idle]
     ELSE cpu' = [cpu EXCEPT ![c] = <<"cold", t>>] /\ UNCHANGED <<startVars, inst>>
  /\ UNCHANGED <<rootVars, snapmap_, request_concurrency_, hotVars, pokes, stage,
                 home, replies, armed, node>>

\* process_cold_start: CacheIsFull is read without a lock.
ColdStart(c, t) ==
  /\ node = "up"
  /\ cpu[c] = <<"cold", t>>
  /\ Open(t, "cold", <<t, "cold">>)
  /\ armed' = IF CacheIsFull THEN armed ELSE armed \cup {<<t, "cold">>}
  /\ cpu' = [cpu EXCEPT ![c] = Idle]
  /\ UNCHANGED <<rootVars, snapmap_, request_concurrency_, hotVars, pokes, stage,
                 home, replies, node>>

-----------------------------------------------------------------------------
(* Snapshots.  The checkpoint of a cold instance fires when the instance   *)
(* reaches the symbol, and SetSnapshot runs on that core without a lock:   *)
(* another core may act between its find and its emplace.                  *)

Checkpoint(c, u) ==
  /\ Free(c)
  /\ u \in armed
  /\ home[u[1]] = c
  /\ inst[u] \in {"active", "halting"}
  /\ armed' = armed \ {u}
  /\ cpu' = [cpu EXCEPT ![c] = <<"find", u>>]
  /\ UNCHANGED <<rootVars, snapmap_, request_concurrency_, hotVars, pokes, stage,
                 home, startVars, replies, inst, node>>

\* SetSnapshot, first half: a hit or a full cache discards the snapshot.
SnapFind(c, u) ==
  /\ node = "up"
  /\ cpu[c] = <<"find", u>>
  /\ cpu' = [cpu EXCEPT ![c] = IF HasSnapshot(FidOf[u[1]]) \/ CacheIsFull
                               THEN Idle ELSE <<"insert", u>>]
  /\ UNCHANGED <<rootVars, snapmap_, request_concurrency_, hotVars, pokes, stage,
                 home, startVars, replies, inst, armed, node>>

\* SetSnapshot, second half: emplace, which keeps an entry already there, and
\* kassert(inserted), which a build without NDEBUG turns into a kabort.
SnapInsert(c, u) ==
  /\ node = "up"
  /\ cpu[c] = <<"insert", u>>
  /\ snapmap_' = snapmap_ \cup {FidOf[u[1]]}
  /\ cpu' = [cpu EXCEPT ![c] = Idle]
  /\ node' = IF FidOf[u[1]] \in snapmap_ /\ ~NDEBUG THEN "aborted" ELSE node
  /\ UNCHANGED <<rootVars, request_concurrency_, hotVars, pokes, stage, home,
                 startVars, replies, inst, armed>>

\* An emplace that overlaps another core's access to the same unordered_map is
\* a data race: besides the orders above, it may bring the node down.
SnapRace(c, d) ==
  /\ node = "up"
  /\ c # d
  /\ cpu[c][1] = "insert"
  /\ cpu[d][1] \in {"warm", "find", "insert"}
  /\ node' = "aborted"
  /\ UNCHANGED <<rootVars, snapmap_, request_concurrency_, hotVars, pokes, cpu,
                 stage, home, startVars, replies, inst, armed>>

-----------------------------------------------------------------------------
(* The handlers that new_invocation_session installs on the session, run   *)
(* as events of the core the session is bound to.                          *)

\* WhenExecuted: Resolve.  A response that fails the request reaches this
\* handler too, after Finish(false), as long as the session exists.
Executed(c, t) ==
  /\ Free(c)
  /\ home[t] = c
  /\ session[t] \in {"open", "false"}
  /\ ~executed[t]
  /\ executed' = [executed EXCEPT ![t] = TRUE]
  /\ replies' = [replies EXCEPT ![t] = @ + 1]
  /\ UNCHANGED <<rootVars, snapmap_, request_concurrency_, hotVars, pokes, cpu,
                 stage, home, start, umi, session, inst, armed, node>>

StalledFunctions(c) == {f \in Fid : stalled_instance_map_[c][f] # None}

\* Mutant: the use counter is never consulted.
CanAlwaysBeReused(c, u) == Cardinality(StalledFunctions(c)) < HotLimit

\* hot_instance_can_be_reused.
CanBeReused(c, u) ==
  /\ Cardinality(StalledFunctions(c)) < HotLimit
  /\ stalled_instance_usage_count_[u] <= ReuseLimit

\* save_hot_instance once its checks have passed: SetInactive, SignalYield.
SaveHotInstance(c, f, u) ==
  /\ stalled_instance_usage_count_' = [stalled_instance_usage_count_ EXCEPT ![u] = @ + 1]
  /\ stalled_instance_map_' = [stalled_instance_map_ EXCEPT ![c][f] = u]
  /\ stalled_instance_fifo_' = [stalled_instance_fifo_ EXCEPT ![c] = Append(@, f)]
  /\ inst' = [inst EXCEPT ![u] = "inactive"]

\* WhenClosed: Finish(true), then the instance is saved or its halt queued.
Closed(c, t) ==
  /\ Free(c)
  /\ home[t] = c
  /\ session[t] = "open"
  /\ session' = [session EXCEPT ![t] = "true"]
  /\ LET f == FidOf[t]
         u == umi[t]
     IN IF CanBeReused(c, u) /\ ~HotInstanceExists(c, f)
        THEN SaveHotInstance(c, f, u)
        ELSE inst' = [inst EXCEPT ![u] = "halting"] /\ UNCHANGED hotVars
  /\ UNCHANGED <<rootVars, snapmap_, request_concurrency_, pokes, cpu, stage,
                 home, start, umi, executed, replies, armed, node>>

\* WhenAborted: Finish(false) and the instance's halt is queued.
Aborted(c, t) ==
  /\ Free(c)
  /\ home[t] = c
  /\ session[t] = "open"
  /\ session' = [session EXCEPT ![t] = "false"]
  /\ inst' = [inst EXCEPT ![umi[t]] = "halting"]
  /\ UNCHANGED <<rootVars, snapmap_, request_concurrency_, hotVars, pokes, cpu,
                 stage, home, start, umi, executed, replies, armed, node>>

\* The queued event that calls umm::manager->SignalHalt.
Halt(c, u) ==
  /\ Free(c)
  /\ home[u[1]] = c
  /\ inst[u] = "halting"
  /\ inst' = [inst EXCEPT ![u] = "halted"]
  /\ UNCHANGED <<rootVars, snapmap_, request_concurrency_, hotVars, pokes, cpu,
                 stage, home, startVars, replies, armed, node>>

-----------------------------------------------------------------------------
(* The blocked event resumes, deletes the session and is back in Invoke.   *)

\* Mutant: Invoke's last line, the poke of its own core, is missing.
ReleaseWithoutPoke(c) ==
  /\ request_concurrency_' = [request_concurrency_ EXCEPT ![c] = Decrement(@)]
  /\ UNCHANGED pokes

\* The last two lines of Invoke: the slot is free, and this core looks for work.
Release(c) ==
  /\ request_concurrency_' = [request_concurrency_ EXCEPT ![c] = Decrement(@)]
  /\ pokes' = [pokes EXCEPT ![c] = @ + 1]

\* The start succeeded.
ResumeDone(c, t) ==
  /\ Free(c)
  /\ home[t] = c
  /\ session[t] = "true"
  /\ session' = [session EXCEPT ![t] = "none"]
  /\ stage' = [stage EXCEPT ![t] = "done"]
  /\ Release(c)
  /\ UNCHANGED <<rootVars, snapmap_, hotVars, cpu, home, start, umi, executed,
                 replies, inst, armed, node>>

\* The start process_*_start falls through to when the one under way fails.
NextColder(kind, t) ==
  CASE kind = "hot"  -> <<"warm", t>>
    [] kind = "warm" -> <<"cold", t>>
    [] OTHER         -> Idle

\* Mutant: a failed cold start is dropped, without kabort and without giving
\* back its slot.
ResumeFailedDropped(c, t) ==
  /\ Free(c)
  /\ home[t] = c
  /\ session[t] = "false"
  /\ session' = [session EXCEPT ![t] = "none"]
  /\ cpu' = [cpu EXCEPT ![c] = NextColder(start[t], t)]
  /\ UNCHANGED <<rootVars, snapmap_, request_concurrency_, hotVars, pokes, stage,
                 home, start, umi, executed, replies, inst, armed, node>>

\* The start failed: Invoke tries the next colder one; after a cold start
\* there is none and it calls kabort.
ResumeFailed(c, t) ==
  /\ Free(c)
  /\ home[t] = c
  /\ session[t] = "false"
  /\ session' = [session EXCEPT ![t] = "none"]
  /\ cpu' = [cpu EXCEPT ![c] = NextColder(start[t], t)]
  /\ node' = IF start[t] = "cold" THEN "aborted" ELSE node
  /\ UNCHANGED <<rootVars, snapmap_, request_concurrency_, hotVars, pokes, stage,
                 home, start, umi, executed, replies, inst, armed>>

-----------------------------------------------------------------------------

\* The steps of the core itself, which EbbRT's event loop takes.
CoreStep(c) ==
  \/ PokeInVain(c)
  \/ PokeMissing(c)
  \/ \E t \in Request : \/ PokeTake(c, t)
                        \/ WarmStart(c, t)
                        \/ ColdStart(c, t)
                        \/ ResumeDone(c, t)
                        \/ ResumeFailed(c, t)
  \/ \E u \in Instance : \/ SnapFind(c, u)
                         \/ SnapInsert(c, u)
                         \/ Halt(c, u)

\* What instances and connections do to the core.
SessionStep(c, t) == Executed(c, t) \/ Closed(c, t) \/ Aborted(c, t)

\* Nothing is left to do in this behaviour, or the node is down.
Terminated ==
  /\ \/ node = "aborted"
     \/ \A t \in Request : stage[t] = "done"
  /\ UNCHANGED vars

Next ==
  \/ \E c \in Core :
       \/ CoreStep(c)
       \/ \E t \in Request : Queue(c, t) \/ QueueAborts(c, t) \/ SessionStep(c, t)
       \/ \E u \in Instance : Checkpoint(c, u)
       \/ \E d \in Core : SnapRace(c, d)
  \/ Terminated

\* Every core's event loop goes on, and every session ends: its timers see to
\* it (InvocationSession.tla).  Nothing obliges an instance to answer or to
\* reach its checkpoint, nor a request to arrive.
Fairness ==
  /\ \A c \in Core : WF_vars(CoreStep(c))
  /\ \A c \in Core, t \in Request : WF_vars(Closed(c, t) \/ Aborted(c, t))

Spec == Init /\ [][Next]_vars

FairSpec == Spec /\ Fairness

-----------------------------------------------------------------------------
(* Properties.                                                             *)

TypeOK ==
  /\ request_queue_ \in Seq(Tid)
  /\ request_map_ \subseteq Request
  /\ snapmap_ \subseteq Fid
  /\ request_concurrency_ \in [Core -> 0 .. CounterModulus - 1]
  /\ stalled_instance_map_ \in [Core -> [Fid -> Instance \cup {None}]]
  /\ stalled_instance_fifo_ \in [Core -> Seq(Fid)]
  /\ stalled_instance_usage_count_ \in [Instance -> Nat]
  /\ pokes \in [Core -> Nat]
  /\ cpu \in [Core -> {Idle} \cup ({"warm", "cold"} \X Request)
                             \cup ({"find", "insert"} \X Instance)]
  /\ stage \in [Request -> {"unsent", "queued", "dropped", "running", "done"}]
  /\ home \in [Request -> Core \cup {None}]
  /\ start \in [Request -> {"none", "hot", "warm", "cold"}]
  /\ umi \in [Request -> Instance \cup {None}]
  /\ session \in [Request -> {"none", "open", "true", "false"}]
  /\ executed \in [Request -> BOOLEAN]
  /\ replies \in [Request -> Nat]
  /\ inst \in [Instance -> {"none", "active", "inactive", "halting", "halted"}]
  /\ armed \subseteq Instance
  /\ node \in {"up", "aborted"}

\* The places of an id in the queue, and the requests that put it there.
Places(x) == {i \in DOMAIN request_queue_ : request_queue_[i] = x}
Pushed(x) == {t \in Request : TidOf[t] = x /\ stage[t] \in {"queued", "dropped"}}

\* Whatever ids collide and in whatever order AddWork and GetWork come, the map
\* has one record of each id that waits, and the queue has the id once for that
\* record and once more for each request dropped under it.  So GetWork's
\* kassert(req != end) can fail only after AddWork's kassert(inserted) would
\* have, and does in the end (EventuallyServed).
QueueAccounted ==
  /\ request_map_ = {t \in Request : stage[t] = "queued"}
  /\ \A t, s \in request_map_ : TidOf[t] = TidOf[s] => t = s
  /\ \A x \in Tid : Cardinality(Places(x)) = Cardinality(Pushed(x))

\* The 8-bit counter of a core is exactly the number of requests it has under
\* way, through every failed start, and never passes the limit Poke checks.
ConcurrencyExact ==
  \A c \in Core : /\ request_concurrency_[c] = Cardinality(Running(c))
                  /\ request_concurrency_[c] <= ConcurrencyLimit

\* No lost wakeup: a core that receives no requests itself has a Poke pending
\* for each queued request it has room for.  Pokes are dropped by busy cores
\* and consumed by empty queues; AddWork and Invoke's last line make up for it.
WorkConserving ==
  \A c \in Core \ IOCores :
    \/ pokes[c] >= Len(request_queue_)
    \/ pokes[c] + request_concurrency_[c] >= ConcurrencyLimit

\* While a single core takes the messenger's requests, it runs none of them:
\* the root "segregates IO processing" by never poking the receiving core.
IoCoreSegregated ==
  \A c \in Core : IOCores = {c} => pokes[c] = 0 /\ Running(c) = {}

\* Users(u): the requests whose session talks to instance u.
Users(u) == {t \in Request : session[t] = "open" /\ umi[t] = u}

\* Parked(u): where the hot caches hold instance u.
Parked(u) == {p \in Core \X Fid : stalled_instance_map_[p[1]][p[2]] = u}

\* An instance is active exactly while one request uses it and inactive exactly
\* while one cache holds it: no instance serves two requests at once, none is
\* reused after its halt, and none is left running or parked with no owner.
InstanceOwnership ==
  \A u \in Instance :
    /\ inst[u] = "active" <=> Users(u) # {}
    /\ inst[u] = "inactive" <=> Parked(u) # {}
    /\ \A t, s \in Users(u) : t = s
    /\ \A p, q \in Parked(u) : p = q

\* A hot start gets an instance of its own core that was booted for its own
\* function (process_hot_start looks it up by function id only).
HotStartMatches ==
  /\ \A c \in Core, f \in Fid :
       LET u == stalled_instance_map_[c][f]
       IN  u # None => FidOf[u[1]] = f /\ home[u[1]] = c
  /\ \A t \in Request : session[t] = "open" =>
       FidOf[umi[t][1]] = FidOf[t] /\ home[umi[t][1]] = home[t]

\* The fifo lists each function of the hot cache once, and the cache keeps
\* within the limit of idle instances per core.
HotCacheConsistent ==
  \A c \in Core :
    /\ ToSet(stalled_instance_fifo_[c]) = StalledFunctions(c)
    /\ Len(stalled_instance_fifo_[c]) = Cardinality(StalledFunctions(c))
    /\ Cardinality(StalledFunctions(c)) <= HotLimit

\* What the code really bounds: an instance is parked at most ReuseLimit + 1
\* times, since hot_instance_can_be_reused accepts a count equal to the limit.
ReuseBounded ==
  \A u \in Instance : stalled_instance_usage_count_[u] <= ReuseLimit + 1

\* The cores that run requests: all but a single receiving one.
Workers == IF \E c \in Core : IOCores = {c} THEN Core \ IOCores ELSE Core

\* Cores past SetSnapshot's check, with the emplace still to come.
Inserting == {c \in Core : \E u \in Instance : cpu[c] = <<"insert", u>>}

\* The unlocked check in SetSnapshot is stale when other cores insert first: the
\* snapshots there and those on their way pass the cache limit by fewer than
\* there are working cores.
SnapshotOvershoot ==
  SnapLimit > 0 =>
    Cardinality(snapmap_) + Cardinality(Inserting) < SnapLimit + Cardinality(Workers)

\* Every request that reaches the queue is served to the end, unless the node
\* aborts: whatever hot or warm starts fail and whatever pokes are dropped.  A
\* dropped request is never served, so it ends the node, when its id is taken
\* from the queue.  (The requests of a behaviour are finitely many, so in the
\* end each of them is done or has not come.)
EventuallyServed ==
  <>[](node = "aborted" \/ \A t \in Request : stage[t] \in {"unsent", "done"})

(* The invoker implements the Dispatcher, as long as no request is dropped:*)
(* no build drops one when ids differ, and one with kassert never does.    *)

NoneDropped == NDEBUG => \A t, s \in Request : TidOf[t] = TidOf[s] => t = s

Record(x) == CHOOSE t \in Request : t \in Records(x)

D == INSTANCE Dispatcher WITH
       waiting <- [i \in DOMAIN request_queue_ |-> Record(request_queue_[i])],
       serving <- [c \in Core |-> Running(c)],
       served  <- {t \in Request : stage[t] = "done"},
       up      <- node = "up"

\* Requests are dispatched in arrival order, each once, to a core with room,
\* and retire; nothing a failed start, a stale poke or a hot cache does shows.
DispatcherSpec == D!DSpec

\* The same with liveness: while the node is up the queue moves and every
\* dispatched request retires.
DispatcherFairSpec == D!DFairSpec

(* What the repository says and the code does not keep to.                 *)

\* AddWork: "Assert there was no collision on the key".
NoQueueCollision ==
  \A t \in Request : stage[t] = "unsent" => Inserted(t)

\* GetWork: kassert(req != request_map_.end()).
WorkFound ==
  node = "up" /\ request_queue_ # <<>> => Records(Head(request_queue_)) # {}

\* SetSnapshot: "Assert there was no collision on the key".
NoSnapshotCollision ==
  \A c \in Core, u \in Instance :
    cpu[c] = <<"insert", u>> => FidOf[u[1]] \notin snapmap_

\* default_snapmap_limit: "snapshot cache size".
SnapshotCacheBounded == Cardinality(snapmap_) <= SnapLimit

\* --concurrency-limit: "Max amount of blocked requests to maintain per core".
ConcurrencyBounded == \A c \in Core : Cardinality(Running(c)) <= ConcurrencyLimit

\* --reuse-limit: "Number of times to reuse an active instance": the use under
\* way of an instance parked n times is its nth reuse.
ReuseWithinLimit ==
  \A t \in Request : session[t] = "open" /\ start[t] = "hot" =>
    stalled_instance_usage_count_[umi[t]] <= ReuseLimit

\* A transaction is answered once: "Resolved invocation after successful
\* execution".
AnsweredOnce == \A t \in Request : replies[t] <= 1

=============================================================================
