# Verification of SEUSS

SEUSS is a serverless compute node: an OpenWhisk invoker split in two. A *hosted*
front end (a Linux process) consumes activations from Kafka and keeps a table of
those under way; a *native* node (EbbRT, a library OS) runs each activation in an
isolated unikernel instance, started "cold" from a base snapshot, "warm" from a
snapshot of the function, or "hot" in an instance that has already served it.

Paths below are relative to the repository's `src/`.

## 1. Inventory

| component | state | operations | hard behaviour |
|---|---|---|---|
| **InvokerRoot, Invoker** `SeussInvoker.{cc,h}` | queue and map of requests, snapshot cache (one per node); 8-bit counter, hot cache (map, fifo, use counts) per core | Queue/AddWork, Poke, GetWork, Invoke, process_{hot,warm,cold}_start, get/save_hot_instance, Set/GetSnapshot, the session's handlers | cores interleave; an event blocks in the middle of Invoke and its core runs others; pokes are dropped; three kinds of failed start; a cache without a lock |
| **InvocationSession** `InvocationSession.{cc,h}` | connection flags, timer, six promises | Connect, Connected, Receive, Close, Abort, Fire, Finish, SendHttpRequest | close, reset, timeout and response race; queued events outlive the object; responses come in segments |
| **Port allocator** `SeussInvoker.h` get_internal_port | 16-bit counter per core | get_internal_port | wraps; reuse of ports in use |
| **Startup of the node** `SeussInvoker.cc` Init, Bootstrap | two snapshots, is_bootstrapped_ | Init, Bootstrap and its handlers | requests arrive before it ends; it blocks on Halt events |
| **Controller** `SeussController.{cc,h}` | table of records under m_, list of nodes, map of IO cpus | RegisterNode, ScheduleActivation, ResolveActivation | three threads, one lock that covers part of the state |
| **Kafka shim** `openwhisk/kafka.cc` | consumer offset, futures with handlers | consumer loop, heartbeat loop, null mode | commit before the work; crash and restart; reply before handler |
| **SeussChannel** `SeussChannel.{cc,h}` | io_core | SendRequest, SendReply, ReceiveMessage | io_core is written by whichever core receives and read twice by another; one body carries arguments and code; chained buffers |
| **CouchDB action cache** `openwhisk/couchdb.cc` | code by key | get_action | documents change between a fetch and a hit; the document is asked for without its version; error documents are kept; keys without separators |
| **Benchmark** `openwhisk/openwhisk.{cc,h}` | the configuration of a round, concurrencyPool, start_time | read a line, wait for a place, schedule, attach a handler | a plain int changed by two threads; handlers that refer to variables of a round that is over |
| **OpenWhisk messages** `openwhisk/msg.cc` | none | JSON conversion | |
| **dsys** `dsys/` | options, the node's boot arguments | allocate nodes | limits handed over as text that grows from node to node; nodes may register while others are allocated |
| **MemberSet** `dsys/MemberSet.h` | list of members | update | no user in the repository |
| **Entry points** `seuss.cc`, `hosted/main.cc` | the mode, the cpus of the loops | parse, refuse or start; the loops of each mode | order of startup on two machines; loops that never give their cpu back |

How they interact: OpenWhisk publishes to a topic; the Kafka shim polls, commits and
calls `Controller::ScheduleActivation`, which records the activation and spawns
`SeussChannel::SendRequest` on the node's IO cpu. The messenger delivers it to one
core of the native node, where `ReceiveMessage` calls `Invoker::Queue`; `AddWork` pokes
the other cores. A poked core takes the oldest request and blocks in an
`InvocationSession` with an instance. Its handlers call `Resolve` (a reply through the
channel, `ResolveActivation`, a promise, a message on `completed0`) and `Finish` (the
blocked event goes on, frees its slot and pokes its core).

Before that, `main` reads the options, `dsys` allocates native nodes with the limits as
their command line, and each node boots, connects and is registered on a cpu of the
hosted process. In benchmark mode a thread that reads lines from the terminal takes the
place of the consumer loop.

What makes each part correct is the list of properties in sections 3 and 4; what is hard
to test about it is the list `hazards` of `PROJECT.json`, each at its line.

## 2. Modules

| module | models | notes |
|---|---|---|
| `Dispatcher` | the abstract service: requests wait, are dispatched in order to a core with room, and retire | refined by `Invoker` (`D == INSTANCE Dispatcher WITH ...`) |
| `Invoker` | InvokerRoot and the Invoker of every core | `MCInvoker` instantiates it, `Invoker_proofs` proves about it |
| `SessionContract` | what the invoker relies on in a session | refined by `InvocationSession`; the actions Executed, Closed, Aborted, ResumeDone and ResumeFailed of `Invoker` are this contract |
| `InvocationSession` | one session, its timer, promises and handlers, the connection and the server | `InvocationSession_proofs`; it implements `SessionContract` |
| `PortAllocator` | get_internal_port and the lifetime of ports | `PortAllocator_proofs` |
| `Bootstrap` | seuss::Init, InvokerRoot::Bootstrap and the requests that arrive meanwhile | extended by `Startup` |
| `Startup` | the whole start: main and AppMain, dsys, the registration of nodes, the path of the limits, composed with `Bootstrap` | `MCStartup`, `Startup_proofs`; it implements `Bootstrap` |
| `Controller` | consumer loop, Controller, the hosted half of the channel, crash and restart | extended by `FrontEnd`; `Controller_proofs` |
| `FrontEnd` | `Controller` with the code an activation needs: get_action, its cache, updates of actions | `MCFrontEnd`, `FrontEnd_proofs`; it implements `Controller` |
| `Channel` | SeussChannel on both sides: the layout of messages, io_core, the forwarding of replies | `MCChannel`, `Channel_proofs` |
| `Benchmark` | the benchmark's input line, rounds, pool and handlers, on two threads | `MCBenchmark`, `Benchmark_proofs` |

### How state and actions correspond to the code

*Invoker.* EbbRT runs the events of a core one at a time, each until it ends or blocks;
a step of the model is a stretch of an event that touches state other cores see once.
`cpu[c]` says where the event of a busy core stands: before process_warm_start's look at
the snapshot cache (`warm`), before process_cold_start's (`cold`), before the find or the
emplace of SetSnapshot. A blocked event is not on a core; it is the request whose
`session` is open. `Queue` is ReceiveMessage, Queue and AddWork under qlock_; `PokeTake`
is Poke, GetWork, Invoke and process_hot_start up to its block or its failure; `ResumeDone`
and `ResumeFailed` are the rest of process_*_start and Invoke. The three promises'
handlers are `Executed`, `Closed` and `Aborted`; `Halt` is the event they queue.

Transaction ids are hashes or random numbers, and the controller sends a request on when
its id collides, so requests and their ids are different things (`TidOf`). AddWork makes
no record for a request whose id is under way, and pushes the id all the same: the request
is `dropped`. A build with assertions stops there (`QueueAborts`); one without goes on to
a GetWork that finds no record for an id and reads through the end of the map
(`PokeMissing`). What that reads is undefined; the model takes it to stop the node, as
the end of an `unordered_map` is a null pointer in the library the node is built with.

The snapshot cache is an `unordered_map` that SetSnapshot changes without a lock. A data
race is undefined behaviour; the model gives it the outcomes a build produces: either the
accesses take effect in some order (`SnapFind`, `SnapInsert`, interleaved with others),
or the node goes down (`SnapRace`).

*InvocationSession.* The object is one record and each method a function of it; an
action is one event. The promises' handlers run inside SetValue. `SpawnLocal` without
its "async" argument may run the event at once or queue it: the field `sync` chooses one
for the behaviour. A response is reduced to what Receive tells apart: the status line, a
"{", and whether the body is {"OK":true}. A second value for a promise, a session used
after its deletion and `substr(npos)` are recorded in `fault`, where the behaviour ends:
what follows is undefined. `Invoker` assumes the contract of the behaviours before that.

*Controller.* One consumer thread (`thread` is where it is), the thread of RegisterNode
(two steps, as it holds no lock) and the IO thread (`SendRequest`, `ResolveActivation`).
Only the table is under m_. `CommitStored` is the broker's half of async_commit; `Crash`
and `Restart` may come between any two steps. The broker, the node and the network are
external and are modelled by what the code relies on: replies may repeat or never come.

*PortAllocator.* The counter is kept modulo `Space` (2^16); the port is taken modulo
the range, as in get_internal_port. An open session is remembered with its number in the
order of opening, which the code does not keep; PortsKeptApart is about these numbers.

*Bootstrap.* One action per stretch of the startup event between its blocks, and one per
handler (the two checkpoints, the warm-up's close and abort). Each Halt is an event in
`halts` and ends whichever Run is under way. The channel and the invoker's id are made in
one step, which leaves out a request that comes between the two.

*Startup* extends `Bootstrap`: its steps are those of `Bootstrap`, once a node is
allocated, and the steps of the hosted process. `main` is where the hosted process is;
`Allocate` is one turn of dsys's loop, with `node_args` accumulating as AppendArgs does;
`RegisterNode` may come at any time from the first allocation on, before the controller
exists too (`undefined`). `InitCore` of the node takes its limits from the command line
the hosted process wrote (`Parsed`), where the text is reduced to pairs of a name and a
number. `Queue` needs a registered node and the loop that feeds it.

*FrontEnd* extends `Controller`: `ScheduleActivation` first asks for the code (`Hit`,
`Miss`, `Unusable`), with the consumer's thread standing where `Controller` has it before
the table. The database is a version per action which `Update` raises; a fetched
document is whatever the version is by then. The cache is lost in a `Restart`.

*Channel.* A message is a record of the header's fields and the body, a sequence of
bytes. `Extract` is what ReceiveMessage cuts out of it, by the sizes in the header.
`SendReply` is one event that compares its core with `io_core` and, on another core,
spawns itself there: the second read of `io_core` is a step of its own. `Resolve` is a
call of Invoker::Resolve, and a request may have several, as `answered_twice` shows of the
invoker. Replies are numbered by the call that gave them, to tell them apart; the message
carries the request's id only. Two replies of one request may arrive in either order, when
one is forwarded longer: no property says otherwise. `Move` changes
the core the connection is served by, as the messenger may; a chained body may bring the
node down or pass unnoticed (see `Overruns`), so properties are stated for either.

*Benchmark.* `at` is where each thread is. `concurrencyPool -= 1` and `+= 1` are a load
and a store. The handler of a reply runs inside ResolveActivation on the IO thread, which
then holds m_, or in Then on the benchmark's thread. A handler of an earlier round stores
to the variable of the present one or to none, by choice.

## 3. Runs

| run | instance | what it shows |
|---|---|---|
| `invoker_cores` | 1 receiving core, 2 workers with room for 1; 3 requests for 2 functions, with an id each; hot and snapshot caches of 1 | WorkConserving, IoCoreSegregated, SnapshotOvershoot; it implements `Dispatcher` (DispatcherSpec) |
| `invoker_hot` | 1 worker with room for 2 that share its hot cache; 3 requests, 2 of one id, no assertions; fair | ConcurrencyExact, InstanceOwnership, HotStartMatches, HotCacheConsistent, ReuseBounded, QueueAccounted; EventuallyServed |
| `invoker_live` | 1 worker with room for 1; 3 requests, 2 of one id, assertions compiled in; fair | it implements `Dispatcher` with its liveness |
| `session` | one session, cold or warm, any order of events, split responses | AlwaysGuarded, TimerMatchesPhase, InitBeforeRun, SuccessIsGenuine; it implements `SessionContract` |
| `port_range` | 6-bit ports, base 48, 2 cores, 2 sessions at a time and 80 in all | PortsInRange, PortsKeptApart |
| `front_end` | 2 activations of one action, updated once; 2 replies to each request; 1 restart | CompletedOnce, FirstReplyFound, AnswerDelivered of `Controller`, with the cache under it; NeverOlder, OneCode |
| `startup` | every mode, 0 to 3 nodes, the limits set and unset, every way to be refused; 4 cores, 3 requests; a host of 6 cpus | CpusDisjoint, LimitsArrive, Serves; SnapshotsInOrder, OneHaltPerRun, BootEnds of the first node |
| `channel` | 2 requests, empty parts included, up to 2 answers to each; 3 cores, a connection that moves once | BodiesIntact, OneReplyPerCall, LeavesWhereHeard, RepliesArrive |
| `benchmark` | 2 rounds of up to 3 runs from eleven kinds of line | PoolNeverNegative, NoStall, RoundEnds |
| `snapshot_collision` | 2 workers cold start one function | **refuted**: two cores pass SetSnapshot's find, the second emplace fails `kassert(inserted)` |
| `answered_twice` | 1 worker, a warm start | **refuted**: a start that answers and then aborts is run again colder and answers again |
| `session_failure` | one session, whole responses | **refuted**: a response other than 200 OK is resolved with status 0 |

The refuted properties are sentences of comments and assertions; `findings` of
`PROJECT.json` quotes them. The type invariants the runs check
are those of the three largest modules: `TypeOK` of `Invoker`, and `FTypeOK` and `STypeOK`,
which include those of `Controller` and `Bootstrap`; `TypeOK` of `Channel` is proved.

### Bounds, and why they are enough

- *Cores.* Two workers besides the receiving core are what the races over the queue and
  the snapshot cache take; a third adds only more of the same race, and the theorems
  hold for any number. `invoker_hot` has one worker because the hot cache and the counter
  are private to a core: what matters there is two requests that interleave on it. The
  snapshot cache is shared, so its bound is checked with two.
- *Requests.* Three, two of them for one function: one may wait while two run, a hot
  instance may be reused by the same function and met by another one.
- *Transaction ids.* `invoker_hot` and `invoker_live` give two of the three requests one
  id, in the two kinds of build: the second may come while the first waits, or when it is
  served. `invoker_cores` gives them distinct ids, without which symmetry is not sound
  and no build implements `Dispatcher` to the end (NoneDropped).
- *Limits of 0 and 1* put every cache and counter at its limit within three requests.
  `CounterModulus = 3` lets the counter wrap if a slot is given back twice, and is above
  the limit, as 2^8 is above a limit of up to 255.
- *Ports.* 64 and 48 stand for 65536 and 49160: the quotients 65536 = 4 * 16375 + 36
  and 64 = 4 * 15 + 4 have the same shape, so the wrap cuts the range short in the same
  way: a port is back after 4 / 2 = 2 sessions there, and after 36 / 4 = 9 on a node of 4
  cores. 80 sessions take the counter twice around.
- *FrontEnd.* `MaxReplies = 2` is a reply and its repetition; `MaxRestarts = 1` lets an
  activation be lost and handled again, with an empty cache. Two activations of one
  action and two versions are what a stale entry, and two answers for one key, take.
  The instance has no health test, which would make it 4.7 million states:
  FrontEndCompletion and FrontEndFirstReply hold for every set of them.
- *Startup.* 6 cpus are one for each context with three nodes; the theorem covers every
  host. A core's limits are C = 12, S and R of 0, 5 or 7: set, unset and different from
  each other and from the defaults, which is what a swap or a loss needs to show. Four
  cores make the node's initialisation overlap the startup event.
- *Channel.* Three cores are the one a reply is sent from, io_core as first read, and
  io_core as read again; io_core changes with a receipt only, so with two requests one
  move makes the two readings differ. Two answers are the first one and that of a colder
  start after it. Bytes are all different, and arguments, code and result have different
  lengths, one of each empty.
- *Benchmark.* Two rounds, so that a reply outlives its own; three runs on one, two and no
  threads. The lines include one that quits, an empty one, one that does not parse, one
  with too many fields, and zero, negative or unequal numbers.
- *Session* has finite state without bounds.

`NDEBUG = TRUE` compiles `assert` and `kassert` out: it is the build in which a behaviour
goes on after a condition that was asserted. Where the assertion is the property, it is a
violation run, or a row of section 5.

Symmetry (the two workers; the two requests for one function) is used in safety runs
only.

### Fairness

- `Invoker`: weak fairness of every core's own steps (EbbRT's event loop runs what is
  queued) and of Closed or Aborted for every open session, which is what `session` shows
  (`SessionContract`'s `<>(returned \/ broken)`). No fairness for Executed, for a
  checkpoint or for arrivals: an instance may never answer.
- `InvocationSession`: weak fairness of queued events and of an armed timer. None for the
  network or the server.
- `FrontEnd`: weak fairness of the consumer's thread only, and not of its wait for the
  database. AnswerDelivered needs no more: it starts when the reply is there.
- `Startup`: weak fairness of the startup of the hosted process (allocation, the loops
  and the connection of its nodes), of the node's startup event, and of the end of the
  warm-up's session, whose timer sees to it; none for a checkpoint or a request. The
  first boot has no timer, so BootEnds starts at its snapshot.
- `Channel`: weak fairness of the receipt of messages and of the events of each reply
  separately, since each core takes its events in turn. None for `Move`, which is
  bounded: a connection that changes its core for ever could be forwarded after for ever.
- `Benchmark`: weak fairness of both threads, and of the reply to each request: the
  benchmark has no timeout, so without the second a round need not end.

Deadlock is checked in every passing run; `Terminated` is the end of a behaviour whose
requests are all served, or of a node or process that is down.

## 4. Proofs

Checked by TLAPS for all values of the constants under the named assumptions of the modules.

`Invoker_proofs` (any finite set of cores and requests, any limits):

| theorem | says | argument |
|---|---|---|
| TypeCorrect | `[]TypeOK` | inductive; the one delicate step is RemoveFirst on the fifo (RemoveFirstType) |
| QueueCorrect | `[]QueueAccounted`, whatever ids collide | the places of an id in the queue are counted against the requests queued or dropped under it: AddWork adds one to both, GetWork takes one from both. With RequestInv: a start on a core belongs to a running request without a session, an open session to a running request with no start on any core. Without it a request might be retired while it is queued |
| WorkIsFound | NoneDropped => `[]WorkFound`: GetWork's kassert cannot fail | by QueueAccounted an id in the queue stands for a request queued or dropped under it; none is dropped, and one that is queued has its record |
| ConcurrencyCorrect | LimitFitsCounter => `[]ConcurrencyExact` | the counter equals the size of Running(c), which only PokeTake and ResumeDone change (RunningFrame); the guard of PokeTake keeps it below the limit, hence away from the wrap |
| NoLostWakeup | LimitFitsCounter => `[]WorkConserving` | an exact counter, and: every poke dropped finds the core full or the queue empty, every release adds one |
| IoSegregation | `[]IoCoreSegregated` | IdleOffWork: a single receiving core has no poke, event or request |
| SnapshotBound | `[]SnapshotOvershoot` | SnapshotRoom: the snapshots plus the cores between find and emplace stay below limit plus workers; needs IdleOffWork to exclude the receiving core |
| InstancesOwned | `[]InstanceOwnership` | OwnershipInv: an open session has an active instance of its own (SessionsOwn), a cache entry an inactive one (CachesOwn), and neither kind is without an owner. Two parts make it inductive: the instance a warm or cold start still ahead of a request would boot does not exist yet (FreshInstances), and a request on its way to a start has no session (StartsAreUnbound) |
| HotStartsMatch | `[]HotStartMatches` | inductive on top of RequestInv and OwnershipInv: a session closes on the core it opened on, which parks the instance under the function of the request it was booted for |
| HotCacheCorrect | `[]HotCacheConsistent` | with FifoOnce: the fifo has no function twice, so that RemoveFirst, which erases one entry, leaves none behind (RemoveFirstOnce); save_hot_instance appends only a function the map does not list, and only while there is room |
| ReuseCorrect | `[]ReuseBounded` | inductive by itself: the count is raised only by SaveHotInstance, after CanBeReused |
| RefinesDispatcher | LimitFitsCounter, NoneDropped => DispatcherSpec | every step is a step of `Dispatcher` or a stutter, by QueueAccounted and ConcurrencyExact |

`NoneDropped` says that ids differ or the assertions are compiled in: without it AddWork
drops requests, and the statements that assume it are false of the code (WorkFound in
section 5). `LimitFitsCounter` is `ConcurrencyLimit < CounterModulus`: the option is 16 bits wide and
the counter 8, so for a limit of 256 or more the statements are false of the code.

`InvocationSession_proofs` (cold or warm, SpawnLocal at once or queued, responses whole or
in segments). The methods of the session are functions of its record, so each has a lemma
that says what it returns (SendValue, EndValue, ConnectedFacts, ReceiveFacts, ...); a step
is then one of six kinds (Connect, the return of the blocked event, ConnectedStep, EndStep,
a segment, nothing), and an invariant is shown once for each kind.

| theorem | says | argument |
|---|---|---|
| TypeCorrect | `[]TypeOK` | inductive, with EventsInv: only five of the promises are ever queued, and the first event runs alone |
| NeverAbandoned | `[]AlwaysGuarded` | inductive with TimerMatchesPhase, without which the timer could fire in a phase where Fire does nothing but stop it |
| TimerFollowsPhase | `[]TimerMatchesPhase` | inductive by itself |
| InitPrecedesRun | `[]InitBeforeRun` | SentInv: nothing is sent before when_connected_ is set, only /init until is_initialized_; so a segment that initialises finds exactly /init sent |
| SuccessOnlyGenuine | `[]SuccessIsGenuine` | EndInv: a success means a closed connection, on which no response arrives; what was resolved and the status agree on a failure |
| SessionKeepsContract | Spec => C!CSpec, the safety half of `Contract` | each step is one of the contract's or invisible to it; Return needs that a queued return follows Finish and comes once (EndInv), Reply that an open connection has not ended in success |

`PortAllocator_proofs` (any space, base and number of cores): PortsCorrect
(`[]PortsInRange`), from TypeOK and a fact about remainders, and ApartCorrect
(`[]PortsKeptApart`). The latter needs Counted: the counter of the nth session is n times
the number of cores, less the whole spaces it has wrapped. Two counters of one port are a
multiple of the range apart; if they wrapped alike, the sessions are a range apart, and if
the later wrapped once more, at least what the range leaves of the space (Gap).

`Controller_proofs` (any activations, ids, numbers of replies and restarts):

| theorem | says | argument |
|---|---|---|
| TypeCorrect | `[]TypeOK` | inductive, since TypeOK orders the three offsets: committed, requested, position |
| CompletionCorrect | `[]CompletedOnce` | LifeInv: an activation is not polled yet, in the consumer's hands, or attached; while a completion is still owed it has at most `restarts` of them. It needs the order of these phases (LifeOrder): without it a reply could be resolved for an activation that is scheduled again |
| FirstReplyCorrect | DistinctIds, MaxReplies > 0 => `[]FirstReplyFound` | ReplyInv: a request in the outbox has its record and no reply yet, and is in it once |

`DistinctIds` says that two activations have different transaction ids; without it the
second one's record is never made (NoTidCollision in section 5). `MaxReplies > 0` only
makes "no reply was used yet" differ from "none was ever due".

`FrontEnd_proofs` (any activations, actions, versions, replies and restarts, and any keys
but where an assumption is named):

| theorem | says | argument |
|---|---|---|
| RefinesController | FSpec => Spec of `Controller` | each step is one of `Controller` or leaves its variables alone: a consumer that waits for code has not come to the table |
| FrontEndCompletion, FrontEndFirstReply | `[]CompletedOnce`; `[]FirstReplyFound` under DistinctIds, MaxReplies > 0 | by RefinesController from `Controller_proofs` |
| FrontEndTypeCorrect | `[]FTypeOK` | inductive, on top of `Controller`'s |
| CodeNeverOlder, CodeIsOne | `[]NeverOlder`, `[]OneCode` | CacheInv: only published activations have code, so its version is settled; no version is ahead of the database; code is still what the cache has under its key, until a restart clears both; an entry is no older than its key. NeverOlder assumes that no two actions and versions have one key (KeysDistinct), which the concatenation in get_action does not ensure. Without the first, an activation could be published at a newer version after its code was given |

`Startup_proofs` (any set of command lines, host and number of cores):

| theorem | says | argument |
|---|---|---|
| RefinesBootstrap | SSpec => Spec of `Bootstrap` | step by step |
| SnapshotOrder, HaltsCorrect | `[]SnapshotsInOrder`, `[]OneHaltPerRun` | together inductive with Phases, which ties each phase of the startup event to its session, Halt and snapshot |
| CpusCorrect | `[]CpusDisjoint` | the k-th entry of the map is Reserve(k) and there are at most as many as nodes asked for (Counted, and RegisteredOnce with the pigeonhole principle); then arithmetic |
| LimitsCorrect | `[]LimitsArrive` | the first node's command line is NodeArgs of the options (FirstArgs), which Parsed takes apart again |
| StartupTypeCorrect | `[]STypeOK` | the invariants above |

`Channel_proofs` (any cores and requests; arguments, code and results of any length):

| theorem | says | argument |
|---|---|---|
| TypeCorrect | `[]TypeOK`: the receiver's assertion cannot fail | what is on the wire is a request or reply as its sender makes it (WireInv) |
| BodiesCorrect | `[]BodiesIntact` | WireInv, and that Extract undoes the layout (RequestRead, ReplyRead) |
| OneReplyCorrect | `[]OneReplyPerCall`, however often a request is answered | OneReply: what a call of Resolve gave is in one place of events, messages on the wire and resolutions, and has been sent from exactly one core if in the last two; the next call of the same request is a new one (Made) |
| LeavesCorrect | `[]LeavesWhereHeard` | HeardInv: an event that replies answers a request that was received, hence io_core is a core that has received |

`Benchmark_proofs` (any lines and rounds):

| theorem | says | argument |
|---|---|---|
| PoolCorrect | `[]PoolNeverNegative` | PoolInv: only a waiting round with a negative number of threads has a negative pool, what a handler has loaded is otherwise not negative, and what the benchmark takes is there. The case of a handler that loads a negative pool and stores it in a later round is why the invariant speaks of what is loaded and not only of the pool |
| NeverStalls | `[]NoStall` | StallInv: a round that was given a thread has a place or an outstanding request, since what a handler of the round stores is at least 1 (PoolInv) and what the benchmark takes becomes outstanding. The latter needs the request to have a number: NumberInv counts the requests made and the runs left (RunsLeft, whose size RoundSize bounds with the index genRevisionVec fills its vector by) |

*Only model-checked.* Liveness (EventuallyServed, DispatcherFairSpec, the liveness half of
Contract, AnswerDelivered, BootEnds, Serves, RepliesArrive, RoundEnds): fairness and
ENABLED are beyond the prover. Every safety property a passing run checks is a theorem.

## 5. Known departures that no run is kept for

Each is stated in its module, under "What the repository says and the code does not keep
to", and TLC refutes it on the instance named; the hazard at its line refers to it.

| property | module | instance |
|---|---|---|
| NoQueueCollision, WorkFound | Invoker | two requests of one id, the second while the first waits; for WorkFound also NDEBUG = TRUE. What holds is QueueAccounted, and WorkFound under NoneDropped |
| SnapshotCacheBounded | Invoker | 2 workers, SnapLimit 1, two functions. What holds is SnapshotOvershoot |
| ConcurrencyBounded | Invoker | ConcurrencyLimit = CounterModulus = 2 |
| ReuseWithinLimit | Invoker | ReuseLimit 1, three requests for one function. What holds is ReuseBounded |
| EventuallyServed, on one core | Invoker | Core = IOCores = {c0}: AddWork pokes no one |
| SuccessMeansReplied | InvocationSession | a connection closed before any response: success, and nothing is sent back |
| ResolvedIsComplete | InvocationSession | a response in two segments |
| InitializedHasCode | InvocationSession | a warm function that returns {"OK":true} |
| EndsOnce, QuietWhenDeleted | InvocationSession | a timeout, then a close |
| DedicatedPort | PortAllocator | three sessions around a wrap |
| BackendKnown, NoTidCollision, CpuReserved | Controller | one activation; two with one id; one between the halves of RegisterNode |
| BootstrappedMeansBase | Bootstrap | the warm-up's connection closes before its checkpoint |
| StartsAreBootstrapped | Bootstrap | NDEBUG = FALSE: a request during the startup reaches `kassert(is_bootstrapped_)` |
| CpuExclusive | Startup | PhysCpus = 3: the node's events go to the cpu of the consumer loop, which never returns |
| ReuseLimitArrives | Startup | S = 7, R = 0: the node uses its default |
| ControllerExists | Startup | a node registers before seuss::Init, for instance while another is allocated |
| KnownMode | Startup | a mode of another name starts nothing and is not refused |
| ExactCode | FrontEnd | an activation at version 1, consumed after an update |
| CacheHoldsCode | FrontEnd | one error document |
| LeavesFromConnection | Channel | the connection moves after the comparison |
| ChainedCopied | Channel | a request in several segments |
| WithinThreads | Benchmark | a handler's store overwrites the benchmark's |
| OwnStart | Benchmark | two runs, two threads: start_time is the second's when the first is reported |
| InputRejected | Benchmark | a negative number of runs; with NDEBUG = FALSE, also one user too many, or none |

## 6. Not modelled, and the plan

The invoker, its sessions and ports, the controller with its cache, the channel, the whole
startup and the benchmark are modelled. What is left, in this order:

1. `Controller`, `Channel` and `Dispatcher` composed into one system from topic to
   completion, against an abstract `ActivationService` (each activation is completed at
   most once per process, with the answer of its own function). The assumptions of each
   were compared by hand: the session's contract is checked, `Controller` allows for the
   repeated replies that `Invoker` gives (`answered_twice`) and `Channel` delivers, and
   colliding ids are in `Invoker` but excluded where FirstReplyFound is claimed
   (DistinctIds). The composition itself is not checked.

Not modelled, and why:

- *Times in a completion* (wait_time and duration in `SeussController.cc`): wait_time is a
  difference of unsigned numbers and may wrap; it is only printed and reported, and no
  state depends on it.
- *OpenWhisk messages* (`openwhisk/msg.{cc,h}`): conversion of JSON to records and back,
  without state. What its callers do on a message that does not parse is in `FrontEnd`
  and `Controller`.
- *Heartbeat loop and null mode* (`openwhisk/kafka.cc`): they send or consume and keep
  nothing. That they never return is in `Startup` (`loops`).
- *MemberSet* (`dsys/MemberSet.h`): no file of the repository includes it, so no state of
  the program depends on it.
- *The shape of a node* (memory, numa, cpus in `dsys`): passed on to EbbRT and read by
  nothing here.
- *stalled_instance_usage_count_* grows with every instance ever parked; ids are not used
  again, so no behaviour but memory depends on the entries that are left.
- *The timer's duration*: an armed timer may fire at any time; how long it is makes no
  difference that the properties can tell.
- The unikernel monitor (UmManager, UmInstance) beyond the events it raises, EbbRT, Kafka
  and CouchDB themselves; JSON and HTTP text, printing.
