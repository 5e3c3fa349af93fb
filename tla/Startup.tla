------------------------------- MODULE Startup -------------------------------
(***************************************************************************)
(* Start of a whole invoker: the hosted process (src/src/hosted/main.cc,   *)
(* AppMain in seuss.cc, dsys) reads its options, allocates the native      *)
(* nodes and starts the loops of its mode; a node boots as in Bootstrap,   *)
(* whose cores take their limits from its command line; and it is          *)
(* registered, on a cpu of the hosted process reserved for it, when its    *)
(* network id becomes known, whatever either side is doing then.           *)
(***************************************************************************)
EXTENDS Bootstrap, Integers, Sequences

CONSTANTS
  Options,     \* command lines: see Option
  PhysCpus     \* Cpu::GetPhysCpus of the host

\* usable: no option that does not parse, nor "help"; complete: the options of
\* CouchDB and Kafka are there; file: the benchmark's function.
Option ==
  [mode : {"default", "benchmark", "null", "other"}, usable : BOOLEAN, complete : BOOLEAN,
   file : {"none", "good", "bad"}, elf32 : BOOLEAN,
   natives : Nat, C : Nat, S : Nat, R : Nat]

ASSUME StartupAssumption ==
  /\ Options \subseteq Option
  /\ PhysCpus \in Nat \ {0}

VARIABLES
  o,              \* the command line
  main,           \* the hosted process: where its startup is
  left,           \* native nodes dsys::Init has yet to allocate
  node_args,      \* AppendArgs: the command line of the nodes
  allocated,      \* the command line of each node allocated
  registered,     \* _nids: nodes in order of registration
  cpus_map,       \* _frontEnd_cpus_map: the cpu of each of them
  loops,          \* the cpus whose event never returns
  limits          \* of each core of the first node: InvokerCore::Init

hosted == <<o, main, left, node_args, allocated, registered, cpus_map, loops>>
svars == <<vars, hosted, limits>>

\* openwhisk.h: thread, thread_count.
ping == 1
action == 2
thread_count == 2

Default == [C |-> 1, S |-> 0, R |-> 300]

SInit ==
  /\ Init
  /\ o \in Options
  /\ main = "start"
  /\ left = 0
  /\ node_args = <<>>
  /\ allocated = <<>>
  /\ registered = <<>>
  /\ cpus_map = <<>>
  /\ loops = {}
  /\ limits = [c \in 0 .. Count - 1 |-> Default]

-----------------------------------------------------------------------------
(* The hosted process.                                                     *)

\* main exits before the runtime starts.
Refused ==
  \/ ~o.usable
  \/ o.mode \in {"default", "null"} /\ ~o.complete
  \/ o.mode = "benchmark" /\ o.file = "bad"
  \/ o.mode \in {"default", "benchmark"} /\ ~o.elf32

\* Mutant: a loop that allocates before it counts.
CountPastEnd == o.natives + 1

\* Mutant: while (--count) for while (count--).
CountOffByOne == IF o.natives = 0 THEN 0 ELSE o.natives - 1

\* dsys::Init: while (count--).
NodeCount == o.natives

Main ==
  /\ main = "start"
  /\ IF Refused
     THEN main' = "exit" /\ UNCHANGED left
     ELSE /\ main' = CASE o.mode \in {"default", "benchmark"} -> "dsys"
                       [] o.mode = "null"                     -> "connect"
                       [] OTHER                               -> "idle"
          /\ left' = NodeCount
  /\ UNCHANGED <<vars, o, node_args, allocated, registered, cpus_map, loops, limits>>

\* Mutant: the reuse limit goes out for the idle limit.
NodeArgsSwapped ==
  <<<<"Clim=", o.C>>, <<"Slim=", o.R>>>>
    \o (IF o.S > 0 /\ o.R > 0 THEN <<<<"Rlim=", o.S>>>> ELSE <<>>)

NodeArgs ==
  <<<<"Clim=", o.C>>, <<"Slim=", o.S>>>>
    \o (IF o.S > 0 /\ o.R > 0 THEN <<<<"Rlim=", o.R>>>> ELSE <<>>)

\* AllocateNativeInstances: the arguments add up from node to node.
Allocate ==
  /\ main = "dsys"
  /\ left > 0
  /\ left' = left - 1
  /\ node_args' = node_args \o NodeArgs
  /\ allocated' = Append(allocated, node_args')
  /\ UNCHANGED <<vars, o, main, registered, cpus_map, loops, limits>>

\* seuss::Init creates the controller and the channel.
SeussInit ==
  /\ main = "dsys"
  /\ left = 0
  /\ main' = IF o.mode = "default" THEN "connect" ELSE "test"
  /\ UNCHANGED <<vars, o, left, node_args, allocated, registered, cpus_map, loops, limits>>

\* openwhisk::connect or test: events that never return, on cpus of their own.
StartLoops ==
  /\ main \in {"connect", "test"}
  /\ loops' = IF main = "connect" THEN {ping, action} ELSE {action}
  /\ main' = "running"
  /\ UNCHANGED <<vars, o, left, node_args, allocated, registered, cpus_map, limits>>

\* Mutant: the cpus are counted from the front, as the loops' are.
ReserveFront(k) == k % PhysCpus

\* The cpu of the k-th node.  The remainder has the sign of the difference, and
\* a negative one is no cpu.
Reserve(k) == IF k <= PhysCpus THEN (PhysCpus - k) % PhysCpus
              ELSE -((k - PhysCpus) % PhysCpus)

\* RegisterNode.  Before seuss::Init there is no controller to call.
RegisterNode(i) ==
  /\ main \in {"dsys", "connect", "test", "running"}
  /\ \A j \in DOMAIN registered : registered[j] # i
  /\ IF main = "dsys"
     THEN main' = "undefined" /\ UNCHANGED <<registered, cpus_map>>
     ELSE /\ registered' = Append(registered, i)
          /\ cpus_map' = Append(cpus_map, Reserve(Len(registered) + 1))
          /\ UNCHANGED main
  /\ UNCHANGED <<vars, o, left, node_args, allocated, loops, limits>>

Hosted ==
  \/ Main \/ Allocate \/ SeussInit \/ StartLoops
  \/ \E i \in DOMAIN allocated : RegisterNode(i)

-----------------------------------------------------------------------------
(* The first node.                                                         *)

Allocated == allocated # <<>>

\* cl.find(name) != npos.
HasArg(cl, name) == \E i \in DOMAIN cl : cl[i][1] = name

\* The value after the first occurrence.
FindArg(cl, name) ==
  cl[CHOOSE i \in DOMAIN cl : cl[i][1] = name /\ \A j \in 1 .. i - 1 : cl[j][1] # name][2]

\* Invoker::Init: the reuse limit is looked for where the idle limit is found.
Parsed(cl) ==
  LET value(name, default) == IF HasArg(cl, name) THEN FindArg(cl, name) ELSE default
  IN  [C |-> value("Clim=", Default.C), S |-> value("Slim=", Default.S),
       R |-> IF HasArg(cl, "Slim=") THEN value("Rlim=", Default.R) ELSE Default.R]

NodeInitCore ==
  /\ InitCore
  /\ limits' = [limits EXCEPT ![inited] = Parsed(allocated[1])]

\* The activation loop, or the benchmark once Ready, sends a request to the node
\* that registered first.
NodeQueue ==
  /\ Queue
  /\ action \in loops
  /\ registered # <<>> /\ registered[1] = 1
  /\ UNCHANGED limits

\* What the event loop of the node runs of itself, and the rest.
NodeBoot ==
  /\ Allocated
  /\ NodeInitCore \/ ((CreateChannel \/ RunPreinit \/ RunWarmup \/ Bootstrapped) /\ UNCHANGED limits)
  /\ UNCHANGED hosted

NodeSession == Allocated /\ (WarmupClosed \/ WarmupAborted) /\ UNCHANGED <<hosted, limits>>

Node ==
  \/ NodeBoot
  \/ NodeSession
  \/ /\ Allocated
     /\ NodeQueue \/ ((PreinitCheckpoint \/ WarmupCheckpoint \/ Start) /\ UNCHANGED limits)
     /\ UNCHANGED hosted

\* The node is idle, or there is none.
Rest ==
  /\ \/ Terminated
     \/ ~Allocated /\ main \in {"exit", "idle", "running"}
  /\ UNCHANGED svars

SNext == Hosted \/ Node \/ Rest

SSpec == SInit /\ [][SNext]_svars

\* The startup of the hosted process runs, its nodes connect, and their events
\* are run as in Bootstrap.
SFairSpec == SSpec /\ WF_svars(Hosted) /\ WF_svars(NodeBoot) /\ WF_svars(NodeSession)

-----------------------------------------------------------------------------
(* Properties.                                                             *)

STypeOK ==
  /\ TypeOK
  /\ o \in Options
  /\ main \in {"start", "exit", "idle", "dsys", "connect", "test", "running", "undefined"}
  /\ left \in Nat
  /\ Len(allocated) <= o.natives
  /\ \A i \in DOMAIN registered : registered[i] \in DOMAIN allocated
  /\ DOMAIN cpus_map = DOMAIN registered
  /\ \A i \in DOMAIN cpus_map : cpus_map[i] \in Int
  /\ loops \subseteq {ping, action}
  /\ limits \in [0 .. Count - 1 -> [C : Nat, S : Nat, R : Nat]]

\* On a host with a cpu for each of the contexts main asks for, every node's
\* requests are sent from a cpu of their own, on which no loop keeps them from
\* being sent for ever, and which is not AppMain's (RegisterNode).
CpusDisjoint ==
  PhysCpus >= 1 + thread_count + o.natives =>
    /\ \A i, j \in DOMAIN cpus_map : cpus_map[i] = cpus_map[j] => i = j
    /\ \A i \in DOMAIN cpus_map : cpus_map[i] \in 1 .. PhysCpus - 1 \ {ping, action}

\* The limits on the command line of the hosted process are those each core of
\* the node runs with, once it is initialised; the reuse limit, when the idle
\* limit calls for one (AllocateNativeInstances, Invoker::Init).
LimitsArrive ==
  \A c \in 0 .. inited - 1 :
    /\ limits[c].C = o.C /\ limits[c].S = o.S
    /\ o.S > 0 /\ o.R > 0 => limits[c].R = o.R

\* A start with nodes to allocate ends with one registered and the loop that
\* uses it running, or with a call of the controller that is not there yet.
Serves ==
  main = "dsys" /\ o.natives > 0 ~>
    (registered # <<>> /\ action \in loops) \/ main = "undefined"

(* What the repository says and the code does not keep to.                 *)

\* "CPU: ... was reserved for" the node, on any host.
CpuExclusive == \A i \in DOMAIN cpus_map : cpus_map[i] \notin loops

\* "reuse-limit,R": "Number of times to reuse an active instance (for S>0)".
ReuseLimitArrives == \A c \in 0 .. inited - 1 : o.S > 0 => limits[c].R = o.R

\* RegisterNode is a method of an Ebb that seuss::Init creates.
ControllerExists == main # "undefined"

\* "Seuss Invoker mode (default, benchmark, null)": another one is not refused.
KnownMode == main # "idle"

=============================================================================
