--------------------------- MODULE Startup_proofs ---------------------------
(***************************************************************************)
(* Proofs about Startup.  The node of a whole invoker boots as in          *)
(* Bootstrap, whose invariant is proved of Bootstrap alone; the rest is    *)
(* about the hosted process: what it counts, hands over and reserves.      *)
(***************************************************************************)
EXTENDS Startup, FiniteSetTheorems, FunctionTheorems, SequenceTheorems, TLAPS

-----------------------------------------------------------------------------
(* The node's startup.  An armed checkpoint, a queued Halt and the phase   *)
(* of the startup event determine each other until the warm-up.            *)

Phases ==
  /\ boot \in {"start", "init"} => ~armed
  /\ boot = "preinit" => (armed <=> halts = 0)
  /\ boot \notin {"start", "init"} => inited = Count
  /\ boot \in {"start", "init", "preinit"} => session = "none"
  /\ boot = "done" => session = "closed"
  /\ is_bootstrapped_ => boot = "done"

\* The type invariant in two halves, for two provers.
Flags ==
  /\ preinit_env_ \in BOOLEAN /\ base_um_env_ \in BOOLEAN
  /\ is_bootstrapped_ \in BOOLEAN /\ armed \in BOOLEAN

Numbers ==
  /\ boot \in {"start", "init", "preinit", "warmup", "done"}
  /\ inited \in 0 .. Count /\ halts \in Nat
  /\ session \in {"none", "open", "closed", "aborted"}
  /\ arrived \in 0 .. MaxRequests /\ waiting \in 0 .. arrived
  /\ node \in {"up", "aborted", "undefined"}

BootInv == TypeOK /\ SnapshotsInOrder /\ OneHaltPerRun /\ Phases

\* Nothing is booted, captured or queued at first.
LEMMA BootInit == Init => BootInv
<1> SUFFICES ASSUME Init PROVE BootInv
  OBVIOUS
<1>1. TypeOK
  <2>1. Flags
    BY Zenon DEF Init, Flags
  <2>2. Numbers
    BY BootAssumption DEF Init, Numbers
  <2> QED BY <2>1, <2>2 DEF TypeOK, Flags, Numbers
<1>2. SnapshotsInOrder
  BY DEF Init, SnapshotsInOrder
<1>3. OneHaltPerRun
  BY DEF Init, OneHaltPerRun
<1>4. Phases
  BY DEF Init, Phases
<1> QED BY <1>1, <1>2, <1>3, <1>4 DEF BootInv

\* Each step of the startup, its handlers and the requests keeps the invariant.
LEMMA BootNext == BootInv /\ [Next]_vars => BootInv'
<1> SUFFICES ASSUME BootInv, [Next]_vars PROVE BootInv'
  OBVIOUS
<1> USE BootAssumption
        DEF BootInv, TypeOK, SnapshotsInOrder, OneHaltPerRun, Phases, snapshots, run, requests, Up
<1>1. CASE UNCHANGED vars
  BY <1>1 DEF vars
<1>2. CASE CreateChannel
  BY <1>2 DEF CreateChannel
<1>3. CASE InitCore
  BY <1>3 DEF InitCore
<1>4. CASE RunPreinit
  BY <1>4 DEF RunPreinit
<1>5. CASE PreinitCheckpoint
  <2> USE <1>5 DEF PreinitCheckpoint
  <2>1. TypeOK'
    <3>1. Flags'
      BY Zenon DEF Flags
    <3>2. Numbers'
      BY DEF Numbers
    <3> QED BY <3>1, <3>2 DEF Flags, Numbers
  <2>2. SnapshotsInOrder'
    OBVIOUS
  <2>3. OneHaltPerRun'
    OBVIOUS
  <2>4. Phases'
    OBVIOUS
  <2> QED BY <2>1, <2>2, <2>3, <2>4
<1>6. CASE RunWarmup
  BY <1>6 DEF RunWarmup
<1>7. CASE WarmupCheckpoint
  BY <1>7 DEF WarmupCheckpoint
<1>8. CASE WarmupClosed
  BY <1>8 DEF WarmupClosed
<1>9. CASE WarmupAborted
  BY <1>9 DEF WarmupAborted
<1>10. CASE Bootstrapped
  <2> USE <1>10 DEF Bootstrapped
  <2>1. TypeOK'
    <3>1. Flags'
      BY Zenon DEF Flags
    <3>2. Numbers'
      BY DEF Numbers
    <3> QED BY <3>1, <3>2 DEF Flags, Numbers
  <2>2. SnapshotsInOrder'
    OBVIOUS
  <2>3. OneHaltPerRun'
    OBVIOUS
  <2>4. Phases'
    OBVIOUS
  <2> QED BY <2>1, <2>2, <2>3, <2>4
<1>11. CASE Queue
  BY <1>11 DEF Queue
<1>12. CASE Start
  BY <1>12 DEF Start
<1> QED
  BY <1>1, <1>2, <1>3, <1>4, <1>5, <1>6, <1>7, <1>8, <1>9, <1>10, <1>11, <1>12
  DEF Next, Boot, Terminated

\* Every step of the whole is a step of the node's startup, or leaves it alone.
LEMMA StepIsBootstraps == [SNext]_svars => [Next]_vars
<1> SUFFICES ASSUME [SNext]_svars PROVE [Next]_vars
  OBVIOUS
<1>1. CASE UNCHANGED svars
  BY <1>1 DEF svars
<1>2. CASE Hosted
  BY <1>2 DEF Hosted, Main, Allocate, SeussInit, StartLoops, RegisterNode
<1>3. CASE Node
  BY <1>3 DEF Node, NodeBoot, NodeSession, NodeInitCore, NodeQueue, Next, Boot
<1>4. CASE Rest
  BY <1>4 DEF Rest, svars
<1> QED BY <1>1, <1>2, <1>3, <1>4 DEF SNext

\* The node of a whole invoker is the node of Bootstrap, whatever the hosted
\* process does meanwhile.
THEOREM RefinesBootstrap == SSpec => Spec
<1>1. SInit => Init
  BY DEF SInit
<1> QED BY <1>1, StepIsBootstraps, PTL DEF SSpec, Spec

\* Its invariant, of both specifications.
LEMMA BootInvariant == Spec => []BootInv
BY BootInit, BootNext, PTL DEF Spec

\* Snapshots are captured and deployed in order, with every core initialised.
THEOREM SnapshotOrder == SSpec => []SnapshotsInOrder
BY BootInvariant, RefinesBootstrap, PTL DEF BootInv

\* Each Run of the startup event is ended by its own Halt, and none is left over.
THEOREM HaltsCorrect == SSpec => []OneHaltPerRun
BY BootInvariant, RefinesBootstrap, PTL DEF BootInv

-----------------------------------------------------------------------------
(* The hosted process.  No more nodes are allocated than were asked for,   *)
(* the first with the arguments of one node; each registers once, and its  *)
(* cpu is that of its place in the order of registration.                  *)

Arg == {"Clim=", "Slim=", "Rlim="} \X Nat

HostTypeOK ==
  /\ o \in Options
  /\ main \in {"start", "exit", "idle", "dsys", "connect", "test", "running", "undefined"}
  /\ left \in Nat
  /\ node_args \in Seq(Arg)
  /\ allocated \in Seq(Seq(Arg))
  /\ registered \in Seq(Nat)
  /\ cpus_map \in Seq(Int)
  /\ loops \subseteq {ping, action}

Counted ==
  /\ main = "start" => allocated = <<>>
  /\ Len(allocated) + left <= o.natives

FirstArgs ==
  /\ allocated = <<>> => node_args = <<>>
  /\ allocated # <<>> => allocated[1] = NodeArgs

RegisteredOnce ==
  /\ \A i \in DOMAIN registered : registered[i] \in DOMAIN allocated
  /\ \A i, j \in DOMAIN registered : registered[i] = registered[j] => i = j
  /\ DOMAIN cpus_map = DOMAIN registered
  /\ \A i \in DOMAIN cpus_map : cpus_map[i] = Reserve(i)

HostInv == HostTypeOK /\ Counted /\ FirstArgs /\ RegisteredOnce

\* The arguments of a node are two or three pairs.
LEMMA NodeArgsType == HostTypeOK => NodeArgs \in Seq(Arg)
<1> SUFFICES ASSUME HostTypeOK PROVE NodeArgs \in Seq(Arg)
  OBVIOUS
<1>1. o.C \in Nat /\ o.S \in Nat /\ o.R \in Nat
  BY StartupAssumption DEF HostTypeOK, Option
<1>2. <<"Clim=", o.C>> \in Arg /\ <<"Slim=", o.S>> \in Arg /\ <<"Rlim=", o.R>> \in Arg
  BY <1>1 DEF Arg
<1>3. <<<<"Clim=", o.C>>, <<"Slim=", o.S>>>> \in Seq(Arg) /\ <<<<"Rlim=", o.R>>>> \in Seq(Arg)
      /\ <<>> \in Seq(Arg)
  BY <1>2
<1> QED BY <1>3, ConcatProperties DEF NodeArgs

\* The reserved cpu is a number.
LEMMA ReserveType == \A k \in Nat : Reserve(k) \in Int
BY StartupAssumption DEF Reserve

\* Nothing is allocated or registered at first.
LEMMA HostInit == SInit => HostInv
<1> SUFFICES ASSUME SInit PROVE HostInv
  OBVIOUS
<1>1. o.natives \in Nat
  BY StartupAssumption DEF SInit, Option
<1> QED
  BY <1>1 DEF SInit, HostInv, HostTypeOK, Counted, FirstArgs, RegisteredOnce

\* Each step of the hosted process keeps the invariant.
LEMMA HostNext == HostInv /\ [SNext]_svars => HostInv'
<1> SUFFICES ASSUME HostInv, [SNext]_svars PROVE HostInv'
  OBVIOUS
<1> USE DEF HostInv
<1>0. o.natives \in Nat /\ NodeArgs \in Seq(Arg)
  BY StartupAssumption, NodeArgsType DEF HostTypeOK, Option
<1>1. CASE UNCHANGED hosted
  BY <1>1 DEF hosted, HostTypeOK, Counted, FirstArgs, RegisteredOnce, NodeArgs
<1>2. CASE Main
  <2>1. /\ UNCHANGED <<o, node_args, allocated, registered, cpus_map, loops>>
        /\ left' \in {left, o.natives} /\ main = "start"
        /\ main' \in {"exit", "dsys", "connect", "idle"}
    BY <1>2 DEF Main, NodeCount
  <2>2. HostTypeOK'
    BY <1>0, <2>1 DEF HostTypeOK
  <2>3. Counted'
    BY <1>0, <2>1 DEF Counted
  <2> QED BY <2>1, <2>2, <2>3 DEF FirstArgs, RegisteredOnce, NodeArgs
<1>3. CASE Allocate
  <2>1. /\ UNCHANGED <<o, main, registered, cpus_map, loops>>
        /\ left > 0 /\ left' = left - 1 /\ main = "dsys"
        /\ node_args' = node_args \o NodeArgs
        /\ allocated' = Append(allocated, node_args \o NodeArgs)
    BY <1>3 DEF Allocate
  <2>2. node_args' \in Seq(Arg) /\ allocated \in Seq(Seq(Arg))
    BY <1>0, <2>1, ConcatProperties DEF HostTypeOK
  <2>3. /\ allocated' \in Seq(Seq(Arg)) /\ Len(allocated') = Len(allocated) + 1
        /\ DOMAIN allocated' = DOMAIN allocated \cup {Len(allocated) + 1}
        /\ \A i \in DOMAIN allocated : allocated'[i] = allocated[i]
        /\ allocated'[Len(allocated) + 1] = node_args'
    <3>1. PICK s \in Seq(Seq(Arg)), t \in Seq(Arg) :
            s = allocated /\ t = node_args' /\ allocated' = Append(s, t)
      BY <2>1, <2>2
    <3>2. PICK n \in Nat : n = Len(s) /\ DOMAIN s = 1 .. n
      BY <3>1
    <3>3. /\ Append(s, t) \in Seq(Seq(Arg)) /\ Len(Append(s, t)) = n + 1
          /\ \A i \in 1 .. n : Append(s, t)[i] = s[i]
          /\ Append(s, t)[n + 1] = t
      BY <3>2, AppendProperties
    <3>4. DOMAIN Append(s, t) = 1 .. n + 1 /\ 1 .. n + 1 = 1 .. n \cup {n + 1}
      BY <3>3
    <3> QED BY <3>1, <3>2, <3>3, <3>4
  <2>4. HostTypeOK'
    BY <2>1, <2>2, <2>3 DEF HostTypeOK
  <2>5. Counted'
    BY <1>0, <2>1, <2>3 DEF Counted, HostTypeOK
  <2>6. FirstArgs'
    <3>1. allocated' # <<>>
      BY <2>2, <2>3
    <3>2. NodeArgs' = NodeArgs
      BY <2>1 DEF NodeArgs
    <3>3. CASE allocated = <<>>
      <4>1. node_args' = NodeArgs
        BY <1>0, <2>1, <3>3, ConcatEmptySeq DEF FirstArgs
      <4> QED BY <2>3, <3>1, <3>2, <3>3, <4>1 DEF FirstArgs
    <3>4. CASE allocated # <<>>
      <4>1. 1 \in DOMAIN allocated
        BY <2>2, <3>4
      <4> QED BY <2>3, <3>1, <3>2, <3>4, <4>1 DEF FirstArgs
    <3> QED BY <3>3, <3>4
  <2>7. RegisteredOnce'
    BY <2>1, <2>3 DEF RegisteredOnce, Reserve
  <2> QED BY <2>4, <2>5, <2>6, <2>7
<1>4. CASE SeussInit \/ StartLoops
  <2>1. /\ UNCHANGED <<o, left, node_args, allocated, registered, cpus_map>>
        /\ main' \in {"connect", "test", "running"}
        /\ loops' \subseteq {ping, action}
    BY <1>4 DEF SeussInit, StartLoops, HostTypeOK
  <2> QED
    BY <2>1 DEF HostTypeOK, Counted, FirstArgs, RegisteredOnce, NodeArgs
<1>5. ASSUME NEW i \in DOMAIN allocated, RegisterNode(i) PROVE HostInv'
  <2>1. /\ UNCHANGED <<o, left, node_args, allocated, loops>>
        /\ \A j \in DOMAIN registered : registered[j] # i
        /\ main # "start"
    BY <1>5 DEF RegisterNode
  <2>2. CASE main' = "undefined" /\ UNCHANGED <<registered, cpus_map>>
    BY <2>1, <2>2 DEF HostTypeOK, Counted, FirstArgs, RegisteredOnce, NodeArgs
  <2>3. CASE /\ registered' = Append(registered, i)
             /\ cpus_map' = Append(cpus_map, Reserve(Len(registered) + 1))
             /\ UNCHANGED main
    <3>1. i \in Nat /\ registered \in Seq(Nat) /\ cpus_map \in Seq(Int)
      BY DEF HostTypeOK
    <3>2. Len(cpus_map) = Len(registered) /\ Len(registered) \in Nat
      BY <3>1 DEF RegisteredOnce
    <3>3. Reserve(Len(registered) + 1) \in Int
      BY <3>2, ReserveType
    <3> DEFINE n == Len(registered) + 1
    <3>4. /\ registered' \in Seq(Nat) /\ DOMAIN registered' = DOMAIN registered \cup {n}
          /\ registered'[n] = i
          /\ \A j \in DOMAIN registered : registered'[j] = registered[j]
      BY <2>3, <3>1, AppendProperties
    <3>5. /\ cpus_map' \in Seq(Int) /\ DOMAIN cpus_map' = DOMAIN cpus_map \cup {n}
          /\ cpus_map'[n] = Reserve(n)
          /\ \A j \in DOMAIN cpus_map : cpus_map'[j] = cpus_map[j]
      BY <2>3, <3>1, <3>2, <3>3, AppendProperties
    <3>6. HostTypeOK'
      BY <2>1, <2>3, <3>4, <3>5 DEF HostTypeOK
    <3>7. RegisteredOnce'
      BY <2>1, <3>4, <3>5 DEF RegisteredOnce, Reserve
    <3> QED BY <2>1, <2>3, <3>6, <3>7 DEF Counted, FirstArgs, NodeArgs
  <2> QED BY <1>5, <2>2, <2>3 DEF RegisterNode
<1> QED
  BY <1>1, <1>2, <1>3, <1>4, <1>5
  DEF SNext, Hosted, Node, NodeBoot, NodeSession, Rest, hosted, svars

\* The invariant of the hosted process holds of every behaviour.
LEMMA HostInvariant == SSpec => []HostInv
BY HostInit, HostNext, PTL DEF SSpec

-----------------------------------------------------------------------------
(* The cpus.                                                               *)

\* The size of an interval from 1.
LEMMA IntervalSize ==
  ASSUME NEW k \in Nat
  PROVE  IsFiniteSet(1 .. k) /\ Cardinality(1 .. k) = k
<1>1. 1 \in Int /\ k \in Int
  OBVIOUS
<1>2. /\ IsFiniteSet(1 .. k)
      /\ Cardinality(1 .. k) = IF 1 > k THEN 0 ELSE k - 1 + 1
  BY <1>1, FS_Interval
<1> QED BY <1>2

\* There are no more nodes registered than were asked for.
LEMMA RegisteredBound == HostInv => Len(registered) <= o.natives
<1> SUFFICES ASSUME HostInv PROVE Len(registered) <= o.natives
  OBVIOUS
<1> DEFINE m == Len(registered)
           n == Len(allocated)
<1>1. m \in Nat /\ n \in Nat /\ DOMAIN registered = 1 .. m /\ DOMAIN allocated = 1 .. n
  BY DEF HostInv, HostTypeOK
<1>2. registered \in Injection(1 .. m, 1 .. n)
  <2>1. registered \in [1 .. m -> 1 .. n]
    BY <1>1 DEF HostInv, HostTypeOK, RegisteredOnce
  <2>2. \A i, j \in 1 .. m : registered[i] = registered[j] => i = j
    BY <1>1 DEF HostInv, RegisteredOnce
  <2> HIDE DEF m, n
  <2> QED BY <2>1, <2>2, Fun_IsInj
<1>3. IsFiniteSet(1 .. n) /\ Cardinality(1 .. n) = n /\ Cardinality(1 .. m) = m
  BY <1>1, IntervalSize
<1>4. Cardinality(1 .. m) <= Cardinality(1 .. n)
  <2> HIDE DEF m, n
  <2> QED BY <1>2, <1>3, FS_Injection
<1>5. o.natives \in Nat /\ left \in Nat
  BY StartupAssumption DEF HostInv, HostTypeOK, Option
<1>6. n + left <= o.natives
  BY DEF HostInv, Counted
<1> QED BY <1>1, <1>3, <1>4, <1>5, <1>6

\* Counted down from the number of cpus, one to a node, without reaching those of
\* the loops or cpu 0 while there are enough.
LEMMA ReserveDown ==
  ASSUME NEW k \in Nat, k >= 1, k < PhysCpus
  PROVE  Reserve(k) = PhysCpus - k
<1>1. PhysCpus - k \in 1 .. PhysCpus - 1 /\ PhysCpus \in Nat \ {0}
  BY StartupAssumption
<1>2. (PhysCpus - k) % PhysCpus = PhysCpus - k
  BY <1>1, SMT
<1> QED BY <1>1, <1>2 DEF Reserve

\* On a host with enough cpus every node's requests leave from a cpu of their own.
THEOREM CpusCorrect == SSpec => []CpusDisjoint
<1>1. HostInv => CpusDisjoint
  <2> SUFFICES ASSUME HostInv, PhysCpus >= 1 + thread_count + o.natives
               PROVE  /\ \A i, j \in DOMAIN cpus_map : cpus_map[i] = cpus_map[j] => i = j
                      /\ \A i \in DOMAIN cpus_map :
                           cpus_map[i] \in 1 .. PhysCpus - 1 \ {ping, action}
    BY DEF CpusDisjoint
  <2>1. /\ o.natives \in Nat /\ PhysCpus \in Nat
        /\ Len(registered) \in Nat /\ DOMAIN cpus_map = 1 .. Len(registered)
    BY StartupAssumption DEF HostInv, HostTypeOK, RegisteredOnce, Option
  <2>2. \A i \in DOMAIN cpus_map : i \in Nat /\ 1 <= i /\ i <= PhysCpus - 3
    BY <2>1, RegisteredBound DEF thread_count
  <2>3. \A i \in DOMAIN cpus_map : cpus_map[i] = PhysCpus - i
    <3> SUFFICES ASSUME NEW i \in DOMAIN cpus_map PROVE cpus_map[i] = PhysCpus - i
      OBVIOUS
    <3>1. cpus_map[i] = Reserve(i)
      BY DEF HostInv, RegisteredOnce
    <3>2. i \in Nat /\ i >= 1 /\ i < PhysCpus
      BY <2>1, <2>2
    <3> QED BY <3>1, <3>2, ReserveDown
  <2> QED BY <2>1, <2>2, <2>3 DEF ping, action
<1> QED BY <1>1, HostInvariant, PTL

-----------------------------------------------------------------------------
(* The limits.                                                             *)

\* An argument that occurs once is found where it is.
LEMMA FoundWhereItIs ==
  ASSUME NEW n \in Nat, NEW cl, DOMAIN cl = 1 .. n, NEW name,
         NEW k \in 1 .. n, cl[k][1] = name,
         \A i \in 1 .. n : cl[i][1] = name => i = k
  PROVE  HasArg(cl, name) /\ FindArg(cl, name) = cl[k][2]
<1> DEFINE First(i) == i \in DOMAIN cl /\ cl[i][1] = name /\ \A j \in 1 .. i - 1 : cl[j][1] # name
<1>1. First(k)
  OBVIOUS
<1>2. \A i : First(i) => i = k
  OBVIOUS
<1>3. (CHOOSE i \in DOMAIN cl : cl[i][1] = name /\ \A j \in 1 .. i - 1 : cl[j][1] # name) = k
  BY <1>1, <1>2
<1> QED BY <1>3 DEF HasArg, FindArg

\* The node reads its limits as they were put into its arguments; the reuse limit
\* is there when it is of use.
LEMMA ParsedArgs ==
  ASSUME HostTypeOK
  PROVE  /\ Parsed(NodeArgs) \in [C : Nat, S : Nat, R : Nat]
         /\ Parsed(NodeArgs).C = o.C /\ Parsed(NodeArgs).S = o.S
         /\ o.S > 0 /\ o.R > 0 => Parsed(NodeArgs).R = o.R
<1>1. o.C \in Nat /\ o.S \in Nat /\ o.R \in Nat
  BY StartupAssumption DEF HostTypeOK, Option
<1> DEFINE cl == NodeArgs
<1>2. CASE o.S > 0 /\ o.R > 0
  <2>1. cl = <<<<"Clim=", o.C>>, <<"Slim=", o.S>>>> \o <<<<"Rlim=", o.R>>>>
    BY <1>2 DEF NodeArgs
  <2>2. DOMAIN cl = 1 .. 3 /\ cl[1] = <<"Clim=", o.C>> /\ cl[2] = <<"Slim=", o.S>>
        /\ cl[3] = <<"Rlim=", o.R>>
    BY <2>1
  <2> HIDE DEF cl
  <2>3. \A i \in 1 .. 3 : /\ cl[i][1] = "Clim=" => i = 1
                          /\ cl[i][1] = "Slim=" => i = 2
                          /\ cl[i][1] = "Rlim=" => i = 3
    BY <2>2
  <2>4. cl[1][1] = "Clim=" /\ cl[2][1] = "Slim=" /\ cl[3][1] = "Rlim="
    BY <2>2
  <2>5. 3 \in Nat /\ 1 \in 1 .. 3 /\ 2 \in 1 .. 3 /\ 3 \in 1 .. 3
    OBVIOUS
  <2>6. HasArg(cl, "Clim=") /\ FindArg(cl, "Clim=") = cl[1][2]
    BY <2>2, <2>3, <2>4, <2>5, FoundWhereItIs, Zenon
  <2>7. HasArg(cl, "Slim=") /\ FindArg(cl, "Slim=") = cl[2][2]
    BY <2>2, <2>3, <2>4, <2>5, FoundWhereItIs, Zenon
  <2>8. HasArg(cl, "Rlim=") /\ FindArg(cl, "Rlim=") = cl[3][2]
    BY <2>2, <2>3, <2>4, <2>5, FoundWhereItIs, Zenon
  <2>9. Parsed(cl) = [C |-> o.C, S |-> o.S, R |-> o.R]
    BY <2>2, <2>6, <2>7, <2>8 DEF Parsed
  <2> QED BY <1>1, <2>9 DEF cl
<1>3. CASE ~(o.S > 0 /\ o.R > 0)
  <2>1. cl = <<<<"Clim=", o.C>>, <<"Slim=", o.S>>>> \o <<>>
    BY <1>3 DEF NodeArgs
  <2>2. DOMAIN cl = 1 .. 2 /\ cl[1] = <<"Clim=", o.C>> /\ cl[2] = <<"Slim=", o.S>>
    BY <2>1
  <2> HIDE DEF cl
  <2>3. \A i \in 1 .. 2 : /\ cl[i][1] = "Clim=" => i = 1
                          /\ cl[i][1] = "Slim=" => i = 2
    BY <2>2
  <2>4. cl[1][1] = "Clim=" /\ cl[2][1] = "Slim="
    BY <2>2
  <2>5. 2 \in Nat /\ 1 \in 1 .. 2 /\ 2 \in 1 .. 2
    OBVIOUS
  <2>6. HasArg(cl, "Clim=") /\ FindArg(cl, "Clim=") = cl[1][2]
    BY <2>2, <2>3, <2>4, <2>5, FoundWhereItIs, Zenon
  <2>7. HasArg(cl, "Slim=") /\ FindArg(cl, "Slim=") = cl[2][2]
    BY <2>2, <2>3, <2>4, <2>5, FoundWhereItIs, Zenon
  <2>8. ~HasArg(cl, "Rlim=")
    BY <2>2 DEF HasArg
  <2>9. Parsed(cl) = [C |-> o.C, S |-> o.S, R |-> Default.R]
    BY <2>2, <2>6, <2>7, <2>8 DEF Parsed
  <2> QED BY <1>1, <1>3, <2>9 DEF cl, Default
<1> QED BY <1>2, <1>3

\* Every initialised core has the limits of the node's arguments.
LimitsInv ==
  /\ limits \in [0 .. Count - 1 -> [C : Nat, S : Nat, R : Nat]]
  /\ \A c \in 0 .. inited - 1 : limits[c] = Parsed(NodeArgs)

\* No core is initialised at first.
LEMMA LimitsInit == SInit => LimitsInv
BY BootAssumption DEF SInit, Init, LimitsInv, Default

\* A core takes its limits once, and the options never change.
LEMMA LimitsNext ==
  BootInv /\ HostInv /\ LimitsInv /\ [SNext]_svars => LimitsInv'
<1> SUFFICES ASSUME BootInv, HostInv, LimitsInv, [SNext]_svars PROVE LimitsInv'
  OBVIOUS
<1>1. UNCHANGED o
  BY DEF SNext, Hosted, Main, Allocate, SeussInit, StartLoops, RegisterNode, Node, NodeBoot,
     NodeSession, Rest, svars, hosted
<1>2. Parsed(NodeArgs)' = Parsed(NodeArgs)
  BY <1>1 DEF Parsed, NodeArgs, Default, HasArg, FindArg
<1>3. CASE UNCHANGED <<inited, limits>>
  BY <1>2, <1>3 DEF LimitsInv
<1>4. CASE Allocated /\ NodeInitCore
  <2>1. /\ inited < Count /\ inited' = inited + 1
        /\ limits' = [limits EXCEPT ![inited] = Parsed(allocated[1])]
        /\ allocated[1] = NodeArgs
    BY <1>4 DEF Allocated, NodeInitCore, InitCore, HostInv, FirstArgs
  <2>2. inited \in 0 .. Count /\ Count \in Nat
    BY BootAssumption DEF BootInv, TypeOK
  <2>3. Parsed(NodeArgs) \in [C : Nat, S : Nat, R : Nat]
    BY ParsedArgs DEF HostInv
  <2>4. limits' \in [0 .. Count - 1 -> [C : Nat, S : Nat, R : Nat]]
    BY <2>1, <2>2, <2>3 DEF LimitsInv
  <2>5. ASSUME NEW c \in 0 .. inited' - 1 PROVE limits'[c] = Parsed(NodeArgs)
    <3>1. CASE c = inited
      BY <2>1, <2>2, <3>1 DEF LimitsInv
    <3>2. CASE c # inited
      BY <2>1, <2>2, <2>5, <3>2 DEF LimitsInv
    <3> QED BY <3>1, <3>2
  <2> QED BY <1>2, <2>4, <2>5 DEF LimitsInv
<1>5. \/ UNCHANGED <<inited, limits>>
      \/ Allocated /\ NodeInitCore
  <2>1. CASE UNCHANGED svars \/ Rest
    BY <2>1 DEF Rest, svars, vars
  <2>2. CASE Hosted
    BY <2>2 DEF Hosted, Main, Allocate, SeussInit, StartLoops, RegisterNode, vars
  <2>3. CASE Node
    BY <2>3 DEF Node, NodeBoot, NodeSession, NodeQueue, CreateChannel, RunPreinit, RunWarmup,
       Bootstrapped, WarmupClosed, WarmupAborted, Queue, PreinitCheckpoint, WarmupCheckpoint, Start
  <2> QED BY <2>1, <2>2, <2>3 DEF SNext
<1> QED BY <1>3, <1>4, <1>5

\* All three invariants hold of every behaviour.
LEMMA StartupInvariant == SSpec => [](BootInv /\ HostInv /\ LimitsInv)
<1>1. SSpec => [](BootInv /\ HostInv)
  BY BootInvariant, RefinesBootstrap, HostInvariant, PTL
<1> QED BY <1>1, LimitsInit, LimitsNext, PTL DEF SSpec

\* The whole state keeps its type, on the node and on the host.
THEOREM StartupTypeCorrect == SSpec => []STypeOK
<1>1. BootInv /\ HostInv /\ LimitsInv => STypeOK
  <2> SUFFICES ASSUME BootInv, HostInv, LimitsInv PROVE STypeOK
    OBVIOUS
  <2>1. Len(allocated) <= o.natives
    <3>1. Len(allocated) \in Nat /\ left \in Nat /\ o.natives \in Nat
      BY StartupAssumption DEF HostInv, HostTypeOK, Option
    <3> QED BY <3>1 DEF HostInv, Counted
  <2> QED
    BY <2>1 DEF BootInv, HostInv, HostTypeOK, RegisteredOnce, LimitsInv, STypeOK
<1> QED BY <1>1, StartupInvariant, PTL

\* The limits of the host's command line reach every core that is initialised.
THEOREM LimitsCorrect == SSpec => []LimitsArrive
<1>1. HostInv /\ LimitsInv => LimitsArrive
  BY ParsedArgs DEF HostInv, LimitsInv, LimitsArrive
<1> QED BY <1>1, StartupInvariant, PTL

=============================================================================
