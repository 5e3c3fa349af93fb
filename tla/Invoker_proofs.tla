--------------------------- MODULE Invoker_proofs ---------------------------
(***************************************************************************)
(* Theorems about Invoker, for every set of cores, requests and functions  *)
(* and every value of the limits.                                          *)
(***************************************************************************)
EXTENDS Invoker, SequenceTheorems, FiniteSetTheorems, FunctionTheorems,
        WellFoundedInduction, TLAPS

-----------------------------------------------------------------------------
(* Facts about the data.                                                   *)

\* A nonempty set of natural numbers has a least element, and Min is it.
LEMMA MinOfNaturals ==
  ASSUME NEW I \in SUBSET Nat, I # {}
  PROVE  /\ Min(I) \in I
         /\ \A i \in I : Min(I) <= i
<1> DEFINE Less == OpToRel(<, Nat)
<1>1. PICK i \in I : \A j \in I : ~ (<<j, i>> \in Less)
  <2>1. IsWellFoundedOn(Less, Nat)
    BY NatLessThanWellFounded
  <2> HIDE DEF Less
  <2> QED BY <2>1, WFMin
<1>2. \A j \in I : ~ (j < i)
  <2> TAKE j \in I
  <2>1. <<j, i>> \in Nat \X Nat /\ <<j, i>>[1] = j /\ <<j, i>>[2] = i
    OBVIOUS
  <2>2. <<j, i>> \notin Less
    BY <1>1
  <2> QED BY <2>1, <2>2, Zenon DEF OpToRel
<1>3. \A j \in I : i <= j
  BY <1>2
<1> QED BY <1>3 DEF Min

\* get_hot_instance erases at the position std::find returns: what is left is
\* a sequence of the same elements.
LEMMA RemoveFirstType ==
  ASSUME NEW S, NEW s \in Seq(S), NEW e
  PROVE  RemoveFirst(s, e) \in Seq(S)
<1>1. CASE ~ \E i \in 1 .. Len(s) : s[i] = e
  BY <1>1 DEF RemoveFirst
<1>2. CASE \E i \in 1 .. Len(s) : s[i] = e
  <2> DEFINE I == {i \in 1 .. Len(s) : s[i] = e}
             k == Min(I)
  <2>1. k \in 1 .. Len(s)
    BY <1>2, MinOfNaturals, I \in SUBSET Nat
  <2>2. RemoveFirst(s, e) = RemoveAt(s, k)
    BY <1>2 DEF RemoveFirst, SelectInSeq
  <2> HIDE DEF k
  <2>3. SubSeq(s, 1, k - 1) \in Seq(S) /\ SubSeq(s, k + 1, Len(s)) \in Seq(S)
    BY <2>1, SubSeqProperties, \A i \in 1 .. Len(s) : s[i] \in S
  <2> QED BY <2>2, <2>3, ConcatProperties DEF RemoveAt
<1> QED BY <1>1, <1>2

-----------------------------------------------------------------------------
(* Types.                                                                  *)

\* The initial state is well typed.
LEMMA TypeInit == Init => TypeOK
<1> SUFFICES ASSUME Init PROVE TypeOK
  OBVIOUS
<1> USE DEF Init
<1>1. request_queue_ \in Seq(Tid) /\ request_map_ \subseteq Request /\ snapmap_ \subseteq Fid
  OBVIOUS
<1>2. request_concurrency_ \in [Core -> 0 .. CounterModulus - 1]
  BY LimitAssumption
<1>3. stalled_instance_map_ \in [Core -> [Fid -> Instance \cup {None}]]
  OBVIOUS
<1>4. /\ stalled_instance_fifo_ \in [Core -> Seq(Fid)]
      /\ stalled_instance_usage_count_ \in [Instance -> Nat]
      /\ pokes \in [Core -> Nat]
  OBVIOUS
<1>5. cpu \in [Core -> {Idle} \cup ({"warm", "cold"} \X Request)
                              \cup ({"find", "insert"} \X Instance)]
  OBVIOUS
<1>6. /\ stage \in [Request -> {"unsent", "queued", "dropped", "running", "done"}]
      /\ home \in [Request -> Core \cup {None}]
      /\ start \in [Request -> {"none", "hot", "warm", "cold"}]
      /\ umi \in [Request -> Instance \cup {None}]
      /\ session \in [Request -> {"none", "open", "true", "false"}]
      /\ executed \in [Request -> BOOLEAN]
      /\ replies \in [Request -> Nat]
      /\ inst \in [Instance -> {"none", "active", "inactive", "halting", "halted"}]
      /\ armed \subseteq Instance
      /\ node \in {"up", "aborted"}
  OBVIOUS
<1> QED BY <1>1, <1>2, <1>3, <1>4, <1>5, <1>6 DEF TypeOK

\* The 8-bit counter stays within its width.
LEMMA CounterType ==
  ASSUME NEW n \in 0 .. CounterModulus - 1
  PROVE  /\ Increment(n) \in 0 .. CounterModulus - 1
         /\ Decrement(n) \in 0 .. CounterModulus - 1
BY LimitAssumption DEF Increment, Decrement

\* Every handler, checkpoint and resumption keeps the state well typed.
LEMMA TypeNext == TypeOK /\ [Next]_vars => TypeOK'
<1> SUFFICES ASSUME TypeOK, [Next]_vars PROVE TypeOK'
  OBVIOUS
<1> USE DEF TypeOK
<1>1. CASE UNCHANGED vars
  BY <1>1 DEF vars, rootVars, hotVars, startVars
<1>2. ASSUME NEW c \in Core, NEW t \in Request, Queue(c, t) PROVE TypeOK'
  <2>1. TidOf[t] \in Tid
    BY DEF Tid
  <2>2. request_queue_' \in Seq(Tid)
    BY <1>2, <2>1, AppendProperties DEF Queue, AddWork
  <2>3. request_map_' \subseteq Request /\ pokes' \in [Core -> Nat]
    BY <1>2 DEF Queue, AddWork
  <2>4. stage' \in [Request -> {"unsent", "queued", "dropped", "running", "done"}]
    BY <1>2 DEF Queue
  <2> QED BY <1>2, <2>2, <2>3, <2>4 DEF Queue, hotVars, startVars
<1>17. ASSUME NEW c \in Core, NEW t \in Request, QueueAborts(c, t) PROVE TypeOK'
  BY <1>17 DEF QueueAborts, rootVars, hotVars, startVars
<1>18. ASSUME NEW c \in Core, PokeMissing(c) PROVE TypeOK'
  BY <1>18 DEF PokeMissing, rootVars, hotVars, startVars
<1>3. ASSUME NEW c \in Core, PokeInVain(c) PROVE TypeOK'
  BY <1>3 DEF PokeInVain, TakePoke, rootVars, hotVars, startVars
<1>4. ASSUME NEW c \in Core, NEW t \in Request, PokeTake(c, t) PROVE TypeOK'
  <2> DEFINE f == FidOf[t]
             u == HotInstance(c, f)
  <2>1. t \in Request /\ f \in Fid /\ Tail(request_queue_) \in Seq(Tid)
    BY <1>4, HeadTailProperties, RequestAssumption DEF PokeTake
  <2>2. u \in Instance \cup {None}
    BY <2>1 DEF HotInstance
  <2> HIDE DEF f, u
  <2>3. request_queue_' \in Seq(Tid) /\ request_map_' \subseteq Request
    BY <1>4, <2>1 DEF PokeTake, GetWork
  <2>4. request_concurrency_' \in [Core -> 0 .. CounterModulus - 1]
    BY <1>4, CounterType DEF PokeTake
  <2>5. /\ stage' \in [Request -> {"unsent", "queued", "dropped", "running", "done"}]
        /\ home' \in [Request -> Core \cup {None}]
    BY <1>4, <2>1 DEF PokeTake
  <2>6. pokes' \in [Core -> Nat]
    BY <1>4 DEF PokeTake, TakePoke
  <2>7. /\ stalled_instance_map_' \in [Core -> [Fid -> Instance \cup {None}]]
        /\ stalled_instance_fifo_' \in [Core -> Seq(Fid)]
        /\ stalled_instance_usage_count_' \in [Instance -> Nat]
    <3>1. CASE UNCHANGED hotVars
      BY <3>1 DEF hotVars
    <3>2. CASE GetHotInstance(c, f)
      <4>1. RemoveFirst(stalled_instance_fifo_[c], f) \in Seq(Fid)
        BY RemoveFirstType
      <4> QED BY <3>2, <4>1, <2>1 DEF GetHotInstance
    <3> QED BY <1>4, <3>1, <3>2 DEF PokeTake, f
  <2>8. /\ cpu' \in [Core -> {Idle} \cup ({"warm", "cold"} \X Request)
                                    \cup ({"find", "insert"} \X Instance)]
        /\ start' \in [Request -> {"none", "hot", "warm", "cold"}]
        /\ umi' \in [Request -> Instance \cup {None}]
        /\ session' \in [Request -> {"none", "open", "true", "false"}]
        /\ executed' \in [Request -> BOOLEAN]
        /\ inst' \in [Instance -> {"none", "active", "inactive", "halting", "halted"}]
    <3>1. CASE Open(t, "hot", u) /\ UNCHANGED cpu
      BY <3>1, <2>1, <2>2 DEF Open
    <3>2. CASE cpu' = [cpu EXCEPT ![c] = <<"warm", t>>] /\ UNCHANGED <<startVars, inst>>
      BY <3>2, <2>1 DEF startVars
    <3> QED BY <1>4, <3>1, <3>2 DEF PokeTake, f, u
  <2> QED BY <1>4, <2>3, <2>4, <2>5, <2>6, <2>7, <2>8 DEF PokeTake
<1>5. ASSUME NEW c \in Core, NEW t \in Request, WarmStart(c, t) PROVE TypeOK'
  <2>1. <<t, "warm">> \in Instance
    BY DEF Instance
  <2>2. CASE FidOf[t] \in snapmap_
    <3>1. Open(t, "warm", <<t, "warm">>) /\ cpu' = [cpu EXCEPT ![c] = Idle]
      BY <1>5, <2>2 DEF WarmStart, HasSnapshot
    <3>2. UNCHANGED <<rootVars, snapmap_, request_concurrency_, hotVars, pokes,
                      stage, home, replies, armed, node>>
      BY <1>5 DEF WarmStart
    <3> QED BY <2>1, <3>1, <3>2 DEF Open, rootVars, hotVars
  <2>3. CASE FidOf[t] \notin snapmap_
    <3>1. cpu' = [cpu EXCEPT ![c] = <<"cold", t>>] /\ UNCHANGED <<startVars, inst>>
      BY <1>5, <2>3 DEF WarmStart, HasSnapshot
    <3>2. UNCHANGED <<rootVars, snapmap_, request_concurrency_, hotVars, pokes,
                      stage, home, replies, armed, node>>
      BY <1>5 DEF WarmStart
    <3> QED BY <3>1, <3>2 DEF rootVars, hotVars, startVars
  <2> QED BY <2>2, <2>3
<1>6. ASSUME NEW c \in Core, NEW t \in Request, ColdStart(c, t) PROVE TypeOK'
  <2>1. <<t, "cold">> \in Instance
    BY DEF Instance
  <2> QED BY <1>6, <2>1 DEF ColdStart, Open, rootVars, hotVars
<1>7. ASSUME NEW c \in Core, NEW u \in Instance, Checkpoint(c, u) PROVE TypeOK'
  BY <1>7 DEF Checkpoint, rootVars, hotVars, startVars
<1>8. ASSUME NEW c \in Core, NEW u \in Instance, SnapFind(c, u) PROVE TypeOK'
  BY <1>8 DEF SnapFind, rootVars, hotVars, startVars
<1>9. ASSUME NEW c \in Core, NEW u \in Instance, SnapInsert(c, u) PROVE TypeOK'
  <2>1. FidOf[u[1]] \in Fid
    BY RequestAssumption DEF Instance
  <2> QED BY <1>9, <2>1 DEF SnapInsert, rootVars, hotVars, startVars
<1>10. ASSUME NEW c \in Core, NEW d \in Core, SnapRace(c, d) PROVE TypeOK'
  BY <1>10 DEF SnapRace, rootVars, hotVars, startVars
<1>11. ASSUME NEW c \in Core, NEW t \in Request, Executed(c, t) PROVE TypeOK'
  BY <1>11 DEF Executed, rootVars, hotVars
<1>12. ASSUME NEW c \in Core, NEW t \in Request, Closed(c, t) PROVE TypeOK'
  <2> DEFINE f == FidOf[t]
             u == umi[t]
  <2>1. f \in Fid
    BY RequestAssumption
  <2>2. u \in Instance \cup {None}
    OBVIOUS
  <2> HIDE DEF f, u
  <2>3. /\ stalled_instance_map_' \in [Core -> [Fid -> Instance \cup {None}]]
        /\ stalled_instance_fifo_' \in [Core -> Seq(Fid)]
        /\ stalled_instance_usage_count_' \in [Instance -> Nat]
        /\ inst' \in [Instance -> {"none", "active", "inactive", "halting", "halted"}]
    <3>1. CASE SaveHotInstance(c, f, u)
      <4>1. stalled_instance_usage_count_' \in [Instance -> Nat]
        <5>1. stalled_instance_usage_count_'
                = [stalled_instance_usage_count_ EXCEPT ![u] = stalled_instance_usage_count_[u] + 1]
          BY <3>1 DEF SaveHotInstance
        <5>2. CASE u \in Instance
          <6>1. stalled_instance_usage_count_[u] + 1 \in Nat
            BY <5>2
          <6> QED BY <5>1, <6>1
        <5>3. CASE u \notin Instance
          BY <5>1, <5>3
        <5> QED BY <5>2, <5>3
      <4>2. stalled_instance_map_' \in [Core -> [Fid -> Instance \cup {None}]]
        BY <3>1, <2>2 DEF SaveHotInstance
      <4>3. Append(stalled_instance_fifo_[c], f) \in Seq(Fid)
        BY <2>1, AppendProperties
      <4>4. stalled_instance_fifo_' \in [Core -> Seq(Fid)]
        BY <3>1, <4>3 DEF SaveHotInstance
      <4>5. inst' \in [Instance -> {"none", "active", "inactive", "halting", "halted"}]
        BY <3>1 DEF SaveHotInstance
      <4> QED BY <4>1, <4>2, <4>4, <4>5
    <3>2. CASE inst' = [inst EXCEPT ![u] = "halting"] /\ UNCHANGED hotVars
      BY <3>2 DEF hotVars
    <3>3. SaveHotInstance(c, f, u)
            \/ (inst' = [inst EXCEPT ![u] = "halting"] /\ UNCHANGED hotVars)
      BY <1>12 DEF Closed, f, u
    <3> QED BY <3>1, <3>2, <3>3
  <2> QED BY <1>12, <2>3 DEF Closed, rootVars
<1>13. ASSUME NEW c \in Core, NEW t \in Request, Aborted(c, t) PROVE TypeOK'
  BY <1>13 DEF Aborted, rootVars, hotVars
<1>14. ASSUME NEW c \in Core, NEW u \in Instance, Halt(c, u) PROVE TypeOK'
  BY <1>14 DEF Halt, rootVars, hotVars, startVars
<1>15. ASSUME NEW c \in Core, NEW t \in Request, ResumeDone(c, t) PROVE TypeOK'
  <2>1. Decrement(request_concurrency_[c]) \in 0 .. CounterModulus - 1
    BY CounterType
  <2>2. /\ request_concurrency_' \in [Core -> 0 .. CounterModulus - 1]
        /\ pokes' \in [Core -> Nat]
    BY <1>15, <2>1 DEF ResumeDone, Release
  <2> QED BY <1>15, <2>2 DEF ResumeDone, rootVars, hotVars
<1>16. ASSUME NEW c \in Core, NEW t \in Request, ResumeFailed(c, t) PROVE TypeOK'
  <2>1. NextColder(start[t], t) \in {Idle} \cup ({"warm", "cold"} \X Request)
    BY DEF NextColder
  <2> QED BY <1>16, <2>1 DEF ResumeFailed, rootVars, hotVars
<1> QED
  BY <1>1, <1>2, <1>3, <1>4, <1>5, <1>6, <1>7, <1>8, <1>9, <1>10, <1>11, <1>12,
     <1>13, <1>14, <1>15, <1>16, <1>17, <1>18
  DEF Next, CoreStep, SessionStep, Terminated

\* Every variable keeps its type: in particular the counter never leaves its
\* eight bits and the hot caches hold nothing but instances.
THEOREM TypeCorrect == Spec => []TypeOK
BY TypeInit, TypeNext, PTL DEF Spec

-----------------------------------------------------------------------------
(* The life of a request: queued, then under way in one event of one core, *)
(* or blocked behind one session of that core.                             *)

StartsAreRunning ==
  \A c \in Core, t \in Request :
    cpu[c] \in {<<"warm", t>>, <<"cold", t>>} => stage[t] = "running" /\ home[t] = c

SessionsAreRunning ==
  \A t \in Request : session[t] # "none" => stage[t] = "running" /\ home[t] \in Core

\* The map holds the requests that wait.
QueuedInMap == request_map_ = {t \in Request : stage[t] = "queued"}

RequestInv == QueuedInMap /\ StartsAreRunning /\ SessionsAreRunning

\* Initially no request is queued or under way.
LEMMA RequestInit == Init => RequestInv
<1> SUFFICES ASSUME Init PROVE RequestInv
  OBVIOUS
<1>1. QueuedInMap
  BY DEF Init, QueuedInMap
<1>2. StartsAreRunning
  BY DEF Init, StartsAreRunning, Idle
<1>3. SessionsAreRunning
  BY DEF Init, SessionsAreRunning
<1> QED BY <1>1, <1>2, <1>3 DEF RequestInv

\* The steps other than AddWork and GetWork leave the map alone.
LEMMA QueueFrame ==
  ASSUME QueuedInMap, UNCHANGED rootVars,
         \A t \in Request : stage'[t] = "queued" <=> stage[t] = "queued"
  PROVE  QueuedInMap'
BY DEF QueuedInMap, rootVars

\* AddWork inserts the record of a request it queues.
LEMMA QueueAdd ==
  ASSUME TypeOK, QueuedInMap, NEW c \in Core, NEW t \in Request, Queue(c, t)
  PROVE  QueuedInMap'
<1>1. /\ stage \in [Request -> {"unsent", "queued", "dropped", "running", "done"}]
      /\ stage[t] = "unsent"
  BY DEF Queue, TypeOK
<1>2. CASE Inserted(t)
  <2>1. request_map_' = request_map_ \cup {t} /\ stage' = [stage EXCEPT ![t] = "queued"]
    BY <1>2 DEF Queue, AddWork
  <2> QED BY <1>1, <2>1 DEF QueuedInMap
<1>3. CASE ~ Inserted(t)
  <2>1. request_map_' = request_map_ /\ stage' = [stage EXCEPT ![t] = "dropped"]
    BY <1>3 DEF Queue, AddWork
  <2> QED BY <1>1, <2>1 DEF QueuedInMap
<1> QED BY <1>2, <1>3

\* GetWork takes a record that waits under the oldest id.
LEMMA QueueTake ==
  ASSUME TypeOK, QueuedInMap, NEW c \in Core, NEW t \in Request, PokeTake(c, t)
  PROVE  /\ stage[t] = "queued" /\ t \in request_map_
         /\ TidOf[t] = Head(request_queue_)
         /\ QueuedInMap'
<1>1. /\ t \in Records(Head(request_queue_))
      /\ request_map_' = request_map_ \ {t}
      /\ stage' = [stage EXCEPT ![t] = "running"]
  BY DEF PokeTake, GetWork
<1>2. t \in request_map_ /\ TidOf[t] = Head(request_queue_)
  BY <1>1 DEF Records
<1>3. stage[t] = "queued"
  BY <1>2 DEF QueuedInMap
<1>4. QueuedInMap'
  BY <1>1, <1>3 DEF QueuedInMap, TypeOK
<1> QED BY <1>2, <1>3, <1>4

\* A request is queued once, and belongs to one event or one session of its core.
LEMMA RequestNext == TypeOK /\ RequestInv /\ [Next]_vars => RequestInv'
<1> SUFFICES ASSUME TypeOK, RequestInv, [Next]_vars PROVE RequestInv'
  OBVIOUS
<1> USE DEF RequestInv
\* Steps that change neither the queue nor the stage, home and session of any
\* request, and start no event that runs one.
<1>0. ASSUME UNCHANGED <<rootVars, stage, home, session>>,
             \A c \in Core, t \in Request :
               cpu'[c] \in {<<"warm", t>>, <<"cold", t>>}
                 => cpu[c] \in {<<"warm", t>>, <<"cold", t>>}
      PROVE  RequestInv'
  <2>1. QueuedInMap'
    BY <1>0, QueueFrame
  <2>2. StartsAreRunning' /\ SessionsAreRunning'
    BY <1>0 DEF StartsAreRunning, SessionsAreRunning
  <2> QED BY <2>1, <2>2
<1>1. CASE UNCHANGED vars
  BY <1>0, <1>1 DEF vars, startVars
<1>2. ASSUME NEW c \in Core, NEW t \in Request, Queue(c, t) PROVE RequestInv'
  <2>1. QueuedInMap'
    BY <1>2, QueueAdd
  <2>2. /\ stage[t] = "unsent"
        /\ \/ stage' = [stage EXCEPT ![t] = "queued"]
           \/ stage' = [stage EXCEPT ![t] = "dropped"]
        /\ UNCHANGED <<cpu, home, session>>
    BY <1>2 DEF Queue, startVars
  <2>3. StartsAreRunning' /\ SessionsAreRunning'
    BY <2>2 DEF StartsAreRunning, SessionsAreRunning, TypeOK
  <2> QED BY <2>1, <2>3
<1>3. ASSUME NEW c \in Core, PokeInVain(c) \/ PokeMissing(c) PROVE RequestInv'
  BY <1>0, <1>3 DEF PokeInVain, PokeMissing, startVars
<1>12. ASSUME NEW c \in Core, NEW t \in Request, QueueAborts(c, t) PROVE RequestInv'
  BY <1>0, <1>12 DEF QueueAborts, startVars
<1>4. ASSUME NEW c \in Core, NEW t \in Request, PokeTake(c, t) PROVE RequestInv'
  <2>1. stage[t] = "queued" /\ QueuedInMap'
    BY <1>4, QueueTake
  <2>2. /\ stage' = [stage EXCEPT ![t] = "running"]
        /\ home' = [home EXCEPT ![t] = c]
        /\ \/ session' = [session EXCEPT ![t] = "open"] /\ UNCHANGED cpu
           \/ cpu' = [cpu EXCEPT ![c] = <<"warm", t>>] /\ UNCHANGED session
    BY <1>4 DEF PokeTake, Open, startVars
  <2>3. StartsAreRunning'
    <3> SUFFICES ASSUME NEW d \in Core, NEW s \in Request,
                        cpu'[d] \in {<<"warm", s>>, <<"cold", s>>}
                 PROVE  stage'[s] = "running" /\ home'[s] = d
      BY DEF StartsAreRunning
    <3>1. CASE cpu[d] \in {<<"warm", s>>, <<"cold", s>>}
      BY <2>1, <2>2, <3>1 DEF StartsAreRunning, TypeOK
    <3>2. CASE cpu[d] \notin {<<"warm", s>>, <<"cold", s>>}
      <4>1. cpu' = [cpu EXCEPT ![c] = <<"warm", t>>]
        BY <2>2, <3>2
      <4>2. d = c /\ s = t
        BY <3>2, <4>1 DEF TypeOK
      <4> QED BY <4>2, <2>1, <2>2 DEF TypeOK
    <3> QED BY <3>1, <3>2
  <2>4. SessionsAreRunning'
    BY <2>1, <2>2 DEF SessionsAreRunning, TypeOK
  <2> QED BY <2>1, <2>3, <2>4
<1>5. ASSUME NEW c \in Core, NEW t \in Request, WarmStart(c, t) \/ ColdStart(c, t)
      PROVE  RequestInv'
  <2>1. /\ UNCHANGED <<rootVars, stage, home>>
        /\ cpu[c] \in {<<"warm", t>>, <<"cold", t>>}
        /\ cpu' \in {[cpu EXCEPT ![c] = Idle], [cpu EXCEPT ![c] = <<"cold", t>>]}
        /\ session' \in {[session EXCEPT ![t] = "open"], session}
    BY <1>5 DEF WarmStart, ColdStart, Open, startVars
  <2>2. stage[t] = "running" /\ home[t] = c
    BY <2>1 DEF StartsAreRunning
  <2>3. QueuedInMap'
    BY <2>1, QueueFrame
  <2>4. StartsAreRunning'
    <3> SUFFICES ASSUME NEW d \in Core, NEW s \in Request,
                        cpu'[d] \in {<<"warm", s>>, <<"cold", s>>}
                 PROVE  stage'[s] = "running" /\ home'[s] = d
      BY DEF StartsAreRunning
    <3>1. CASE d = c
      <4>1. cpu'[c] \in {<<"idle">>, <<"cold", t>>}
        BY <2>1 DEF TypeOK, Idle
      <4>2. s = t
        BY <3>1, <4>1
      <4> QED BY <3>1, <4>2, <2>1, <2>2
    <3>2. CASE d # c
      BY <3>2, <2>1 DEF StartsAreRunning, TypeOK
    <3> QED BY <3>1, <3>2
  <2>5. SessionsAreRunning'
    BY <2>1, <2>2 DEF SessionsAreRunning, TypeOK
  <2> QED BY <2>3, <2>4, <2>5
<1>6. ASSUME NEW c \in Core, NEW u \in Instance,
             Checkpoint(c, u) \/ SnapFind(c, u) \/ SnapInsert(c, u)
      PROVE  RequestInv'
  <2>1. /\ UNCHANGED <<rootVars, stage, home, session>>
        /\ cpu' \in {[cpu EXCEPT ![c] = Idle], [cpu EXCEPT ![c] = <<"find", u>>],
                     [cpu EXCEPT ![c] = <<"insert", u>>]}
    BY <1>6 DEF Checkpoint, SnapFind, SnapInsert, startVars
  <2>2. ASSUME NEW d \in Core, NEW t \in Request,
               cpu'[d] \in {<<"warm", t>>, <<"cold", t>>}
        PROVE  cpu[d] \in {<<"warm", t>>, <<"cold", t>>}
    <3>1. cpu'[c] \in {<<"idle">>, <<"find", u>>, <<"insert", u>>}
      BY <2>1 DEF TypeOK, Idle
    <3>2. d # c
      BY <2>2, <3>1
    <3> QED BY <2>1, <2>2, <3>2 DEF TypeOK
  <2> QED BY <1>0, <2>1, <2>2
<1>7. ASSUME NEW c \in Core, NEW d \in Core, SnapRace(c, d) PROVE RequestInv'
  BY <1>0, <1>7 DEF SnapRace, startVars
<1>8. ASSUME NEW c \in Core, NEW t \in Request, SessionStep(c, t) PROVE RequestInv'
  <2>1. /\ UNCHANGED <<rootVars, stage, home, cpu>>
        /\ session[t] # "none"
        /\ session' \in {session, [session EXCEPT ![t] = "true"],
                         [session EXCEPT ![t] = "false"]}
    BY <1>8 DEF SessionStep, Executed, Closed, Aborted
  <2>2. QueuedInMap'
    BY <2>1, QueueFrame
  <2>3. StartsAreRunning' /\ SessionsAreRunning'
    BY <2>1 DEF StartsAreRunning, SessionsAreRunning, TypeOK
  <2> QED BY <2>2, <2>3
<1>9. ASSUME NEW c \in Core, NEW u \in Instance, Halt(c, u) PROVE RequestInv'
  BY <1>0, <1>9 DEF Halt, startVars
<1>10. ASSUME NEW c \in Core, NEW t \in Request, ResumeDone(c, t) PROVE RequestInv'
  <2>1. /\ UNCHANGED <<rootVars, home, cpu>>
        /\ cpu[c] = Idle /\ home[t] = c /\ session[t] = "true"
        /\ session' = [session EXCEPT ![t] = "none"]
        /\ stage' = [stage EXCEPT ![t] = "done"]
    BY <1>10 DEF ResumeDone, Free
  <2>2. stage[t] = "running"
    BY <2>1 DEF SessionsAreRunning
  <2>3. QueuedInMap'
    <3>1. \A s \in Request : stage'[s] = "queued" <=> stage[s] = "queued"
      BY <2>1, <2>2 DEF TypeOK
    <3> QED BY <2>1, <3>1, QueueFrame
  <2>4. \A d \in Core : cpu[d] \notin {<<"warm", t>>, <<"cold", t>>}
    <3>1. cpu[c] \notin {<<"warm", t>>, <<"cold", t>>}
      BY <2>1 DEF Idle
    <3> QED BY <3>1, <2>1 DEF StartsAreRunning
  <2>5. StartsAreRunning' /\ SessionsAreRunning'
    BY <2>1, <2>4 DEF StartsAreRunning, SessionsAreRunning, TypeOK
  <2> QED BY <2>3, <2>5
<1>11. ASSUME NEW c \in Core, NEW t \in Request, ResumeFailed(c, t) PROVE RequestInv'
  <2>1. /\ UNCHANGED <<rootVars, home, stage>>
        /\ home[t] = c /\ session[t] = "false"
        /\ session' = [session EXCEPT ![t] = "none"]
        /\ cpu' = [cpu EXCEPT ![c] = NextColder(start[t], t)]
    BY <1>11 DEF ResumeFailed
  <2>2. stage[t] = "running"
    BY <2>1 DEF SessionsAreRunning
  <2>3. QueuedInMap'
    BY <2>1, QueueFrame
  <2>4. StartsAreRunning'
    <3> SUFFICES ASSUME NEW d \in Core, NEW s \in Request,
                        cpu'[d] \in {<<"warm", s>>, <<"cold", s>>}
                 PROVE  stage'[s] = "running" /\ home'[s] = d
      BY DEF StartsAreRunning
    <3>1. CASE d = c
      <4>1. cpu'[c] \in {<<"idle">>, <<"warm", t>>, <<"cold", t>>}
        BY <2>1 DEF TypeOK, NextColder, Idle
      <4>2. s = t
        BY <3>1, <4>1
      <4> QED BY <3>1, <4>2, <2>1, <2>2
    <3>2. CASE d # c
      BY <3>2, <2>1 DEF StartsAreRunning, TypeOK
    <3> QED BY <3>1, <3>2
  <2>5. SessionsAreRunning'
    BY <2>1 DEF SessionsAreRunning, TypeOK
  <2> QED BY <2>3, <2>4, <2>5
<1> QED
  BY <1>1, <1>2, <1>3, <1>4, <1>5, <1>6, <1>7, <1>8, <1>9, <1>10, <1>11, <1>12
  DEF Next, CoreStep, Terminated

OneRecordPerId == \A t, s \in request_map_ : TidOf[t] = TidOf[s] => t = s

PlacesCounted == \A x \in Tid : Cardinality(Places(x)) = Cardinality(Pushed(x))

\* The sets that are counted are finite.
LEMMA PlacesFinite ==
  ASSUME TypeOK, NEW x
  PROVE  IsFiniteSet(Places(x)) /\ IsFiniteSet(Pushed(x))
<1>1. Places(x) \subseteq 1 .. Len(request_queue_) /\ Len(request_queue_) \in Nat
  BY DEF Places, TypeOK
<1>2. IsFiniteSet(1 .. Len(request_queue_))
  BY <1>1, FS_Interval
<1>3. Pushed(x) \subseteq Request
  BY DEF Pushed
<1> QED BY <1>1, <1>2, <1>3, FS_Subset, RequestAssumption

\* Initially nothing waits.
LEMMA AccountInit == Init => OneRecordPerId /\ PlacesCounted
<1> SUFFICES ASSUME Init PROVE OneRecordPerId /\ PlacesCounted
  OBVIOUS
<1>1. OneRecordPerId
  BY DEF Init, OneRecordPerId
<1>2. \A x \in Tid : Places(x) = {} /\ Pushed(x) = {}
  BY DEF Init, Places, Pushed
<1> QED BY <1>1, <1>2 DEF PlacesCounted

\* AddWork adds a place of its id, and a request that has put it there.
LEMMA AccountAdd ==
  ASSUME TypeOK, OneRecordPerId, PlacesCounted, NEW c \in Core, NEW t \in Request, Queue(c, t)
  PROVE  OneRecordPerId' /\ PlacesCounted'
<1>1. /\ request_queue_ \in Seq(Tid) /\ request_map_ \subseteq Request
      /\ stage \in [Request -> {"unsent", "queued", "dropped", "running", "done"}]
      /\ stage[t] = "unsent"
      /\ \/ stage' = [stage EXCEPT ![t] = "queued"]
         \/ stage' = [stage EXCEPT ![t] = "dropped"]
      /\ request_queue_' = Append(request_queue_, TidOf[t])
      /\ request_map_' = request_map_ \cup (IF Inserted(t) THEN {t} ELSE {})
  BY DEF Queue, AddWork, TypeOK
<1>2. OneRecordPerId'
  <2>1. CASE Inserted(t)
    <3>1. \A s \in request_map_ : TidOf[s] # TidOf[t]
      BY <2>1 DEF Inserted, Records
    <3> QED BY <1>1, <2>1, <3>1 DEF OneRecordPerId
  <2>2. CASE ~ Inserted(t)
    BY <1>1, <2>2 DEF OneRecordPerId
  <2> QED BY <2>1, <2>2
<1> DEFINE n == Len(request_queue_) + 1
<1>3. /\ n \in Nat /\ n \notin DOMAIN request_queue_
      /\ DOMAIN request_queue_' = DOMAIN request_queue_ \cup {n}
      /\ request_queue_'[n] = TidOf[t]
      /\ \A i \in DOMAIN request_queue_ : request_queue_'[i] = request_queue_[i]
  BY <1>1
<1> HIDE DEF n
<1>4. ASSUME NEW x \in Tid, x = TidOf[t]
      PROVE  Cardinality(Places(x)') = Cardinality(Pushed(x)')
  <2>1. Places(x)' = Places(x) \cup {n} /\ n \notin Places(x)
    BY <1>3, <1>4 DEF Places
  <2>2. Pushed(x)' = Pushed(x) \cup {t} /\ t \notin Pushed(x)
    BY <1>1, <1>4 DEF Pushed
  <2>3. /\ Cardinality(Places(x)') = Cardinality(Places(x)) + 1
        /\ Cardinality(Pushed(x)') = Cardinality(Pushed(x)) + 1
    BY <2>1, <2>2, PlacesFinite, FS_AddElement
  <2> QED BY <2>3 DEF PlacesCounted
<1>5. ASSUME NEW x \in Tid, x # TidOf[t]
      PROVE  Cardinality(Places(x)') = Cardinality(Pushed(x)')
  <2>1. Places(x)' = Places(x)
    BY <1>3, <1>5 DEF Places
  <2>2. Pushed(x)' = Pushed(x)
    BY <1>1, <1>5 DEF Pushed
  <2> QED BY <2>1, <2>2 DEF PlacesCounted
<1> QED BY <1>2, <1>4, <1>5 DEF PlacesCounted

\* GetWork takes the first place, and the request under its id that waits.
LEMMA AccountTake ==
  ASSUME TypeOK, QueuedInMap, OneRecordPerId, PlacesCounted,
         NEW c \in Core, NEW t \in Request, PokeTake(c, t)
  PROVE  OneRecordPerId' /\ PlacesCounted'
<1>1. /\ request_queue_ \in Seq(Tid) /\ request_queue_ # <<>>
      /\ stage \in [Request -> {"unsent", "queued", "dropped", "running", "done"}]
      /\ stage[t] = "queued" /\ TidOf[t] = Head(request_queue_)
      /\ stage' = [stage EXCEPT ![t] = "running"]
      /\ request_queue_' = Tail(request_queue_)
      /\ request_map_' = request_map_ \ {t}
  BY QueueTake DEF PokeTake, GetWork, TypeOK
<1>2. OneRecordPerId'
  BY <1>1 DEF OneRecordPerId
<1>3. /\ DOMAIN request_queue_ = 1 .. Len(request_queue_)
      /\ Len(request_queue_) \in Nat \ {0}
      /\ DOMAIN request_queue_' = 1 .. Len(request_queue_) - 1
      /\ request_queue_[1] = TidOf[t]
      /\ \A i \in DOMAIN request_queue_' : request_queue_'[i] = request_queue_[i + 1]
  BY <1>1
\* What is left of the places moves up by one.
<1>4. ASSUME NEW x \in Tid
      PROVE  Cardinality(Places(x)') = Cardinality(Places(x) \ {1})
  <2> DEFINE S == Places(x) \ {1}
             T == Places(x)'
             down == [i \in S |-> i - 1]
  <2>1. \A i \in S : i \in 2 .. Len(request_queue_) /\ request_queue_[i] = x
    BY <1>3 DEF Places
  <2>2. \A j \in T : j \in 1 .. Len(request_queue_) - 1 /\ request_queue_[j + 1] = x
    BY <1>3 DEF Places
  <2>3. \A i \in S : i - 1 \in T
    <3> TAKE i \in S
    <3>1. i \in 2 .. Len(request_queue_) /\ request_queue_[i] = x
      BY <2>1
    <3>2. i - 1 \in DOMAIN request_queue_' /\ request_queue_'[i - 1] = request_queue_[(i - 1) + 1]
      BY <1>3, <3>1
    <3>3. (i - 1) + 1 = i
      BY <3>1
    <3> QED BY <3>1, <3>2, <3>3 DEF Places
  <2>4. \A j \in T : j + 1 \in S /\ (j + 1) - 1 = j
    <3> TAKE j \in T
    <3>1. j \in 1 .. Len(request_queue_) - 1 /\ request_queue_[j + 1] = x
      BY <2>2
    <3>2. j + 1 \in 1 .. Len(request_queue_) /\ j + 1 # 1 /\ (j + 1) - 1 = j
      BY <1>3, <3>1
    <3> QED BY <1>3, <3>1, <3>2 DEF Places
  <2> HIDE DEF S, T
  <2>5. down \in Bijection(S, T)
    <3>1. down \in [S -> T]
      BY <2>3
    <3>2. \A j \in T : \E i \in S : down[i] = j
      BY <2>4
    <3>3. \A i, j \in S : down[i] = down[j] => i = j
      BY <1>3, <2>1
    <3> QED BY <3>1, <3>2, <3>3, Fun_IsBij
  <2>6. IsFiniteSet(S)
    BY PlacesFinite, FS_Subset DEF S
  <2>7. Cardinality(T) = Cardinality(S)
    BY <2>5, <2>6, FS_Bijection DEF ExistsBijection
  <2> QED BY <2>7 DEF S, T
<1>5. ASSUME NEW x \in Tid, x = TidOf[t]
      PROVE  Cardinality(Places(x)') = Cardinality(Pushed(x)')
  <2>1. 1 \in Places(x)
    BY <1>3, <1>5 DEF Places
  <2>2. Pushed(x)' = Pushed(x) \ {t} /\ t \in Pushed(x)
    BY <1>1, <1>5 DEF Pushed
  <2>3. /\ Cardinality(Places(x) \ {1}) = Cardinality(Places(x)) - 1
        /\ Cardinality(Pushed(x)') = Cardinality(Pushed(x)) - 1
    BY <2>1, <2>2, PlacesFinite, FS_RemoveElement
  <2> QED BY <1>4, <2>3 DEF PlacesCounted
<1>6. ASSUME NEW x \in Tid, x # TidOf[t]
      PROVE  Cardinality(Places(x)') = Cardinality(Pushed(x)')
  <2>1. Places(x) \ {1} = Places(x)
    BY <1>3, <1>6 DEF Places
  <2>2. Pushed(x)' = Pushed(x)
    BY <1>1, <1>6 DEF Pushed
  <2> QED BY <1>4, <2>1, <2>2 DEF PlacesCounted
<1> QED BY <1>2, <1>5, <1>6 DEF PlacesCounted

\* Every step keeps the account.
LEMMA AccountNext ==
  ASSUME TypeOK, RequestInv, OneRecordPerId, PlacesCounted, [Next]_vars
  PROVE  OneRecordPerId' /\ PlacesCounted'
<1>1. ASSUME UNCHANGED rootVars,
             \A t \in Request :
               stage'[t] \in {"queued", "dropped"} <=> stage[t] \in {"queued", "dropped"}
      PROVE  OneRecordPerId' /\ PlacesCounted'
  <2>1. \A x \in Tid : Places(x)' = Places(x) /\ Pushed(x)' = Pushed(x)
    BY <1>1 DEF Places, Pushed, rootVars
  <2> QED BY <1>1, <2>1 DEF OneRecordPerId, PlacesCounted, rootVars
<1>2. CASE UNCHANGED <<rootVars, stage>>
  BY <1>1, <1>2
<1>3. ASSUME NEW c \in Core, NEW t \in Request, ResumeDone(c, t)
      PROVE  OneRecordPerId' /\ PlacesCounted'
  <2>1. /\ UNCHANGED rootVars
        /\ stage' = [stage EXCEPT ![t] = "done"]
        /\ session[t] = "true"
    BY <1>3 DEF ResumeDone
  <2>2. stage[t] = "running"
    BY <2>1 DEF RequestInv, SessionsAreRunning
  <2> QED BY <1>1, <2>1, <2>2 DEF TypeOK
<1> QED
  BY <1>2, <1>3, AccountAdd, AccountTake
  DEF RequestInv, Next, CoreStep, SessionStep, Terminated, vars, QueueAborts, PokeInVain,
      PokeMissing, WarmStart, ColdStart, Checkpoint, SnapFind, SnapInsert, SnapRace,
      Executed, Closed, Aborted, Halt, ResumeFailed

\* However ids collide, the map has one record of each id that waits, and the
\* queue has the id once for it and once more for each request that AddWork
\* dropped under it: no request that is queued loses its turn or gets two.
THEOREM QueueCorrect == Spec => []QueueAccounted
<1>1. RequestInv /\ OneRecordPerId /\ PlacesCounted => QueueAccounted
  BY DEF RequestInv, QueuedInMap, OneRecordPerId, PlacesCounted, QueueAccounted
<1>2. TypeOK /\ RequestInv /\ OneRecordPerId /\ PlacesCounted /\ [Next]_vars
        => OneRecordPerId' /\ PlacesCounted'
  BY AccountNext
<1> QED
  BY <1>1, <1>2, TypeCorrect, RequestInit, RequestNext, AccountInit, PTL DEF Spec

\* With ids that differ, or with AddWork's assertion compiled in, no request is
\* dropped.
NoDrops == \A t \in Request : stage[t] # "dropped"

LEMMA DropsNext ==
  ASSUME NoneDropped, TypeOK, RequestInv, NoDrops, [Next]_vars
  PROVE  NoDrops'
<1>1. ASSUME NEW c \in Core, NEW t \in Request, Queue(c, t) PROVE NoDrops'
  <2>1. Inserted(t)
    <3>1. stage[t] = "unsent" /\ (Inserted(t) \/ NDEBUG)
      BY <1>1 DEF Queue
    <3>2. t \notin request_map_ /\ request_map_ \subseteq Request
      BY <3>1 DEF RequestInv, QueuedInMap
    <3>3. NDEBUG => \A s \in request_map_ : TidOf[s] # TidOf[t]
      BY <3>2 DEF NoneDropped
    <3> QED BY <3>1, <3>3 DEF Inserted, Records
  <2>2. stage' = [stage EXCEPT ![t] = "queued"]
    BY <1>1, <2>1 DEF Queue
  <2> QED BY <2>2 DEF NoDrops, TypeOK
<1>2. CASE UNCHANGED stage
  BY <1>2 DEF NoDrops
<1>3. ASSUME NEW c \in Core, NEW t \in Request, PokeTake(c, t) PROVE NoDrops'
  <2>1. stage' = [stage EXCEPT ![t] = "running"]
    BY <1>3 DEF PokeTake
  <2> QED BY <2>1 DEF NoDrops, TypeOK
<1>4. ASSUME NEW c \in Core, NEW t \in Request, ResumeDone(c, t) PROVE NoDrops'
  <2>1. stage' = [stage EXCEPT ![t] = "done"]
    BY <1>4 DEF ResumeDone
  <2> QED BY <2>1 DEF NoDrops, TypeOK
<1> QED
  BY <1>1, <1>2, <1>3, <1>4
  DEF Next, CoreStep, SessionStep, Terminated, vars, QueueAborts, PokeInVain,
      PokeMissing, WarmStart, ColdStart, Checkpoint, SnapFind, SnapInsert, SnapRace,
      Executed, Closed, Aborted, Halt, ResumeFailed

\* When none is dropped, the queue is a list of the records' ids, each once.
LEMMA QueueExact ==
  ASSUME TypeOK, QueueAccounted, NoDrops
  PROVE  /\ \A i \in DOMAIN request_queue_ :
              \E t \in request_map_ : Records(request_queue_[i]) = {t}
         /\ \A i, j \in DOMAIN request_queue_ :
              request_queue_[i] = request_queue_[j] => i = j
<1>1. ASSUME NEW i \in DOMAIN request_queue_
      PROVE  /\ \E t \in request_map_ : Records(request_queue_[i]) = {t}
             /\ Places(request_queue_[i]) = {i}
  <2> DEFINE x == request_queue_[i]
  <2>1. x \in Tid /\ i \in Places(x)
    BY DEF Places, TypeOK
  <2> HIDE DEF x
  <2>2. Cardinality(Places(x)) # 0
    BY <2>1, PlacesFinite, FS_EmptySet
  <2>3. Cardinality(Pushed(x)) = Cardinality(Places(x))
    BY <2>1 DEF QueueAccounted
  <2>4. Pushed(x) # {}
    BY <2>2, <2>3, FS_EmptySet
  <2>5. Pushed(x) = Records(x)
    BY DEF Pushed, Records, QueueAccounted, NoDrops
  <2>6. PICK t \in request_map_ : Records(x) = {t}
    <3>1. PICK t : t \in Records(x)
      BY <2>4, <2>5
    <3> QED BY <3>1 DEF Records, QueueAccounted
  <2>7. Cardinality(Places(x)) = 1
    BY <2>3, <2>5, <2>6, FS_Singleton
  <2>8. \E p : Places(x) = {p}
    BY <2>7, PlacesFinite, FS_Singleton
  <2> QED BY <2>1, <2>6, <2>8 DEF x
<1>2. ASSUME NEW i \in DOMAIN request_queue_, NEW j \in DOMAIN request_queue_,
             request_queue_[i] = request_queue_[j]
      PROVE  i = j
  <2>1. Places(request_queue_[i]) = {i} /\ Places(request_queue_[j]) = {j}
    BY <1>1
  <2> QED BY <1>2, <2>1
<1> QED BY <1>1, <1>2

\* Where no request is dropped, GetWork's kassert(req != end) never fails: there
\* is a record under every id that a core takes from the queue.
THEOREM WorkIsFound ==
  ASSUME NoneDropped
  PROVE  Spec => []WorkFound
<1>1. TypeOK /\ QueueAccounted /\ NoDrops => WorkFound
  <2> SUFFICES ASSUME TypeOK, QueueAccounted, NoDrops, request_queue_ # <<>>
               PROVE  Records(Head(request_queue_)) # {}
    BY DEF WorkFound
  <2>1. 1 \in DOMAIN request_queue_ /\ Head(request_queue_) = request_queue_[1]
    BY DEF TypeOK
  <2> QED BY <2>1, QueueExact
<1>2. Init => NoDrops
  BY DEF Init, NoDrops
<1>3. TypeOK /\ RequestInv /\ NoDrops /\ [Next]_vars => NoDrops'
  BY DropsNext
<1> QED
  BY <1>1, <1>2, <1>3, TypeCorrect, QueueCorrect, RequestInit, RequestNext, PTL
  DEF Spec

-----------------------------------------------------------------------------
(* Admission.  Poke compares a uint8_t with a uint16_t limit; a limit the  *)
(* counter can hold is the assumption under which the comparison means     *)
(* anything.                                                               *)

LimitFitsCounter == ConcurrencyLimit < CounterModulus

\* A core has finitely many requests under way.
LEMMA RunningFinite == \A c \in Core : IsFiniteSet(Running(c))
BY RequestAssumption, FS_Subset DEF Running

\* Initially no request is under way and every counter is zero.
LEMMA CounterInit == Init => ConcurrencyExact
<1> SUFFICES ASSUME Init PROVE ConcurrencyExact
  OBVIOUS
<1>1. \A c \in Core : Running(c) = {}
  BY DEF Init, Running
<1>2. \A c \in Core : Cardinality(Running(c)) = 0 /\ request_concurrency_[c] = 0
  BY <1>1, FS_EmptySet DEF Init
<1>3. 0 <= ConcurrencyLimit
  BY LimitAssumption
<1> QED BY <1>2, <1>3 DEF ConcurrencyExact

\* What a Poke that takes a request does to the sets of running requests.
LEMMA RunningAfterTake ==
  ASSUME TypeOK, RequestInv, NEW c \in Core, NEW t \in Request, PokeTake(c, t)
  PROVE  /\ Running(c)' = Running(c) \cup {t}
         /\ t \notin Running(c)
         /\ \A d \in Core \ {c} : Running(d)' = Running(d)
<1>1. stage[t] = "queued"
  BY QueueTake DEF RequestInv
<1>2. stage' = [stage EXCEPT ![t] = "running"] /\ home' = [home EXCEPT ![t] = c]
  BY DEF PokeTake
<1> QED BY <1>1, <1>2 DEF Running, TypeOK

\* What the end of Invoke does to them.
LEMMA RunningAfterDone ==
  ASSUME TypeOK, RequestInv, NEW c \in Core, NEW t \in Request, ResumeDone(c, t)
  PROVE  /\ Running(c)' = Running(c) \ {t}
         /\ t \in Running(c)
         /\ \A d \in Core \ {c} : Running(d)' = Running(d)
<1>1. /\ stage' = [stage EXCEPT ![t] = "done"] /\ UNCHANGED home
      /\ home[t] = c /\ session[t] = "true"
  BY DEF ResumeDone
<1>2. stage[t] = "running"
  BY <1>1 DEF RequestInv, SessionsAreRunning
<1> QED BY <1>1, <1>2 DEF Running, TypeOK

\* No other step changes them, nor the counter.
LEMMA RunningFrame ==
  ASSUME TypeOK, [Next]_vars,
         ~ \E c \in Core, t \in Request : PokeTake(c, t),
         ~ \E c \in Core, t \in Request : ResumeDone(c, t)
  PROVE  /\ \A c \in Core : Running(c)' = Running(c)
         /\ UNCHANGED request_concurrency_
<1>1. ASSUME NEW c \in Core, NEW t \in Request, Queue(c, t)
      PROVE  /\ \A d \in Core : Running(d)' = Running(d)
             /\ UNCHANGED request_concurrency_
  BY <1>1 DEF Queue, Running, TypeOK
<1>2. CASE UNCHANGED <<stage, home, request_concurrency_>>
  BY <1>2 DEF Running
<1> QED BY <1>1, <1>2
  DEF Next, CoreStep, SessionStep, Terminated, vars, QueueAborts, PokeInVain,
      PokeMissing, WarmStart, ColdStart, Checkpoint, SnapFind, SnapInsert, SnapRace,
      Executed, Closed, Aborted, Halt, ResumeFailed

\* Every step keeps the counters exact and within the limit.
LEMMA CounterNext ==
  ASSUME LimitFitsCounter, TypeOK, RequestInv, ConcurrencyExact, [Next]_vars
  PROVE  ConcurrencyExact'
<1>1. ASSUME NEW c \in Core, NEW t \in Request, PokeTake(c, t) PROVE ConcurrencyExact'
  <2>1. request_concurrency_[c] < ConcurrencyLimit
    BY <1>1 DEF PokeTake, HasCapacity
  <2>2. request_concurrency_' = [request_concurrency_ EXCEPT ![c] = request_concurrency_[c] + 1]
    <3>1. Increment(request_concurrency_[c]) = request_concurrency_[c] + 1
      BY <2>1, LimitAssumption DEF Increment, LimitFitsCounter, TypeOK
    <3> QED BY <1>1, <3>1 DEF PokeTake
  <2>3. Cardinality(Running(c)') = Cardinality(Running(c)) + 1
    BY <1>1, RunningAfterTake, RunningFinite, FS_AddElement
  <2> QED BY <1>1, <2>1, <2>2, <2>3, RunningAfterTake, LimitAssumption
      DEF ConcurrencyExact, TypeOK
<1>2. ASSUME NEW c \in Core, NEW t \in Request, ResumeDone(c, t) PROVE ConcurrencyExact'
  <2>1. Cardinality(Running(c)') = Cardinality(Running(c)) - 1
    BY <1>2, RunningAfterDone, RunningFinite, FS_RemoveElement
  <2>2. Cardinality(Running(c)') \in Nat
    BY <1>2, RunningAfterDone, RunningFinite, FS_RemoveElement, FS_CardinalityType
  <2>3. request_concurrency_[c] \in Nat \ {0}
    BY <2>1, <2>2, LimitAssumption DEF ConcurrencyExact, TypeOK
  <2>4. request_concurrency_' = [request_concurrency_ EXCEPT ![c] = request_concurrency_[c] - 1]
    BY <1>2, <2>3 DEF ResumeDone, Release, Decrement
  <2>5. /\ request_concurrency_'[c] = Cardinality(Running(c)')
        /\ request_concurrency_'[c] <= ConcurrencyLimit
    BY <2>1, <2>3, <2>4, LimitAssumption DEF ConcurrencyExact, TypeOK
  <2>6. ASSUME NEW d \in Core \ {c}
        PROVE  /\ request_concurrency_'[d] = Cardinality(Running(d)')
               /\ request_concurrency_'[d] <= ConcurrencyLimit
    BY <1>2, <2>4, RunningAfterDone DEF ConcurrencyExact, TypeOK
  <2> QED BY <2>5, <2>6 DEF ConcurrencyExact
<1>3. CASE /\ ~ \E c \in Core, t \in Request : PokeTake(c, t)
           /\ ~ \E c \in Core, t \in Request : ResumeDone(c, t)
  BY <1>3, RunningFrame DEF ConcurrencyExact
<1> QED BY <1>1, <1>2, <1>3

\* Whatever starts fail and are retried, a core's counter is exactly the number
\* of its requests under way, and Poke's check keeps it within the limit.
THEOREM ConcurrencyCorrect ==
  ASSUME LimitFitsCounter
  PROVE  Spec => []ConcurrencyExact
<1>1. TypeOK /\ RequestInv /\ ConcurrencyExact /\ [Next]_vars => ConcurrencyExact'
  BY CounterNext
<1> QED
  BY <1>1, TypeCorrect, RequestInit, RequestNext, CounterInit, PTL DEF Spec

-----------------------------------------------------------------------------
(* No lost wakeup.                                                         *)

\* Initially the queue is empty, so no poke is owed.
LEMMA WorkInit == Init => WorkConserving
BY DEF Init, WorkConserving

\* Every step keeps a poke pending for each queued request a worker has room for.
LEMMA WorkNext ==
  ASSUME LimitFitsCounter, TypeOK, RequestInv, ConcurrencyExact, WorkConserving, [Next]_vars
  PROVE  WorkConserving'
<1> SUFFICES ASSUME NEW w \in Core \ IOCores
             PROVE  \/ pokes'[w] >= Len(request_queue_')
                    \/ pokes'[w] + request_concurrency_'[w] >= ConcurrencyLimit
  BY DEF WorkConserving
<1>1. /\ \/ pokes[w] >= Len(request_queue_)
         \/ pokes[w] + request_concurrency_[w] >= ConcurrencyLimit
      /\ request_queue_ \in Seq(Tid) /\ Len(request_queue_) \in Nat
      /\ pokes \in [Core -> Nat]
      /\ request_concurrency_ \in [Core -> 0 .. CounterModulus - 1]
      /\ ConcurrencyLimit \in Nat /\ CounterModulus \in Nat
  BY LimitAssumption DEF WorkConserving, TypeOK
<1>2. CASE UNCHANGED <<pokes, request_queue_, request_concurrency_>>
  BY <1>1, <1>2
\* A new request comes with a poke for w.
<1>3. ASSUME NEW c \in Core, NEW t \in Request, Queue(c, t)
      PROVE  pokes'[w] >= Len(request_queue_')
               \/ pokes'[w] + request_concurrency_'[w] >= ConcurrencyLimit
  <2>1. /\ c # w
        /\ pokes'[w] = pokes[w] + 1
        /\ Len(request_queue_') = Len(request_queue_) + 1
        /\ UNCHANGED request_concurrency_
    BY <1>1, <1>3 DEF Queue, AddWork
  <2> QED BY <1>1, <2>1
\* A poke is dropped only by a full core, or when there is nothing to take.
<1>4. ASSUME NEW c \in Core, PokeInVain(c)
      PROVE  pokes'[w] >= Len(request_queue_')
               \/ pokes'[w] + request_concurrency_'[w] >= ConcurrencyLimit
  <2>1. /\ UNCHANGED <<request_queue_, request_concurrency_>>
        /\ pokes' = [pokes EXCEPT ![c] = pokes[c] - 1]
        /\ pokes[c] > 0
        /\ request_concurrency_[c] >= ConcurrencyLimit \/ request_queue_ = <<>>
    BY <1>1, <1>4 DEF PokeInVain, TakePoke, HasCapacity, rootVars
  <2>2. CASE c # w
    BY <1>1, <2>1, <2>2
  <2>3. CASE c = w /\ request_concurrency_[c] >= ConcurrencyLimit
    BY <1>1, <2>1, <2>3
  <2>4. CASE c = w /\ request_queue_ = <<>>
    <3>1. Len(request_queue_') = 0
      BY <2>1, <2>4
    <3> QED BY <1>1, <2>1, <2>4, <3>1
  <2> QED BY <2>1, <2>2, <2>3, <2>4
\* A poke that takes a request fills a slot; elsewhere it only helps.
<1>5. ASSUME NEW c \in Core, NEW t \in Request, PokeTake(c, t)
      PROVE  pokes'[w] >= Len(request_queue_')
               \/ pokes'[w] + request_concurrency_'[w] >= ConcurrencyLimit
  <2>1. /\ pokes' = [pokes EXCEPT ![c] = pokes[c] - 1]
        /\ pokes[c] > 0
        /\ request_concurrency_[c] < ConcurrencyLimit
        /\ request_concurrency_' = [request_concurrency_ EXCEPT ![c] = Increment(request_concurrency_[c])]
    BY <1>5 DEF PokeTake, TakePoke, HasCapacity
  <2>2. Len(request_queue_') = Len(request_queue_) - 1
    BY <1>1, <1>5 DEF PokeTake, GetWork
  <2>3. Increment(request_concurrency_[c]) = request_concurrency_[c] + 1
    BY <1>1, <2>1 DEF Increment, LimitFitsCounter
  <2>4. CASE c = w
    BY <1>1, <2>1, <2>2, <2>3, <2>4
  <2>5. CASE c # w
    BY <1>1, <2>1, <2>2, <2>5
  <2> QED BY <2>4, <2>5
\* A slot given back comes with a poke.
<1>6. ASSUME NEW c \in Core, NEW t \in Request, ResumeDone(c, t)
      PROVE  pokes'[w] >= Len(request_queue_')
               \/ pokes'[w] + request_concurrency_'[w] >= ConcurrencyLimit
  <2>1. /\ UNCHANGED request_queue_
        /\ pokes' = [pokes EXCEPT ![c] = pokes[c] + 1]
        /\ request_concurrency_' = [request_concurrency_ EXCEPT ![c] = Decrement(request_concurrency_[c])]
    BY <1>6 DEF ResumeDone, Release, rootVars
  <2>2. request_concurrency_[c] # 0
    <3>1. Cardinality(Running(c)) # 0
      BY <1>6, RunningAfterDone, RunningFinite, FS_EmptySet
    <3> QED BY <3>1 DEF ConcurrencyExact
  <2>3. Decrement(request_concurrency_[c]) = request_concurrency_[c] - 1
    BY <2>2 DEF Decrement
  <2>4. CASE c = w
    BY <1>1, <2>1, <2>3, <2>4
  <2>5. CASE c # w
    BY <1>1, <2>1, <2>5
  <2> QED BY <2>4, <2>5
<1> QED
  BY <1>2, <1>3, <1>4, <1>5, <1>6
  DEF Next, CoreStep, SessionStep, Terminated, vars, rootVars, QueueAborts,
      PokeMissing, WarmStart, ColdStart, Checkpoint, SnapFind, SnapInsert, SnapRace,
      Executed, Closed, Aborted, Halt, ResumeFailed

\* A worker core always has a poke coming for every request it has room for,
\* so no request waits in the queue while such a core sleeps.
THEOREM NoLostWakeup ==
  ASSUME LimitFitsCounter
  PROVE  Spec => []WorkConserving
<1>1. TypeOK /\ RequestInv /\ ConcurrencyExact /\ [Next]_vars => ConcurrencyExact'
  BY CounterNext
<1>2. TypeOK /\ RequestInv /\ ConcurrencyExact /\ WorkConserving /\ [Next]_vars
        => WorkConserving'
  BY WorkNext
<1> QED
  BY <1>1, <1>2, TypeCorrect, RequestInit, RequestNext, CounterInit, WorkInit, PTL
  DEF Spec

-----------------------------------------------------------------------------
(* A single receiving core does no work.                                   *)

IdleOffWork ==
  \A c \in Core \ Workers :
    /\ pokes[c] = 0
    /\ cpu[c] = Idle
    /\ \A t \in Request : home[t] # c

\* Initially the receiving core has no poke, event or request.
LEMMA IdleInit == Init => IdleOffWork
BY CoreAssumption DEF Init, IdleOffWork

\* No step pokes or occupies the receiving core.
LEMMA IdleNext ==
  ASSUME TypeOK, IdleOffWork, [Next]_vars
  PROVE  IdleOffWork'
<1> SUFFICES ASSUME NEW w \in Core \ Workers
             PROVE  pokes'[w] = 0 /\ cpu'[w] = Idle /\ \A t \in Request : home'[t] # w
  BY DEF IdleOffWork, Workers
<1> DEFINE Rest == pokes'[w] = 0 /\ cpu'[w] = Idle /\ \A t \in Request : home'[t] # w
<1>1. /\ IOCores = {w}
      /\ pokes[w] = 0 /\ cpu[w] = Idle /\ (\A t \in Request : home[t] # w)
  BY DEF IdleOffWork, Workers
<1>2. CASE UNCHANGED <<pokes, cpu, home>>
  BY <1>1, <1>2
<1>3. ASSUME NEW c \in Core, NEW t \in Request, Queue(c, t) PROVE Rest
  BY <1>1, <1>3 DEF Queue, AddWork
<1>5. ASSUME NEW c \in Core, PokeInVain(c) PROVE Rest
  BY <1>1, <1>5 DEF PokeInVain, TakePoke, TypeOK
<1>6. ASSUME NEW c \in Core, NEW t \in Request, PokeTake(c, t) PROVE Rest
  <2>1. /\ pokes[c] > 0
        /\ pokes' = [pokes EXCEPT ![c] = pokes[c] - 1]
        /\ home' = [home EXCEPT ![t] = c]
        /\ UNCHANGED cpu \/ cpu' = [cpu EXCEPT ![c] = <<"warm", t>>]
    BY <1>6 DEF PokeTake, TakePoke
  <2>2. c # w
    BY <1>1, <2>1
  <2> QED BY <1>1, <2>1, <2>2 DEF TypeOK
<1>7. ASSUME NEW c \in Core, NEW t \in Request, WarmStart(c, t) \/ ColdStart(c, t)
      PROVE  Rest
  <2>1. /\ cpu[c] \in {<<"warm", t>>, <<"cold", t>>}
        /\ cpu' = [cpu EXCEPT ![c] = Idle] \/ cpu' = [cpu EXCEPT ![c] = <<"cold", t>>]
        /\ UNCHANGED <<pokes, home>>
    BY <1>7 DEF WarmStart, ColdStart
  <2>2. c # w
    BY <1>1, <2>1 DEF Idle
  <2> QED BY <1>1, <2>1, <2>2 DEF TypeOK
<1>8. ASSUME NEW c \in Core, NEW u \in Instance,
             Checkpoint(c, u) \/ SnapFind(c, u) \/ SnapInsert(c, u)
      PROVE  Rest
  <2>1. /\ home[u[1]] = c \/ cpu[c] \in {<<"find", u>>, <<"insert", u>>}
        /\ \E x : cpu' = [cpu EXCEPT ![c] = x]
        /\ UNCHANGED <<pokes, home>>
    BY <1>8 DEF Checkpoint, SnapFind, SnapInsert
  <2>2. c # w
    BY <1>1, <2>1 DEF Idle, Instance
  <2> QED BY <1>1, <2>1, <2>2 DEF TypeOK
<1>9. ASSUME NEW c \in Core, NEW t \in Request, ResumeDone(c, t) PROVE Rest
  BY <1>1, <1>9 DEF ResumeDone, Release, TypeOK
<1>10. ASSUME NEW c \in Core, NEW t \in Request, ResumeFailed(c, t) PROVE Rest
  BY <1>1, <1>10 DEF ResumeFailed, TypeOK
<1> QED
  BY <1>2, <1>3, <1>5, <1>6, <1>7, <1>8, <1>9, <1>10
  DEF Next, CoreStep, SessionStep, Terminated, vars, QueueAborts, PokeMissing,
      SnapRace, Executed, Closed, Aborted, Halt

\* The core that receives the messenger's requests, when there is one, runs no
\* invocation: it is never poked, so it never takes work.
THEOREM IoSegregation == Spec => []IoCoreSegregated
<1>1. IdleOffWork => IoCoreSegregated
  BY DEF IdleOffWork, Workers, IoCoreSegregated, Running
<1>2. TypeOK /\ IdleOffWork /\ [Next]_vars => IdleOffWork'
  BY IdleNext
<1> QED BY <1>1, <1>2, TypeCorrect, IdleInit, PTL DEF Spec

-----------------------------------------------------------------------------
(* How far the unlocked snapshot cache can overshoot its limit.            *)

\* The sets whose sizes are compared are finite.
LEMMA FiniteSets ==
  /\ IsFiniteSet(Workers) /\ Cardinality(Workers) \in Nat
  /\ TypeOK => IsFiniteSet(snapmap_) /\ Cardinality(snapmap_) \in Nat
  /\ IsFiniteSet(Inserting) /\ Cardinality(Inserting) \in Nat
<1>1. Workers \subseteq Core /\ Inserting \subseteq Core /\ IsFiniteSet(Core)
  BY CoreAssumption DEF Workers, Inserting
<1>2. TypeOK => snapmap_ \subseteq Fid /\ IsFiniteSet(Fid)
  BY RequestAssumption DEF TypeOK
<1> QED BY <1>1, <1>2, FS_Subset, FS_CardinalityType

\* Initially the cache has room for every core.
LEMMA SnapshotInit == Init => SnapshotOvershoot
<1> SUFFICES ASSUME Init, SnapLimit > 0
             PROVE  Cardinality(snapmap_) + Cardinality(Inserting)
                      < SnapLimit + Cardinality(Workers)
  BY DEF SnapshotOvershoot
<1>1. snapmap_ = {} /\ Inserting = {}
  BY DEF Init, Inserting, Idle
<1> QED BY <1>1, FS_EmptySet, FiniteSets, LimitAssumption

\* Events other than SetSnapshot's never stand between its find and emplace.
LEMMA InsertingFrame ==
  ASSUME TypeOK, NEW c \in Core, NEW x,
         \A u \in Instance : cpu[c] # <<"insert", u>> /\ x # <<"insert", u>>,
         cpu' = [cpu EXCEPT ![c] = x]
  PROVE  Inserting' = Inserting
BY DEF Inserting, TypeOK

\* Every step leaves room in the cache for the inserts under way, but for one core.
LEMMA SnapshotNext ==
  ASSUME TypeOK, IdleOffWork, SnapshotOvershoot, [Next]_vars
  PROVE  SnapshotOvershoot'
<1>1. CASE UNCHANGED snapmap_ /\ Inserting' = Inserting
  BY <1>1 DEF SnapshotOvershoot, Workers
<1>2. CASE UNCHANGED <<snapmap_, cpu>>
  BY <1>1, <1>2 DEF Inserting
<1>3. ASSUME NEW c \in Core, NEW t \in Request, PokeTake(c, t) PROVE SnapshotOvershoot'
  <2>1. /\ UNCHANGED snapmap_
        /\ cpu[c] = <<"idle">>
        /\ UNCHANGED cpu \/ cpu' = [cpu EXCEPT ![c] = <<"warm", t>>]
    BY <1>3 DEF PokeTake, TakePoke, Free, Idle
  <2> QED BY <1>1, <1>2, <2>1, InsertingFrame
<1>4. ASSUME NEW c \in Core, NEW t \in Request, WarmStart(c, t) \/ ColdStart(c, t)
      PROVE  SnapshotOvershoot'
  <2>1. /\ UNCHANGED snapmap_
        /\ cpu[c] \in {<<"warm", t>>, <<"cold", t>>}
        /\ \/ cpu' = [cpu EXCEPT ![c] = <<"idle">>]
           \/ cpu' = [cpu EXCEPT ![c] = <<"cold", t>>]
    BY <1>4 DEF WarmStart, ColdStart, Idle
  <2> QED BY <1>1, <2>1, InsertingFrame
<1>5. ASSUME NEW c \in Core, NEW u \in Instance, Checkpoint(c, u)
      PROVE  SnapshotOvershoot'
  <2>1. /\ UNCHANGED snapmap_
        /\ cpu[c] = <<"idle">>
        /\ cpu' = [cpu EXCEPT ![c] = <<"find", u>>]
    BY <1>5 DEF Checkpoint, Free, Idle
  <2>2. \A v \in Instance : cpu[c] # <<"insert", v>> /\ <<"find", u>> # <<"insert", v>>
    BY <2>1
  <2>3. Inserting' = Inserting
    BY <2>1, <2>2, InsertingFrame
  <2> QED BY <1>1, <2>1, <2>3
<1>6. ASSUME NEW c \in Core, NEW u \in Instance, SnapFind(c, u)
      PROVE  SnapshotOvershoot'
  <2>1. UNCHANGED snapmap_ /\ cpu[c] = <<"find", u>>
    BY <1>6 DEF SnapFind
  <2>2. CASE FidOf[u[1]] \in snapmap_ \/ CacheIsFull
    <3>1. cpu' = [cpu EXCEPT ![c] = <<"idle">>]
      BY <1>6, <2>2 DEF SnapFind, HasSnapshot, Idle
    <3>2. \A v \in Instance : cpu[c] # <<"insert", v>> /\ <<"idle">> # <<"insert", v>>
      BY <2>1
    <3>3. Inserting' = Inserting
      BY <3>1, <3>2, InsertingFrame
    <3> QED BY <1>1, <2>1, <3>3
  <2>3. CASE ~ (FidOf[u[1]] \in snapmap_ \/ CacheIsFull)
    <3>1. Cardinality(snapmap_) < SnapLimit
      BY <2>3, FiniteSets, LimitAssumption DEF CacheIsFull
    <3>2. cpu' = [cpu EXCEPT ![c] = <<"insert", u>>]
      BY <1>6, <2>3 DEF SnapFind, HasSnapshot
    <3>3. Inserting' \subseteq Workers
      <4>1. c \in Workers
        BY <2>1 DEF IdleOffWork, Idle
      <4>2. \A d \in Core \ {c} : d \in Inserting' => d \in Workers
        BY <3>2 DEF Inserting, IdleOffWork, Idle, TypeOK
      <4> QED BY <4>1, <4>2 DEF Inserting
    <3>4. Cardinality(Inserting') <= Cardinality(Workers) /\ Cardinality(Inserting') \in Nat
      BY <3>3, FiniteSets, FS_Subset, FS_CardinalityType
    <3> QED BY <2>1, <3>1, <3>4, FiniteSets, LimitAssumption DEF SnapshotOvershoot, Workers
  <2> QED BY <2>2, <2>3
<1>7. ASSUME NEW c \in Core, NEW u \in Instance, SnapInsert(c, u)
      PROVE  SnapshotOvershoot'
  <2>1. /\ cpu[c] = <<"insert", u>>
        /\ cpu' = [cpu EXCEPT ![c] = <<"idle">>]
        /\ snapmap_' = snapmap_ \cup {FidOf[u[1]]}
    BY <1>7 DEF SnapInsert, Idle
  <2>2. c \in Inserting /\ Inserting' = Inserting \ {c}
    BY <2>1 DEF Inserting, TypeOK
  <2>3. Cardinality(Inserting') = Cardinality(Inserting) - 1
    BY <2>2, FiniteSets, FS_RemoveElement
  <2>4. Cardinality(snapmap_') \in {Cardinality(snapmap_), Cardinality(snapmap_) + 1}
    BY <2>1, FiniteSets, FS_AddElement
  <2> QED BY <2>3, <2>4, FiniteSets, LimitAssumption DEF SnapshotOvershoot, Workers
<1>8. ASSUME NEW c \in Core, NEW t \in Request, ResumeFailed(c, t) PROVE SnapshotOvershoot'
  <2>1. /\ UNCHANGED snapmap_
        /\ cpu[c] = <<"idle">>
        /\ cpu' = [cpu EXCEPT ![c] = NextColder(start[t], t)]
        /\ NextColder(start[t], t) \in {<<"warm", t>>, <<"cold", t>>, <<"idle">>}
    BY <1>8 DEF ResumeFailed, Free, Idle, NextColder
  <2>2. \A v \in Instance : /\ cpu[c] # <<"insert", v>>
                            /\ NextColder(start[t], t) # <<"insert", v>>
    BY <2>1
  <2>3. Inserting' = Inserting
    BY <2>1, <2>2, InsertingFrame
  <2> QED BY <1>1, <2>1, <2>3
<1> QED
  BY <1>2, <1>3, <1>4, <1>5, <1>6, <1>7, <1>8
  DEF Next, CoreStep, SessionStep, Terminated, vars, Queue, QueueAborts, PokeInVain,
      PokeMissing, SnapRace, Executed, Closed, Aborted, Halt, ResumeDone

\* However the unlocked finds and emplaces interleave, the cache passes its
\* limit by fewer entries than there are working cores.
THEOREM SnapshotBound == Spec => []SnapshotOvershoot
<1>1. TypeOK /\ IdleOffWork /\ [Next]_vars => IdleOffWork'
  BY IdleNext
<1>2. TypeOK /\ IdleOffWork /\ SnapshotOvershoot /\ [Next]_vars => SnapshotOvershoot'
  BY SnapshotNext
<1> QED BY <1>1, <1>2, TypeCorrect, IdleInit, SnapshotInit, PTL DEF Spec

-----------------------------------------------------------------------------
(* The hot caches: which session or cache holds an instance.               *)

\* A request that has not yet come to its warm start, or to its cold one.
WarmAhead(t) ==
  \/ stage[t] \in {"unsent", "queued"}
  \/ \E c \in Core : cpu[c] = <<"warm", t>>
  \/ session[t] # "none" /\ start[t] = "hot"

ColdAhead(t) ==
  \/ WarmAhead(t)
  \/ \E c \in Core : cpu[c] = <<"cold", t>>
  \/ session[t] # "none" /\ start[t] = "warm"

\* The instance of a start still ahead has never been booted.
FreshInstances ==
  \A t \in Request : /\ WarmAhead(t) => inst[<<t, "warm">>] = "none"
                     /\ ColdAhead(t) => inst[<<t, "cold">>] = "none"

\* The event about to make a start has no session left from an earlier one.
StartsAreUnbound ==
  \A c \in Core, t \in Request :
    cpu[c] \in {<<"warm", t>>, <<"cold", t>>} => session[t] = "none"

\* The open sessions hold the active instances, one each.
SessionsOwn ==
  /\ \A t \in Request : session[t] = "open" => umi[t] \in Instance /\ inst[umi[t]] = "active"
  /\ \A u \in Instance : inst[u] = "active" => Users(u) # {}
  /\ \A t, s \in Request :
       session[t] = "open" /\ session[s] = "open" /\ umi[t] = umi[s] => t = s

\* The caches hold the inactive instances, one place each.
CachesOwn ==
  /\ \A c \in Core, f \in Fid :
       HotInstanceExists(c, f) => inst[HotInstance(c, f)] = "inactive"
  /\ \A u \in Instance : inst[u] = "inactive" => Parked(u) # {}
  /\ \A c, d \in Core, f, g \in Fid :
       HotInstanceExists(c, f) /\ HotInstance(c, f) = HotInstance(d, g) => c = d /\ f = g

OwnershipInv == StartsAreUnbound /\ FreshInstances /\ SessionsOwn /\ CachesOwn

\* None stands for no instance.
LEMMA NoneIsNoInstance ==
  /\ None \notin Instance
  /\ \A t \in Request : <<t, "warm">> \in Instance /\ <<t, "cold">> \in Instance
BY RequestAssumption DEF Instance

\* Initially no instance exists.
LEMMA OwnershipInit == Init => OwnershipInv
<1> SUFFICES ASSUME Init PROVE OwnershipInv
  OBVIOUS
<1>1. StartsAreUnbound
  BY DEF Init, StartsAreUnbound
<1>2. FreshInstances
  BY NoneIsNoInstance DEF Init, FreshInstances
<1>3. SessionsOwn
  BY DEF Init, SessionsOwn
<1>4. CachesOwn
  BY DEF Init, CachesOwn, HotInstanceExists, HotInstance
<1> QED BY <1>1, <1>2, <1>3, <1>4 DEF OwnershipInv

\* process_hot_start resumes a parked instance of this function, or leaves the
\* cache as it was and falls through: a parked instance is never a halted one.
LEMMA TakeCases ==
  ASSUME TypeOK, RequestInv, CachesOwn, NEW c \in Core, NEW t \in Request, PokeTake(c, t)
  PROVE  /\ FidOf[t] \in Fid
         /\ stage[t] = "queued" /\ session[t] = "none" /\ cpu[c] = Idle
         /\ stage' = [stage EXCEPT ![t] = "running"]
         /\ home' = [home EXCEPT ![t] = c]
         /\ \/ /\ HotInstanceExists(c, FidOf[t])
               /\ HotInstance(c, FidOf[t]) \in Instance
               /\ inst[HotInstance(c, FidOf[t])] = "inactive"
               /\ GetHotInstance(c, FidOf[t])
               /\ Open(t, "hot", HotInstance(c, FidOf[t]))
               /\ UNCHANGED cpu
            \/ /\ UNCHANGED <<hotVars, startVars, inst>>
               /\ cpu' = [cpu EXCEPT ![c] = <<"warm", t>>]
<1>1. t \in Request /\ stage[t] = "queued"
  BY QueueTake DEF RequestInv
<1>2. FidOf[t] \in Fid
  BY <1>1, RequestAssumption
<1>3. session[t] = "none"
  BY <1>1 DEF RequestInv, SessionsAreRunning
<1>4. /\ cpu[c] = Idle
      /\ stage' = [stage EXCEPT ![t] = "running"]
      /\ home' = [home EXCEPT ![t] = c]
  BY DEF PokeTake, TakePoke, Free
<1>5. CASE HotLimit # 0 /\ HotInstanceExists(c, FidOf[t])
  <2>1. /\ HotInstance(c, FidOf[t]) \in Instance
        /\ inst[HotInstance(c, FidOf[t])] = "inactive"
    BY <1>2, <1>5 DEF CachesOwn, TypeOK, HotInstanceExists, HotInstance
  <2>2. /\ GetHotInstance(c, FidOf[t])
        /\ Open(t, "hot", HotInstance(c, FidOf[t]))
        /\ UNCHANGED cpu
    BY <1>5, <2>1 DEF PokeTake
  <2> QED BY <1>1, <1>2, <1>3, <1>4, <1>5, <2>1, <2>2
<1>6. CASE ~ (HotLimit # 0 /\ HotInstanceExists(c, FidOf[t]))
  <2>1. /\ UNCHANGED <<hotVars, startVars, inst>>
        /\ cpu' = [cpu EXCEPT ![c] = <<"warm", t>>]
    BY <1>6 DEF PokeTake
  <2> QED BY <1>1, <1>2, <1>3, <1>4, <2>1
<1> QED BY <1>5, <1>6

\* An event that moves on leaves the other cores where they are.
LEMMA CpuStep ==
  ASSUME TypeOK
  PROVE  \A c \in Core : \A x : cpu' = [cpu EXCEPT ![c] = x] =>
           cpu'[c] = x /\ \A d \in Core \ {c} : cpu'[d] = cpu[d]
BY DEF TypeOK

\* Instances that have not been booted stay so if no start is made.
LEMMA FreshFrame ==
  ASSUME FreshInstances,
         \A u \in Instance : inst[u] = "none" => inst'[u] = "none",
         \A t \in Request : /\ WarmAhead(t)' => WarmAhead(t)
                            /\ ColdAhead(t)' => ColdAhead(t)
  PROVE  FreshInstances'
BY NoneIsNoInstance DEF FreshInstances

\* A step keeps the starts ahead of a request when it neither sends a request
\* nor puts one on a core.
LEMMA AheadFrame ==
  ASSUME UNCHANGED <<stage, start>>,
         \A t \in Request : session'[t] # "none" => session[t] # "none",
         \A c \in Core, t \in Request :
           /\ cpu'[c] = <<"warm", t>> => cpu[c] = <<"warm", t>>
           /\ cpu'[c] = <<"cold", t>> => cpu[c] = <<"cold", t>>
  PROVE  \A t \in Request : /\ WarmAhead(t)' => WarmAhead(t)
                            /\ ColdAhead(t)' => ColdAhead(t)
BY DEF WarmAhead, ColdAhead

\* Every start boots an instance of its own, which no earlier one has booted.
LEMMA FreshNext ==
  ASSUME TypeOK, RequestInv, OwnershipInv, [Next]_vars
  PROVE  FreshInstances'
<1> USE DEF OwnershipInv
<1>1. ASSUME NEW c \in Core, NEW t \in Request, Queue(c, t) PROVE FreshInstances'
  <2>1. /\ UNCHANGED <<inst, cpu, session, start>>
        /\ stage[t] = "unsent"
        /\ \/ stage' = [stage EXCEPT ![t] = "queued"]
           \/ stage' = [stage EXCEPT ![t] = "dropped"]
    BY <1>1 DEF Queue, startVars
  <2>2. \A s \in Request : /\ WarmAhead(s)' => WarmAhead(s)
                           /\ ColdAhead(s)' => ColdAhead(s)
    BY <2>1 DEF WarmAhead, ColdAhead, TypeOK
  <2> QED BY <2>1, <2>2, FreshFrame
<1>2. ASSUME NEW c \in Core, NEW t \in Request, PokeTake(c, t) PROVE FreshInstances'
  <2>1. /\ stage[t] = "queued"
      /\ stage' = [stage EXCEPT ![t] = "running"]
      /\ \/ /\ \E u \in Instance : inst[u] = "inactive" /\ Open(t, "hot", u)
            /\ UNCHANGED cpu
         \/ /\ UNCHANGED <<session, start, inst>>
            /\ cpu' = [cpu EXCEPT ![c] = <<"warm", t>>]
    BY <1>2, TakeCases DEF startVars
  <2>2. \A u \in Instance : inst[u] = "none" => inst'[u] = "none"
    BY <2>1 DEF Open, TypeOK
  <2>3. WarmAhead(t) /\ ColdAhead(t)
    BY <2>1 DEF WarmAhead, ColdAhead
  <2>4. \A s \in Request \ {t} : /\ stage'[s] = stage[s]
                                 /\ session'[s] = session[s]
                                 /\ start'[s] = start[s]
    BY <2>1 DEF Open, TypeOK
  <2>5. \A d \in Core, s \in Request \ {t} :
          /\ cpu'[d] = <<"warm", s>> => cpu[d] = <<"warm", s>>
          /\ cpu'[d] = <<"cold", s>> => cpu[d] = <<"cold", s>>
    BY <2>1, CpuStep
  <2>6. \A s \in Request \ {t} : /\ WarmAhead(s)' => WarmAhead(s)
                                 /\ ColdAhead(s)' => ColdAhead(s)
    BY <2>4, <2>5 DEF WarmAhead, ColdAhead
  <2> QED BY <2>2, <2>3, <2>6, FreshFrame
<1>3. ASSUME NEW c \in Core, NEW t \in Request, WarmStart(c, t) PROVE FreshInstances'
  <2>1. /\ UNCHANGED <<stage, home>>
        /\ cpu[c] = <<"warm", t>>
    BY <1>3 DEF WarmStart
  <2>2. stage[t] = "running" /\ home[t] = c
    BY <2>1 DEF RequestInv, StartsAreRunning
  <2>3. WarmAhead(t) /\ ColdAhead(t)
    BY <2>1 DEF WarmAhead, ColdAhead
  <2>4. CASE Open(t, "warm", <<t, "warm">>) /\ cpu' = [cpu EXCEPT ![c] = Idle]
    <3>1. \A s \in Request \ {t} : session'[s] = session[s] /\ start'[s] = start[s]
      BY <2>4 DEF Open, TypeOK
    <3>2. \A d \in Core, s \in Request :
            /\ cpu'[d] = <<"warm", s>> => d # c /\ cpu[d] = <<"warm", s>>
            /\ cpu'[d] = <<"cold", s>> => d # c /\ cpu[d] = <<"cold", s>>
      BY <2>4 DEF TypeOK, Idle
    <3>3. ~ WarmAhead(t)'
      <4>1. stage'[t] = "running" /\ start'[t] = "warm"
        BY <2>1, <2>2, <2>4 DEF Open, TypeOK
      <4>2. \A d \in Core : cpu'[d] # <<"warm", t>>
        BY <3>2, <2>2 DEF RequestInv, StartsAreRunning
      <4> QED BY <4>1, <4>2 DEF WarmAhead
    <3>4. \A s \in Request \ {t} : /\ WarmAhead(s)' => WarmAhead(s)
                                   /\ ColdAhead(s)' => ColdAhead(s)
      BY <3>1, <3>2, <2>1 DEF WarmAhead, ColdAhead
    <3>5. \A u \in Instance \ {<<t, "warm">>} : inst'[u] = inst[u]
      BY <2>4 DEF Open, TypeOK
    <3> QED BY <2>3, <3>3, <3>4, <3>5, NoneIsNoInstance DEF FreshInstances
  <2>5. CASE UNCHANGED <<startVars, inst>> /\ cpu' = [cpu EXCEPT ![c] = <<"cold", t>>]
    <3>1. \A d \in Core, s \in Request :
            /\ cpu'[d] = <<"warm", s>> => cpu[d] = <<"warm", s>>
            /\ cpu'[d] = <<"cold", s>> => cpu[d] = <<"cold", s>> \/ s = t
      BY <2>5 DEF TypeOK
    <3>2. \A s \in Request : /\ WarmAhead(s)' => WarmAhead(s)
                             /\ ColdAhead(s)' => ColdAhead(s)
      BY <2>1, <2>3, <2>5, <3>1 DEF WarmAhead, ColdAhead, startVars
    <3> QED BY <2>5, <3>2, FreshFrame
  <2> QED BY <1>3, <2>4, <2>5 DEF WarmStart
<1>4. ASSUME NEW c \in Core, NEW t \in Request, ColdStart(c, t) PROVE FreshInstances'
  <2>1. /\ UNCHANGED <<stage, home>>
        /\ cpu[c] = <<"cold", t>>
        /\ cpu' = [cpu EXCEPT ![c] = Idle]
        /\ Open(t, "cold", <<t, "cold">>)
    BY <1>4 DEF ColdStart
  <2>2. stage[t] = "running" /\ home[t] = c
    BY <2>1 DEF RequestInv, StartsAreRunning
  <2>3. \A s \in Request \ {t} : session'[s] = session[s] /\ start'[s] = start[s]
    BY <2>1 DEF Open, TypeOK
  <2>4. \A d \in Core, s \in Request :
          /\ cpu'[d] = <<"warm", s>> => d # c /\ cpu[d] = <<"warm", s>>
          /\ cpu'[d] = <<"cold", s>> => d # c /\ cpu[d] = <<"cold", s>>
    BY <2>1 DEF TypeOK, Idle
  <2>5. ~ WarmAhead(t)' /\ ~ ColdAhead(t)'
    <3>1. stage'[t] = "running" /\ start'[t] = "cold"
      BY <2>1, <2>2 DEF Open, TypeOK
    <3>2. \A d \in Core : cpu'[d] \notin {<<"warm", t>>, <<"cold", t>>}
      BY <2>2, <2>4 DEF RequestInv, StartsAreRunning
    <3> QED BY <3>1, <3>2 DEF WarmAhead, ColdAhead
  <2>6. \A s \in Request \ {t} : /\ WarmAhead(s)' => WarmAhead(s)
                                 /\ ColdAhead(s)' => ColdAhead(s)
    BY <2>1, <2>3, <2>4 DEF WarmAhead, ColdAhead
  <2>7. \A u \in Instance \ {<<t, "cold">>} : inst'[u] = inst[u]
    BY <2>1 DEF Open, TypeOK
  <2> QED BY <2>5, <2>6, <2>7, NoneIsNoInstance DEF FreshInstances
<1>5. ASSUME NEW c \in Core, NEW t \in Request, Closed(c, t) \/ Aborted(c, t)
      PROVE  FreshInstances'
  <2>1. /\ UNCHANGED <<stage, start, cpu>>
        /\ session[t] = "open"
        /\ session' \in {[session EXCEPT ![t] = "true"], [session EXCEPT ![t] = "false"]}
        /\ inst' \in {[inst EXCEPT ![umi[t]] = "halting"],
                      [inst EXCEPT ![umi[t]] = "inactive"]}
    BY <1>5 DEF Closed, Aborted, SaveHotInstance
  <2>2. inst[umi[t]] = "active" /\ umi[t] \in Instance
    BY <2>1 DEF SessionsOwn
  <2>3. \A u \in Instance : inst[u] = "none" => inst'[u] = "none"
    BY <2>1, <2>2 DEF TypeOK
  <2>4. \A s \in Request : session'[s] # "none" => session[s] # "none"
    BY <2>1 DEF TypeOK
  <2> QED BY <2>1, <2>3, <2>4, AheadFrame, FreshFrame
<1>6. ASSUME NEW c \in Core, NEW u \in Instance, Halt(c, u) PROVE FreshInstances'
  <2>1. /\ UNCHANGED <<stage, start, cpu, session>>
        /\ inst[u] = "halting" /\ inst' = [inst EXCEPT ![u] = "halted"]
    BY <1>6 DEF Halt, startVars
  <2>2. \A v \in Instance : inst[v] = "none" => inst'[v] = "none"
    BY <2>1 DEF TypeOK
  <2> QED BY <2>1, <2>2, AheadFrame, FreshFrame
<1>7. ASSUME NEW c \in Core, NEW t \in Request, ResumeDone(c, t) PROVE FreshInstances'
  <2>1. /\ UNCHANGED <<inst, start, cpu>>
        /\ session' = [session EXCEPT ![t] = "none"]
        /\ stage' = [stage EXCEPT ![t] = "done"]
    BY <1>7 DEF ResumeDone
  <2>2. \A s \in Request : /\ WarmAhead(s)' => WarmAhead(s)
                           /\ ColdAhead(s)' => ColdAhead(s)
    BY <2>1 DEF WarmAhead, ColdAhead, TypeOK
  <2> QED BY <2>1, <2>2, FreshFrame
<1>8. ASSUME NEW c \in Core, NEW t \in Request, ResumeFailed(c, t) PROVE FreshInstances'
  <2>1. /\ UNCHANGED <<inst, start, stage>>
        /\ session[t] = "false"
        /\ session' = [session EXCEPT ![t] = "none"]
        /\ cpu' = [cpu EXCEPT ![c] = NextColder(start[t], t)]
    BY <1>8 DEF ResumeFailed
  <2>2. \A d \in Core, s \in Request :
          /\ cpu'[d] = <<"warm", s>> =>
               cpu[d] = <<"warm", s>> \/ (s = t /\ start[t] = "hot")
          /\ cpu'[d] = <<"cold", s>> =>
               cpu[d] = <<"cold", s>> \/ (s = t /\ start[t] = "warm")
    BY <2>1 DEF TypeOK, NextColder, Idle
  <2>3. /\ start[t] = "hot" => WarmAhead(t)
        /\ start[t] = "warm" => ColdAhead(t)
    BY <2>1 DEF WarmAhead, ColdAhead
  <2>4. \A s \in Request : session'[s] # "none" => session[s] # "none"
    BY <2>1 DEF TypeOK
  <2>5. \A s \in Request : /\ WarmAhead(s)' => WarmAhead(s)
                           /\ ColdAhead(s)' => ColdAhead(s)
    BY <2>1, <2>2, <2>3, <2>4 DEF WarmAhead, ColdAhead
  <2> QED BY <2>1, <2>5, FreshFrame
<1>9. ASSUME NEW c \in Core, NEW u \in Instance,
             Checkpoint(c, u) \/ SnapFind(c, u) \/ SnapInsert(c, u)
      PROVE  FreshInstances'
  <2>1. /\ UNCHANGED <<inst, stage, start, session>>
        /\ cpu' \in {[cpu EXCEPT ![c] = Idle], [cpu EXCEPT ![c] = <<"find", u>>],
                     [cpu EXCEPT ![c] = <<"insert", u>>]}
    BY <1>9 DEF Checkpoint, SnapFind, SnapInsert, startVars
  <2>2. \A d \in Core, t \in Request :
          /\ cpu'[d] = <<"warm", t>> => cpu[d] = <<"warm", t>>
          /\ cpu'[d] = <<"cold", t>> => cpu[d] = <<"cold", t>>
    BY <2>1, CpuStep DEF Idle
  <2> QED BY <2>1, <2>2, AheadFrame, FreshFrame
<1>10. CASE UNCHANGED <<inst, stage, start, session, cpu>>
  BY <1>10, AheadFrame, FreshFrame
<1> QED
  BY <1>1, <1>2, <1>3, <1>4, <1>5, <1>6, <1>7, <1>8, <1>9, <1>10
  DEF Next, CoreStep, SessionStep, Terminated, vars, startVars, QueueAborts,
      PokeInVain, PokeMissing, SnapRace,
      Executed

\* The event that is about to make a start has closed the session before it.
LEMMA UnboundNext ==
  ASSUME TypeOK, RequestInv, OwnershipInv, [Next]_vars
  PROVE  StartsAreUnbound'
<1> USE DEF OwnershipInv
\* Steps that put no request on a core and open no session.
<1>0. ASSUME \A t \in Request : session[t] = "none" => session'[t] = "none",
             \A c \in Core, t \in Request :
               cpu'[c] \in {<<"warm", t>>, <<"cold", t>>}
                 => cpu[c] \in {<<"warm", t>>, <<"cold", t>>}
      PROVE  StartsAreUnbound'
  BY <1>0 DEF StartsAreUnbound
<1>1. ASSUME NEW c \in Core, NEW t \in Request, PokeTake(c, t) PROVE StartsAreUnbound'
  <2>1. /\ stage[t] = "queued" /\ session[t] = "none"
      /\ \/ session' = [session EXCEPT ![t] = "open"] /\ UNCHANGED cpu
         \/ UNCHANGED session /\ cpu' = [cpu EXCEPT ![c] = <<"warm", t>>]
    BY <1>1, TakeCases DEF Open, startVars
  <2>2. CASE session' = [session EXCEPT ![t] = "open"] /\ UNCHANGED cpu
    <3>1. \A d \in Core : cpu[d] \notin {<<"warm", t>>, <<"cold", t>>}
      BY <2>1 DEF RequestInv, StartsAreRunning
    <3> QED BY <2>2, <3>1 DEF StartsAreUnbound, TypeOK
  <2>3. CASE UNCHANGED session /\ cpu' = [cpu EXCEPT ![c] = <<"warm", t>>]
    <3>1. cpu'[c] = <<"warm", t>>
      BY <2>3, CpuStep
    <3>2. \A s \in Request : cpu'[c] \in {<<"warm", s>>, <<"cold", s>>} => s = t
      BY <3>1
    <3> QED BY <2>1, <2>3, <3>2, CpuStep DEF StartsAreUnbound
  <2> QED BY <2>1, <2>2, <2>3
<1>2. ASSUME NEW c \in Core, NEW t \in Request, WarmStart(c, t) \/ ColdStart(c, t)
      PROVE  StartsAreUnbound'
  <2>1. /\ cpu[c] \in {<<"warm", t>>, <<"cold", t>>}
        /\ \/ /\ cpu' = [cpu EXCEPT ![c] = <<"idle">>]
              /\ session' = [session EXCEPT ![t] = "open"]
           \/ cpu' = [cpu EXCEPT ![c] = <<"cold", t>>] /\ UNCHANGED session
    BY <1>2 DEF WarmStart, ColdStart, Open, startVars, Idle
  <2>2. home[t] = c /\ session[t] = "none"
    BY <2>1 DEF RequestInv, StartsAreRunning, StartsAreUnbound
  <2>3. CASE /\ cpu' = [cpu EXCEPT ![c] = <<"idle">>]
             /\ session' = [session EXCEPT ![t] = "open"]
    <3> SUFFICES ASSUME NEW d \in Core, NEW s \in Request,
                        cpu'[d] \in {<<"warm", s>>, <<"cold", s>>}
                 PROVE  session'[s] = "none"
      BY DEF StartsAreUnbound
    <3>1. d # c
      <4>1. cpu'[c] = <<"idle">>
        BY <2>3, CpuStep
      <4> QED BY <4>1
    <3>2. cpu[d] \in {<<"warm", s>>, <<"cold", s>>}
      BY <2>3, <3>1, CpuStep
    <3>3. s # t
      BY <2>2, <3>1, <3>2 DEF RequestInv, StartsAreRunning
    <3> QED BY <2>3, <3>2, <3>3 DEF StartsAreUnbound, TypeOK
  <2>4. CASE cpu' = [cpu EXCEPT ![c] = <<"cold", t>>] /\ UNCHANGED session
    <3>1. cpu'[c] = <<"cold", t>>
      BY <2>4, CpuStep
    <3>2. \A s \in Request : cpu'[c] \in {<<"warm", s>>, <<"cold", s>>} => s = t
      BY <3>1
    <3> QED BY <2>2, <2>4, <3>2, CpuStep DEF StartsAreUnbound
  <2> QED BY <2>1, <2>3, <2>4
<1>3. ASSUME NEW c \in Core, NEW u \in Instance,
             Checkpoint(c, u) \/ SnapFind(c, u) \/ SnapInsert(c, u)
      PROVE  StartsAreUnbound'
  <2>1. /\ UNCHANGED session
        /\ cpu' \in {[cpu EXCEPT ![c] = <<"idle">>], [cpu EXCEPT ![c] = <<"find", u>>],
                     [cpu EXCEPT ![c] = <<"insert", u>>]}
    BY <1>3 DEF Checkpoint, SnapFind, SnapInsert, startVars, Idle
  <2>2. \A t \in Request : cpu'[c] \notin {<<"warm", t>>, <<"cold", t>>}
    BY <2>1, CpuStep
  <2>3. \A d \in Core \ {c} : cpu'[d] = cpu[d]
    BY <2>1, CpuStep
  <2> QED BY <1>0, <2>1, <2>2, <2>3
<1>4. ASSUME NEW c \in Core, NEW t \in Request, SessionStep(c, t) PROVE StartsAreUnbound'
  <2>1. /\ UNCHANGED cpu
        /\ session[t] # "none"
        /\ \A s \in Request \ {t} : session'[s] = session[s]
    BY <1>4 DEF SessionStep, Executed, Closed, Aborted, TypeOK
  <2> QED BY <1>0, <2>1
<1>5. ASSUME NEW c \in Core, NEW t \in Request, ResumeDone(c, t) PROVE StartsAreUnbound'
  <2>1. UNCHANGED cpu /\ session' = [session EXCEPT ![t] = "none"]
    BY <1>5 DEF ResumeDone
  <2> QED BY <1>0, <2>1 DEF TypeOK
<1>6. ASSUME NEW c \in Core, NEW t \in Request, ResumeFailed(c, t) PROVE StartsAreUnbound'
  <2>1. /\ session' = [session EXCEPT ![t] = "none"]
        /\ cpu' = [cpu EXCEPT ![c] = NextColder(start[t], t)]
        /\ NextColder(start[t], t) \in {<<"warm", t>>, <<"cold", t>>, <<"idle">>}
    BY <1>6 DEF ResumeFailed, NextColder, Idle
  <2>2. cpu'[c] \in {<<"warm", t>>, <<"cold", t>>, <<"idle">>}
    BY <2>1, CpuStep
  <2>3. \A s \in Request : cpu'[c] \in {<<"warm", s>>, <<"cold", s>>} => s = t
    BY <2>2
  <2>4. \A s \in Request : session[s] = "none" \/ s = t => session'[s] = "none"
    BY <2>1 DEF TypeOK
  <2> QED BY <2>1, <2>3, <2>4, CpuStep DEF StartsAreUnbound
<1>7. CASE UNCHANGED <<cpu, session>>
  BY <1>0, <1>7
<1> QED
  BY <1>1, <1>2, <1>3, <1>4, <1>5, <1>6, <1>7
  DEF Next, CoreStep, Terminated, vars, startVars, Queue, QueueAborts,
      PokeInVain, PokeMissing, SnapRace, Halt

\* A start takes over an instance that no session holds.
LEMMA SessionsOwnOpen ==
  ASSUME TypeOK, SessionsOwn, NEW t \in Request, NEW kind, NEW u \in Instance,
         session[t] # "open", inst[u] # "active", Open(t, kind, u)
  PROVE  SessionsOwn'
<1>1. /\ umi'[t] = u /\ session'[t] = "open" /\ inst'[u] = "active"
      /\ \A s \in Request \ {t} : umi'[s] = umi[s] /\ session'[s] = session[s]
      /\ \A v \in Instance \ {u} : inst'[v] = inst[v]
  BY DEF Open, TypeOK
<1>2. \A s \in Request : session'[s] = "open" => umi'[s] \in Instance /\ inst'[umi'[s]] = "active"
  BY <1>1 DEF SessionsOwn
<1>3. ASSUME NEW v \in Instance, inst'[v] = "active" PROVE Users(v)' # {}
  <2>1. CASE v = u
    BY <1>1, <2>1 DEF Users
  <2>2. CASE v # u
    <3>1. PICK s \in Request : session[s] = "open" /\ umi[s] = v
      BY <1>1, <1>3, <2>2 DEF SessionsOwn, Users
    <3> QED BY <1>1, <3>1 DEF Users
  <2> QED BY <2>1, <2>2
<1>4. \A s, r \in Request :
        session'[s] = "open" /\ session'[r] = "open" /\ umi'[s] = umi'[r] => s = r
  BY <1>1 DEF SessionsOwn
<1> QED BY <1>2, <1>3, <1>4 DEF SessionsOwn

\* A session that ends gives up its instance.
LEMMA SessionsOwnClose ==
  ASSUME TypeOK, SessionsOwn, NEW t \in Request, NEW x, NEW y, x # "open", y # "active",
         session[t] = "open", UNCHANGED umi,
         session' = [session EXCEPT ![t] = x],
         inst' = [inst EXCEPT ![umi[t]] = y]
  PROVE  SessionsOwn'
<1>1. /\ session'[t] = x
      /\ \A s \in Request \ {t} : session'[s] = session[s]
      /\ inst'[umi[t]] = y
      /\ \A v \in Instance : v # umi[t] => inst'[v] = inst[v]
  BY DEF SessionsOwn, TypeOK
<1>2. \A s \in Request : session'[s] = "open" => umi[s] \in Instance /\ inst'[umi[s]] = "active"
  BY <1>1 DEF SessionsOwn
<1>3. ASSUME NEW v \in Instance, inst'[v] = "active" PROVE Users(v)' # {}
  <2>1. PICK s \in Request : session[s] = "open" /\ umi[s] = v
    BY <1>1, <1>3 DEF SessionsOwn, Users
  <2>2. s # t
    BY <1>1, <1>3, <2>1
  <2> QED BY <1>1, <2>1, <2>2 DEF Users
<1>4. \A s, r \in Request :
        session'[s] = "open" /\ session'[r] = "open" /\ umi'[s] = umi'[r] => s = r
  BY <1>1 DEF SessionsOwn
<1> QED BY <1>2, <1>3, <1>4 DEF SessionsOwn

\* No other step concerns an open session or an active instance.
LEMMA SessionsOwnFrame ==
  ASSUME SessionsOwn, UNCHANGED umi,
         \A t \in Request : session'[t] = "open" <=> session[t] = "open",
         \A u \in Instance : inst'[u] = "active" <=> inst[u] = "active"
  PROVE  SessionsOwn'
<1>1. \A u \in Instance : Users(u)' = Users(u)
  BY DEF Users
<1> QED BY <1>1 DEF SessionsOwn

\* get_hot_instance takes an instance out of its place.
LEMMA CachesOwnTake ==
  ASSUME TypeOK, CachesOwn, NEW c \in Core, NEW f \in Fid, NEW u \in Instance,
         HotInstance(c, f) = u, GetHotInstance(c, f),
         inst' = [inst EXCEPT ![u] = "active"]
  PROVE  CachesOwn'
<1>1. /\ HotInstance(c, f)' = None
      /\ \A d \in Core, g \in Fid : d # c \/ g # f => HotInstance(d, g)' = HotInstance(d, g)
      /\ inst'[u] = "active"
      /\ \A v \in Instance \ {u} : inst'[v] = inst[v]
      /\ \A d \in Core, g \in Fid : HotInstance(d, g) \in Instance \cup {None}
  BY DEF GetHotInstance, HotInstance, TypeOK
<1>2. \A d \in Core, g \in Fid : d # c \/ g # f => HotInstance(d, g) # u
  BY NoneIsNoInstance DEF CachesOwn, HotInstanceExists
<1>3. \A d \in Core, g \in Fid :
        HotInstanceExists(d, g)' => inst'[HotInstance(d, g)'] = "inactive"
  BY <1>1, <1>2 DEF CachesOwn, HotInstanceExists
<1>4. ASSUME NEW v \in Instance, inst'[v] = "inactive" PROVE Parked(v)' # {}
  <2>1. v # u /\ inst[v] = "inactive"
    BY <1>1, <1>4
  <2>2. PICK d \in Core, g \in Fid : HotInstance(d, g) = v
    BY <2>1 DEF CachesOwn, Parked, HotInstance
  <2>3. HotInstance(d, g)' = v
    BY <1>1, <2>1, <2>2
  <2>4. <<d, g>> \in Parked(v)'
    BY <2>3 DEF Parked, HotInstance
  <2> QED BY <2>4
<1>5. \A d, e \in Core, g, h \in Fid :
        HotInstanceExists(d, g)' /\ HotInstance(d, g)' = HotInstance(e, h)' => d = e /\ g = h
  BY <1>1 DEF CachesOwn, HotInstanceExists
<1> QED BY <1>3, <1>4, <1>5 DEF CachesOwn

\* save_hot_instance puts an instance that is in no cache into a free place.
LEMMA CachesOwnSave ==
  ASSUME TypeOK, CachesOwn, NEW c \in Core, NEW f \in Fid, NEW u \in Instance,
         ~ HotInstanceExists(c, f), inst[u] # "inactive", SaveHotInstance(c, f, u)
  PROVE  CachesOwn'
<1>1. /\ HotInstance(c, f)' = u
      /\ \A d \in Core, g \in Fid : d # c \/ g # f => HotInstance(d, g)' = HotInstance(d, g)
      /\ inst'[u] = "inactive"
      /\ \A v \in Instance \ {u} : inst'[v] = inst[v]
      /\ \A d \in Core, g \in Fid : HotInstance(d, g) \in Instance \cup {None}
  BY DEF SaveHotInstance, HotInstance, TypeOK
<1>2. \A d \in Core, g \in Fid : HotInstance(d, g) # u
  BY NoneIsNoInstance DEF CachesOwn, HotInstanceExists
<1>3. \A d \in Core, g \in Fid :
        HotInstanceExists(d, g)' => inst'[HotInstance(d, g)'] = "inactive"
  BY <1>1, <1>2 DEF CachesOwn, HotInstanceExists
<1>4. ASSUME NEW v \in Instance, inst'[v] = "inactive" PROVE Parked(v)' # {}
  <2>1. PICK d \in Core, g \in Fid : HotInstance(d, g)' = v
    <3>1. CASE v = u
      BY <1>1, <3>1
    <3>2. CASE v # u
      <4>1. PICK d \in Core, g \in Fid : HotInstance(d, g) = v
        BY <1>1, <1>4, <3>2 DEF CachesOwn, Parked, HotInstance
      <4>2. HotInstance(d, g)' = v
        BY <1>1, <4>1, NoneIsNoInstance DEF HotInstanceExists
      <4> QED BY <4>2
    <3> QED BY <3>1, <3>2
  <2>2. <<d, g>> \in Parked(v)'
    BY <2>1 DEF Parked, HotInstance
  <2> QED BY <2>2
<1>5. \A d, e \in Core, g, h \in Fid :
        HotInstanceExists(d, g)' /\ HotInstance(d, g)' = HotInstance(e, h)' => d = e /\ g = h
  BY <1>1, <1>2 DEF CachesOwn, HotInstanceExists
<1> QED BY <1>3, <1>4, <1>5 DEF CachesOwn

\* No other step concerns a cache or an inactive instance.
LEMMA CachesOwnFrame ==
  ASSUME CachesOwn, UNCHANGED stalled_instance_map_, TypeOK,
         \A u \in Instance : inst'[u] = "inactive" <=> inst[u] = "inactive"
  PROVE  CachesOwn'
<1>1. \A c \in Core, f \in Fid : HotInstance(c, f)' = HotInstance(c, f)
  BY DEF HotInstance
<1>2. \A u \in Instance : Parked(u)' = Parked(u)
  BY DEF Parked
<1>3. \A c \in Core, f \in Fid : HotInstance(c, f) \in Instance \cup {None}
  BY DEF HotInstance, TypeOK
<1> QED BY <1>1, <1>2, <1>3 DEF CachesOwn, HotInstanceExists

\* The two ways a session's end disposes of its instance.
LEMMA CloseCases ==
  ASSUME TypeOK, SessionsOwn, NEW c \in Core, NEW t \in Request, Closed(c, t)
  PROVE  /\ FidOf[t] \in Fid /\ umi[t] \in Instance /\ inst[umi[t]] = "active"
         /\ home[t] = c /\ session[t] = "open" /\ UNCHANGED <<umi, home>>
         /\ session' = [session EXCEPT ![t] = "true"]
         /\ \/ /\ CanBeReused(c, umi[t]) /\ ~ HotInstanceExists(c, FidOf[t])
               /\ SaveHotInstance(c, FidOf[t], umi[t])
            \/ inst' = [inst EXCEPT ![umi[t]] = "halting"] /\ UNCHANGED hotVars
<1>1. FidOf[t] \in Fid
  BY RequestAssumption
<1>2. /\ home[t] = c /\ session[t] = "open" /\ UNCHANGED <<umi, home>>
      /\ session' = [session EXCEPT ![t] = "true"]
      /\ \/ /\ CanBeReused(c, umi[t]) /\ ~ HotInstanceExists(c, FidOf[t])
            /\ SaveHotInstance(c, FidOf[t], umi[t])
         \/ inst' = [inst EXCEPT ![umi[t]] = "halting"] /\ UNCHANGED hotVars
  BY DEF Closed
<1> QED BY <1>1, <1>2 DEF SessionsOwn

\* Every step keeps active instances with one session and inactive ones in one
\* place of one cache.
LEMMA OwnedNext ==
  ASSUME TypeOK, RequestInv, OwnershipInv, [Next]_vars
  PROVE  SessionsOwn' /\ CachesOwn'
<1> USE DEF OwnershipInv
<1>1. ASSUME NEW c \in Core, NEW t \in Request, PokeTake(c, t) PROVE SessionsOwn' /\ CachesOwn'
  <2>1. /\ FidOf[t] \in Fid /\ session[t] = "none"
      /\ \/ /\ HotInstance(c, FidOf[t]) \in Instance
            /\ inst[HotInstance(c, FidOf[t])] = "inactive"
            /\ GetHotInstance(c, FidOf[t])
            /\ Open(t, "hot", HotInstance(c, FidOf[t]))
         \/ UNCHANGED <<hotVars, startVars, inst>>
    BY <1>1, TakeCases
  <2>2. CASE /\ HotInstance(c, FidOf[t]) \in Instance
             /\ inst[HotInstance(c, FidOf[t])] = "inactive"
             /\ GetHotInstance(c, FidOf[t])
             /\ Open(t, "hot", HotInstance(c, FidOf[t]))
    <3>1. SessionsOwn'
      BY <2>1, <2>2, SessionsOwnOpen
    <3>2. inst' = [inst EXCEPT ![HotInstance(c, FidOf[t])] = "active"]
      BY <2>2 DEF Open
    <3>3. CachesOwn'
      BY <2>1, <2>2, <3>2, CachesOwnTake
    <3> QED BY <3>1, <3>3
  <2>3. CASE UNCHANGED <<hotVars, startVars, inst>>
    BY <2>3, SessionsOwnFrame, CachesOwnFrame DEF hotVars, startVars
  <2> QED BY <2>1, <2>2, <2>3
<1>2. ASSUME NEW c \in Core, NEW t \in Request, WarmStart(c, t) \/ ColdStart(c, t)
      PROVE  SessionsOwn' /\ CachesOwn'
  <2>1. /\ UNCHANGED hotVars
        /\ \/ /\ cpu[c] = <<"warm", t>>
              /\ Open(t, "warm", <<t, "warm">>)
           \/ /\ cpu[c] = <<"cold", t>>
              /\ Open(t, "cold", <<t, "cold">>)
           \/ UNCHANGED <<startVars, inst>>
    BY <1>2 DEF WarmStart, ColdStart
  <2>2. CASE UNCHANGED <<startVars, inst>>
    BY <2>1, <2>2, SessionsOwnFrame, CachesOwnFrame DEF hotVars, startVars
  <2>3. ASSUME NEW kind, NEW u \in Instance, inst[u] = "none", Open(t, kind, u),
               cpu[c] \in {<<"warm", t>>, <<"cold", t>>}
        PROVE  SessionsOwn' /\ CachesOwn'
    <3>1. session[t] = "none"
      BY <2>3 DEF StartsAreUnbound
    <3>2. SessionsOwn'
      BY <2>3, <3>1, SessionsOwnOpen
    <3>3. \A v \in Instance : inst'[v] = "inactive" <=> inst[v] = "inactive"
      BY <2>3 DEF Open, TypeOK
    <3> QED BY <2>1, <3>2, <3>3, CachesOwnFrame DEF hotVars
  <2>4. /\ cpu[c] = <<"warm", t>> => inst[<<t, "warm">>] = "none"
        /\ cpu[c] = <<"cold", t>> => inst[<<t, "cold">>] = "none"
    BY DEF FreshInstances, WarmAhead, ColdAhead
  <2> QED BY <2>1, <2>2, <2>3, <2>4, NoneIsNoInstance
<1>3. ASSUME NEW c \in Core, NEW t \in Request, Closed(c, t)
      PROVE  SessionsOwn' /\ CachesOwn'
  <2>0. /\ FidOf[t] \in Fid /\ umi[t] \in Instance /\ inst[umi[t]] = "active"
        /\ session[t] = "open" /\ UNCHANGED umi
        /\ session' = [session EXCEPT ![t] = "true"]
    BY <1>3, CloseCases
  <2>1. CASE /\ ~ HotInstanceExists(c, FidOf[t])
             /\ SaveHotInstance(c, FidOf[t], umi[t])
    <3>1. inst' = [inst EXCEPT ![umi[t]] = "inactive"]
      BY <2>1 DEF SaveHotInstance
    <3>2. SessionsOwn'
      BY <2>0, <3>1, SessionsOwnClose
    <3>3. CachesOwn'
      BY <2>0, <2>1, CachesOwnSave
    <3> QED BY <3>2, <3>3
  <2>2. CASE inst' = [inst EXCEPT ![umi[t]] = "halting"] /\ UNCHANGED hotVars
    <3>1. SessionsOwn'
      BY <2>0, <2>2, SessionsOwnClose
    <3>2. \A v \in Instance : inst'[v] = "inactive" <=> inst[v] = "inactive"
      BY <2>0, <2>2 DEF TypeOK
    <3> QED BY <2>2, <3>1, <3>2, CachesOwnFrame DEF hotVars
  <2> QED BY <1>3, <2>1, <2>2, CloseCases
<1>4. ASSUME NEW c \in Core, NEW t \in Request, Aborted(c, t)
      PROVE  SessionsOwn' /\ CachesOwn'
  <2>1. /\ session[t] = "open" /\ UNCHANGED <<hotVars, umi>>
        /\ session' = [session EXCEPT ![t] = "false"]
        /\ inst' = [inst EXCEPT ![umi[t]] = "halting"]
    BY <1>4 DEF Aborted
  <2>2. SessionsOwn'
    BY <2>1, SessionsOwnClose
  <2>3. \A v \in Instance : inst'[v] = "inactive" <=> inst[v] = "inactive"
    BY <2>1 DEF SessionsOwn, TypeOK
  <2> QED BY <2>1, <2>2, <2>3, CachesOwnFrame DEF hotVars
<1>5. ASSUME NEW c \in Core, NEW u \in Instance, Halt(c, u)
      PROVE  SessionsOwn' /\ CachesOwn'
  <2>1. /\ UNCHANGED <<hotVars, startVars>>
        /\ inst[u] = "halting" /\ inst' = [inst EXCEPT ![u] = "halted"]
    BY <1>5 DEF Halt
  <2>2. \A v \in Instance : /\ inst'[v] = "active" <=> inst[v] = "active"
                            /\ inst'[v] = "inactive" <=> inst[v] = "inactive"
    BY <2>1 DEF TypeOK
  <2> QED BY <2>1, <2>2, SessionsOwnFrame, CachesOwnFrame DEF hotVars, startVars
<1>6. ASSUME NEW c \in Core, NEW t \in Request, ResumeDone(c, t) \/ ResumeFailed(c, t)
      PROVE  SessionsOwn' /\ CachesOwn'
  <2>1. /\ UNCHANGED <<hotVars, umi, inst>>
        /\ session[t] # "open" /\ session' = [session EXCEPT ![t] = "none"]
    BY <1>6 DEF ResumeDone, ResumeFailed
  <2>2. \A s \in Request : session'[s] = "open" <=> session[s] = "open"
    BY <2>1 DEF TypeOK
  <2> QED BY <2>1, <2>2, SessionsOwnFrame, CachesOwnFrame DEF hotVars
<1>7. CASE UNCHANGED <<hotVars, umi, session, inst>>
  BY <1>7, SessionsOwnFrame, CachesOwnFrame DEF hotVars
<1> QED
  BY <1>1, <1>2, <1>3, <1>4, <1>5, <1>6, <1>7
  DEF Next, CoreStep, SessionStep, Terminated, vars, startVars, Queue, QueueAborts,
      PokeInVain, PokeMissing, Checkpoint, SnapFind, SnapInsert, SnapRace, Executed

\* No step lets two requests share an instance or loses track of one.
LEMMA OwnershipNext == TypeOK /\ RequestInv /\ OwnershipInv /\ [Next]_vars => OwnershipInv'
BY UnboundNext, FreshNext, OwnedNext DEF OwnershipInv

\* No instance serves two requests at once, is reused after its halt, or is
\* left running or parked with no request or cache to account for it: whatever
\* hot, warm and cold starts succeed, fail or are retried, on any set of cores.
THEOREM InstancesOwned == Spec => []InstanceOwnership
<1>1. TypeOK /\ OwnershipInv => InstanceOwnership
  <2> SUFFICES ASSUME TypeOK, OwnershipInv, NEW u \in Instance
               PROVE  /\ inst[u] = "active" <=> Users(u) # {}
                      /\ inst[u] = "inactive" <=> Parked(u) # {}
                      /\ \A t, s \in Users(u) : t = s
                      /\ \A p, q \in Parked(u) : p = q
    BY DEF InstanceOwnership
  <2>1. /\ inst[u] = "active" <=> Users(u) # {}
        /\ \A t, s \in Users(u) : t = s
    BY DEF OwnershipInv, SessionsOwn, Users
  <2>2. \A p \in Parked(u) : /\ p[1] \in Core /\ p[2] \in Fid /\ p = <<p[1], p[2]>>
                             /\ HotInstance(p[1], p[2]) = u
                             /\ HotInstanceExists(p[1], p[2])
    BY NoneIsNoInstance DEF Parked, HotInstance, HotInstanceExists
  <2>3. inst[u] = "inactive" <=> Parked(u) # {}
    BY <2>2 DEF OwnershipInv, CachesOwn
  <2>4. ASSUME NEW p \in Parked(u), NEW q \in Parked(u) PROVE p = q
    <3>1. p[1] = q[1] /\ p[2] = q[2]
      BY <2>2 DEF OwnershipInv, CachesOwn
    <3> QED BY <2>2, <3>1
  <2> QED BY <2>1, <2>3, <2>4
<1> QED
  BY <1>1, TypeCorrect, RequestInit, RequestNext, OwnershipInit, OwnershipNext,
     PTL DEF Spec

-----------------------------------------------------------------------------
(* A hot start finds an instance of its own function and core.             *)

\* The instances that requests use, or that are parked, keep their owner's home.
LEMMA MatchesFrame ==
  ASSUME HotStartMatches, UNCHANGED <<stalled_instance_map_, home, umi>>,
         \A t \in Request : session'[t] = "open" => session[t] = "open"
  PROVE  HotStartMatches'
BY DEF HotStartMatches

\* A boot of the request's own instance on its own core.
LEMMA MatchesOpen ==
  ASSUME TypeOK, HotStartMatches, UNCHANGED <<stalled_instance_map_, home>>,
         NEW t \in Request, NEW k \in {"warm", "cold"}, Open(t, k, <<t, k>>)
  PROVE  HotStartMatches'
<1>1. /\ umi'[t] = <<t, k>>
      /\ \A s \in Request \ {t} : umi'[s] = umi[s] /\ session'[s] = session[s]
  BY DEF Open, TypeOK
<1> QED BY <1>1 DEF HotStartMatches

\* No step parks an instance under a function or a core that is not its own,
\* or starts a request on such an instance.
LEMMA MatchesNext ==
  ASSUME TypeOK, RequestInv, OwnershipInv, HotStartMatches, [Next]_vars
  PROVE  HotStartMatches'
<1> USE DEF OwnershipInv
<1>1. ASSUME NEW c \in Core, NEW t \in Request, PokeTake(c, t) PROVE HotStartMatches'
  <2>1. /\ FidOf[t] \in Fid /\ stage[t] = "queued" /\ session[t] = "none"
      /\ home' = [home EXCEPT ![t] = c]
      /\ \/ /\ HotInstance(c, FidOf[t]) \in Instance
            /\ HotInstanceExists(c, FidOf[t])
            /\ GetHotInstance(c, FidOf[t])
            /\ Open(t, "hot", HotInstance(c, FidOf[t]))
         \/ UNCHANGED <<hotVars, startVars>>
    BY <1>1, TakeCases
  <2>2. \A u \in Instance : u[1] = t => inst[u] = "none"
    <3>1. WarmAhead(t) /\ ColdAhead(t)
      BY <2>1 DEF WarmAhead, ColdAhead
    <3>2. inst[<<t, "warm">>] = "none" /\ inst[<<t, "cold">>] = "none"
      BY <3>1 DEF FreshInstances
    <3>3. \A u \in Instance : u[1] = t => u \in {<<t, "warm">>, <<t, "cold">>}
      BY DEF Instance
    <3> QED BY <3>2, <3>3
  <2>3. \A d \in Core, g \in Fid : HotInstanceExists(d, g) =>
          /\ HotInstance(d, g) \in Instance
          /\ HotInstance(d, g)[1] \in Request \ {t}
          /\ FidOf[HotInstance(d, g)[1]] = g
          /\ home'[HotInstance(d, g)[1]] = d
    <3> SUFFICES ASSUME NEW d \in Core, NEW g \in Fid, HotInstanceExists(d, g)
                 PROVE  /\ HotInstance(d, g) \in Instance
                        /\ HotInstance(d, g)[1] \in Request \ {t}
                        /\ FidOf[HotInstance(d, g)[1]] = g
                        /\ home'[HotInstance(d, g)[1]] = d
      OBVIOUS
    <3>1. HotInstance(d, g) \in Instance
      BY DEF HotInstanceExists, HotInstance, TypeOK
    <3>2. HotInstance(d, g)[1] \in Request \ {t}
      BY <2>2, <3>1 DEF CachesOwn, Instance
    <3>3. FidOf[HotInstance(d, g)[1]] = g /\ home[HotInstance(d, g)[1]] = d
      BY DEF HotStartMatches, HotInstanceExists, HotInstance
    <3> QED BY <2>1, <3>1, <3>2, <3>3 DEF TypeOK
  <2>4. \A s \in Request : session[s] = "open" =>
          /\ s # t /\ umi[s] \in Instance
          /\ FidOf[umi[s][1]] = FidOf[s] /\ home'[umi[s][1]] = home'[s]
    <3> SUFFICES ASSUME NEW s \in Request, session[s] = "open"
                 PROVE  /\ s # t /\ umi[s] \in Instance
                        /\ FidOf[umi[s][1]] = FidOf[s] /\ home'[umi[s][1]] = home'[s]
      OBVIOUS
    <3>1. s # t /\ umi[s] \in Instance /\ umi[s][1] \in Request \ {t}
      BY <2>1, <2>2 DEF SessionsOwn, Instance
    <3>2. FidOf[umi[s][1]] = FidOf[s] /\ home[umi[s][1]] = home[s]
      BY DEF HotStartMatches
    <3> QED BY <2>1, <3>1, <3>2 DEF TypeOK
  <2>5. home'[t] = c
    BY <2>1 DEF TypeOK
  <2>6. CASE UNCHANGED <<hotVars, startVars>>
    BY <2>3, <2>4, <2>6
    DEF HotStartMatches, HotInstanceExists, HotInstance, hotVars, startVars
  <2>7. CASE /\ HotInstance(c, FidOf[t]) \in Instance
             /\ HotInstanceExists(c, FidOf[t])
             /\ GetHotInstance(c, FidOf[t])
             /\ Open(t, "hot", HotInstance(c, FidOf[t]))
    <3>1. \A d \in Core, g \in Fid :
            stalled_instance_map_'[d][g] \in {None, HotInstance(d, g)}
      BY <2>7 DEF GetHotInstance, HotInstance, TypeOK
    <3>2. /\ umi'[t] = HotInstance(c, FidOf[t])
          /\ \A s \in Request \ {t} : umi'[s] = umi[s] /\ session'[s] = session[s]
      BY <2>7 DEF Open, TypeOK
    <3>3. \A d \in Core, g \in Fid :
            stalled_instance_map_'[d][g] # None =>
              /\ FidOf[stalled_instance_map_'[d][g][1]] = g
              /\ home'[stalled_instance_map_'[d][g][1]] = d
      BY <3>1, <2>3 DEF HotInstanceExists
    <3>4. \A s \in Request : session'[s] = "open" =>
            FidOf[umi'[s][1]] = FidOf[s] /\ home'[umi'[s][1]] = home'[s]
      BY <2>1, <2>3, <2>4, <2>5, <2>7, <3>2
    <3> QED BY <3>3, <3>4 DEF HotStartMatches
  <2> QED BY <2>1, <2>6, <2>7
<1>2. ASSUME NEW c \in Core, NEW t \in Request, WarmStart(c, t) \/ ColdStart(c, t)
      PROVE  HotStartMatches'
  <2>1. /\ UNCHANGED <<stalled_instance_map_, home>>
        /\ \/ Open(t, "warm", <<t, "warm">>)
           \/ Open(t, "cold", <<t, "cold">>)
           \/ UNCHANGED <<umi, session>>
    BY <1>2 DEF WarmStart, ColdStart, hotVars, startVars
  <2> QED BY <2>1, MatchesOpen, MatchesFrame
<1>3. ASSUME NEW c \in Core, NEW t \in Request, Closed(c, t) PROVE HotStartMatches'
  <2>1. /\ session[t] = "open" /\ home[t] = c
        /\ UNCHANGED <<umi, home>>
        /\ session' = [session EXCEPT ![t] = "true"]
        /\ \/ stalled_instance_map_'
                = [stalled_instance_map_ EXCEPT ![c][FidOf[t]] = umi[t]]
           \/ UNCHANGED stalled_instance_map_
    BY <1>3, CloseCases DEF SaveHotInstance, hotVars
  <2>2. FidOf[umi[t][1]] = FidOf[t] /\ home[umi[t][1]] = c
    BY <2>1 DEF HotStartMatches
  <2>3. \A s \in Request : session'[s] = "open" => session[s] = "open"
    BY <2>1 DEF TypeOK
  <2>4. \A d \in Core, g \in Fid :
          \/ stalled_instance_map_'[d][g] = stalled_instance_map_[d][g]
          \/ d = c /\ g = FidOf[t] /\ stalled_instance_map_'[d][g] = umi[t]
    BY <2>1 DEF TypeOK
  <2> QED BY <2>1, <2>2, <2>3, <2>4 DEF HotStartMatches
<1>4. ASSUME NEW c \in Core, NEW t \in Request,
             Aborted(c, t) \/ ResumeDone(c, t) \/ ResumeFailed(c, t)
      PROVE  HotStartMatches'
  <2>1. /\ UNCHANGED <<stalled_instance_map_, home, umi>>
        /\ session' \in {[session EXCEPT ![t] = "false"], [session EXCEPT ![t] = "none"]}
    BY <1>4 DEF Aborted, ResumeDone, ResumeFailed, hotVars
  <2>2. \A s \in Request : session'[s] = "open" => session[s] = "open"
    BY <2>1 DEF TypeOK
  <2> QED BY <2>1, <2>2, MatchesFrame
<1>5. CASE UNCHANGED <<stalled_instance_map_, home, umi, session>>
  BY <1>5, MatchesFrame
<1> QED
  BY <1>1, <1>2, <1>3, <1>4, <1>5
  DEF Next, CoreStep, SessionStep, Terminated, vars, hotVars, startVars, Queue,
      QueueAborts, PokeInVain, PokeMissing, Checkpoint, SnapFind, SnapInsert,
      SnapRace, Executed, Halt

\* A hot start, which looks an instance up by function id only, always gets one
\* booted for that function on that core; so does every session.
THEOREM HotStartsMatch == Spec => []HotStartMatches
<1>1. TypeOK /\ Init => HotStartMatches
  BY DEF Init, HotStartMatches
<1>2. TypeOK /\ RequestInv /\ OwnershipInv /\ HotStartMatches /\ [Next]_vars
        => HotStartMatches'
  BY MatchesNext
<1> QED
  BY <1>1, <1>2, TypeCorrect, RequestInit, RequestNext, OwnershipInit, OwnershipNext,
     PTL DEF Spec

-----------------------------------------------------------------------------
(* The fifo of the hot cache, and its bounds.                              *)

Once(s) == \A i, j \in 1 .. Len(s) : s[i] = s[j] => i = j

\* Erasing an element of a sequence that lists it once leaves the others, each
\* once.
LEMMA RemoveFirstOnce ==
  ASSUME NEW S, NEW s \in Seq(S), Once(s), NEW e \in ToSet(s)
  PROVE  /\ Once(RemoveFirst(s, e))
         /\ ToSet(RemoveFirst(s, e)) = ToSet(s) \ {e}
         /\ Len(RemoveFirst(s, e)) = Len(s) - 1
<1> DEFINE I == {i \in 1 .. Len(s) : s[i] = e}
           k == Min(I)
           r == RemoveFirst(s, e)
<1>1. I # {} /\ I \in SUBSET Nat /\ \E i \in 1 .. Len(s) : s[i] = e
  BY DEF ToSet
<1>2. k \in 1 .. Len(s) /\ s[k] = e
  BY <1>1, MinOfNaturals
<1>3. r = SubSeq(s, 1, k - 1) \o SubSeq(s, k + 1, Len(s))
  BY <1>1 DEF RemoveFirst, SelectInSeq, RemoveAt
<1> HIDE DEF k, r
<1> PICK n \in Nat : n = Len(s)
  OBVIOUS
<1>4. /\ SubSeq(s, 1, k - 1) \in Seq(S) /\ SubSeq(s, k + 1, n) \in Seq(S)
      /\ Len(SubSeq(s, 1, k - 1)) = k - 1 /\ Len(SubSeq(s, k + 1, n)) = n - k
      /\ \A i \in 1 .. k - 1 : SubSeq(s, 1, k - 1)[i] = s[i]
      /\ \A i \in 1 .. n - k : SubSeq(s, k + 1, n)[i] = s[k + i]
  BY <1>2
<1>5. /\ r \in Seq(S) /\ Len(r) = n - 1
      /\ \A i \in 1 .. n - 1 : r[i] = IF i < k THEN s[i] ELSE s[i + 1]
  <2> DEFINE a == SubSeq(s, 1, k - 1)
             b == SubSeq(s, k + 1, n)
  <2>1. a \in Seq(S) /\ b \in Seq(S) /\ Len(a) = k - 1 /\ Len(b) = n - k /\ r = a \o b
    BY <1>3, <1>4
  <2>2. /\ \A i \in 1 .. k - 1 : a[i] = s[i]
        /\ \A i \in 1 .. n - k : b[i] = s[k + i]
    BY <1>4
  <2> HIDE DEF a, b
  <2>3. /\ r \in Seq(S) /\ Len(r) = Len(a) + Len(b)
        /\ \A i \in 1 .. Len(a) + Len(b) :
             r[i] = IF i <= Len(a) THEN a[i] ELSE b[i - Len(a)]
    BY <2>1, ConcatProperties
  <2> PICK m \in Nat : m = k - 1 /\ m < n
    BY <1>2
  <2>4. Len(a) = m /\ Len(b) = n - m - 1 /\ Len(r) = n - 1
    BY <1>2, <2>1, <2>3
  <2>5. ASSUME NEW i \in 1 .. n - 1
        PROVE  r[i] = IF i < k THEN s[i] ELSE s[i + 1]
    <3>1. r[i] = IF i <= m THEN a[i] ELSE b[i - m]
      BY <2>3, <2>4
    <3>2. CASE i <= m
      BY <1>2, <2>2, <3>1, <3>2
    <3>3. CASE ~ (i <= m)
      <4>1. i - m \in 1 .. n - k /\ k + (i - m) = i + 1 /\ ~ (i < k)
        BY <1>2, <3>3
      <4> QED BY <2>2, <3>1, <3>3, <4>1
    <3> QED BY <3>2, <3>3
  <2> QED BY <2>3, <2>4, <2>5
<1>6. Once(r)
  BY <1>2, <1>5 DEF Once
<1>7. ToSet(r) = ToSet(s) \ {e}
  <2>1. ASSUME NEW x \in ToSet(r) PROVE x \in ToSet(s) \ {e}
    <3>1. PICK i \in 1 .. n - 1 : x = r[i]
      BY <1>5 DEF ToSet
    <3>2. PICK j \in 1 .. n : x = s[j] /\ j # k
      BY <3>1, <1>2, <1>5
    <3>3. x # e
      BY <3>2, <1>2 DEF Once
    <3> QED BY <3>2, <3>3 DEF ToSet
  <2>2. ASSUME NEW x \in ToSet(s), x # e PROVE x \in ToSet(r)
    <3>1. PICK j \in 1 .. n : x = s[j]
      BY DEF ToSet
    <3>2. j # k
      BY <3>1, <2>2, <1>2
    <3>3. PICK i \in 1 .. n - 1 : x = r[i]
      <4>1. CASE j < k
        BY <4>1, <3>1, <1>2, <1>5
      <4>2. CASE j > k
        <5>1. j - 1 \in 1 .. n - 1 /\ ~ (j - 1 < k) /\ (j - 1) + 1 = j
          BY <4>2, <1>2
        <5> QED BY <5>1, <3>1, <1>5
      <4> QED BY <4>1, <4>2, <3>2, <1>2
    <3> QED BY <3>3, <1>5 DEF ToSet
  <2> QED BY <2>1, <2>2
<1> QED BY <1>5, <1>6, <1>7 DEF r

\* Appending a new element.
LEMMA AppendOnce ==
  ASSUME NEW S, NEW s \in Seq(S), Once(s), NEW e \in S, e \notin ToSet(s)
  PROVE  /\ Once(Append(s, e))
         /\ ToSet(Append(s, e)) = ToSet(s) \cup {e}
         /\ Len(Append(s, e)) = Len(s) + 1
<1> PICK n \in Nat : n = Len(s)
  OBVIOUS
<1> DEFINE r == Append(s, e)
<1>1. /\ r \in Seq(S) /\ Len(r) = n + 1 /\ r[n + 1] = e
      /\ \A i \in 1 .. n : r[i] = s[i]
  OBVIOUS
<1> HIDE DEF r
<1>2. \A i \in 1 .. n : s[i] # e
  BY DEF ToSet
<1>3. Once(r)
  BY <1>1, <1>2 DEF Once
<1>4. ToSet(r) = ToSet(s) \cup {e}
  <2>1. \A x : x \in ToSet(r) <=> \E i \in 1 .. n + 1 : x = r[i]
    BY <1>1 DEF ToSet
  <2>2. \A x : x \in ToSet(s) <=> \E i \in 1 .. n : x = s[i]
    BY DEF ToSet
  <2>3. ASSUME NEW x \in ToSet(r) PROVE x \in ToSet(s) \cup {e}
    <3>1. PICK i \in 1 .. n + 1 : x = r[i]
      BY <2>1
    <3>2. CASE i = n + 1
      BY <3>1, <3>2, <1>1
    <3>3. CASE i \in 1 .. n
      BY <3>1, <3>3, <1>1, <2>2
    <3> QED BY <3>2, <3>3
  <2>4. ASSUME NEW x \in ToSet(s) PROVE x \in ToSet(r)
    <3>1. PICK i \in 1 .. n : x = s[i]
      BY <2>2
    <3> QED BY <3>1, <2>1, <1>1
  <2>5. e \in ToSet(r)
    BY <2>1, <1>1
  <2> QED BY <2>3, <2>4, <2>5
<1> QED BY <1>1, <1>3, <1>4 DEF r

FifoOnce == \A c \in Core : Once(stalled_instance_fifo_[c])

CacheInv == HotCacheConsistent /\ FifoOnce

\* The functions with an idle instance on a core are finitely many.
LEMMA StalledFinite ==
  \A c \in Core : /\ IsFiniteSet(StalledFunctions(c))
                  /\ Cardinality(StalledFunctions(c)) \in Nat
<1>1. \A c \in Core : StalledFunctions(c) \subseteq Fid
  BY DEF StalledFunctions
<1> QED BY <1>1, RequestAssumption, FS_Subset, FS_CardinalityType

\* Steps that leave the map and the fifo alone.
LEMMA CacheFrame ==
  ASSUME CacheInv, UNCHANGED <<stalled_instance_map_, stalled_instance_fifo_>>
  PROVE  CacheInv'
<1>1. \A c \in Core : StalledFunctions(c)' = StalledFunctions(c)
  BY DEF StalledFunctions
<1> QED BY <1>1 DEF CacheInv, HotCacheConsistent, FifoOnce

\* get_hot_instance takes the function out of the map and of the fifo.
LEMMA CacheTake ==
  ASSUME TypeOK, CacheInv, NEW c \in Core, NEW f \in Fid, HotInstanceExists(c, f),
         GetHotInstance(c, f)
  PROVE  CacheInv'
<1>1. /\ stalled_instance_fifo_'[c] = RemoveFirst(stalled_instance_fifo_[c], f)
      /\ \A d \in Core \ {c} : stalled_instance_fifo_'[d] = stalled_instance_fifo_[d]
  BY DEF GetHotInstance, TypeOK
<1>2. /\ f \in StalledFunctions(c)
      /\ StalledFunctions(c)' = StalledFunctions(c) \ {f}
      /\ \A d \in Core \ {c} : StalledFunctions(d)' = StalledFunctions(d)
  BY DEF GetHotInstance, StalledFunctions, HotInstanceExists, HotInstance, TypeOK
<1>3. stalled_instance_fifo_[c] \in Seq(Fid) /\ f \in ToSet(stalled_instance_fifo_[c])
      /\ Once(stalled_instance_fifo_[c])
  BY <1>2 DEF TypeOK, CacheInv, HotCacheConsistent, FifoOnce
<1>4. /\ Once(stalled_instance_fifo_'[c])
      /\ ToSet(stalled_instance_fifo_'[c]) = ToSet(stalled_instance_fifo_[c]) \ {f}
      /\ Len(stalled_instance_fifo_'[c]) = Len(stalled_instance_fifo_[c]) - 1
  BY <1>1, <1>3, RemoveFirstOnce
<1>5. Cardinality(StalledFunctions(c)') = Cardinality(StalledFunctions(c)) - 1
  BY <1>2, StalledFinite, FS_RemoveElement
<1>6. \A d \in Core \ {c} :
        /\ Once(stalled_instance_fifo_'[d])
        /\ ToSet(stalled_instance_fifo_'[d]) = StalledFunctions(d)'
        /\ Len(stalled_instance_fifo_'[d]) = Cardinality(StalledFunctions(d)')
        /\ Cardinality(StalledFunctions(d)') <= HotLimit
  BY <1>1, <1>2 DEF CacheInv, HotCacheConsistent, FifoOnce
<1>7. /\ ToSet(stalled_instance_fifo_'[c]) = StalledFunctions(c)'
      /\ Len(stalled_instance_fifo_'[c]) = Cardinality(StalledFunctions(c)')
      /\ Cardinality(StalledFunctions(c)') <= HotLimit
  BY <1>2, <1>4, <1>5, StalledFinite, LimitAssumption DEF CacheInv, HotCacheConsistent
<1> QED BY <1>4, <1>6, <1>7 DEF CacheInv, HotCacheConsistent, FifoOnce

\* save_hot_instance adds a function that is in neither, below the limit.
LEMMA CacheSave ==
  ASSUME TypeOK, CacheInv, NEW c \in Core, NEW f \in Fid, NEW u \in Instance,
         ~ HotInstanceExists(c, f), CanBeReused(c, u), SaveHotInstance(c, f, u)
  PROVE  CacheInv'
<1>1. /\ stalled_instance_fifo_'[c] = Append(stalled_instance_fifo_[c], f)
      /\ \A d \in Core \ {c} : stalled_instance_fifo_'[d] = stalled_instance_fifo_[d]
  BY DEF SaveHotInstance, TypeOK
<1>2. /\ f \notin StalledFunctions(c)
      /\ StalledFunctions(c)' = StalledFunctions(c) \cup {f}
      /\ \A d \in Core \ {c} : StalledFunctions(d)' = StalledFunctions(d)
  BY NoneIsNoInstance
  DEF SaveHotInstance, StalledFunctions, HotInstanceExists, HotInstance, TypeOK
<1>3. /\ stalled_instance_fifo_[c] \in Seq(Fid)
      /\ f \notin ToSet(stalled_instance_fifo_[c])
      /\ Once(stalled_instance_fifo_[c])
  BY <1>2 DEF TypeOK, CacheInv, HotCacheConsistent, FifoOnce
<1>4. /\ Once(stalled_instance_fifo_'[c])
      /\ ToSet(stalled_instance_fifo_'[c]) = ToSet(stalled_instance_fifo_[c]) \cup {f}
      /\ Len(stalled_instance_fifo_'[c]) = Len(stalled_instance_fifo_[c]) + 1
  BY <1>1, <1>3, AppendOnce
<1>5. Cardinality(StalledFunctions(c)') = Cardinality(StalledFunctions(c)) + 1
  BY <1>2, StalledFinite, FS_AddElement
<1>6. \A d \in Core \ {c} :
        /\ Once(stalled_instance_fifo_'[d])
        /\ ToSet(stalled_instance_fifo_'[d]) = StalledFunctions(d)'
        /\ Len(stalled_instance_fifo_'[d]) = Cardinality(StalledFunctions(d)')
        /\ Cardinality(StalledFunctions(d)') <= HotLimit
  BY <1>1, <1>2 DEF CacheInv, HotCacheConsistent, FifoOnce
<1>7. /\ ToSet(stalled_instance_fifo_'[c]) = StalledFunctions(c)'
      /\ Len(stalled_instance_fifo_'[c]) = Cardinality(StalledFunctions(c)')
      /\ Cardinality(StalledFunctions(c)') <= HotLimit
  BY <1>2, <1>4, <1>5, StalledFinite, LimitAssumption
  DEF CacheInv, HotCacheConsistent, CanBeReused
<1> QED BY <1>4, <1>6, <1>7 DEF CacheInv, HotCacheConsistent, FifoOnce

\* Every step keeps the map and the fifo of each core in agreement.
LEMMA CacheNext ==
  ASSUME TypeOK, RequestInv, OwnershipInv, CacheInv, [Next]_vars
  PROVE  CacheInv'
<1>1. ASSUME NEW c \in Core, NEW t \in Request, PokeTake(c, t) PROVE CacheInv'
  <2>1. PICK f \in Fid :
          \/ HotInstanceExists(c, f) /\ GetHotInstance(c, f)
          \/ UNCHANGED hotVars
    BY <1>1, TakeCases DEF OwnershipInv
  <2> QED BY <2>1, CacheTake, CacheFrame DEF hotVars
<1>2. ASSUME NEW c \in Core, NEW t \in Request, Closed(c, t) PROVE CacheInv'
  <2>1. PICK f \in Fid, u \in Instance :
          \/ /\ CanBeReused(c, u) /\ ~ HotInstanceExists(c, f)
             /\ SaveHotInstance(c, f, u)
          \/ UNCHANGED hotVars
    BY <1>2, CloseCases DEF OwnershipInv
  <2> QED BY <2>1, CacheSave, CacheFrame DEF hotVars
<1>3. CASE UNCHANGED hotVars
  BY <1>3, CacheFrame DEF hotVars
<1> QED
  BY <1>1, <1>2, <1>3
  DEF Next, CoreStep, SessionStep, Terminated, vars, Queue, QueueAborts,
      PokeInVain, PokeMissing, WarmStart,
      ColdStart, Checkpoint, SnapFind, SnapInsert, SnapRace, Executed, Aborted, Halt,
      ResumeDone, ResumeFailed

\* The map and the fifo of a hot cache always list the same functions, each
\* once, and never more than the limit: the eviction order never names an
\* instance that is gone, nor misses one that is parked.
THEOREM HotCacheCorrect == Spec => []HotCacheConsistent
<1>1. Init => CacheInv
  <2> SUFFICES ASSUME Init, NEW c \in Core
               PROVE  /\ ToSet(stalled_instance_fifo_[c]) = StalledFunctions(c)
                      /\ Len(stalled_instance_fifo_[c]) = Cardinality(StalledFunctions(c))
                      /\ Cardinality(StalledFunctions(c)) <= HotLimit
                      /\ Once(stalled_instance_fifo_[c])
    BY DEF CacheInv, HotCacheConsistent, FifoOnce
  <2>1. stalled_instance_fifo_[c] = <<>> /\ StalledFunctions(c) = {}
    BY DEF Init, StalledFunctions
  <2>2. ToSet(<<>>) = {}
    BY DEF ToSet
  <2> QED BY <2>1, <2>2, FS_EmptySet, LimitAssumption DEF Once
<1>2. TypeOK /\ RequestInv /\ OwnershipInv /\ CacheInv /\ [Next]_vars => CacheInv'
  BY CacheNext
<1>3. CacheInv => HotCacheConsistent
  BY DEF CacheInv
<1> QED
  BY <1>1, <1>2, <1>3, TypeCorrect, RequestInit, RequestNext, OwnershipInit,
     OwnershipNext, PTL DEF Spec

\* An instance is parked at most ReuseLimit + 1 times in its life, on whichever
\* requests: hot_instance_can_be_reused is consulted before every park.
THEOREM ReuseCorrect == Spec => []ReuseBounded
<1>1. Init => ReuseBounded
  BY LimitAssumption DEF Init, ReuseBounded
<1>2. TypeOK /\ ReuseBounded /\ [Next]_vars => ReuseBounded'
  <2> SUFFICES ASSUME TypeOK, ReuseBounded, [Next]_vars PROVE ReuseBounded'
    OBVIOUS
  <2>1. CASE UNCHANGED stalled_instance_usage_count_
    BY <2>1 DEF ReuseBounded
  <2>2. ASSUME NEW c \in Core, NEW t \in Request, Closed(c, t) PROVE ReuseBounded'
    <3>1. CASE /\ CanBeReused(c, umi[t])
               /\ SaveHotInstance(c, FidOf[t], umi[t])
      BY <3>1, LimitAssumption DEF CanBeReused, SaveHotInstance, ReuseBounded, TypeOK
    <3> QED BY <2>1, <2>2, <3>1 DEF Closed, hotVars
  <2>3. ASSUME NEW c \in Core, NEW t \in Request, PokeTake(c, t) PROVE ReuseBounded'
    BY <2>1, <2>3 DEF PokeTake, GetHotInstance, hotVars
  <2> QED
    BY <2>1, <2>2, <2>3
    DEF Next, CoreStep, SessionStep, Terminated, vars, hotVars, Queue, QueueAborts,
        PokeInVain, PokeMissing, WarmStart, ColdStart, Checkpoint, SnapFind, SnapInsert,
        SnapRace, Executed, Aborted, Halt, ResumeDone, ResumeFailed
<1> QED BY <1>1, <1>2, TypeCorrect, PTL DEF Spec

-----------------------------------------------------------------------------
(* The invoker implements the Dispatcher.                                  *)

Waiting == [i \in DOMAIN request_queue_ |-> Record(request_queue_[i])]
Serving == [c \in Core |-> Running(c)]
Served == {t \in Request : stage[t] = "done"}

QueueInv == RequestInv /\ QueueAccounted /\ NoDrops

\* Initially nothing waits, is served or has been.
LEMMA DispatcherInit == Init => D!DInit
<1> SUFFICES ASSUME Init PROVE D!DInit
  OBVIOUS
<1>1. DOMAIN request_queue_ = {} /\ DOMAIN request_queue_ = 1 .. 0
  BY DEF Init
<1>2. Waiting = <<>>
  BY <1>1, Waiting = [i \in 1 .. 0 |-> Record(request_queue_[i])] DEF Waiting
<1> QED BY <1>2 DEF Init, D!DInit, Running, Waiting

\* Where one record is under an id, Record is that record.
LEMMA OnlyRecord ==
  ASSUME NEW S, NEW t \in Request, S = {t}
  PROVE  (CHOOSE s \in Request : s \in S) = t
<1>1. \E s \in Request : s \in S
  OBVIOUS
<1>2. (CHOOSE s \in Request : s \in S) \in S
  BY <1>1
<1> QED BY <1>2

\* The steps that leave the queue and the requests' stages alone stutter, or
\* bring the node down.
LEMMA DispatcherFrame ==
  ASSUME UNCHANGED <<rootVars, stage, home>>,
         node' = node \/ (node = "up" /\ node' = "aborted")
  PROVE  [D!DNext]_(D!dvars)
<1>1. Serving' = Serving /\ Served' = Served
  BY DEF Serving, Served, Running
<1>2. Waiting' = Waiting
  BY DEF Waiting, Record, Records, rootVars
<1>3. CASE node' = node
  BY <1>1, <1>2, <1>3 DEF D!dvars, Serving, Served, Waiting
<1>4. CASE node = "up" /\ node' = "aborted"
  BY <1>1, <1>2, <1>4 DEF D!DNext, D!Crash, Serving, Served, Waiting
<1> QED BY <1>3, <1>4

\* A request that reaches the queue is one the Dispatcher has not met, and
\* waits behind the others.
LEMMA DispatcherArrive ==
  ASSUME TypeOK, QueueInv, NoDrops', NEW c \in Core, NEW t \in Request, Queue(c, t)
  PROVE  D!Arrive(t)
<1>1. /\ stage[t] = "unsent" /\ node = "up" /\ UNCHANGED <<home, node>>
      /\ stage' = [stage EXCEPT ![t] = IF Inserted(t) THEN "queued" ELSE "dropped"]
      /\ request_queue_' = Append(request_queue_, TidOf[t])
      /\ request_map_' = request_map_ \cup (IF Inserted(t) THEN {t} ELSE {})
      /\ request_queue_ \in Seq(Tid) /\ request_map_ \subseteq Request
  BY DEF Queue, AddWork, Free, TypeOK
<1>2. Inserted(t)
  BY <1>1 DEF NoDrops, TypeOK
<1>3. Serving' = Serving /\ Served' = Served
  BY <1>1, <1>2 DEF Serving, Served, Running, TypeOK
<1>4. t \notin Served /\ \A d \in Core : t \notin Running(d)
  BY <1>1 DEF Served, Running
<1>5. PICK n \in Nat :
        /\ DOMAIN request_queue_ = 1 .. n
        /\ DOMAIN request_queue_' = 1 .. n + 1
        /\ request_queue_'[n + 1] = TidOf[t]
        /\ \A i \in 1 .. n : request_queue_'[i] = request_queue_[i]
  <2>1. Len(request_queue_) \in Nat
    BY <1>1
  <2> QED BY <1>1, <2>1
\* The records that wait keep their places.
<1>6. ASSUME NEW i \in 1 .. n
      PROVE  /\ Record(request_queue_[i]) \in Request \ {t}
             /\ Record(request_queue_[i])' = Record(request_queue_[i])
  <2> DEFINE x == request_queue_[i]
  <2>1. PICK s \in request_map_ : Records(x) = {s}
    BY <1>5, QueueExact DEF QueueInv
  <2>2. s \in Request /\ s # t
    BY <1>1, <2>1 DEF QueueInv, RequestInv, QueuedInMap
  <2>3. x # TidOf[t]
    BY <1>2, <2>1 DEF Inserted
  <2>4. Records(x)' = {s} /\ request_queue_'[i] = x
    <3>1. request_map_' = request_map_ \cup {t}
      BY <1>1, <1>2
    <3>2. \A y : Records(y) = {r \in request_map_ : TidOf[r] = y}
      BY DEF Records
    <3>3. Records(x)' = {r \in request_map_ \cup {t} : TidOf[r] = request_queue_'[i]}
      BY <3>1 DEF Records
    <3> QED BY <1>5, <2>1, <2>3, <3>2, <3>3
  <2>5. Record(x) = s /\ Record(x)' = s
    BY <2>1, <2>2, <2>4, OnlyRecord DEF Record
  <2> QED BY <2>2, <2>5
<1>7. Record(request_queue_[n + 1])' = t
  <2>1. Records(request_queue_[n + 1])' = {t}
    <3>1. request_map_' = request_map_ \cup {t} /\ \A s \in request_map_ : TidOf[s] # TidOf[t]
      BY <1>1, <1>2 DEF Inserted, Records
    <3> QED BY <1>1, <1>5, <3>1 DEF Records
  <2> QED BY <2>1, OnlyRecord DEF Record
<1>8. Waiting' = Append(Waiting, t)
  <2>1. Waiting = [i \in 1 .. n |-> Record(request_queue_[i])]
    BY <1>5 DEF Waiting
  <2>2. Waiting' = [i \in 1 .. n + 1 |-> Record(request_queue_[i])']
    BY <1>5 DEF Waiting
  <2>3. Waiting \in Seq(Request) /\ Len(Waiting) = n
    BY <1>6, <2>1
  <2>4. /\ Append(Waiting, t) \in Seq(Request)
        /\ Len(Append(Waiting, t)) = n + 1
        /\ Append(Waiting, t)[n + 1] = t
        /\ \A i \in 1 .. n : Append(Waiting, t)[i] = Waiting[i]
    BY <2>3, AppendProperties
  <2>5. ASSUME NEW i \in 1 .. n + 1 PROVE Waiting'[i] = Append(Waiting, t)[i]
    <3>1. CASE i = n + 1
      BY <1>7, <2>2, <2>4, <3>1
    <3>2. CASE i \in 1 .. n
      BY <1>6, <2>1, <2>2, <2>4, <3>2
    <3>3. i = n + 1 \/ i \in 1 .. n
      OBVIOUS
    <3> QED BY <3>1, <3>2, <3>3
  <2>6. Waiting' \in Seq(Request) /\ Len(Waiting') = n + 1
    <3>1. \A i \in 1 .. n + 1 : Waiting'[i] \in Request
      BY <2>4, <2>5
    <3>2. Waiting' = [i \in 1 .. n + 1 |-> Waiting'[i]]
      BY <2>2
    <3> QED BY <3>1, <3>2
  <2> QED BY <2>4, <2>5, <2>6, SeqEqual
<1>9. ~ D!Known(t)
  <2>1. \A i \in DOMAIN Waiting : Waiting[i] # t
    BY <1>5, <1>6 DEF Waiting
  <2> QED BY <1>4, <2>1 DEF D!Known, Served, Waiting
<1> QED BY <1>1, <1>3, <1>8, <1>9 DEF D!Arrive, Serving, Served, Waiting

\* The Dispatcher counts as the invoker does.
LEMMA SameCardinality ==
  ASSUME NEW S
  PROVE  D!Cardinality(S) = Cardinality(S)
BY DEF D!Cardinality, Cardinality

\* A Poke that takes a request dispatches the oldest one to a core with room.
LEMMA DispatcherDispatch ==
  ASSUME TypeOK, QueueInv, ConcurrencyExact,
         NEW c \in Core, NEW t \in Request, PokeTake(c, t)
  PROVE  D!Dispatch(c)
<1>1. /\ node = "up" /\ UNCHANGED node
      /\ request_queue_ \in Seq(Tid)
      /\ request_queue_ # <<>> /\ request_queue_' = Tail(request_queue_)
      /\ request_map_' = request_map_ \ {t}
      /\ stage' = [stage EXCEPT ![t] = "running"]
      /\ request_concurrency_[c] < ConcurrencyLimit
  BY DEF PokeTake, TakePoke, Free, HasCapacity, GetWork, TypeOK
<1>2. Serving' = [Serving EXCEPT ![c] = Serving[c] \cup {t}]
  BY RunningAfterTake DEF Serving, QueueInv
<1>3. stage[t] = "queued" /\ t \in request_map_ /\ TidOf[t] = Head(request_queue_)
  BY QueueTake DEF QueueInv, RequestInv
<1>4. Served' = Served
  BY <1>1, <1>3 DEF Served, TypeOK
<1>5. D!Cardinality(Serving[c]) < ConcurrencyLimit
  BY <1>1, SameCardinality DEF ConcurrencyExact, Serving
<1>6. PICK n \in Nat \ {0} :
        /\ DOMAIN request_queue_ = 1 .. n
        /\ DOMAIN request_queue_' = 1 .. n - 1
        /\ request_queue_[1] = TidOf[t]
        /\ \A i \in 1 .. n - 1 : request_queue_'[i] = request_queue_[i + 1]
  <2>1. Len(request_queue_) \in Nat \ {0}
    BY <1>1
  <2> QED BY <1>1, <1>3, <2>1
<1>7. ASSUME NEW i \in 1 .. n
      PROVE  /\ Record(request_queue_[i]) \in Request
             /\ i = 1 => Record(request_queue_[i]) = t
             /\ i # 1 => Record(request_queue_[i - 1])' = Record(request_queue_[i])
  <2> DEFINE x == request_queue_[i]
  <2>1. PICK s \in request_map_ : Records(x) = {s}
    BY <1>6, QueueExact DEF QueueInv
  <2>2. s \in Request
    BY <2>1 DEF TypeOK
  <2>3. Record(x) = s
    BY <2>1, <2>2, OnlyRecord DEF Record
  <2>4. i = 1 => s = t
    BY <1>3, <1>6, <2>1 DEF Records
  <2>5. ASSUME i # 1 PROVE Record(request_queue_[i - 1])' = s
    <3>1. i - 1 \in 1 .. n - 1 /\ (i - 1) + 1 = i /\ 1 \in 1 .. n
      BY <1>6, <2>5
    <3>2. request_queue_'[i - 1] = x
      BY <1>6, <3>1
    <3>3. x # TidOf[t]
      BY <1>6, <2>5, <3>1, QueueExact DEF QueueInv
    <3>4. Records(request_queue_[i - 1])' = {s}
      <4>1. Records(request_queue_[i - 1])' = {r \in request_map_ \ {t} : TidOf[r] = x}
        BY <1>1, <3>2 DEF Records
      <4>2. Records(x) = {r \in request_map_ : TidOf[r] = x}
        BY DEF Records
      <4> QED BY <2>1, <3>3, <4>1, <4>2
    <3> QED BY <2>2, <3>4, OnlyRecord DEF Record
  <2> QED BY <2>2, <2>3, <2>4, <2>5
<1>8. /\ Waiting # <<>>
      /\ Head(Waiting) = t
      /\ Waiting' = Tail(Waiting)
  <2>1. Waiting = [i \in 1 .. n |-> Record(request_queue_[i])]
    BY <1>6 DEF Waiting
  <2>2. Waiting' = [i \in 1 .. n - 1 |-> Record(request_queue_[i])']
    BY <1>6 DEF Waiting
  <2>3. Waiting \in Seq(Request) /\ Len(Waiting) = n
    BY <1>6, <1>7, <2>1
  <2>4. Waiting # <<>> /\ Head(Waiting) = Waiting[1]
    BY <1>6, <2>3
  <2>5. Waiting[1] = t
    BY <1>6, <1>7, <2>1
  <2>6. /\ Tail(Waiting) \in Seq(Request)
        /\ Len(Tail(Waiting)) = n - 1
        /\ \A i \in 1 .. n - 1 : Tail(Waiting)[i] = Waiting[i + 1]
    BY <2>3, <2>4, HeadTailProperties
  <2>7. \A i \in 1 .. n - 1 : Waiting'[i] = Waiting[i + 1]
    <3> TAKE i \in 1 .. n - 1
    <3>1. i + 1 \in 1 .. n /\ i + 1 # 1 /\ (i + 1) - 1 = i
      BY <1>6
    <3>2. Record(request_queue_[(i + 1) - 1])' = Record(request_queue_[i + 1])
      BY <1>7, <3>1
    <3> QED BY <2>1, <2>2, <3>1, <3>2
  <2>8. Waiting' \in Seq(Request) /\ Len(Waiting') = n - 1
    <3>1. \A i \in 1 .. n - 1 : Waiting'[i] \in Request
      BY <2>6, <2>7
    <3>2. Waiting' = [i \in 1 .. n - 1 |-> Waiting'[i]]
      BY <2>2
    <3> QED BY <3>1, <3>2
  <2>9. Waiting' = Tail(Waiting)
    BY <2>6, <2>7, <2>8, SeqEqual
  <2> QED BY <2>4, <2>5, <2>9
<1> QED BY <1>1, <1>2, <1>4, <1>5, <1>8 DEF D!Dispatch, Serving, Served, Waiting

\* The end of Invoke retires the request.
LEMMA DispatcherRetire ==
  ASSUME TypeOK, RequestInv, NEW c \in Core, NEW t \in Request, ResumeDone(c, t)
  PROVE  D!Retire(c, t)
<1>1. /\ node = "up" /\ UNCHANGED <<node, request_queue_, request_map_>>
      /\ stage' = [stage EXCEPT ![t] = "done"]
  BY DEF ResumeDone, Free, rootVars
<1>2. Serving' = [Serving EXCEPT ![c] = Serving[c] \ {t}] /\ t \in Serving[c]
  BY RunningAfterDone DEF Serving
<1>3. Served' = Served \cup {t}
  BY <1>1 DEF Served, TypeOK
<1>4. Waiting' = Waiting
  BY <1>1 DEF Waiting, Record, Records
<1> QED BY <1>1, <1>2, <1>3, <1>4 DEF D!Retire, Serving, Served, Waiting

\* Every step of the invoker is a step of the Dispatcher or a stutter.
LEMMA DispatcherNext ==
  ASSUME TypeOK, QueueInv, NoDrops', ConcurrencyExact, [Next]_vars
  PROVE  [D!DNext]_(D!dvars)
<1>1. ASSUME NEW c \in Core, NEW t \in Request, Queue(c, t) PROVE D!DNext
  BY <1>1, DispatcherArrive DEF D!DNext
<1>2. ASSUME NEW c \in Core, NEW t \in Request, PokeTake(c, t) PROVE D!DNext
  BY <1>2, DispatcherDispatch DEF D!DNext
<1>3. ASSUME NEW c \in Core, NEW t \in Request, ResumeDone(c, t) PROVE D!DNext
  BY <1>3, DispatcherRetire DEF D!DNext, QueueInv
<1>4. ASSUME NEW c \in Core, NEW u \in Instance, SnapInsert(c, u)
      PROVE  [D!DNext]_(D!dvars)
  BY <1>4, DispatcherFrame DEF SnapInsert
<1>5. ASSUME NEW c \in Core, NEW d \in Core, SnapRace(c, d)
      PROVE  [D!DNext]_(D!dvars)
  BY <1>5, DispatcherFrame DEF SnapRace
<1>6. ASSUME NEW c \in Core, NEW t \in Request, ResumeFailed(c, t)
      PROVE  [D!DNext]_(D!dvars)
  BY <1>6, DispatcherFrame DEF ResumeFailed, Free
<1>7. ASSUME NEW c \in Core, PokeMissing(c) PROVE [D!DNext]_(D!dvars)
  BY <1>7, DispatcherFrame DEF PokeMissing, Free
<1>8. ASSUME NEW c \in Core, NEW t \in Request, QueueAborts(c, t)
      PROVE  [D!DNext]_(D!dvars)
  BY <1>8, DispatcherFrame DEF QueueAborts, Free
<1>9. CASE UNCHANGED <<rootVars, stage, home, node>>
  BY <1>9, DispatcherFrame
<1> QED
  BY <1>1, <1>2, <1>3, <1>4, <1>5, <1>6, <1>7, <1>8, <1>9
  DEF Next, CoreStep, SessionStep, Terminated, vars, PokeInVain, WarmStart,
      ColdStart, Checkpoint, SnapFind, Executed, Closed, Aborted, Halt

\* The invoker implements the Dispatcher as long as AddWork drops no request:
\* they are dispatched in the order of their arrival, each once and to a core
\* with room, and retire; no dropped poke, failed start or retry shows.
THEOREM RefinesDispatcher ==
  ASSUME LimitFitsCounter, NoneDropped
  PROVE  Spec => DispatcherSpec
<1>1. TypeOK /\ RequestInv /\ ConcurrencyExact /\ [Next]_vars => ConcurrencyExact'
  BY CounterNext
<1>2. TypeOK /\ RequestInv /\ NoDrops /\ [Next]_vars => NoDrops'
  BY DropsNext
<1>3. Init => NoDrops
  BY DEF Init, NoDrops
<1>4. TypeOK /\ RequestInv /\ QueueAccounted /\ NoDrops /\ NoDrops' /\ ConcurrencyExact
        /\ [Next]_vars => [D!DNext]_(D!dvars)
  BY DispatcherNext DEF QueueInv
<1> QED
  BY <1>1, <1>2, <1>3, <1>4, TypeCorrect, QueueCorrect, RequestInit, RequestNext,
     CounterInit, DispatcherInit, PTL DEF Spec, DispatcherSpec, D!DSpec

=============================================================================
