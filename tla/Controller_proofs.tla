-------------------------- MODULE Controller_proofs --------------------------
(***************************************************************************)
(* Theorems about Controller, for every set of activations, every mapping  *)
(* to transaction ids, and any number of replies and restarts.             *)
(***************************************************************************)
EXTENDS Controller, SequenceTheorems, TLAPS

-----------------------------------------------------------------------------
(* Types.                                                                  *)

\* The initial state is well typed.
LEMMA TypeInit == Init => TypeOK
BY ControllerAssumption DEF Init, TypeOK, Polling

\* The offset of a polled message lies within the topic.
LEMMA PolledMessage ==
  ASSUME TypeOK, position < Len(topic)
  PROVE  topic[position + 1] \in Act /\ position + 1 \in DOMAIN topic
BY DEF TypeOK

\* A message produced keeps the count of each activation a natural number.
LEMMA ProduceType ==
  ASSUME TypeOK, NEW a \in Act, Produce(a)
  PROVE  completed' \in [Act -> Nat]
BY DEF TypeOK, Produce

\* Every step of the three threads, a crash and a restart keep the types.
LEMMA TypeNext == TypeOK /\ [Next]_vars => TypeOK'
<1> SUFFICES ASSUME TypeOK, [Next]_vars PROVE TypeOK'
  OBVIOUS
<1> USE DEF TypeOK, offsets, table, nodes, wire
<1>1. CASE UNCHANGED vars
  BY <1>1 DEF vars
<1>2. ASSUME NEW a \in Act, Publish(a) PROVE TypeOK'
  <2>1. topic' \in Seq(Act) /\ Len(topic') = Len(topic) + 1
    BY <1>2, AppendProperties DEF Publish
  <2> QED BY <1>2, <2>1 DEF Publish
<1>3. CASE Poll
  <2>1. topic[position + 1] \in Act
    BY <1>3, PolledMessage DEF Poll
  <2>2. completed' \in [Act -> Nat]
    <3>1. Produce(topic[position + 1]) \/ UNCHANGED completed
      BY <1>3 DEF Poll
    <3> QED BY <2>1, <3>1, ProduceType
  <2>3. thread' \in {Polling} \cup ({"schedule", "send", "attach"} \X Act)
    <3>1. thread' = thread \/ thread' = <<"schedule", topic[position + 1]>>
      BY <1>3 DEF Poll
    <3> QED BY <2>1, <3>1
  <2>4. position' = position + 1 /\ requested' = position + 1 /\ position < Len(topic)
    BY <1>3 DEF Poll, NextOffset
  <2>5. UNCHANGED <<topic, committed, nodes, table, wire, process, restarts>>
    BY <1>3 DEF Poll
  <2>6. position' \in 0 .. Len(topic)' /\ requested' \in 0 .. position'
    BY <2>4, <2>5
  <2>7. committed' \in 0 .. requested'
    BY <2>4, <2>5
  <2> QED BY <2>2, <2>3, <2>5, <2>6, <2>7
<1>4. CASE CommitStored
  BY <1>4 DEF CommitStored
<1>5. ASSUME NEW a \in Act, Schedule(a) PROVE TypeOK'
  BY <1>5, ControllerAssumption DEF Schedule, Record
<1>6. ASSUME NEW a \in Act, Send(a) PROVE TypeOK'
  BY <1>6 DEF Send
<1>7. ASSUME NEW a \in Act, SendNowhere(a) PROVE TypeOK'
  BY <1>7 DEF SendNowhere
<1>8. ASSUME NEW a \in Act, Attach(a) PROVE TypeOK'
  <2>1. completed' \in [Act -> Nat]
    <3>1. Produce(a) \/ UNCHANGED completed
      BY <1>8 DEF Attach
    <3> QED BY <3>1, ProduceType
  <2> QED BY <1>8, <2>1 DEF Attach
<1>9. CASE RegisterPush \/ RegisterMap
  BY <1>9 DEF RegisterPush, RegisterMap
<1>10. CASE SendRequest
  <2>1. Head(outbox) \in Act /\ Tail(outbox) \in Seq(Act)
    BY <1>10, HeadTailProperties DEF SendRequest
  <2>2. \A t \in Tid : backend[t] + MaxReplies \in Nat
    BY ControllerAssumption
  <2>3. backend' \in [Tid -> Nat]
    BY <1>10, <2>1, <2>2 DEF SendRequest
  <2> QED BY <1>10, <2>1, <2>3 DEF SendRequest
<1>11. ASSUME NEW t \in Tid, ResolveActivation(t) PROVE TypeOK'
  <2>1. record_map_' \in [Tid -> Act \cup {None}]
    BY <1>11 DEF ResolveActivation, Erase
  <2>2. completed' \in [Act -> Nat]
    <3>1. \/ UNCHANGED completed
          \/ record_map_[t] # None /\ Produce(record_map_[t])
      BY <1>11 DEF ResolveActivation
    <3> QED BY <3>1, ProduceType
  <2>3. ready' \subseteq Act /\ attached' \subseteq Act
    BY <1>11 DEF ResolveActivation
  <2>4. backend' \in [Tid -> Nat]
    BY <1>11 DEF ResolveActivation
  <2> QED BY <1>11, <2>1, <2>2, <2>3, <2>4 DEF ResolveActivation
<1>12. CASE Crash
  BY <1>12 DEF Crash
<1>13. CASE Restart
  BY <1>13, ControllerAssumption DEF Restart, Polling
<1> QED
  BY <1>1, <1>2, <1>3, <1>4, <1>5, <1>6, <1>7, <1>8, <1>9, <1>10, <1>11, <1>12, <1>13
  DEF Next, Consumer, Terminated

\* Every variable keeps its type: the consumer never passes the end of the
\* topic, nor the broker's offset what was committed.
THEOREM TypeCorrect == Spec => []TypeOK
BY TypeInit, TypeNext, PTL DEF Spec

-----------------------------------------------------------------------------
(* The life of an activation in one process: not yet polled; in the hands  *)
(* of the consumer; attached.  Owed are those that may still be completed  *)
(* by this process: they have one completion less than it allows.          *)

Polled(a) == \E i \in 1 .. position : topic[i] = a

InHand(a) == thread \in {<<"schedule", a>>, <<"send", a>>, <<"attach", a>>}

Recorded(a) == record_map_[TidOf[a]] = a

Owed(a) == ~Polled(a) \/ InHand(a) \/ (a \in attached /\ a \notin ready)

PublishedOnce == \A i, j \in DOMAIN topic : topic[i] = topic[j] => i = j

RecordsMatch == \A t \in Tid : record_map_[t] # None => TidOf[record_map_[t]] = t

LifeOrder ==
  \A a \in Act :
    /\ ~Polled(a) => ~InHand(a) /\ a \notin attached /\ a \notin ready /\ ~Recorded(a)
    /\ InHand(a) => a \notin attached
    /\ thread = <<"schedule", a>> => a \notin ready /\ ~Recorded(a)
    /\ a \in ready => ~Recorded(a)

Accounts ==
  \A a \in Act : /\ completed[a] <= 1 + restarts
                 /\ Owed(a) => completed[a] <= restarts

LifeInv == PublishedOnce /\ RecordsMatch /\ LifeOrder /\ Accounts

\* Initially nothing is published, recorded or completed.
LEMMA LifeInit == Init => LifeInv
BY ControllerAssumption
DEF Init, LifeInv, PublishedOnce, RecordsMatch, LifeOrder, Accounts, Polled, InHand,
    Recorded, Owed, Polling

\* A new message comes after those already polled.
LEMMA PolledFrame ==
  ASSUME TypeOK, NEW a \in Act, Publish(a)
  PROVE  \A b \in Act : Polled(b)' <=> Polled(b)
<1>1. \A i \in 1 .. position : topic'[i] = topic[i]
  BY AppendProperties DEF Publish, TypeOK
<1> QED BY <1>1 DEF Polled, Publish, offsets

\* Poll takes a message that was not polled, and no other.
LEMMA PolledNext ==
  ASSUME TypeOK, PublishedOnce, Poll
  PROVE  /\ ~Polled(topic[position + 1])
         /\ \A b \in Act : Polled(b)' <=> Polled(b) \/ b = topic[position + 1]
<1>1. position' = position + 1 /\ UNCHANGED topic /\ position < Len(topic)
  BY DEF Poll
<1>2. position \in Nat /\ DOMAIN topic = 1 .. Len(topic)
  BY DEF TypeOK
<1>3. ~Polled(topic[position + 1])
  BY <1>1, <1>2 DEF PublishedOnce, Polled
<1>4. 1 .. position' = 1 .. position \cup {position + 1}
  BY <1>1, <1>2
<1> QED BY <1>1, <1>3, <1>4 DEF Polled

\* Each step moves an activation along its life, and completes it only when a
\* completion is owed and will not be owed again.
LEMMA LifeNext == TypeOK /\ LifeInv /\ [Next]_vars => LifeInv'
<1> SUFFICES ASSUME TypeOK, LifeInv, [Next]_vars PROVE LifeInv'
  OBVIOUS
<1> USE DEF LifeInv
<1>1. CASE UNCHANGED <<topic, position, thread, table, completed, restarts>>
  BY <1>1 DEF PublishedOnce, RecordsMatch, LifeOrder, Accounts, Polled, InHand,
     Recorded, Owed, table
<1>2. ASSUME NEW a \in Act, Publish(a) PROVE LifeInv'
  <2>1. PublishedOnce'
    BY <1>2, AppendProperties DEF Publish, Published, PublishedOnce, TypeOK
  <2>2. (RecordsMatch /\ LifeOrder /\ Accounts)'
    BY <1>2, PolledFrame DEF Publish, RecordsMatch, LifeOrder, Accounts, InHand,
       Recorded, Owed, table
  <2> QED BY <2>1, <2>2
<1>3. CASE Poll
  <2> DEFINE a == topic[position + 1]
  <2>1. a \in Act
    BY <1>3, PolledMessage DEF Poll
  <2>2. UNCHANGED <<topic, table, restarts>> /\ thread = <<"poll">>
    BY <1>3 DEF Poll, Polling
  <2>3. ~Polled(a) /\ \A b \in Act : Polled(b)' <=> Polled(b) \/ b = a
    BY <1>3, PolledNext
  <2>4. \/ completed' = [completed EXCEPT ![a] = @ + 1] /\ UNCHANGED thread
        \/ thread' = <<"schedule", a>> /\ UNCHANGED completed
    BY <1>3 DEF Poll, Produce
  <2> HIDE DEF a
  <2>5. (PublishedOnce /\ RecordsMatch)'
    BY <2>2 DEF PublishedOnce, RecordsMatch, table
  <2>6. LifeOrder'
    BY <2>1, <2>2, <2>3, <2>4 DEF LifeOrder, InHand, Recorded, table
  <2>7. Accounts'
    BY <2>1, <2>2, <2>3, <2>4 DEF LifeOrder, Accounts, Owed, InHand, table, TypeOK
  <2> QED BY <2>5, <2>6, <2>7
<1>4. ASSUME NEW a \in Act, Schedule(a) PROVE LifeInv'
  <2>1. /\ UNCHANGED <<topic, position, ready, attached, completed, restarts>>
        /\ thread = <<"schedule", a>> /\ thread' = <<"send", a>>
        /\ record_map_' = [record_map_ EXCEPT ![TidOf[a]] = a] \/ UNCHANGED record_map_
    BY <1>4 DEF Schedule, Record, offsets
  <2>2. TidOf[a] \in Tid /\ record_map_ \in [Tid -> Act \cup {None}]
        /\ \A b \in Act : TidOf[b] \in Tid
    BY ControllerAssumption DEF TypeOK
  <2>3. Polled(a) /\ a \notin attached /\ a \notin ready
    BY <2>1 DEF LifeOrder, InHand
  <2>4. \A b \in Act : Polled(b)' <=> Polled(b)
    BY <2>1 DEF Polled
  <2>5. (PublishedOnce /\ RecordsMatch)'
    BY <2>1, <2>2 DEF PublishedOnce, RecordsMatch
  <2>6. \A b \in Act : (InHand(b)' <=> InHand(b)) /\ (Recorded(b)' => Recorded(b) \/ b = a)
    BY <2>1, <2>2 DEF InHand, Recorded
  <2>7. LifeOrder'
    BY <2>1, <2>3, <2>4, <2>6 DEF LifeOrder
  <2>8. Accounts'
    BY <2>1, <2>4, <2>6 DEF Accounts, Owed
  <2> QED BY <2>5, <2>7, <2>8
<1>5. ASSUME NEW a \in Act, Send(a) \/ SendNowhere(a) PROVE LifeInv'
  <2>1. /\ UNCHANGED <<topic, position, table, completed, restarts>>
        /\ thread = <<"send", a>> /\ thread' = <<"attach", a>>
    BY <1>5 DEF Send, SendNowhere, offsets
  <2>2. \A b \in Act : (InHand(b)' <=> InHand(b)) /\ (Polled(b)' <=> Polled(b))
    BY <2>1 DEF InHand, Polled
  <2> QED BY <2>1, <2>2 DEF PublishedOnce, RecordsMatch, LifeOrder, Accounts, Recorded,
          Owed, table
<1>6. ASSUME NEW a \in Act, Attach(a) PROVE LifeInv'
  <2>1. /\ UNCHANGED <<topic, position, record_map_, ready, restarts>>
        /\ thread = <<"attach", a>> /\ thread' = <<"poll">>
        /\ attached' = attached \cup {a}
        /\ \/ a \in ready /\ completed' = [completed EXCEPT ![a] = @ + 1]
           \/ a \notin ready /\ UNCHANGED completed
    BY <1>6 DEF Attach, Produce, Polling, offsets
  <2>2. \A b \in Act : ~InHand(b)' /\ (Polled(b)' <=> Polled(b))
                       /\ (Recorded(b)' <=> Recorded(b)) /\ (InHand(b) => b = a)
    BY <2>1 DEF InHand, Polled, Recorded
  <2>3. InHand(a) /\ Polled(a) /\ a \notin attached
    BY <2>1 DEF LifeOrder, InHand
  <2>4. (PublishedOnce /\ RecordsMatch)'
    BY <2>1 DEF PublishedOnce, RecordsMatch
  <2>5. LifeOrder'
    BY <2>1, <2>2, <2>3 DEF LifeOrder
  <2>6. Accounts'
    BY <2>1, <2>2, <2>3 DEF Accounts, Owed, TypeOK
  <2> QED BY <2>4, <2>5, <2>6
<1>7. ASSUME NEW t \in Tid, ResolveActivation(t) PROVE LifeInv'
  <2>1. CASE record_map_[t] = None
    BY <1>1, <1>7, <2>1 DEF ResolveActivation, offsets
  <2>2. ASSUME NEW a \in Act, record_map_[t] = a PROVE LifeInv'
    <3>1. /\ UNCHANGED <<topic, position, thread, attached, restarts>>
          /\ record_map_' = [record_map_ EXCEPT ![t] = None]
          /\ ready' = ready \cup {a}
          /\ \/ a \in attached /\ completed' = [completed EXCEPT ![a] = @ + 1]
             \/ a \notin attached /\ UNCHANGED completed
      BY <1>7, <2>2, ControllerAssumption DEF ResolveActivation, Erase, Produce, offsets
    <3>2. TidOf[a] = t /\ Recorded(a)
      BY <2>2, ControllerAssumption DEF RecordsMatch, Recorded
    <3>3. Polled(a) /\ a \notin ready /\ thread # <<"schedule", a>>
          /\ (a \in attached => ~InHand(a))
      BY <3>2 DEF LifeOrder
    <3>4. \A b \in Act : TidOf[b] \in Tid /\ b # None
      BY ControllerAssumption
    <3>5. \A b \in Act : (InHand(b)' <=> InHand(b)) /\ (Polled(b)' <=> Polled(b))
      BY <3>1 DEF InHand, Polled
    <3>6. ~Recorded(a)' /\ \A b \in Act : Recorded(b)' => Recorded(b)
      BY <3>1, <3>2, <3>4 DEF Recorded, TypeOK
    <3>7. (PublishedOnce /\ RecordsMatch)'
      BY <3>1 DEF PublishedOnce, RecordsMatch, TypeOK
    <3>8. LifeOrder'
      BY <3>1, <3>2, <3>3, <3>5, <3>6 DEF LifeOrder
    <3>9. Accounts'
      BY <3>1, <3>2, <3>3, <3>5 DEF Accounts, Owed, TypeOK
    <3> QED BY <3>7, <3>8, <3>9
  <2> QED BY <2>1, <2>2 DEF TypeOK
<1>8. CASE Restart
  <2>1. /\ UNCHANGED <<topic, completed>> /\ restarts' = restarts + 1
        /\ thread' = <<"poll">> /\ ready' = {} /\ attached' = {}
        /\ record_map_' = [t \in Tid |-> None]
    BY <1>8 DEF Restart, Polling
  <2>2. \A b \in Act : ~Recorded(b)' /\ ~InHand(b)'
    BY <2>1, ControllerAssumption DEF Recorded, InHand
  <2>3. Accounts'
    BY <2>1 DEF Accounts, TypeOK
  <2> QED BY <2>1, <2>2, <2>3 DEF PublishedOnce, RecordsMatch, LifeOrder
<1> QED
  BY <1>1, <1>2, <1>3, <1>4, <1>5, <1>6, <1>7, <1>8
  DEF Next, Consumer, Terminated, CommitStored, RegisterPush, RegisterMap, SendRequest,
      Crash, vars, offsets, table

\* Whatever the threads' order and however often the node replies, a process
\* completes an activation at most once: only a restart may do it again.
THEOREM CompletionCorrect == Spec => []CompletedOnce
<1>1. LifeInv => CompletedOnce
  BY DEF LifeInv, Accounts, CompletedOnce
<1> QED BY <1>1, TypeCorrect, LifeInit, LifeNext, PTL DEF Spec

-----------------------------------------------------------------------------
(* The record is in the table until the first reply.  Transactions of two  *)
(* activations under way must differ, and the node may reply.              *)

DistinctIds ==
  \A a, b \in Act \ HealthTest : TidOf[a] = TidOf[b] => a = b

InOutbox(a) == \E i \in DOMAIN outbox : outbox[i] = a

SentOnce == \A i, j \in DOMAIN outbox : outbox[i] = outbox[j] => i = j

Unsent(a) == ~Polled(a) \/ thread \in {<<"schedule", a>>, <<"send", a>>}

ReplyOrder ==
  \A a \in Act :
    /\ InHand(a) \/ InOutbox(a) \/ Recorded(a) => a \notin HealthTest
    /\ thread = <<"send", a>> => Recorded(a)
    /\ a \notin HealthTest =>
         /\ Unsent(a) => ~InOutbox(a) /\ backend[TidOf[a]] = 0
         /\ InOutbox(a) => Recorded(a) /\ backend[TidOf[a]] = 0
         /\ backend[TidOf[a]] <= MaxReplies
         /\ backend[TidOf[a]] = MaxReplies => Recorded(a)

ReplyInv == LifeInv /\ SentOnce /\ ReplyOrder

\* Initially nothing is sent and no reply is due.
LEMMA ReplyInit == MaxReplies > 0 /\ Init => ReplyInv
<1> SUFFICES ASSUME MaxReplies > 0, Init PROVE ReplyInv
  OBVIOUS
<1>1. LifeInv
  BY LifeInit
<1>2. SentOnce /\ ReplyOrder
  BY ControllerAssumption
  DEF Init, SentOnce, ReplyOrder, InOutbox, InHand, Recorded, Polling
<1> QED BY <1>1, <1>2 DEF ReplyInv

\* An append to the outbox sends one activation more.
LEMMA OutboxAppend ==
  ASSUME TypeOK, SentOnce, NEW a \in Act, ~InOutbox(a), outbox' = Append(outbox, a)
  PROVE  /\ SentOnce'
         /\ \A b \in Act : InOutbox(b)' <=> InOutbox(b) \/ b = a
<1>1. /\ Len(outbox') = Len(outbox) + 1
      /\ \A i \in 1 .. Len(outbox) : outbox'[i] = outbox[i]
      /\ outbox'[Len(outbox) + 1] = a
      /\ DOMAIN outbox = 1 .. Len(outbox) /\ DOMAIN outbox' = 1 .. Len(outbox')
      /\ Len(outbox) \in Nat
  BY AppendProperties DEF TypeOK
<1>2. SentOnce'
  BY <1>1 DEF SentOnce, InOutbox
<1>3. ASSUME NEW b \in Act PROVE InOutbox(b)' <=> InOutbox(b) \/ b = a
  BY <1>1 DEF InOutbox
<1> QED BY <1>2, <1>3

\* The IO thread takes the oldest one out, which was there once.
LEMMA OutboxTail ==
  ASSUME TypeOK, SentOnce, outbox # <<>>, outbox' = Tail(outbox)
  PROVE  /\ SentOnce'
         /\ Head(outbox) \in Act /\ InOutbox(Head(outbox))
         /\ \A b \in Act : InOutbox(b)' <=> InOutbox(b) /\ b # Head(outbox)
<1>1. /\ Len(outbox') = Len(outbox) - 1 /\ Len(outbox) \in Nat \ {0}
      /\ \A i \in 1 .. Len(outbox) - 1 : outbox'[i] = outbox[i + 1]
      /\ Head(outbox) = outbox[1] /\ Head(outbox) \in Act
      /\ DOMAIN outbox = 1 .. Len(outbox) /\ DOMAIN outbox' = 1 .. Len(outbox')
  BY HeadTailProperties DEF TypeOK
<1>2. SentOnce'
  BY <1>1 DEF SentOnce
<1>3. InOutbox(Head(outbox))
  BY <1>1 DEF InOutbox
<1>4. ASSUME NEW b \in Act PROVE InOutbox(b)' <=> InOutbox(b) /\ b # Head(outbox)
  <2>1. ASSUME InOutbox(b), b # Head(outbox) PROVE InOutbox(b)'
    <3>1. PICK i \in 2 .. Len(outbox) : outbox[i] = b
      BY <1>1, <2>1 DEF InOutbox
    <3>2. i - 1 \in 1 .. Len(outbox') /\ outbox'[i - 1] = b
      BY <1>1, <3>1
    <3> QED BY <1>1, <3>2 DEF InOutbox
  <2>2. ASSUME InOutbox(b)' PROVE InOutbox(b) /\ b # Head(outbox)
    <3>1. PICK i \in 1 .. Len(outbox) - 1 : outbox[i + 1] = b
      BY <1>1, <2>2 DEF InOutbox
    <3>2. i + 1 \in DOMAIN outbox /\ 1 \in DOMAIN outbox /\ i + 1 # 1
      BY <1>1
    <3> QED BY <1>1, <3>1, <3>2 DEF InOutbox, SentOnce
  <2> QED BY <2>1, <2>2
<1> QED BY <1>1, <1>2, <1>3, <1>4

\* A record is made before its request is sent, and kept until a reply.
LEMMA ReplyNext ==
  ASSUME DistinctIds, MaxReplies > 0, TypeOK, ReplyInv, [Next]_vars
  PROVE  ReplyInv'
<1> USE DEF ReplyInv
<1>0. LifeInv'
  BY LifeNext
<1>1. CASE UNCHANGED <<topic, position, thread, record_map_, wire>>
  BY <1>0, <1>1 DEF SentOnce, ReplyOrder, InOutbox, InHand, Unsent, Polled, Recorded, wire
<1>2. ASSUME NEW a \in Act, Publish(a) PROVE ReplyInv'
  BY <1>0, <1>2, PolledFrame
  DEF Publish, SentOnce, ReplyOrder, InOutbox, InHand, Unsent, Recorded, table, wire
<1>3. CASE Poll
  <2> DEFINE a == topic[position + 1]
  <2>1. UNCHANGED <<record_map_, wire>> /\ thread = <<"poll">>
        /\ (UNCHANGED thread \/ (a \notin HealthTest /\ thread' = <<"schedule", a>>))
    BY <1>3 DEF Poll, Polling, table
  <2>2. ~Polled(a) /\ \A b \in Act : Polled(b)' <=> Polled(b) \/ b = a
    BY <1>3, PolledNext DEF LifeInv
  <2>3. a \in Act
    BY <1>3, PolledMessage DEF Poll
  <2> HIDE DEF a
  <2>4. \A b \in Act : (InOutbox(b)' <=> InOutbox(b)) /\ (Recorded(b)' <=> Recorded(b))
    BY <2>1 DEF InOutbox, Recorded, wire
  <2>5. \A b \in Act : (Unsent(b)' => Unsent(b)) /\ (InHand(b)' => b = a /\ a \notin HealthTest)
    BY <2>1, <2>2 DEF Unsent, InHand
  <2>6. ReplyOrder'
    BY <2>1, <2>4, <2>5, <2>3 DEF ReplyOrder, wire
  <2> QED BY <1>0, <2>1, <2>6 DEF SentOnce, wire
<1>4. ASSUME NEW a \in Act, Schedule(a) PROVE ReplyInv'
  <2>1. UNCHANGED <<topic, position, wire>>
        /\ thread = <<"schedule", a>> /\ thread' = <<"send", a>>
    BY <1>4 DEF Schedule, offsets
  <2>2. \A b \in Act : TidOf[b] \in Tid /\ b # None
    BY ControllerAssumption
  <2>3. a \notin HealthTest /\ Unsent(a) /\ ~Recorded(a)
    BY <2>1 DEF ReplyOrder, InHand, Unsent, LifeInv, LifeOrder
  <2>4. record_map_' = [record_map_ EXCEPT ![TidOf[a]] = a]
        \/ (record_map_[TidOf[a]] # None /\ UNCHANGED record_map_)
    BY <1>4 DEF Schedule, Record
  <2>5. record_map_[TidOf[a]] = None
    <3> SUFFICES ASSUME record_map_[TidOf[a]] # None PROVE FALSE
      OBVIOUS
    <3>1. PICK b \in Act : record_map_[TidOf[a]] = b
      BY <2>2 DEF TypeOK
    <3>2. TidOf[b] = TidOf[a] /\ Recorded(b)
      BY <2>2, <3>1 DEF LifeInv, RecordsMatch, Recorded
    <3>3. b \notin HealthTest
      BY <3>2 DEF ReplyOrder
    <3> QED BY <2>3, <3>2, <3>3 DEF DistinctIds
  <2>6. /\ \A b \in Act : Recorded(b)' => Recorded(b) \/ b = a
        /\ \A b \in Act \ HealthTest : Recorded(b) => Recorded(b)'
        /\ Recorded(a)'
    BY <2>2, <2>3, <2>4, <2>5 DEF Recorded, DistinctIds, TypeOK
  <2>7. \A b \in Act : /\ InHand(b)' <=> InHand(b)
                       /\ Unsent(b)' <=> Unsent(b)
                       /\ InOutbox(b)' <=> InOutbox(b)
    BY <2>1 DEF InHand, Unsent, Polled, InOutbox, wire
  <2>8. \A b \in Act : thread' = <<"send", b>> => b = a
    BY <2>1
  <2>9. ReplyOrder'
    BY <2>1, <2>3, <2>6, <2>7, <2>8 DEF ReplyOrder, wire
  <2> QED BY <1>0, <2>1, <2>9 DEF SentOnce, wire
<1>5. ASSUME NEW a \in Act, Send(a) PROVE ReplyInv'
  <2>1. UNCHANGED <<topic, position, record_map_, backend>> /\ outbox' = Append(outbox, a)
        /\ thread = <<"send", a>> /\ thread' = <<"attach", a>>
    BY <1>5 DEF Send, offsets, table
  <2>2. a \notin HealthTest /\ Unsent(a) /\ Recorded(a)
    BY <2>1 DEF ReplyOrder, InHand, Unsent
  <2>3. ~InOutbox(a) /\ backend[TidOf[a]] = 0
    BY <2>2 DEF ReplyOrder
  <2>4. SentOnce' /\ \A b \in Act : InOutbox(b)' <=> InOutbox(b) \/ b = a
    BY <2>1, <2>3, OutboxAppend
  <2>5. Polled(a)
    BY <2>1 DEF LifeInv, LifeOrder, InHand
  <2>6. \A b \in Act : /\ Recorded(b)' <=> Recorded(b)
                       /\ InHand(b)' <=> InHand(b)
                       /\ Unsent(b)' => Unsent(b) /\ b # a
    BY <2>1, <2>5 DEF Recorded, InHand, Unsent, Polled
  <2>7. ReplyOrder'
    BY <2>1, <2>2, <2>3, <2>4, <2>6 DEF ReplyOrder
  <2> QED BY <1>0, <2>4, <2>7
<1>6. ASSUME NEW a \in Act, SendNowhere(a) \/ Attach(a) PROVE ReplyInv'
  <2>1. UNCHANGED <<topic, position, record_map_, wire>>
        /\ thread \in {<<"send", a>>, <<"attach", a>>}
        /\ thread' \in {<<"attach", a>>, <<"poll">>}
    BY <1>6 DEF SendNowhere, Attach, offsets, table, Polling
  <2>2. \A b \in Act : /\ InHand(b)' => InHand(b)
                       /\ Unsent(b)' => Unsent(b)
                       /\ Recorded(b)' <=> Recorded(b)
                       /\ InOutbox(b)' <=> InOutbox(b)
    BY <2>1 DEF InHand, Unsent, Polled, Recorded, InOutbox, wire
  <2>3. ReplyOrder'
    BY <2>1, <2>2 DEF ReplyOrder, wire
  <2> QED BY <1>0, <2>1, <2>3 DEF SentOnce, wire
<1>7. CASE SendRequest
  <2> DEFINE h == Head(outbox)
  <2>1. UNCHANGED <<topic, position, record_map_, thread>> /\ outbox # <<>>
        /\ outbox' = Tail(outbox)
        /\ backend' = [backend EXCEPT ![TidOf[h]] = @ + MaxReplies]
    BY <1>7 DEF SendRequest, offsets, table
  <2>2. /\ SentOnce' /\ h \in Act /\ InOutbox(h)
        /\ \A b \in Act : InOutbox(b)' <=> InOutbox(b) /\ b # h
    BY <2>1, OutboxTail
  <2> HIDE DEF h
  <2>3. h \notin HealthTest /\ Recorded(h) /\ backend[TidOf[h]] = 0 /\ ~Unsent(h)
    BY <2>2 DEF ReplyOrder
  <2>4. \A b \in Act \ HealthTest :
          backend'[TidOf[b]] = IF b = h THEN MaxReplies ELSE backend[TidOf[b]]
    BY <2>1, <2>2, <2>3, ControllerAssumption DEF DistinctIds, TypeOK
  <2>5. \A b \in Act : /\ InHand(b)' <=> InHand(b)
                       /\ Unsent(b)' <=> Unsent(b)
                       /\ Recorded(b)' <=> Recorded(b)
    BY <2>1 DEF InHand, Unsent, Polled, Recorded
  <2>6. ReplyOrder'
    BY <2>1, <2>2, <2>3, <2>4, <2>5, ControllerAssumption DEF ReplyOrder
  <2> QED BY <1>0, <2>2, <2>6
<1>8. ASSUME NEW t \in Tid, ResolveActivation(t) PROVE ReplyInv'
  <2>1. UNCHANGED <<topic, position, thread, outbox>> /\ backend[t] > 0
        /\ backend' = [backend EXCEPT ![t] = @ - 1]
        /\ (UNCHANGED record_map_ \/ record_map_' = [record_map_ EXCEPT ![t] = None])
    BY <1>8 DEF ResolveActivation, Erase, offsets, table
  <2>2. \A b \in Act : /\ InHand(b)' <=> InHand(b)
                       /\ Unsent(b)' <=> Unsent(b)
                       /\ InOutbox(b)' <=> InOutbox(b)
                       /\ TidOf[b] \in Tid /\ b # None
    BY <2>1, ControllerAssumption DEF InHand, Unsent, Polled, InOutbox
  <2>3. ASSUME NEW b \in Act, TidOf[b] # t
        PROVE  (Recorded(b)' <=> Recorded(b)) /\ backend'[TidOf[b]] = backend[TidOf[b]]
    <3>1. backend'[TidOf[b]] = backend[TidOf[b]]
      BY <2>1, <2>2, <2>3 DEF TypeOK
    <3>2. record_map_'[TidOf[b]] = record_map_[TidOf[b]]
      BY <2>1, <2>2, <2>3 DEF TypeOK
    <3> QED BY <3>1, <3>2 DEF Recorded
  <2>4. backend'[t] = backend[t] - 1 /\ backend[t] \in Nat
    BY <2>1 DEF TypeOK
  <2>5. \A b \in Act : thread = <<"send", b>> => TidOf[b] # t
    BY <2>1 DEF ReplyOrder, Unsent, InHand
  <2>6. \A b \in Act : Recorded(b)' => Recorded(b)
    BY <2>1, <2>2, ControllerAssumption DEF Recorded, TypeOK
  <2>7. ReplyOrder'
    BY <2>1, <2>2, <2>3, <2>4, <2>5, <2>6, ControllerAssumption DEF ReplyOrder
  <2> QED BY <1>0, <2>1, <2>7 DEF SentOnce
<1>9. CASE Restart
  <2>1. /\ thread' = <<"poll">> /\ outbox' = <<>> /\ backend' = [t \in Tid |-> 0]
        /\ record_map_' = [t \in Tid |-> None]
    BY <1>9 DEF Restart, Polling
  <2>2. \A b \in Act : /\ ~InHand(b)' /\ ~InOutbox(b)' /\ ~Recorded(b)'
                       /\ backend'[TidOf[b]] = 0
    BY <2>1, ControllerAssumption DEF InHand, InOutbox, Recorded
  <2>3. SentOnce' /\ ReplyOrder'
    BY <2>1, <2>2, ControllerAssumption DEF SentOnce, ReplyOrder
  <2> QED BY <1>0, <2>3
<1> QED
  BY <1>1, <1>2, <1>3, <1>4, <1>5, <1>6, <1>7, <1>8, <1>9
  DEF Next, Consumer, Terminated, CommitStored, RegisterPush, RegisterMap, Crash, vars,
      offsets, table

\* When transaction ids do not collide, a reply finds its record: only a repeated
\* one meets the "NO RECORD FOUND" of ResolveActivation.
THEOREM FirstReplyCorrect ==
  ASSUME DistinctIds, MaxReplies > 0
  PROVE  Spec => []FirstReplyFound
<1>1. TypeOK /\ ReplyInv => FirstReplyFound
  BY DEF ReplyInv, ReplyOrder, FirstReplyFound, InOutbox, Recorded
<1>2. TypeOK /\ ReplyInv /\ [Next]_vars => ReplyInv'
  BY ReplyNext
<1>3. Init => ReplyInv
  BY ReplyInit
<1> QED BY <1>1, <1>2, <1>3, TypeCorrect, PTL DEF Spec

=============================================================================
