--------------------------- MODULE Channel_proofs ---------------------------
(***************************************************************************)
(* Proofs about Channel, for any number of cores and requests, and for     *)
(* arguments, code and results of any length.                              *)
(***************************************************************************)
EXTENDS Channel, FiniteSetTheorems, SequenceTheorems, TLAPS

-----------------------------------------------------------------------------
(* Messages.                                                               *)

\* A request as SendRequest makes it, and a reply as SendReply does.
RequestMessage(r, chained) == Message(r, Len(Args[r]), Body(Args[r], Code[r]), chained)

ReplyMessage(a) == Message(a, ReplySize(a), Result[a], FALSE)

Requests == {RequestMessage(r, chained) : r \in Request, chained \in BOOLEAN}
Replies  == {ReplyMessage(a) : a \in Reply}

\* What the two receivers are to make of them.
Intended(r) == [id |-> r, args |-> Args[r], code |-> Code[r]]
Answer(a)   == [id |-> a, args |-> Result[a]]

\* A request is taken apart as it was put together, empty parts included.
LEMMA RequestRead ==
  ASSUME NEW r \in Request, NEW chained \in BOOLEAN
  PROVE  Extract(RequestMessage(r, chained)) = Intended(r)
<1>1. PICK a \in Seq(Byte), c \in Seq(Byte) : a = Args[r] /\ c = Code[r]
  BY ChannelAssumption
<1>2. PICK b : b = a \o c
  OBVIOUS
<1>3. PICK p \in Nat, q \in Nat : p = Len(a) /\ q = Len(c)
  OBVIOUS
<1>4. /\ b \in Seq(Byte) /\ Len(b) = p + q
      /\ \A k \in 1 .. p + q : b[k] = IF k <= p THEN a[k] ELSE c[k - p]
  BY <1>2, <1>3, ConcatProperties
<1>5. a = [k \in 1 .. p |-> a[k]] /\ c = [k \in 1 .. q |-> c[k]]
  BY <1>3
<1>6. Read(b, 1, p) = a
  <2>1. p - 1 + 1 = p
    OBVIOUS
  <2>2. \A k \in 1 .. p :
          (IF 1 + k - 1 <= Len(b) THEN b[1 + k - 1] ELSE "beyond") = a[k]
    BY <1>4
  <2>3. Read(b, 1, p) = [k \in 1 .. p |-> a[k]]
    BY <2>1, <2>2 DEF Read
  <2> QED BY <1>5, <2>3
<1>7. Read(b, p + 1, p + q) = c
  <2>1. (p + q) - (p + 1) + 1 = q
    OBVIOUS
  <2>2. \A k \in 1 .. q :
          (IF (p + 1) + k - 1 <= Len(b) THEN b[(p + 1) + k - 1] ELSE "beyond") = c[k]
    <3> SUFFICES ASSUME NEW k \in 1 .. q
                 PROVE  (IF (p + 1) + k - 1 <= Len(b) THEN b[(p + 1) + k - 1]
                         ELSE "beyond") = c[k]
      OBVIOUS
    <3>1. (p + 1) + k - 1 = p + k /\ p + k \in 1 .. p + q /\ ~(p + k <= p) /\ p + k - p = k
      OBVIOUS
    <3> QED BY <1>4, <3>1
  <2>3. Read(b, p + 1, p + q) = [k \in 1 .. q |-> c[k]]
    BY <2>1, <2>2 DEF Read
  <2> QED BY <1>5, <2>3
<1>8. b = <<>> => p = 0
  <2>1. CASE b = <<>>
    <3>1. Len(b) = 0
      BY <2>1
    <3> QED BY <1>4, <3>1
  <2> QED BY <2>1
<1>9. /\ Extract(RequestMessage(r, chained)).id = r
      /\ Extract(RequestMessage(r, chained)) =
           [id |-> r, args |-> Read(b, 1, IF b = <<>> THEN 0 ELSE p),
            code |-> Read(b, p + 1, p + q)]
  BY <1>1, <1>2, <1>3, <1>4 DEF Extract, RequestMessage, Message, Body
<1> QED BY <1>1, <1>6, <1>7, <1>8, <1>9 DEF Intended

\* Of a reply, the arguments are the whole result.
LEMMA ReplyRead ==
  ASSUME NEW a \in Reply
  PROVE  Extract(ReplyMessage(a)).args = Result[a]
<1>1. PICK s \in Seq(Byte) : s = Result[a]
  BY ChannelAssumption DEF Reply
<1>2. PICK n \in Nat : n = Len(s)
  OBVIOUS
<1>3. s = <<>> => n = 0
  BY <1>2
<1>4. Read(s, 1, n) = s
  <2>1. n - 1 + 1 = n
    OBVIOUS
  <2>2. \A k \in 1 .. n :
          (IF 1 + k - 1 <= Len(s) THEN s[1 + k - 1] ELSE "beyond") = s[k]
    BY <1>2
  <2>3. Read(s, 1, n) = [k \in 1 .. n |-> s[k]]
    BY <2>1, <2>2 DEF Read
  <2> QED BY <1>2, <2>3
<1>5. Extract(ReplyMessage(a)).args = Read(s, 1, IF s = <<>> THEN 0 ELSE n)
  BY <1>1, <1>2 DEF Extract, ReplyMessage, Message, ReplySize
<1> QED BY <1>1, <1>3, <1>4, <1>5

\* The assertion of ReceiveMessage holds of every message.
LEMMA MessagesSound ==
  /\ \A m \in Requests : Sound(m)
  /\ \A m \in Replies : Sound(m)
<1>1. ASSUME NEW r \in Request, NEW chained \in BOOLEAN PROVE Sound(RequestMessage(r, chained))
  <2>1. PICK a \in Seq(Byte), c \in Seq(Byte) : a = Args[r] /\ c = Code[r]
    BY ChannelAssumption
  <2>2. Len(a \o c) = Len(a) + Len(c) /\ Len(a) \in Nat /\ Len(c) \in Nat
    BY ConcatProperties
  <2>3. Len(a \o c) >= Len(a)
    BY <2>2
  <2> QED BY <2>1, <2>3 DEF Sound, RequestMessage, Message, Body
<1>2. ASSUME NEW a \in Reply PROVE Sound(ReplyMessage(a))
  <2>1. Len(Result[a]) \in Nat
    BY ChannelAssumption DEF Reply
  <2> QED BY <2>1 DEF Sound, ReplyMessage, Message, ReplySize
<1> QED BY <1>1, <1>2 DEF Requests, Replies

Intentions == {Intended(r) : r \in Request}
Answers    == {Answer(a) : a \in Reply}

\* Both receivers pass on what was intended, under the id of its request.
LEMMA ReceivedAsSent ==
  /\ \A m \in Requests : Extract(m) \in Intentions
  /\ \A m \in Replies : /\ m.id \in Reply
                         /\ [id |-> m.id, args |-> Extract(m).args] = Answer(m.id)
<1>1. \A m \in Requests : Extract(m) \in Intentions
  BY RequestRead DEF Requests, Intentions
<1>2. ASSUME NEW a \in Reply
      PROVE  ReplyMessage(a).id = a /\ Extract(ReplyMessage(a)).args = Result[a]
  BY ReplyRead DEF ReplyMessage, Message
<1> QED BY <1>1, <1>2 DEF Replies, Answer

-----------------------------------------------------------------------------
(* What is on the wire and what has come off it.                           *)

Event == [id : Reply, core : Core, stage : {"compare", "spawn"}]

WireInv ==
  /\ to_node \in Seq(Requests)
  /\ to_host \in Seq(Replies)
  /\ queued \in Seq(Intentions)
  /\ resolved \in Seq(Answers)

CoreInv ==
  /\ asked \subseteq Request
  /\ conn \in Core /\ io_core \in Core /\ heard \subseteq Core
  /\ moves \in 0 .. MaxMoves
  /\ calls \in [Request -> 0 .. MaxCalls]
  /\ replying \subseteq Event
  /\ left_from \in [Reply -> SUBSET Core]
  /\ node \in {"up", "down"}

\* Nothing is under way at first.
LEMMA WireInit == Init => WireInv /\ CoreInv
<1> SUFFICES ASSUME Init PROVE WireInv /\ CoreInv
  OBVIOUS
<1>1. 0 \in Core /\ 0 \in 0 .. MaxMoves /\ 0 \in 0 .. MaxCalls
  BY ChannelAssumption DEF Core
<1> QED BY <1>1 DEF Init, WireInv, CoreInv

\* Each step keeps messages and types.
LEMMA WireNext == WireInv /\ CoreInv /\ [Next]_vars => WireInv' /\ CoreInv'
<1> SUFFICES ASSUME WireInv, CoreInv, [Next]_vars PROVE WireInv' /\ CoreInv'
  OBVIOUS
<1> USE DEF WireInv, CoreInv, wire, cores
<1>1. CASE UNCHANGED vars
  BY <1>1 DEF vars
<1>2. ASSUME NEW r \in Request, SendRequest(r) PROVE WireInv' /\ CoreInv'
  <2>1. PICK chained \in BOOLEAN : to_node' = Append(to_node, RequestMessage(r, chained))
    BY <1>2 DEF SendRequest, RequestMessage
  <2>2. RequestMessage(r, chained) \in Requests
    BY DEF Requests
  <2>3. to_node' \in Seq(Requests)
    BY <2>1, <2>2, AppendProperties
  <2> QED BY <1>2, <2>3 DEF SendRequest
<1>3. CASE HostReceive
  <2>1. Head(to_host) \in Replies /\ Tail(to_host) \in Seq(Replies)
    BY <1>3, HeadTailProperties DEF HostReceive
  <2>2. [id |-> Head(to_host).id, args |-> Extract(Head(to_host)).args] \in Answers
    BY <2>1, ReceivedAsSent DEF Answers
  <2>3. resolved' \in Seq(Answers)
    BY <1>3, <2>2, AppendProperties DEF HostReceive
  <2> QED BY <1>3, <2>1, <2>3 DEF HostReceive
<1>4. ASSUME NEW c \in Core, Move(c) PROVE WireInv' /\ CoreInv'
  BY <1>4, ChannelAssumption DEF Move
<1>5. CASE Receive
  <2>1. Head(to_node) \in Requests /\ Tail(to_node) \in Seq(Requests)
    BY <1>5, HeadTailProperties DEF Receive
  <2>2. Append(queued, Extract(Head(to_node))) \in Seq(Intentions)
    BY <2>1, ReceivedAsSent, AppendProperties
  <2>3. queued' \in Seq(Intentions)
    BY <1>5, <2>2 DEF Receive
  <2> QED BY <1>5, <2>1, <2>3 DEF Receive, SetIoCore
<1>6. ASSUME NEW r \in Request, NEW c \in Core, Resolve(r, c) PROVE WireInv' /\ CoreInv'
  <2>1. calls[r] + 1 \in 1 .. MaxCalls /\ calls' = [calls EXCEPT ![r] = calls[r] + 1]
    BY <1>6, ChannelAssumption DEF Resolve
  <2>2. calls' \in [Request -> 0 .. MaxCalls] /\ calls'[r] \in 1 .. MaxCalls
    BY <2>1
  <2>3. [id |-> <<r, calls'[r]>>, core |-> c, stage |-> "compare"] \in Event
    BY <2>2 DEF Event, Reply
  <2> QED BY <1>6, <2>2, <2>3 DEF Resolve
<1>7. ASSUME NEW e \in replying, SendHere(e) PROVE WireInv' /\ CoreInv'
  <2>1. e.id \in Reply /\ e.core \in Core
    BY DEF Event
  <2>2. to_host' = Append(to_host, ReplyMessage(e.id)) /\ ReplyMessage(e.id) \in Replies
    BY <1>7, <2>1 DEF SendHere, ReplyMessage, Replies
  <2>3. to_host' \in Seq(Replies)
    BY <2>2, AppendProperties
  <2>4. left_from' \in [Reply -> SUBSET Core]
    BY <1>7, <2>1 DEF SendHere
  <2> QED BY <1>7, <2>3, <2>4 DEF SendHere
<1>8. ASSUME NEW e \in replying, SendElsewhere(e) PROVE WireInv' /\ CoreInv'
  <2>1. replying' \subseteq Event
    BY <1>8 DEF SendElsewhere, Forward, Event
  <2> QED BY <1>8, <2>1 DEF SendElsewhere
<1> QED
  BY <1>1, <1>2, <1>3, <1>4, <1>5, <1>6, <1>7, <1>8 DEF Next, SendReply

\* Messages and types are right in every behaviour.
LEMMA WireInvariant == Spec => [](WireInv /\ CoreInv)
BY WireInit, WireNext, PTL DEF Spec

\* The state keeps its type, and no message fails the receiver's assertion.
THEOREM TypeCorrect == Spec => []TypeOK
<1>1. WireInv /\ CoreInv => TypeOK
  BY MessagesSound DEF WireInv, CoreInv, TypeOK, Event
<1> QED BY <1>1, WireInvariant, PTL

\* Requests and replies arrive as they were sent, whatever their lengths.
THEOREM BodiesCorrect == Spec => []BodiesIntact
<1>1. WireInv => BodiesIntact
  BY DEF WireInv, BodiesIntact, Intentions, Intended, Answers, Answer
<1> QED BY <1>1, WireInvariant, PTL

-----------------------------------------------------------------------------
(* One reply to a call, from a core that has received.                     *)

Ids(s) == {s[i].id : i \in DOMAIN s}

Unique(s) == \A i, j \in DOMAIN s : s[i].id = s[j].id => i = j

\* A message with a new id, appended.
LEMMA AppendIds ==
  ASSUME NEW S, NEW s \in Seq(S), NEW m \in S
  PROVE  /\ Ids(Append(s, m)) = Ids(s) \cup {m.id}
         /\ Unique(s) /\ m.id \notin Ids(s) => Unique(Append(s, m))
<1>1. PICK n \in Nat : n = Len(s)
  OBVIOUS
<1>2. PICK t \in Seq(S) : t = Append(s, m)
  BY AppendProperties
<1>3. /\ DOMAIN s = 1 .. n /\ DOMAIN t = 1 .. n + 1
      /\ \A i \in 1 .. n : t[i] = s[i]
      /\ t[n + 1] = m
  BY <1>1, <1>2, AppendProperties
<1>4. Ids(t) = Ids(s) \cup {m.id}
  <2>1. ASSUME NEW x \in Ids(t) PROVE x \in Ids(s) \cup {m.id}
    BY <1>3, <2>1 DEF Ids
  <2>2. ASSUME NEW x \in Ids(s) \cup {m.id} PROVE x \in Ids(t)
    <3>1. n + 1 \in 1 .. n + 1 /\ \A i \in 1 .. n : i \in 1 .. n + 1
      OBVIOUS
    <3> QED BY <1>3, <3>1 DEF Ids
  <2> QED BY <2>1, <2>2
<1>5. ASSUME Unique(s), m.id \notin Ids(s) PROVE Unique(t)
  <2>1. \A i \in 1 .. n : t[i].id # m.id
    BY <1>3, <1>5 DEF Ids
  <2> QED BY <1>3, <1>5, <2>1 DEF Unique
<1> QED BY <1>2, <1>4, <1>5

\* The first message, taken off.
LEMMA TailIds ==
  ASSUME NEW S, NEW s \in Seq(S), s # <<>>
  PROVE  /\ Ids(s) = Ids(Tail(s)) \cup {Head(s).id}
         /\ Unique(s) => Unique(Tail(s)) /\ Head(s).id \notin Ids(Tail(s))
<1>1. PICK n \in Nat \ {0} : n = Len(s)
  OBVIOUS
<1>2. PICK t \in Seq(S) : t = Tail(s)
  BY HeadTailProperties
<1>3. /\ DOMAIN s = 1 .. n /\ DOMAIN t = 1 .. n - 1
      /\ \A i \in 1 .. n - 1 : t[i] = s[i + 1]
      /\ Head(s) = s[1]
  BY <1>1, <1>2, HeadTailProperties
<1>4. Ids(s) = Ids(t) \cup {s[1].id}
  <2>1. ASSUME NEW i \in 1 .. n PROVE s[i].id \in Ids(t) \cup {s[1].id}
    <3>1. CASE i = 1
      BY <3>1
    <3>2. CASE i # 1
      <4>1. i - 1 \in 1 .. n - 1 /\ (i - 1) + 1 = i
        BY <3>2
      <4> QED BY <1>3, <4>1 DEF Ids
    <3> QED BY <3>1, <3>2
  <2>2. ASSUME NEW i \in 1 .. n - 1 PROVE t[i].id \in Ids(s)
    <3>1. i + 1 \in 1 .. n
      OBVIOUS
    <3> QED BY <1>3, <3>1 DEF Ids
  <2>3. 1 \in 1 .. n
    OBVIOUS
  <2> QED BY <1>3, <2>1, <2>2, <2>3 DEF Ids
<1>5. ASSUME Unique(s) PROVE Unique(t) /\ s[1].id \notin Ids(t)
  <2>1. \A i \in 1 .. n - 1 : i + 1 \in 1 .. n /\ i + 1 # 1
    OBVIOUS
  <2>2. \A i, j \in 1 .. n - 1 : i + 1 = j + 1 => i = j
    OBVIOUS
  <2>3. Unique(t)
    <3> SUFFICES ASSUME NEW i \in 1 .. n - 1, NEW j \in 1 .. n - 1, t[i].id = t[j].id
                 PROVE  i = j
      BY <1>3 DEF Unique
    <3>1. s[i + 1].id = s[j + 1].id
      BY <1>3
    <3>2. i + 1 = j + 1
      BY <1>3, <1>5, <2>1, <3>1 DEF Unique
    <3> QED BY <2>2, <3>2
  <2>4. s[1].id \notin Ids(t)
    <3>1. 1 \in 1 .. n
      OBVIOUS
    <3>2. ASSUME NEW i \in 1 .. n - 1 PROVE t[i].id # s[1].id
      <4>1. i + 1 \in 1 .. n /\ i + 1 # 1
        BY <2>1
      <4>2. s[i + 1].id # s[1].id
        BY <1>3, <1>5, <3>1, <4>1 DEF Unique
      <4> QED BY <1>3, <4>2
    <3> QED BY <1>3, <3>2 DEF Ids
  <2> QED BY <2>3, <2>4
<1> QED BY <1>2, <1>3, <1>4, <1>5

\* Reply a is one that a call of Resolve gave, for a request of the node's.
Made(a) == a[1] \in Ids(queued) /\ a[2] <= calls[a[1]]

\* A call of Resolve is carried by one event, then by one message, then by one
\* resolution: it is never in two of these at once.
OneReply ==
  /\ \A e, f \in replying : e.id = f.id => e = f
  /\ \A e \in replying : left_from[e.id] = {} /\ Made(e.id)
  /\ Unique(to_host) /\ Unique(resolved)
  /\ Ids(to_host) \cap Ids(resolved) = {}
  /\ \A a \in Ids(to_host) \cup Ids(resolved) : a \in Reply /\ left_from[a] # {}
  /\ \A a \in Reply : left_from[a] # {} => Made(a) /\ \E c \in Core : left_from[a] = {c}

\* io_core is a core that has received, as soon as one has.
HeardInv ==
  /\ queued # <<>> => heard # {}
  /\ heard # {} => io_core \in heard
  /\ \A a \in Reply : left_from[a] \subseteq heard

ReplyInv == OneReply /\ HeardInv

\* Nothing has been given or answered at first.
LEMMA ReplyInit == Init => ReplyInv
<1> SUFFICES ASSUME Init PROVE ReplyInv
  OBVIOUS
<1>1. Ids(<<>>) = {} /\ Unique(<<>>)
  BY DEF Ids, Unique
<1>2. \A a \in Reply : left_from[a] = {}
  BY DEF Init
<1>3. OneReply
  BY <1>1, <1>2 DEF Init, OneReply
<1>4. HeardInv
  BY <1>2 DEF Init, HeardInv
<1> QED BY <1>3, <1>4 DEF ReplyInv

\* Each step keeps it; only HostReceive, Receive, Resolve and SendReply touch it.
LEMMA ReplyNext == WireInv /\ CoreInv /\ ReplyInv /\ [Next]_vars => ReplyInv'
<1> SUFFICES ASSUME WireInv, CoreInv, ReplyInv, [Next]_vars PROVE ReplyInv'
  OBVIOUS
<1> USE DEF ReplyInv, wire, cores
<1>1. ASSUME UNCHANGED <<to_host, queued, calls, replying, left_from, heard, resolved, io_core>>
      PROVE  ReplyInv'
  <2>1. /\ Ids(to_host') = Ids(to_host) /\ Unique(to_host') = Unique(to_host)
        /\ Ids(resolved') = Ids(resolved) /\ Unique(resolved') = Unique(resolved)
        /\ Ids(queued') = Ids(queued)
    BY <1>1
  <2>2. OneReply'
    BY <1>1, <2>1 DEF OneReply, Made
  <2>3. HeardInv'
    BY <1>1 DEF HeardInv
  <2> QED BY <2>2, <2>3
<1>2. CASE UNCHANGED vars
  BY <1>1, <1>2 DEF vars
<1>3. ASSUME NEW r \in Request, SendRequest(r) PROVE ReplyInv'
  BY <1>1, <1>3 DEF SendRequest
<1>4. ASSUME NEW c \in Core, Move(c) PROVE ReplyInv'
  BY <1>1, <1>4 DEF Move
<1>5. CASE HostReceive
  <2>1. to_host \in Seq(Replies) /\ to_host # <<>> /\ resolved \in Seq(Answers)
    BY <1>5 DEF HostReceive, WireInv
  <2> DEFINE h == Head(to_host)
             a == [id |-> h.id, args |-> Extract(h).args]
  <2>2. h \in Replies /\ a \in Answers
    BY <2>1, HeadTailProperties, ReceivedAsSent DEF Answers
  <2>3. h.id \in Ids(to_host) /\ h.id \notin Ids(resolved)
    BY <2>1, TailIds DEF OneReply
  <2>4. /\ Ids(to_host) = Ids(to_host') \cup {h.id}
        /\ Unique(to_host') /\ h.id \notin Ids(to_host')
    BY <1>5, <2>1, TailIds DEF HostReceive, OneReply
  <2>5. Ids(resolved') = Ids(resolved) \cup {h.id} /\ Unique(resolved')
    <3>1. a.id = h.id /\ resolved' = Append(resolved, a)
      BY <1>5 DEF HostReceive
    <3> HIDE DEF a
    <3> QED BY <2>1, <2>2, <2>3, <3>1, AppendIds DEF OneReply
  <2> HIDE DEF h
  <2>6. OneReply'
    <3>1. /\ Ids(queued') = Ids(queued) /\ replying' = replying
          /\ left_from' = left_from /\ calls' = calls
      BY <1>5 DEF HostReceive
    <3>2. Ids(to_host') \cap Ids(resolved') = {}
      BY <2>4, <2>5 DEF OneReply
    <3>3. Ids(to_host') \cup Ids(resolved') = Ids(to_host) \cup Ids(resolved)
      BY <2>4, <2>5
    <3> QED BY <2>4, <2>5, <3>1, <3>2, <3>3 DEF OneReply, Made
  <2>7. HeardInv'
    BY <1>5 DEF HostReceive, HeardInv
  <2> QED BY <2>6, <2>7
<1>6. CASE Receive
  <2>1. UNCHANGED <<to_host, calls, replying, left_from, resolved>>
    BY <1>6 DEF Receive
  <2>2. Ids(queued) \subseteq Ids(queued')
    <3>1. Extract(Head(to_node)) \in Intentions
      BY <1>6, ReceivedAsSent, HeadTailProperties DEF Receive, WireInv
    <3>2. Ids(queued) \subseteq Ids(Append(queued, Extract(Head(to_node))))
      BY <3>1, AppendIds DEF WireInv
    <3> QED BY <1>6, <3>2 DEF Receive
  <2>3. OneReply'
    <3>1. /\ Ids(to_host') = Ids(to_host) /\ Ids(resolved') = Ids(resolved)
          /\ left_from' = left_from /\ replying' = replying
          /\ Unique(to_host') /\ Unique(resolved') /\ calls' = calls
      BY <2>1 DEF OneReply
    <3> QED BY <2>2, <3>1 DEF OneReply, Made
  <2>4. HeardInv'
    BY <1>6, <2>1 DEF Receive, SetIoCore, HeardInv
  <2> QED BY <2>3, <2>4
<1>7. ASSUME NEW r \in Request, NEW c \in Core, Resolve(r, c) PROVE ReplyInv'
  <2>1. /\ UNCHANGED <<to_host, queued, left_from, heard, resolved, io_core>>
        /\ r \in Ids(queued) /\ calls' = [calls EXCEPT ![r] = calls[r] + 1]
        /\ calls[r] < MaxCalls
        /\ replying' = replying \cup {[id |-> <<r, calls'[r]>>, core |-> c, stage |-> "compare"]}
    BY <1>7 DEF Resolve, Ids
  <2>2. PICK k \in 1 .. MaxCalls : k = calls'[r] /\ k = calls[r] + 1
    BY <2>1, ChannelAssumption DEF CoreInv
  <2>3. PICK a \in Reply : a = <<r, k>> /\ a[1] = r /\ a[2] = k
    <3>1. <<r, k>> \in Reply /\ <<r, k>>[1] = r /\ <<r, k>>[2] = k
      BY DEF Reply
    <3> QED BY <3>1
  <2>4. \A b \in Reply : Made(b) => Made(b)' /\ b # a
    <3> SUFFICES ASSUME NEW b \in Reply, Made(b) PROVE Made(b)' /\ b # a
      OBVIOUS
    <3>1. Ids(queued') = Ids(queued)
      BY <2>1
    <3>2. b[1] \in Request /\ b[2] \in 1 .. MaxCalls
      BY DEF Reply
    <3>3. CASE b[1] = r
      <4>1. b[2] <= calls[r] /\ calls[r] \in Nat
        BY <3>3 DEF Made, CoreInv
      <4>2. b[2] # k /\ b[2] <= k
        BY <2>2, <3>2, <4>1
      <4>3. b[2] <= calls'[b[1]] /\ b[1] \in Ids(queued')
        BY <2>2, <3>1, <3>3, <4>2 DEF Made
      <4> QED BY <2>3, <4>2, <4>3 DEF Made
    <3>4. CASE b[1] # r
      <4>1. calls'[b[1]] = calls[b[1]]
        BY <2>1, <3>2, <3>4 DEF CoreInv
      <4> QED BY <2>3, <3>1, <3>4, <4>1 DEF Made
    <3> QED BY <3>3, <3>4
  <2>5. left_from[a] = {} /\ Made(a)' /\ \A e \in replying : e.id # a
    <3>1. ~Made(a)
      BY <2>4
    <3>2. Made(a)'
      BY <2>1, <2>2, <2>3 DEF Made
    <3> QED BY <3>1, <3>2 DEF OneReply
  <2>6. OneReply'
    <3>1. replying' = replying \cup {[id |-> a, core |-> c, stage |-> "compare"]}
      BY <2>1, <2>2, <2>3
    <3>2. \A g, h \in replying' : g.id = h.id => g = h
      BY <2>5, <3>1 DEF OneReply
    <3>3. \A g \in replying' : left_from[g.id] = {} /\ Made(g.id)'
      BY <2>4, <2>5, <3>1 DEF OneReply, CoreInv, Event
    <3>4. /\ Ids(to_host') = Ids(to_host) /\ Ids(resolved') = Ids(resolved)
          /\ Ids(queued') = Ids(queued) /\ left_from' = left_from
          /\ Unique(to_host') /\ Unique(resolved')
      BY <2>1 DEF OneReply
    <3> QED BY <2>4, <3>2, <3>3, <3>4 DEF OneReply
  <2>7. HeardInv'
    BY <2>1 DEF HeardInv
  <2> QED BY <2>6, <2>7
<1>8. ASSUME NEW e \in replying, SendHere(e) PROVE ReplyInv'
  <2>1. e.id \in Reply /\ e.core \in Core
    BY DEF CoreInv, Event
  <2>2. /\ UNCHANGED <<queued, calls, heard, resolved, io_core>>
        /\ replying' = replying \ {e}
        /\ to_host' = Append(to_host, ReplyMessage(e.id))
        /\ e.core = io_core
    BY <1>8 DEF SendHere, ReplyMessage
  <2>3. /\ left_from[e.id] = {} /\ Made(e.id) /\ Made(e.id)'
        /\ e.id \notin Ids(to_host) /\ e.id \notin Ids(resolved)
    BY <2>2 DEF OneReply, Made
  <2>4. left_from' = [left_from EXCEPT ![e.id] = {e.core}]
    BY <1>8, <2>1, <2>3 DEF SendHere, CoreInv
  <2>5. Ids(to_host') = Ids(to_host) \cup {e.id} /\ Unique(to_host')
    <3>1. ReplyMessage(e.id) \in Replies /\ ReplyMessage(e.id).id = e.id
      BY <2>1 DEF Replies, ReplyMessage, Message
    <3> QED BY <2>2, <2>3, <3>1, AppendIds DEF OneReply, WireInv
  <2>6. /\ left_from'[e.id] = {e.core}
        /\ \A a \in Reply : a # e.id => left_from'[a] = left_from[a]
    BY <2>1, <2>4 DEF CoreInv
  <2>7. OneReply'
    <3>1. \A f \in replying' : f.id # e.id /\ f.id \in Reply /\ f \in replying
      BY <2>2 DEF OneReply, CoreInv, Event
    <3>2. \A a : Made(a)' <=> Made(a)
      BY <2>2 DEF Made
    <3>3. \A f \in replying' : left_from'[f.id] = {} /\ Made(f.id)'
      BY <2>6, <3>1, <3>2 DEF OneReply
    <3>4. \A a \in Ids(to_host) \cup Ids(resolved) \cup {e.id} :
            a \in Reply /\ left_from'[a] # {}
      BY <2>1, <2>6 DEF OneReply
    <3>5. \A a \in Reply : left_from'[a] # {} =>
            Made(a)' /\ \E c \in Core : left_from'[a] = {c}
      BY <2>1, <2>3, <2>6, <3>2 DEF OneReply
    <3>6. Ids(queued') = Ids(queued) /\ Ids(resolved') = Ids(resolved) /\ Unique(resolved')
      BY <2>2 DEF OneReply, Ids, Unique
    <3> QED BY <2>2, <2>3, <2>5, <3>1, <3>3, <3>4, <3>5, <3>6 DEF OneReply
  <2>8. HeardInv'
    <3>1. queued # <<>>
      BY <2>3 DEF Ids, Made
    <3>2. e.core \in heard
      BY <2>2, <3>1 DEF HeardInv
    <3> QED BY <2>2, <2>6, <3>2 DEF HeardInv
  <2> QED BY <2>7, <2>8
<1>9. ASSUME NEW e \in replying, SendElsewhere(e) PROVE ReplyInv'
  <2>1. PICK f \in Event : f.id = e.id /\ replying' = (replying \ {e}) \cup {f}
    BY <1>9 DEF SendElsewhere, Forward, CoreInv, Event
  <2>2. UNCHANGED <<to_host, queued, calls, left_from, heard, resolved, io_core>>
    BY <1>9 DEF SendElsewhere
  <2>3. OneReply'
    <3>1. \A g, h \in replying' : g.id = h.id => g = h
      BY <2>1 DEF OneReply
    <3>2. \A g \in replying' : left_from[g.id] = {} /\ Made(g.id)
      BY <2>1 DEF OneReply
    <3>3. /\ Ids(to_host') = Ids(to_host) /\ Ids(resolved') = Ids(resolved)
          /\ Ids(queued') = Ids(queued) /\ left_from' = left_from /\ calls' = calls
          /\ Unique(to_host') /\ Unique(resolved')
      BY <2>2 DEF OneReply
    <3> QED BY <3>1, <3>2, <3>3 DEF OneReply, Made
  <2>4. HeardInv'
    BY <2>2 DEF HeardInv
  <2> QED BY <2>3, <2>4
<1> QED
  BY <1>2, <1>3, <1>4, <1>5, <1>6, <1>7, <1>8, <1>9 DEF Next, SendReply

\* It holds in every behaviour.
LEMMA ReplyInvariant == Spec => [](WireInv /\ CoreInv /\ ReplyInv)
BY WireInit, WireNext, ReplyInit, ReplyNext, PTL DEF Spec

\* Each call of Resolve gives at most one reply and nothing else does, for any
\* number of cores, whatever they read of io_core, and however often the invoker
\* answers a request.
THEOREM OneReplyCorrect == Spec => []OneReplyPerCall
<1>1. CoreInv /\ ReplyInv => OneReplyPerCall
  <2> SUFFICES ASSUME CoreInv, ReplyInv PROVE OneReplyPerCall
    OBVIOUS
  <2>1. ASSUME NEW a \in Reply PROVE Cardinality(left_from[a]) <= 1
    <3>1. left_from[a] = {} \/ \E c \in Core : left_from[a] = {c}
      BY DEF ReplyInv, OneReply
    <3>2. \A n : n = 0 \/ n = 1 => n <= 1
      OBVIOUS
    <3> QED BY <3>1, <3>2, FS_EmptySet, FS_Singleton
  <2>2. ASSUME NEW i \in DOMAIN resolved
        PROVE  /\ resolved[i].id[2] <= calls[resolved[i].id[1]]
               /\ \E j \in DOMAIN queued : queued[j].id = resolved[i].id[1]
    <3>1. resolved[i].id \in Ids(resolved)
      BY DEF Ids
    <3>2. Made(resolved[i].id)
      BY <3>1 DEF ReplyInv, OneReply
    <3> QED BY <3>2 DEF Made, Ids
  <2> QED BY <2>1, <2>2 DEF ReplyInv, OneReply, Unique, OneReplyPerCall
<1> QED BY <1>1, ReplyInvariant, PTL

\* No reply leaves from a core that has received nothing.
THEOREM LeavesCorrect == Spec => []LeavesWhereHeard
<1>1. ReplyInv => LeavesWhereHeard
  BY DEF ReplyInv, HeardInv, LeavesWhereHeard
<1> QED BY <1>1, ReplyInvariant, PTL

=============================================================================
