------------------------------- MODULE Channel -------------------------------
(***************************************************************************)
(* SeussChannel: requests from the hosted process to the native node and   *)
(* replies back, as messages of a header and one body.                     *)
(*                                                                         *)
(* A request's body is its arguments, then its code; the header's record   *)
(* says where the one ends.  A reply is to leave the node from the core    *)
(* that receives: SendReply, on another core, spawns itself there.  That   *)
(* core, io_core, is a plain variable which every core of the node writes  *)
(* on receipt and reads twice, to compare and to spawn.                    *)
(*                                                                         *)
(* Nothing ties a reply to a request but the id: the invoker may answer a  *)
(* request more than once (Invoker's AnsweredOnce), each time with a call  *)
(* of its own, and the channel delivers what each call gives it.           *)
(***************************************************************************)
EXTENDS Naturals, Sequences, FiniteSets

CONSTANTS
  Cores,        \* cores of the node, numbered from 0
  Request,      \* requests the controller makes
  Byte,
  Args, Code,   \* their arguments and code: sequences of bytes
  MaxCalls,     \* bound: times the invoker answers a request
  Result,       \* what it answers, each time
  MaxMoves,     \* bound: times the connection changes its core
  NDEBUG        \* TRUE when assert and kassert are compiled out

ASSUME ChannelAssumption ==
  /\ Cores \in Nat \ {0}
  /\ Args \in [Request -> Seq(Byte)] /\ Code \in [Request -> Seq(Byte)]
  /\ MaxCalls \in Nat
  /\ Result \in [Request \X (1 .. MaxCalls) -> Seq(Byte)]
  /\ MaxMoves \in Nat
  /\ NDEBUG \in BOOLEAN

Core == 0 .. Cores - 1

\* A reply: its request, and which of the request's calls of Resolve gave it.
\* The number tells replies apart here; the message carries the request alone.
Reply == Request \X (1 .. MaxCalls)

VARIABLES
  to_node, to_host,   \* messages under way, in order
  asked,              \* requests made
  conn,               \* the core on which the node receives
  moves,
  io_core,
  queued,             \* what Invoker::Queue was given
  calls,              \* how often each request has been answered
  replying,           \* events of SendReply: [id, core, stage]
  left_from,          \* the core each reply was sent from
  heard,              \* cores that have received a message
  resolved,           \* what ResolveActivation was given
  node                \* "up", or "down" after a failed assertion or a fault

wire == <<to_node, to_host>>
cores == <<conn, moves, io_core, heard>>
vars == <<wire, asked, cores, queued, calls, replying, left_from, resolved, node>>

Init ==
  /\ to_node = <<>> /\ to_host = <<>>
  /\ asked = {}
  /\ conn \in Core
  /\ moves = 0
  /\ io_core = 0
  /\ queued = <<>>
  /\ calls = [r \in Request |-> 0]
  /\ replying = {}
  /\ left_from = [a \in Reply |-> {}]
  /\ heard = {}
  /\ resolved = <<>>
  /\ node = "up"

Up == node = "up"

-----------------------------------------------------------------------------
(* Messages.  A message that takes several segments arrives as a chain.    *)

Body(args, code) == args \o code

Message(id, args_size, body, chained) ==
  [id |-> id, args_size |-> args_size, body |-> body, chained |-> chained]

\* What ReceiveMessage makes of a message: it reads as far as it is told to.
Read(s, from, to) ==
  [k \in 1 .. to - from + 1 |-> IF from + k - 1 <= Len(s) THEN s[from + k - 1] ELSE "beyond"]

Extract(m) ==
  [id   |-> m.id,
   args |-> Read(m.body, 1, IF m.body = <<>> THEN 0 ELSE m.args_size),
   code |-> Read(m.body, m.args_size + 1, Len(m.body))]

\* A chained body is copied with a length that counts the header twice: the copy
\* passes the end of the chain, unnoticed or not.
Overruns(m) == m.chained /\ m.body # <<>>

\* kassert(hdr.len >= hdr.record.args_size), where there is a body.
Sound(m) == m.body = <<>> \/ Len(m.body) >= m.args_size

-----------------------------------------------------------------------------
(* The hosted process.                                                     *)

\* ScheduleActivation sets args_size; SendRequest makes the body.
SendRequest(r) ==
  /\ r \notin asked
  /\ asked' = asked \cup {r}
  /\ \E chained \in BOOLEAN :
       to_node' = Append(to_node, Message(r, Len(Args[r]), Body(Args[r], Code[r]), chained))
  /\ UNCHANGED <<to_host, cores, queued, calls, replying, left_from, resolved, node>>

\* ReceiveMessage of a reply: only the arguments are passed on.
HostReceive ==
  /\ to_host # <<>>
  /\ to_host' = Tail(to_host)
  /\ resolved' = Append(resolved, [id   |-> Head(to_host).id,
                                   args |-> Extract(Head(to_host)).args])
  /\ UNCHANGED <<to_node, asked, cores, queued, calls, replying, left_from, node>>

-----------------------------------------------------------------------------
(* The node.                                                               *)

\* The connection, or the other one when both ends opened one, is served by some
\* core; the messenger decides.
Move(c) ==
  /\ moves < MaxMoves
  /\ c # conn
  /\ conn' = c
  /\ moves' = moves + 1
  /\ UNCHANGED <<wire, asked, io_core, heard, queued, calls, replying, left_from, resolved,
                 node>>

\* Mutant: the core that receives is not noted.
SetIoCoreNot == UNCHANGED io_core

SetIoCore == io_core' = conn

\* ReceiveMessage of a request.
Receive ==
  /\ Up
  /\ to_node # <<>>
  /\ to_node' = Tail(to_node)
  /\ SetIoCore
  /\ heard' = heard \cup {conn}
  /\ LET m == Head(to_node)
     IN \/ /\ Sound(m) \/ NDEBUG
           /\ queued' = Append(queued, Extract(m))
           /\ UNCHANGED node
        \/ /\ ~Sound(m) \/ Overruns(m)
           /\ node' = "down"
           /\ UNCHANGED queued
  /\ UNCHANGED <<to_host, asked, conn, moves, calls, replying, left_from, resolved>>

\* The invoker answers a request, on the core that served it: once for each
\* session that resolves, a later and colder one after an earlier included.
Resolve(r, c) ==
  /\ Up
  /\ \E i \in DOMAIN queued : queued[i].id = r
  /\ calls[r] < MaxCalls
  /\ calls' = [calls EXCEPT ![r] = @ + 1]
  /\ replying' = replying \cup {[id |-> <<r, calls'[r]>>, core |-> c, stage |-> "compare"]}
  /\ UNCHANGED <<wire, asked, cores, queued, left_from, resolved, node>>

\* Mutant: the record goes back as it came ("Is this nescessary?").
ReplySizeAsAsked(a) == Len(Args[a[1]])

\* hdr.record.args_size = args.size().
ReplySize(a) == Len(Result[a])

\* SendReply on io_core: the message goes out.
SendHere(e) ==
  /\ Up
  /\ e.stage = "compare" /\ e.core = io_core
  /\ replying' = replying \ {e}
  /\ to_host' = Append(to_host, Message(e.id, ReplySize(e.id), Result[e.id], FALSE))
  /\ left_from' = [left_from EXCEPT ![e.id] = @ \cup {e.core}]
  /\ UNCHANGED <<to_node, asked, cores, queued, calls, resolved, node>>

\* Mutant: the event that was to be spawned is lost.
ForwardNot(e, stage, c) == replying' = replying \ {e}

Forward(e, stage, c) ==
  replying' = (replying \ {e}) \cup {[id |-> e.id, core |-> c, stage |-> stage]}

\* Mutant: no return after the spawn.
SendElsewhereAndHere(e) ==
  /\ Up
  /\ \/ /\ e.stage = "compare" /\ e.core # io_core /\ Forward(e, "spawn", e.core)
        /\ UNCHANGED <<to_host, left_from>>
     \/ /\ e.stage = "spawn" /\ Forward(e, "compare", io_core)
        /\ to_host' = Append(to_host, Message(e.id, ReplySize(e.id), Result[e.id], FALSE))
        /\ left_from' = [left_from EXCEPT ![e.id] = @ \cup {e.core}]
  /\ UNCHANGED <<to_node, asked, cores, queued, calls, resolved, node>>

\* SendReply on another core: the comparison, and the spawn on what is io_core
\* by then, where the event starts again.
SendElsewhere(e) ==
  /\ Up
  /\ \/ e.stage = "compare" /\ e.core # io_core /\ Forward(e, "spawn", e.core)
     \/ e.stage = "spawn" /\ Forward(e, "compare", io_core)
  /\ UNCHANGED <<wire, asked, cores, queued, calls, left_from, resolved, node>>

SendReply == \E e \in replying : SendHere(e) \/ SendElsewhere(e)

Next ==
  \/ \E r \in Request : SendRequest(r)
  \/ HostReceive
  \/ \E c \in Core : Move(c)
  \/ Receive
  \/ \E r \in Request, c \in Core : Resolve(r, c)
  \/ SendReply
  \/ /\ \A r \in Request : ~Up \/ \E i \in DOMAIN resolved : resolved[i].id[1] = r
     /\ UNCHANGED vars

Spec == Init /\ [][Next]_vars

\* Messages arrive, and the node's events are run; each of them, since a core
\* takes its events in turn.
FairSpec ==
  /\ Spec
  /\ WF_vars(HostReceive) /\ WF_vars(Receive)
  /\ \A a \in Reply :
       WF_vars(\E e \in replying : e.id = a /\ (SendHere(e) \/ SendElsewhere(e)))

-----------------------------------------------------------------------------
(* Properties.                                                             *)

TypeOK ==
  /\ asked \subseteq Request
  /\ conn \in Core /\ io_core \in Core /\ heard \subseteq Core
  /\ moves \in 0 .. MaxMoves
  /\ \A i \in DOMAIN to_node : Sound(to_node[i])
  /\ \A i \in DOMAIN to_host : Sound(to_host[i])
  /\ calls \in [Request -> 0 .. MaxCalls]
  /\ replying \subseteq [id : Reply, core : Core, stage : {"compare", "spawn"}]
  /\ left_from \in [Reply -> SUBSET Core]
  /\ node \in {"up", "down"}

\* What the invoker is given is what the controller sent: the arguments end
\* where the record says and the code begins there (SendRequest, ReceiveMessage).
\* The controller is given the whole result, and nothing else: the record of a
\* reply is the request's but for args_size.
BodiesIntact ==
  /\ \A i \in DOMAIN queued :
       queued[i] = [id |-> queued[i].id, args |-> Args[queued[i].id],
                    code |-> Code[queued[i].id]]
  /\ \A i \in DOMAIN resolved : resolved[i].args = Result[resolved[i].id]

\* Whatever cores receive, serve and forward, and however often a request is
\* answered, a call of Resolve reaches the controller at most once, from one core,
\* and nothing does that no call gave, or that answers no request of the node's.
OneReplyPerCall ==
  /\ \A i, j \in DOMAIN resolved : resolved[i].id = resolved[j].id => i = j
  /\ \A a \in Reply : Cardinality(left_from[a]) <= 1
  /\ \A i \in DOMAIN resolved :
       /\ resolved[i].id[2] <= calls[resolved[i].id[1]]
       /\ \E j \in DOMAIN queued : queued[j].id = resolved[i].id[1]

\* A reply never leaves from a core that has received nothing, as core 0 may
\* not have: the receipt of its request has set io_core by then.
LeavesWhereHeard == \A a \in Reply : left_from[a] \subseteq heard

\* A reply that is on its way reaches the controller, however often it is
\* forwarded, if the connection settles and the node stays up.
RepliesArrive ==
  \A a \in Reply :
    (\E e \in replying : e.id = a) ~> (~Up \/ \E i \in DOMAIN resolved : resolved[i].id = a)

(* What the repository says and the code does not keep to.                 *)

\* "Set the IO core of the messenger": the core that has the connection.
LeavesFromConnection == \A e \in replying : 
  e.stage = "compare" /\ e.core = io_core => e.core = conn

\* "If we have a chained IO buf allocate a continous buffer and copy".
ChainedCopied == Up

=============================================================================
