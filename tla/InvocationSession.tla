-------------------------- MODULE InvocationSession --------------------------
(***************************************************************************)
(* One InvocationSession (src/src/InvocationSession.cc) with the handlers  *)
(* new_invocation_session installs on it (src/src/SeussInvoker.cc) and the *)
(* blocked event that opened it: a TCP client of the function's HTTP       *)
(* server, five one-shot promises, a timer, and the events they spawn.     *)
(*                                                                         *)
(* The session is one record s, and every method a function of it, as each *)
(* runs to completion inside one event; an action is one event.  The       *)
(* connection and the server are the environment: they may be slow, fail,  *)
(* close or answer at any point where TCP lets them.                       *)
(***************************************************************************)
EXTENDS Naturals, Sequences

CONSTANT
  MaySplit      \* TRUE: a response may reach Receive in several segments

ASSUME SessionAssumption == MaySplit \in BOOLEAN

VARIABLES
  s,            \* the session object and its promises
  events,       \* events spawned on this core, in order
  conn,         \* the TCP connection, as the PCB sees it
  server        \* what the function's HTTP server still has to send

vars == <<s, events, conn, server>>

Promises == {"connected", "initialized", "executed", "closed", "aborted"}

\* code: the start is cold (it has code to initialise).  sync: SpawnLocal
\* without "async" runs its event at once; otherwise it is queued like an async
\* one.  EbbRT may do either.
NewSession(code, sync) ==
  [ code |-> code, sync |-> sync,
    is_connected_ |-> FALSE, is_initialized_ |-> FALSE,
    timer_set |-> FALSE, timeout_ |-> "clear",
    set |-> {},                  \* the promises that have their value
    finished |-> "unset",        \* when_finished_, with its status
    reply_ |-> "none",
    resolved |-> "none",         \* what Resolve passed to the channel
    sent |-> <<>>,               \* requests handed to Send
    spawned |-> <<>>,            \* events to append to the queue
    deleted |-> FALSE,
    fault |-> "none" ]

Init ==
  /\ \E code, sync \in BOOLEAN : s = NewSession(code, sync)
  /\ events = <<"connect">>
  /\ conn = "none"
  /\ server = <<>>

Faulted(t, why) == [t EXCEPT !.fault = why]

-----------------------------------------------------------------------------
(* Timer, requests and Finish.                                             *)

DisableTimer(t) == [t EXCEPT !.timer_set = FALSE, !.timeout_ = "clear"]

EnableTimer(t, timeout) == [t EXCEPT !.timeout_ = timeout, !.timer_set = TRUE]

SendHttpRequest(t, path) == [t EXCEPT !.sent = Append(@, path)]

\* The promise given a second value is an error EbbRT does not define.
Finish(t, status) ==
  IF t.finished # "unset" THEN Faulted(t, "double_set")
  ELSE [DisableTimer(t) EXCEPT !.finished = status,
                               !.spawned = Append(@, "resume")]

-----------------------------------------------------------------------------
(* The handlers on the promises, run by SetValue.                          *)

\* Mutant: the code is not looked at.
OnConnectedRuns(t) == SendHttpRequest(t, "run")

OnConnected(t) == SendHttpRequest(t, IF t.code THEN "init" ELSE "run")

OnInitialized(t) == SendHttpRequest(t, "run")

\* Mutant: the reply ends the session, which does not wait for the close.
OnExecutedFinishes(t) == Finish([t EXCEPT !.resolved = t.reply_], "true")

OnExecuted(t) == [t EXCEPT !.resolved = t.reply_]

OnClosed(t) == Finish(t, "true")

\* Mutant: a failed session finishes like a closed one.
OnAbortedTrue(t) == Finish(t, "true")

OnAborted(t) == Finish(t, "false")

Handler(t, p) ==
  CASE p = "connected"   -> OnConnected(t)
    [] p = "initialized" -> OnInitialized(t)
    [] p = "executed"    -> OnExecuted(t)
    [] p = "closed"      -> OnClosed(t)
    [] p = "aborted"     -> OnAborted(t)

SetValue(t, p) ==
  CASE t.fault # "none" -> t
    [] t.deleted        -> Faulted(t, "use_after_free")
    [] p \in t.set      -> Faulted(t, "double_set")
    [] OTHER            -> Handler([t EXCEPT !.set = @ \cup {p}], p)

SpawnLocal(t, p) ==
  IF t.sync THEN SetValue(t, p) ELSE [t EXCEPT !.spawned = Append(@, p)]

-----------------------------------------------------------------------------
(* The callbacks of the TcpHandler and of the timer.                       *)

Connect(t) ==
  IF t.is_connected_ THEN Faulted(t, "kbugon") ELSE EnableTimer(t, "connect")

\* Mutants: the timer is not armed again, or is_connected_ is left as it was.
ConnectedUntimed(t) ==
  SpawnLocal(DisableTimer([t EXCEPT !.is_connected_ = TRUE]), "connected")

ConnectedUnmarked(t) == SpawnLocal(EnableTimer(DisableTimer(t), "run"), "connected")

Connected(t) ==
  SpawnLocal(EnableTimer(DisableTimer([t EXCEPT !.is_connected_ = TRUE]), "run"),
             "connected")

Close(t) == SpawnLocal([DisableTimer(t) EXCEPT !.is_connected_ = FALSE], "closed")

Abort(t) == SpawnLocal([DisableTimer(t) EXCEPT !.is_connected_ = FALSE], "aborted")

\* The timer is one-shot and Stop cancels it, so it fires only when armed,
\* when its time has come.  The connection itself is left as it is.
Fire(t) ==
  IF t.timeout_ = "clear" THEN [t EXCEPT !.timer_set = FALSE]
  ELSE Abort([t EXCEPT !.timer_set = FALSE, !.timeout_ = "clear"])

\* A segment, as far as Receive can tell them apart: does it start with the
\* line "HTTP/1.1 200 OK", is there a "{" in it, is what follows {"OK":true}.
Segments ==
  [ok |-> [status200 |-> TRUE, brace |-> TRUE, body |-> "OK"],
   result |-> [status200 |-> TRUE, brace |-> TRUE, body |-> "result"],
   failure |-> [status200 |-> FALSE, brace |-> TRUE, body |-> "failure"],
   head |-> [status200 |-> TRUE, brace |-> FALSE, body |-> "none"],
   part |-> [status200 |-> TRUE, brace |-> TRUE, body |-> "truncated"],
   rest |-> [status200 |-> FALSE, brace |-> TRUE, body |-> "truncated"],
   tail |-> [status200 |-> FALSE, brace |-> FALSE, body |-> "none"]]

\* substr(npos) throws where there is no "{".  A failed request sets
\* when_aborted_ and goes on to the second half all the same.
Receive(t, b) ==
  IF ~b.brace THEN Faulted(t, "out_of_range")
  ELSE LET r == IF b.status200 THEN t
                ELSE SetValue([t EXCEPT !.reply_ = b.body], "aborted")
       IN  IF b.body = "OK" /\ ~r.is_initialized_
           THEN SetValue([r EXCEPT !.is_initialized_ = TRUE], "initialized")
           ELSE SetValue([r EXCEPT !.reply_ = b.body], "executed")

-----------------------------------------------------------------------------
(* Actions.                                                                *)

Running == s.fault = "none"

\* The event leaves the session as t: what it spawned joins the queue and what
\* it sent reaches the server while the connection stands.
Becomes(t) ==
  /\ s' = [t EXCEPT !.spawned = <<>>, !.sent = s.sent \o t.sent]
  /\ events' = events \o t.spawned

Fresh == [s EXCEPT !.sent = <<>>]

\* The event EbbRT runs next: Connect, a spawned SetValue, or the blocked event
\* of process_*_start, which deletes the session and its PCB.
RunEvent ==
  /\ Running
  /\ events # <<>>
  /\ LET e == Head(events)
         t == CASE e = "connect" -> Connect(Fresh)
                [] e = "resume"  -> [Fresh EXCEPT !.deleted = TRUE]
                [] OTHER         -> SetValue(Fresh, e)
     IN /\ s' = [t EXCEPT !.spawned = <<>>, !.sent = s.sent \o t.sent]
        /\ events' = Tail(events) \o t.spawned
        /\ conn' = CASE e = "connect" -> "connecting"
                     [] e = "resume"  -> "deleted"
                     [] OTHER         -> conn
        /\ server' = IF conn = "open" THEN server \o t.sent ELSE server

TimerFires ==
  /\ Running
  /\ s.timer_set
  /\ Becomes(IF s.deleted THEN Faulted(Fresh, "use_after_free") ELSE Fire(Fresh))
  /\ UNCHANGED <<conn, server>>

TcpConnected ==
  /\ Running
  /\ conn = "connecting"
  /\ conn' = "open"
  /\ LET t == Connected(Fresh)
     IN  Becomes(t) /\ server' = server \o t.sent

\* The server closes: after its response to /run, or because it failed.
TcpClose ==
  /\ Running
  /\ conn = "open"
  /\ conn' = "closed"
  /\ Becomes(Close(Fresh))
  /\ UNCHANGED server

\* The connection is refused or reset.
TcpAbort ==
  /\ Running
  /\ conn \in {"connecting", "open"}
  /\ conn' = "aborted"
  /\ Becomes(Abort(Fresh))
  /\ UNCHANGED server

\* What the server may send next for the request at the head of its queue, and
\* what it then still has to send.
Answers(request) ==
  CASE request = "init" -> {<<"ok", <<>>>>, <<"failure", <<>>>>}
                             \cup (IF MaySplit THEN {<<"head", <<"ok">>>>} ELSE {})
    [] request = "run" -> {<<"ok", <<>>>>, <<"result", <<>>>>, <<"failure", <<>>>>}
                             \cup (IF MaySplit THEN {<<"head", <<"result">>>>,
                                                     <<"part", <<"rest">>>>,
                                                     <<"part", <<"tail">>>>} ELSE {})
    [] OTHER -> {<<request, <<>>>>}

TcpReceive ==
  /\ Running
  /\ conn = "open"
  /\ server # <<>>
  /\ \E a \in Answers(Head(server)) :
       LET t == Receive(Fresh, Segments[a[1]])
       IN /\ Becomes(t)
          /\ server' = a[2] \o Tail(server) \o t.sent
  /\ UNCHANGED conn

\* The session is over, or undefined behaviour was reached.
Terminated ==
  /\ ~Running \/ (s.deleted /\ events = <<>> /\ ~s.timer_set)
  /\ UNCHANGED vars

Next == RunEvent \/ TimerFires \/ TcpConnected \/ TcpClose \/ TcpAbort
          \/ TcpReceive \/ Terminated

\* The event loop runs what is queued and an armed timer fires.  Nothing is
\* expected of the network or of the instance.
Fairness == WF_vars(RunEvent) /\ WF_vars(TimerFires)

Spec == Init /\ [][Next]_vars

FairSpec == Spec /\ Fairness

-----------------------------------------------------------------------------
(* Properties.                                                             *)

Bodies == {"none", "OK", "result", "failure", "truncated"}

TypeOK ==
  /\ s \in [code : BOOLEAN, sync : BOOLEAN,
            is_connected_ : BOOLEAN, is_initialized_ : BOOLEAN,
            timer_set : BOOLEAN, timeout_ : {"clear", "connect", "run"},
            set : SUBSET Promises, finished : {"unset", "true", "false"},
            reply_ : Bodies, resolved : Bodies, sent : Seq({"init", "run"}),
            spawned : {<<>>}, deleted : BOOLEAN,
            fault : {"none", "double_set", "use_after_free", "out_of_range", "kbugon"}]
  /\ events \in Seq(Promises \cup {"connect", "resume"})
  /\ conn \in {"none", "connecting", "open", "closed", "aborted", "deleted"}
  /\ server \in Seq(DOMAIN Segments \cup {"init", "run"})

Pending(e) == \E i \in DOMAIN events : events[i] = e

\* The blocked event is never abandoned: until it returns, the timer is armed
\* or an event is queued that leads to Finish or is the return itself.
AlwaysGuarded ==
  Running /\ ~s.deleted =>
    \/ s.timer_set
    \/ \E e \in {"connect", "closed", "aborted", "resume"} : Pending(e)

\* The timer bounds the wait for a connection until there is one, and the
\* whole exchange from then on: an armed timer is the one of its phase.
TimerMatchesPhase ==
  Running /\ s.timer_set =>
    /\ s.timeout_ = "connect" <=> ~s.is_connected_
    /\ s.timeout_ = "run" <=> s.is_connected_

\* Code is initialised before it is run, and run once: a cold session sends
\* /run only after the response to /init, whatever the server answers to it.
InitBeforeRun ==
  s.code => /\ s.sent \in {<<>>, <<"init">>, <<"init", "run">>}
            /\ s.sent = <<"init", "run">> => s.is_initialized_

\* A session that replied with a failed response never ends as a success, in
\* whatever order the response, the close, the reset and the timeout come.
SuccessIsGenuine ==
  Running /\ s.finished = "true" => s.resolved # "failure"

C == INSTANCE SessionContract WITH
       NoStatus <- "unset",
       status   <- s.finished,
       replied  <- s.resolved # "none",
       returned <- s.deleted,
       broken   <- ~Running

\* The session keeps the contract Invoker assumes of it, and under fair events
\* and timer alone it ends.
Contract == C!CFairSpec

(* What the repository says and the code does not keep to.                 *)

\* Finish: "Signal that the invocation has finished; true=success".
SuccessMeansReplied == Running /\ s.finished = "true" => s.resolved # "none"

\* The handler of WhenExecuted: "Resolved invocation after successful execution
\* successfully", with status = 0 "SUCCESSFUL".
ResolvedIsSuccess == s.resolved # "failure"

\* Receive: "Any other response signals a completed RUN": what is resolved is a
\* complete response.
ResolvedIsComplete == s.resolved # "truncated"

\* Receive: "An {OK:true} response signals a completed INIT": there is an INIT
\* to complete only in a session with code.
InitializedHasCode == s.is_initialized_ => s.code

\* process_hot_start: "Block flow control until session has closed/aborted":
\* one of them, once.
EndsOnce == s.fault # "double_set"

\* The same line: when the blocked event goes on to delete the session, nothing
\* of the session is still to come.
QuietWhenDeleted == s.fault # "use_after_free"

=============================================================================
