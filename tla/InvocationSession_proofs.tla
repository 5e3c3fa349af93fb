---------------------- MODULE InvocationSession_proofs ----------------------
(***************************************************************************)
(* Theorems about InvocationSession, whether or not responses may come in  *)
(* segments and whether or not SpawnLocal runs its event at once.          *)
(***************************************************************************)
EXTENDS InvocationSession, SequenceTheorems, TLAPS

-----------------------------------------------------------------------------
(* The session's methods, as functions of its record.                      *)

Queued == {"connected", "closed", "aborted", "resume"}

\* A session inside an event: it has spawned at most one other.
Sessions ==
  [code : BOOLEAN, sync : BOOLEAN,
   is_connected_ : BOOLEAN, is_initialized_ : BOOLEAN,
   timer_set : BOOLEAN, timeout_ : {"clear", "connect", "run"},
   set : SUBSET Promises, finished : {"unset", "true", "false"},
   reply_ : Bodies, resolved : Bodies, sent : Seq({"init", "run"}),
   spawned : {<<>>} \cup {<<e>> : e \in Queued}, deleted : BOOLEAN,
   fault : {"none", "double_set", "use_after_free", "out_of_range", "kbugon"}]

\* What no handler of a promise touches.
SameSession(r, t) ==
  /\ r.code = t.code /\ r.sync = t.sync /\ r.deleted = t.deleted
  /\ r.is_connected_ = t.is_connected_ /\ r.is_initialized_ = t.is_initialized_
  /\ r.reply_ = t.reply_

SameTimer(r, t) == r.timer_set = t.timer_set /\ r.timeout_ = t.timeout_

\* SetValue on a promise that is set, or on a deleted session, or a second
\* Finish: nothing is sent or spawned on the way.
Breaks(r, t) ==
  /\ r.fault # "none"
  /\ r.sent = t.sent /\ r.spawned = t.spawned /\ r.resolved = t.resolved
  /\ "connected" \in r.set <=> "connected" \in t.set

\* SetValue on a promise p of a live session, whose handler then runs.
Takes(r, t, p) ==
  /\ t.fault = "none" /\ r.fault = "none"
  /\ ~ t.deleted
  /\ p \notin t.set /\ r.set = t.set \cup {p}

\* The handlers of when_connected_ and when_initialized_ send a request.
LEMMA SendValue ==
  ASSUME NEW t \in Sessions, NEW p \in {"connected", "initialized"}
  PROVE  LET r == SetValue(t, p)
             path == IF p = "connected" /\ t.code THEN "init" ELSE "run"
         IN  /\ r \in Sessions /\ SameSession(r, t) /\ SameTimer(r, t)
             /\ r.finished = t.finished /\ r.spawned = t.spawned
             /\ r.resolved = t.resolved
             /\ \/ Breaks(r, t)
                \/ Takes(r, t, p) /\ r.sent = Append(t.sent, path)
<1> DEFINE r == SetValue(t, p)
<1>1. CASE t.fault # "none" \/ t.deleted \/ p \in t.set
  BY <1>1 DEF SetValue, Faulted, Sessions, SameSession, SameTimer, Breaks
<1>2. CASE ~ (t.fault # "none" \/ t.deleted \/ p \in t.set)
  <2> DEFINE path == IF p = "connected" /\ t.code THEN "init" ELSE "run"
  <2>1. r = [t EXCEPT !.set = t.set \cup {p}, !.sent = Append(t.sent, path)]
    BY <1>2 DEF SetValue, Handler, OnConnected, OnInitialized, SendHttpRequest, Sessions
  <2>2. Append(t.sent, path) \in Seq({"init", "run"}) /\ t.set \cup {p} \in SUBSET Promises
    BY DEF Sessions, Promises
  <2> HIDE DEF r
  <2>3. r \in Sessions /\ SameSession(r, t) /\ SameTimer(r, t)
    BY <2>1, <2>2 DEF Sessions, SameSession, SameTimer
  <2>4. /\ r.finished = t.finished /\ r.spawned = t.spawned
        /\ r.resolved = t.resolved /\ r.sent = Append(t.sent, path)
        /\ Takes(r, t, p)
    BY <1>2, <2>1, <2>2 DEF Sessions, Takes
  <2> QED BY <2>3, <2>4 DEF r
<1> QED BY <1>1, <1>2

\* The handler of when_executed_ resolves the invocation with the reply.
LEMMA ExecutedValue ==
  ASSUME NEW t \in Sessions
  PROVE  LET r == SetValue(t, "executed")
         IN  /\ r \in Sessions /\ SameSession(r, t) /\ SameTimer(r, t)
             /\ r.finished = t.finished /\ r.spawned = t.spawned /\ r.sent = t.sent
             /\ \/ Breaks(r, t)
                \/ Takes(r, t, "executed") /\ r.resolved = t.reply_
<1> DEFINE r == SetValue(t, "executed")
<1>1. CASE t.fault # "none" \/ t.deleted \/ "executed" \in t.set
  BY <1>1 DEF SetValue, Faulted, Sessions, SameSession, SameTimer, Breaks
<1>2. CASE ~ (t.fault # "none" \/ t.deleted \/ "executed" \in t.set)
  <2>1. r = [t EXCEPT !.set = t.set \cup {"executed"}, !.resolved = t.reply_]
    BY <1>2 DEF SetValue, Handler, OnExecuted, Sessions
  <2>2. t.set \cup {"executed"} \in SUBSET Promises
    BY DEF Sessions, Promises
  <2> HIDE DEF r
  <2>3. r \in Sessions /\ SameSession(r, t) /\ SameTimer(r, t)
    BY <2>1, <2>2 DEF Sessions, SameSession, SameTimer
  <2>4. /\ r.finished = t.finished /\ r.spawned = t.spawned
        /\ r.resolved = t.reply_ /\ r.sent = t.sent
        /\ Takes(r, t, "executed")
    BY <1>2, <2>1, <2>2 DEF Sessions, Takes
  <2> QED BY <2>3, <2>4 DEF r
<1> QED BY <1>1, <1>2

\* The handlers of when_closed_ and when_aborted_ finish the session, once:
\* the timer stops and the blocked event is queued.
LEMMA EndValue ==
  ASSUME NEW t \in Sessions, t.spawned = <<>>, NEW p \in {"closed", "aborted"}
  PROVE  LET r == SetValue(t, p)
         IN  /\ r \in Sessions /\ SameSession(r, t)
             /\ r.sent = t.sent /\ r.resolved = t.resolved
             /\ \/ Breaks(r, t)
                \/ /\ Takes(r, t, p)
                   /\ t.finished = "unset"
                   /\ r.finished = IF p = "closed" THEN "true" ELSE "false"
                   /\ ~ r.timer_set /\ r.timeout_ = "clear"
                   /\ r.spawned = <<"resume">>
<1> DEFINE r == SetValue(t, p)
           status == IF p = "closed" THEN "true" ELSE "false"
<1>1. CASE t.fault # "none" \/ t.deleted \/ p \in t.set
  BY <1>1 DEF SetValue, Faulted, Sessions, SameSession, Breaks
<1>2. CASE ~ (t.fault # "none" \/ t.deleted \/ p \in t.set) /\ t.finished # "unset"
  <2>1. r = [t EXCEPT !.set = t.set \cup {p}, !.fault = "double_set"]
    BY <1>2 DEF SetValue, Handler, OnClosed, OnAborted, Finish, Faulted, Sessions
  <2>2. t.set \cup {p} \in SUBSET Promises
    BY DEF Sessions, Promises
  <2> HIDE DEF r
  <2>3. r \in Sessions /\ SameSession(r, t) /\ Breaks(r, t) /\ r.resolved = t.resolved
    BY <2>1, <2>2 DEF Sessions, SameSession, Breaks
  <2> QED BY <2>3 DEF r, Breaks
<1>3. CASE ~ (t.fault # "none" \/ t.deleted \/ p \in t.set) /\ t.finished = "unset"
  <2>1. r = [t EXCEPT !.set = t.set \cup {p}, !.timer_set = FALSE, !.timeout_ = "clear",
                      !.finished = status, !.spawned = Append(t.spawned, "resume")]
    BY <1>3 DEF SetValue, Handler, OnClosed, OnAborted, Finish, DisableTimer, Sessions
  <2>2. t.set \cup {p} \in SUBSET Promises
    BY DEF Sessions, Promises
  <2>3. Append(t.spawned, "resume") = <<"resume">> /\ "resume" \in Queued
    BY DEF Queued
  <2> HIDE DEF r
  <2>4. r \in Sessions /\ SameSession(r, t)
    BY <2>1, <2>2, <2>3 DEF Sessions, SameSession
  <2>5. /\ r.sent = t.sent /\ r.resolved = t.resolved /\ Takes(r, t, p)
        /\ r.finished = status /\ ~ r.timer_set /\ r.timeout_ = "clear"
        /\ r.spawned = <<"resume">>
    BY <1>3, <2>1, <2>2, <2>3 DEF Sessions, Takes
  <2> QED BY <1>3, <2>4, <2>5 DEF r
<1> QED BY <1>1, <1>2, <1>3

\* A connection: the timer of the whole exchange is armed, and when_connected_
\* set now or by an event of its own.
LEMMA ConnectedFacts ==
  ASSUME NEW t \in Sessions, t.spawned = <<>>, t.sent = <<>>
  PROVE  LET r == Connected(t)
             path == IF t.code THEN "init" ELSE "run"
         IN  /\ r \in Sessions
             /\ r.code = t.code /\ r.deleted = t.deleted
             /\ r.is_connected_ /\ r.timer_set /\ r.timeout_ = "run"
             /\ r.is_initialized_ = t.is_initialized_
             /\ r.finished = t.finished /\ r.resolved = t.resolved
             /\ \/ Breaks(r, t)
                \/ /\ r.fault = t.fault /\ r.set = t.set /\ r.sent = <<>>
                   /\ r.spawned = <<"connected">>
                \/ /\ Takes(r, t, "connected") /\ r.sent = <<path>>
                   /\ r.spawned = <<>>
<1> DEFINE u == [t EXCEPT !.is_connected_ = TRUE, !.timer_set = TRUE, !.timeout_ = "run"]
           r == Connected(t)
<1>1. r = SpawnLocal(u, "connected")
  BY DEF Connected, EnableTimer, DisableTimer, Sessions
<1>2. /\ u \in Sessions /\ u.spawned = <<>> /\ u.sent = <<>>
      /\ u.code = t.code /\ u.deleted = t.deleted /\ u.sync = t.sync
      /\ u.is_connected_ /\ u.timer_set /\ u.timeout_ = "run"
      /\ u.is_initialized_ = t.is_initialized_
      /\ u.finished = t.finished /\ u.resolved = t.resolved
      /\ u.fault = t.fault /\ u.set = t.set
  BY DEF Sessions
<1> HIDE DEF u, r
<1>3. CASE ~ u.sync
  <2>1. r = [u EXCEPT !.spawned = <<"connected">>]
    <3>1. Append(u.spawned, "connected") = <<"connected">>
      BY <1>2
    <3> QED BY <1>1, <1>3, <3>1 DEF SpawnLocal
  <2>2. <<"connected">> \in {<<e>> : e \in Queued}
    BY DEF Queued
  <2>3. /\ r \in Sessions
        /\ r.code = u.code /\ r.deleted = u.deleted
        /\ r.is_connected_ = u.is_connected_
        /\ r.timer_set = u.timer_set /\ r.timeout_ = u.timeout_
        /\ r.is_initialized_ = u.is_initialized_
        /\ r.finished = u.finished /\ r.resolved = u.resolved
        /\ r.fault = u.fault /\ r.set = u.set /\ r.sent = u.sent
        /\ r.spawned = <<"connected">>
    BY <1>2, <2>1, <2>2 DEF Sessions
  <2> QED BY <1>2, <2>3 DEF r
<1>4. CASE u.sync
  <2>1. r = SetValue(u, "connected")
    BY <1>1, <1>4 DEF SpawnLocal
  <2> DEFINE path == IF t.code THEN "init" ELSE "run"
  <2>2. /\ r \in Sessions /\ SameSession(r, u) /\ SameTimer(r, u)
        /\ r.finished = u.finished /\ r.spawned = u.spawned
        /\ r.resolved = u.resolved
        /\ \/ Breaks(r, u)
           \/ Takes(r, u, "connected") /\ r.sent = Append(u.sent, path)
    BY <1>2, <2>1, SendValue
  <2>3. Append(u.sent, path) = <<path>>
    BY <1>2
  <2> QED BY <1>2, <2>2, <2>3 DEF r, SameSession, SameTimer, Breaks, Takes
<1> QED BY <1>3, <1>4

\* The end of a connection, by its close, its reset or the timer: the timer is
\* stopped, and the promise set now or by an event of its own.
LEMMA EndFacts ==
  ASSUME NEW t \in Sessions, t.spawned = <<>>, NEW p \in {"closed", "aborted"}
  PROVE  LET r == IF p = "closed" THEN Close(t) ELSE Abort(t)
         IN  /\ r \in Sessions
             /\ r.code = t.code /\ r.deleted = t.deleted /\ r.sent = t.sent
             /\ ~ r.is_connected_ /\ r.is_initialized_ = t.is_initialized_
             /\ r.resolved = t.resolved
             /\ \/ Breaks(r, t)
                \/ /\ r.fault = t.fault /\ r.set = t.set /\ r.finished = t.finished
                   /\ ~ r.timer_set /\ r.spawned = <<p>>
                \/ /\ Takes(r, t, p) /\ t.finished = "unset"
                   /\ r.finished = IF p = "closed" THEN "true" ELSE "false"
                   /\ ~ r.timer_set /\ r.spawned = <<"resume">>
<1> DEFINE u == [t EXCEPT !.is_connected_ = FALSE, !.timer_set = FALSE, !.timeout_ = "clear"]
           r == IF p = "closed" THEN Close(t) ELSE Abort(t)
<1>1. r = SpawnLocal(u, p)
  BY DEF Close, Abort, DisableTimer, Sessions
<1>2. /\ u \in Sessions /\ u.spawned = <<>> /\ u.sent = t.sent
      /\ u.code = t.code /\ u.deleted = t.deleted /\ u.sync = t.sync
      /\ ~ u.is_connected_ /\ ~ u.timer_set
      /\ u.is_initialized_ = t.is_initialized_
      /\ u.finished = t.finished /\ u.resolved = t.resolved
      /\ u.fault = t.fault /\ u.set = t.set
  BY DEF Sessions
<1> HIDE DEF u, r
<1>3. CASE ~ u.sync
  <2>1. r = [u EXCEPT !.spawned = <<p>>]
    <3>1. Append(u.spawned, p) = <<p>>
      BY <1>2
    <3> QED BY <1>1, <1>3, <3>1 DEF SpawnLocal
  <2>2. <<p>> \in {<<e>> : e \in Queued}
    BY DEF Queued
  <2>3. /\ r \in Sessions
        /\ r.code = u.code /\ r.deleted = u.deleted
        /\ r.is_connected_ = u.is_connected_ /\ r.timer_set = u.timer_set
        /\ r.is_initialized_ = u.is_initialized_
        /\ r.finished = u.finished /\ r.resolved = u.resolved
        /\ r.fault = u.fault /\ r.set = u.set /\ r.sent = u.sent
        /\ r.spawned = <<p>>
    BY <1>2, <2>1, <2>2 DEF Sessions
  <2> QED BY <1>2, <2>3 DEF r
<1>4. CASE u.sync
  <2>1. r = SetValue(u, p)
    BY <1>1, <1>4 DEF SpawnLocal
  <2>2. /\ r \in Sessions /\ SameSession(r, u)
        /\ r.sent = u.sent /\ r.resolved = u.resolved
        /\ \/ Breaks(r, u)
           \/ /\ Takes(r, u, p)
              /\ u.finished = "unset"
              /\ r.finished = IF p = "closed" THEN "true" ELSE "false"
              /\ ~ r.timer_set /\ r.timeout_ = "clear"
              /\ r.spawned = <<"resume">>
    BY <1>2, <2>1, EndValue
  <2> QED BY <1>2, <2>2 DEF r, SameSession, Breaks, Takes
<1> QED BY <1>3, <1>4

\* What a segment holds, as far as the proofs need it.
LEMMA SegmentFacts ==
  ASSUME NEW n \in DOMAIN Segments
  PROVE  LET b == Segments[n]
         IN  /\ b.status200 \in BOOLEAN /\ b.brace \in BOOLEAN /\ b.body \in Bodies
             /\ b.brace => b.body # "none"
             /\ b.body = "failure" => ~ b.status200
             /\ b.body = "OK" => b.status200
<1>1. DOMAIN Segments = {"ok", "result", "failure", "head", "part", "rest", "tail"}
  BY DEF Segments
<1> DEFINE Is(m, status200, brace, body) ==
             /\ Segments[m].status200 = status200 /\ Segments[m].brace = brace
             /\ Segments[m].body = body
<1>2. /\ Is("ok", TRUE, TRUE, "OK") /\ Is("result", TRUE, TRUE, "result")
      /\ Is("failure", FALSE, TRUE, "failure") /\ Is("head", TRUE, FALSE, "none")
      /\ Is("part", TRUE, TRUE, "truncated") /\ Is("rest", FALSE, TRUE, "truncated")
      /\ Is("tail", FALSE, FALSE, "none")
  BY DEF Segments
<1> QED BY <1>1, <1>2 DEF Bodies

\* A segment ends up in an exception, an initialisation, or a reply; a response
\* that is not "200 OK" has then finished the session with a failure.
LEMMA ReceiveFacts ==
  ASSUME NEW t \in Sessions, t.spawned = <<>>, t.sent = <<>>, t.fault = "none",
         NEW n \in DOMAIN Segments
  PROVE  LET r == Receive(t, Segments[n])
         IN  /\ r \in Sessions
             /\ r.code = t.code /\ r.deleted = t.deleted
             /\ r.is_connected_ = t.is_connected_
             /\ t.is_initialized_ => r.is_initialized_
             /\ "connected" \in r.set <=> "connected" \in t.set
             /\ \/ r.fault # "none" /\ r.sent = <<>> /\ r.spawned \in {<<>>, <<"resume">>}
                \/ /\ Takes(r, t, "initialized") /\ SameTimer(r, t)
                   /\ ~ t.is_initialized_ /\ r.is_initialized_
                   /\ r.finished = t.finished /\ r.resolved = t.resolved
                   /\ r.sent = <<"run">> /\ r.spawned = <<>>
                \/ /\ Takes(r, t, "executed") /\ SameTimer(r, t)
                   /\ r.is_initialized_ = t.is_initialized_
                   /\ r.finished = t.finished
                   /\ r.resolved \in Bodies \ {"none", "failure"}
                   /\ r.sent = <<>> /\ r.spawned = <<>>
                \/ /\ r.fault = "none" /\ ~ t.deleted
                   /\ "executed" \notin t.set /\ "executed" \in r.set
                   /\ r.is_initialized_ = t.is_initialized_
                   /\ t.finished = "unset" /\ r.finished = "false"
                   /\ r.resolved \in Bodies \ {"none"}
                   /\ ~ r.timer_set
                   /\ r.sent = <<>> /\ r.spawned = <<"resume">>
<1> DEFINE b == Segments[n]
           r == Receive(t, b)
           u == IF b.status200 THEN t ELSE SetValue([t EXCEPT !.reply_ = b.body], "aborted")
<1>0. /\ b.status200 \in BOOLEAN /\ b.brace \in BOOLEAN /\ b.body \in Bodies
      /\ b.brace => b.body # "none"
      /\ b.body = "failure" => ~ b.status200
      /\ b.body = "OK" => b.status200
  BY SegmentFacts
<1> HIDE DEF b
<1>1. CASE ~ b.brace
  <2>1. r = [t EXCEPT !.fault = "out_of_range"]
    BY <1>1 DEF Receive, Faulted
  <2> HIDE DEF r
  <2>2. /\ r \in Sessions /\ r.code = t.code /\ r.deleted = t.deleted
        /\ r.is_connected_ = t.is_connected_ /\ r.is_initialized_ = t.is_initialized_
        /\ r.set = t.set /\ r.sent = t.sent /\ r.spawned = t.spawned
        /\ r.fault = "out_of_range"
    BY <2>1 DEF Sessions
  <2> QED BY <2>2 DEF r, b
<1>2. CASE b.brace /\ b.status200
  <2>1. CASE b.body = "OK" /\ ~ t.is_initialized_
    <3> DEFINE v == [t EXCEPT !.is_initialized_ = TRUE]
    <3>1. /\ v \in Sessions /\ v.sent = <<>> /\ v.spawned = <<>> /\ v.is_initialized_
          /\ v.code = t.code /\ v.deleted = t.deleted
          /\ v.is_connected_ = t.is_connected_ /\ SameTimer(v, t)
          /\ v.finished = t.finished /\ v.resolved = t.resolved
          /\ v.fault = t.fault /\ v.set = t.set
      BY DEF Sessions, SameTimer
    <3>2. r = SetValue(v, "initialized")
      BY <1>2, <2>1 DEF Receive
    <3> HIDE DEF v, r
    <3>3. /\ r \in Sessions /\ SameSession(r, v) /\ SameTimer(r, v)
          /\ r.finished = v.finished /\ r.spawned = v.spawned
          /\ r.resolved = v.resolved
          /\ \/ Breaks(r, v)
             \/ Takes(r, v, "initialized") /\ r.sent = Append(v.sent, "run")
      BY <3>1, <3>2, SendValue
    <3>4. Append(v.sent, "run") = <<"run">>
      BY <3>1
    <3> QED BY <2>1, <3>1, <3>3, <3>4 DEF r, b, SameSession, SameTimer, Breaks, Takes
  <2>2. CASE ~ (b.body = "OK" /\ ~ t.is_initialized_)
    <3> DEFINE v == [t EXCEPT !.reply_ = b.body]
    <3>1. /\ v \in Sessions /\ v.sent = <<>> /\ v.spawned = <<>>
          /\ v.is_initialized_ = t.is_initialized_
          /\ v.code = t.code /\ v.deleted = t.deleted
          /\ v.is_connected_ = t.is_connected_ /\ SameTimer(v, t)
          /\ v.finished = t.finished /\ v.resolved = t.resolved
          /\ v.fault = t.fault /\ v.set = t.set /\ v.reply_ = b.body
      BY <1>0 DEF Sessions, SameTimer
    <3>2. r = SetValue(v, "executed")
      BY <1>2, <2>2 DEF Receive
    <3> HIDE DEF v, r
    <3>3. /\ r \in Sessions /\ SameSession(r, v) /\ SameTimer(r, v)
          /\ r.finished = v.finished /\ r.spawned = v.spawned /\ r.sent = v.sent
          /\ \/ Breaks(r, v)
             \/ Takes(r, v, "executed") /\ r.resolved = v.reply_
      BY <3>1, <3>2, ExecutedValue
    <3> QED BY <1>0, <1>2, <3>1, <3>3 DEF r, b, SameSession, SameTimer, Breaks, Takes
  <2> QED BY <2>1, <2>2
<1>3. CASE b.brace /\ ~ b.status200
  <2> DEFINE w == [t EXCEPT !.reply_ = b.body]
             x == SetValue(w, "aborted")
             v == [x EXCEPT !.reply_ = b.body]
  <2>1. r = SetValue(v, "executed")
    BY <1>0, <1>3 DEF Receive
  <2>2. /\ w \in Sessions /\ w.sent = <<>> /\ w.spawned = <<>>
        /\ w.is_initialized_ = t.is_initialized_
        /\ w.code = t.code /\ w.deleted = t.deleted
        /\ w.is_connected_ = t.is_connected_
        /\ w.finished = t.finished /\ w.resolved = t.resolved
        /\ w.fault = t.fault /\ w.set = t.set
    BY <1>0 DEF Sessions
  <2> HIDE DEF w
  <2>3. /\ x \in Sessions /\ SameSession(x, w)
        /\ x.sent = w.sent /\ x.resolved = w.resolved
        /\ \/ Breaks(x, w)
           \/ /\ Takes(x, w, "aborted")
              /\ w.finished = "unset" /\ x.finished = "false"
              /\ ~ x.timer_set
              /\ x.spawned = <<"resume">>
    BY <2>2, EndValue
  <2> HIDE DEF x
  <2>4. /\ v \in Sessions /\ v.sent = x.sent /\ v.spawned = x.spawned
        /\ v.is_initialized_ = x.is_initialized_
        /\ v.code = x.code /\ v.deleted = x.deleted
        /\ v.is_connected_ = x.is_connected_ /\ SameTimer(v, x)
        /\ v.finished = x.finished /\ v.resolved = x.resolved
        /\ v.fault = x.fault /\ v.set = x.set /\ v.reply_ = b.body
    BY <1>0, <2>3 DEF Sessions, SameTimer
  <2> HIDE DEF v, r
  <2>5. /\ r \in Sessions /\ SameSession(r, v) /\ SameTimer(r, v)
        /\ r.finished = v.finished /\ r.spawned = v.spawned /\ r.sent = v.sent
        /\ \/ Breaks(r, v)
           \/ Takes(r, v, "executed") /\ r.resolved = v.reply_
    BY <2>1, <2>4, ExecutedValue
  <2>6. /\ r \in Sessions
        /\ r.code = t.code /\ r.deleted = t.deleted
        /\ r.is_connected_ = t.is_connected_
        /\ r.is_initialized_ = t.is_initialized_
        /\ r.sent = <<>> /\ r.finished = x.finished /\ r.spawned = x.spawned
    BY <2>2, <2>3, <2>4, <2>5 DEF SameSession
  <2>7. "connected" \in r.set <=> "connected" \in t.set
    BY <2>2, <2>3, <2>4, <2>5 DEF Breaks, Takes
  <2>8. x.spawned \in {<<>>, <<"resume">>}
    BY <2>2, <2>3 DEF Breaks
  <2>9. CASE Breaks(r, v)
    BY <2>6, <2>7, <2>8, <2>9 DEF r, b, Breaks
  <2>10. CASE Takes(r, v, "executed") /\ r.resolved = v.reply_
    <3>1. Takes(x, w, "aborted") /\ w.finished = "unset" /\ x.finished = "false"
          /\ ~ x.timer_set /\ x.spawned = <<"resume">>
      BY <2>3, <2>4, <2>10 DEF Takes, Breaks
    <3>2. /\ r.fault = "none" /\ ~ t.deleted
          /\ "executed" \notin t.set /\ "executed" \in r.set
      BY <2>2, <2>4, <2>10, <3>1 DEF Takes
    <3>3. /\ t.finished = "unset" /\ r.finished = "false"
          /\ r.resolved \in Bodies \ {"none"}
          /\ ~ r.timer_set /\ r.spawned = <<"resume">>
      BY <1>0, <1>3, <2>2, <2>4, <2>5, <2>6, <2>10, <3>1 DEF SameTimer
    <3> QED BY <2>6, <2>7, <3>2, <3>3 DEF r, b
  <2> QED BY <2>5, <2>9, <2>10
<1> QED BY <1>0, <1>1, <1>2, <1>3 DEF b

-----------------------------------------------------------------------------
(* The queue of events.                                                    *)

In(e, E) == \E i \in DOMAIN E : E[i] = e

\* The blocked event is queued at most once.
OneResume(E) == \A i, j \in DOMAIN E : E[i] = "resume" /\ E[j] = "resume" => i = j

\* An event leaves the head of the queue.
LEMMA TailFacts ==
  ASSUME NEW S, NEW E \in Seq(S), E # <<>>
  PROVE  /\ Tail(E) \in Seq(S) /\ Head(E) \in S
         /\ \A e : In(e, E) <=> e = Head(E) \/ In(e, Tail(E))
         /\ OneResume(E) => /\ OneResume(Tail(E))
                            /\ Head(E) = "resume" => ~ In("resume", Tail(E))
<1> PICK n \in Nat : n = Len(E) /\ n > 0
  OBVIOUS
<1>1. /\ Tail(E) \in Seq(S) /\ Head(E) = E[1] /\ E[1] \in S
      /\ DOMAIN E = 1 .. n /\ DOMAIN Tail(E) = 1 .. n - 1
      /\ \A i \in 1 .. n - 1 : Tail(E)[i] = E[i + 1]
  OBVIOUS
<1>2. ASSUME NEW e PROVE In(e, E) <=> e = Head(E) \/ In(e, Tail(E))
  <2>1. ASSUME In(e, E) PROVE e = Head(E) \/ In(e, Tail(E))
    <3>1. PICK i \in 1 .. n : E[i] = e
      BY <2>1, <1>1 DEF In
    <3>2. CASE i = 1
      BY <3>1, <3>2, <1>1
    <3>3. CASE i # 1
      <4>1. i - 1 \in 1 .. n - 1 /\ (i - 1) + 1 = i
        BY <3>3
      <4>2. Tail(E)[i - 1] = e
        BY <4>1, <3>1, <1>1
      <4> QED BY <4>1, <4>2, <1>1 DEF In
    <3> QED BY <3>2, <3>3
  <2>2. ASSUME In(e, Tail(E)) PROVE In(e, E)
    <3>1. PICK i \in 1 .. n - 1 : Tail(E)[i] = e
      BY <2>2, <1>1 DEF In
    <3>2. i + 1 \in 1 .. n /\ E[i + 1] = e
      BY <3>1, <1>1
    <3> QED BY <3>2, <1>1 DEF In
  <2>3. Head(E) = e => In(e, E)
    BY <1>1 DEF In
  <2> QED BY <2>1, <2>2, <2>3
<1>3. ASSUME OneResume(E)
      PROVE  OneResume(Tail(E)) /\ (Head(E) = "resume" => ~ In("resume", Tail(E)))
  BY <1>1, <1>3 DEF OneResume, In
<1> QED BY <1>1, <1>2, <1>3

\* An event joins it.
LEMMA SpawnFacts ==
  ASSUME NEW S, NEW E \in Seq(S), NEW x \in S
  PROVE  /\ E \o <<x>> \in Seq(S)
         /\ \A e : In(e, E \o <<x>>) <=> e = x \/ In(e, E)
         /\ OneResume(E) /\ (x = "resume" => ~ In("resume", E)) => OneResume(E \o <<x>>)
<1> PICK n \in Nat : n = Len(E)
  OBVIOUS
<1> DEFINE F == E \o <<x>>
<1>1. /\ F \in Seq(S) /\ DOMAIN E = 1 .. n /\ DOMAIN F = 1 .. n + 1
      /\ F[n + 1] = x /\ \A i \in 1 .. n : F[i] = E[i]
  OBVIOUS
<1> HIDE DEF F
<1>2. \A e : In(e, F) <=> e = x \/ In(e, E)
  BY <1>1 DEF In
<1>3. OneResume(E) /\ (x = "resume" => ~ In("resume", E)) => OneResume(F)
  BY <1>1 DEF OneResume, In
<1> QED BY <1>1, <1>2, <1>3 DEF F

\* What a session has sent, when an event adds nothing or one request to it.
LEMMA ConcatFacts ==
  ASSUME NEW S, NEW E \in Seq(S)
  PROVE  /\ E \o <<>> = E
         /\ \A x \in S : E \o <<x>> = Append(E, x)
<1>1. E \o <<>> = E
  BY ConcatEmptySeq
<1>2. ASSUME NEW x \in S PROVE E \o <<x>> = Append(E, x)
  OBVIOUS
<1> QED BY <1>1, <1>2

-----------------------------------------------------------------------------
(* The steps.                                                              *)

\* The type of a session between two events.
LEMMA TypeSession ==
  TypeOK <=> /\ s \in Sessions /\ s.spawned = <<>>
             /\ events \in Seq(Promises \cup {"connect", "resume"})
             /\ conn \in {"none", "connecting", "open", "closed", "aborted", "deleted"}
             /\ server \in Seq(DOMAIN Segments \cup {"init", "run"})
BY DEF TypeOK, Sessions

\* What an event starts from.
LEMMA FreshFacts ==
  ASSUME TypeOK
  PROVE  /\ Fresh \in Sessions /\ Fresh.spawned = <<>> /\ Fresh.sent = <<>>
         /\ SameSession(Fresh, s) /\ SameTimer(Fresh, s)
         /\ Fresh.finished = s.finished /\ Fresh.resolved = s.resolved
         /\ Fresh.fault = s.fault /\ Fresh.set = s.set
<1>1. s \in Sessions /\ s.spawned = <<>> /\ <<>> \in Seq({"init", "run"})
  BY TypeSession
<1>2. Fresh = [s EXCEPT !.sent = <<>>]
  BY DEF Fresh
<1>3. Fresh \in Sessions /\ Fresh.spawned = <<>> /\ Fresh.sent = <<>>
  BY <1>1, <1>2 DEF Sessions
<1>4. /\ SameSession(Fresh, s) /\ SameTimer(Fresh, s)
      /\ Fresh.finished = s.finished /\ Fresh.resolved = s.resolved
      /\ Fresh.fault = s.fault /\ Fresh.set = s.set
  BY <1>1, <1>2 DEF Sessions, SameSession, SameTimer
<1> QED BY <1>3, <1>4

\* What an event leaves.
LEMMA BecomesFacts ==
  ASSUME TypeOK, NEW t \in Sessions,
         s' = [t EXCEPT !.spawned = <<>>, !.sent = s.sent \o t.sent]
  PROVE  /\ s' \in Sessions /\ s'.spawned = <<>>
         /\ SameSession(s', t) /\ SameTimer(s', t)
         /\ s'.finished = t.finished /\ s'.resolved = t.resolved
         /\ s'.fault = t.fault /\ s'.set = t.set
         /\ s'.sent = s.sent \o t.sent
<1>1. s.sent \o t.sent \in Seq({"init", "run"})
  BY TypeSession DEF Sessions
<1> QED BY <1>1 DEF Sessions, SameSession, SameTimer

Events == Promises \cup {"connect", "resume"}

Requests == DOMAIN Segments \cup {"init", "run"}

\* A step that sends and spawns nothing.
LEMMA NothingAdded ==
  ASSUME TypeOK
  PROVE  /\ s.sent \o <<>> = s.sent /\ server \o <<>> = server
         /\ events \o <<>> = events
         /\ events # <<>> => Tail(events) \o <<>> = Tail(events)
<1>1. /\ s.sent \in Seq({"init", "run"}) /\ server \in Seq(Requests)
      /\ events \in Seq(Events)
  BY TypeSession DEF Sessions, Requests, Events
<1>2. events # <<>> => Tail(events) \in Seq(Events)
  BY <1>1, TailFacts
<1> QED BY <1>1, <1>2, ConcatFacts

\* A step that sends one request.
LEMMA OneSent ==
  ASSUME TypeOK
  PROVE  \A x \in {"init", "run"} : /\ s.sent \o <<x>> = Append(s.sent, x)
                                   /\ server \o <<x>> = Append(server, x)
<1>1. /\ s.sent \in Seq({"init", "run"}) /\ server \in Seq(Requests)
      /\ {"init", "run"} \subseteq Requests
  BY TypeSession DEF Sessions, Requests
<1> QED BY <1>1, ConcatFacts

\* The blocked event is queued, or an event that leads to Finish: E is the
\* queue the step leaves, before what it spawns.
EndStep(E, p) ==
  /\ s' \in Sessions /\ s'.spawned = <<>>
  /\ s'.code = s.code /\ s'.deleted = s.deleted /\ s'.sent = s.sent
  /\ s'.is_initialized_ = s.is_initialized_ /\ s'.resolved = s.resolved
  /\ "connected" \in s'.set <=> "connected" \in s.set
  /\ "executed" \in s'.set \/ "executed" \notin s.set \/ s'.fault # "none"
  /\ server' = server
  /\ \/ s'.fault # "none" /\ events' = E
     \/ /\ s'.fault = "none" /\ s'.finished = s.finished
        /\ ~ s'.timer_set /\ events' = E \o <<p>>
     \/ /\ s'.fault = "none" /\ ~ s.deleted
        /\ s.finished = "unset" /\ s'.finished = IF p = "closed" THEN "true" ELSE "false"
        /\ ~ s'.timer_set /\ events' = E \o <<"resume">>

\* when_connected_ is set, and sends the first request, or will be.
ConnectedStep(E) ==
  LET path == IF s.code THEN "init" ELSE "run"
  IN  /\ s' \in Sessions /\ s'.spawned = <<>>
      /\ s'.code = s.code /\ s'.deleted = s.deleted
      /\ s'.is_initialized_ = s.is_initialized_ /\ s'.resolved = s.resolved
      /\ s'.finished = s.finished
      /\ "executed" \in s'.set \/ "executed" \notin s.set \/ s'.fault # "none"
      /\ \/ /\ s'.fault # "none" /\ s'.sent = s.sent
            /\ "connected" \in s'.set <=> "connected" \in s.set
            /\ events' = E /\ server' = server
         \/ /\ s'.fault = "none" /\ s'.set = s.set /\ s'.sent = s.sent
            /\ events' = E \o <<"connected">> /\ server' = server
         \/ /\ s'.fault = "none"
            /\ "connected" \notin s.set /\ "connected" \in s'.set
            /\ s'.sent = Append(s.sent, path)
            /\ events' = E /\ server' \in {server, Append(server, path)}

\* What the event at the head of the queue does to the session.
Effect(e) ==
  CASE e = "connect" -> Connect(Fresh)
    [] e = "resume"  -> [Fresh EXCEPT !.deleted = TRUE]
    [] OTHER         -> SetValue(Fresh, e)

\* RunEvent takes the event off the queue and applies it.
LEMMA RunEffect ==
  ASSUME RunEvent
  PROVE  LET e == Head(events)
             t == Effect(e)
         IN  /\ events # <<>> /\ Running
             /\ s' = [t EXCEPT !.spawned = <<>>, !.sent = s.sent \o t.sent]
             /\ events' = Tail(events) \o t.spawned
             /\ e = "connect" => conn' = "connecting"
             /\ e = "resume" => conn' = "deleted"
             /\ e \notin {"connect", "resume"} => conn' = conn
             /\ server' = IF conn = "open" THEN server \o t.sent ELSE server
BY DEF RunEvent, Effect

\* The first event: Connect.
LEMMA RunConnect ==
  ASSUME TypeOK, RunEvent, Head(events) = "connect"
  PROVE  /\ s' \in Sessions /\ s'.spawned = <<>> /\ SameSession(s', s)
         /\ s'.set = s.set /\ s'.finished = s.finished
         /\ s'.resolved = s.resolved /\ s'.sent = s.sent
         /\ s'.fault = "none" =>
              ~ s.is_connected_ /\ s'.timer_set /\ s'.timeout_ = "connect"
         /\ events' = Tail(events) /\ conn' = "connecting" /\ server' = server
<1> DEFINE t == Connect(Fresh)
<1>1. /\ Fresh \in Sessions /\ Fresh.spawned = <<>> /\ Fresh.sent = <<>>
      /\ SameSession(Fresh, s)
      /\ Fresh.finished = s.finished /\ Fresh.resolved = s.resolved
      /\ Fresh.fault = s.fault /\ Fresh.set = s.set
  BY FreshFacts
<1>2. /\ t \in Sessions /\ t.spawned = <<>> /\ t.sent = <<>> /\ SameSession(t, Fresh)
      /\ t.set = Fresh.set /\ t.finished = Fresh.finished /\ t.resolved = Fresh.resolved
      /\ t.fault = "none" =>
           ~ Fresh.is_connected_ /\ t.timer_set /\ t.timeout_ = "connect"
  <2>1. CASE Fresh.is_connected_
    BY <1>1, <2>1 DEF Connect, Faulted, Sessions, SameSession
  <2>2. CASE ~ Fresh.is_connected_
    BY <1>1, <2>2 DEF Connect, EnableTimer, Sessions, SameSession
  <2> QED BY <2>1, <2>2
<1> HIDE DEF t
<1>3. /\ s' = [t EXCEPT !.spawned = <<>>, !.sent = s.sent \o t.sent]
      /\ events' = Tail(events) \o t.spawned
      /\ conn' = "connecting"
      /\ server' = IF conn = "open" THEN server \o t.sent ELSE server
  BY RunEffect DEF Effect, t
<1>4. /\ s' \in Sessions /\ s'.spawned = <<>>
      /\ SameSession(s', t) /\ SameTimer(s', t)
      /\ s'.finished = t.finished /\ s'.resolved = t.resolved
      /\ s'.fault = t.fault /\ s'.set = t.set
      /\ s'.sent = s.sent \o t.sent
  BY <1>2, <1>3, BecomesFacts
<1>5. /\ s.sent \o <<>> = s.sent /\ server \o <<>> = server
      /\ Tail(events) \o <<>> = Tail(events)
  BY NothingAdded DEF RunEvent
<1> QED BY <1>1, <1>2, <1>3, <1>4, <1>5 DEF SameSession, SameTimer

\* The blocked event goes on: the session and its PCB are deleted.
LEMMA RunResume ==
  ASSUME TypeOK, RunEvent, Head(events) = "resume"
  PROVE  /\ s' \in Sessions /\ s'.spawned = <<>> /\ s'.deleted
         /\ s'.code = s.code /\ s'.is_connected_ = s.is_connected_
         /\ s'.is_initialized_ = s.is_initialized_
         /\ s'.set = s.set /\ s'.finished = s.finished
         /\ s'.resolved = s.resolved /\ s'.sent = s.sent /\ s'.fault = s.fault
         /\ SameTimer(s', s)
         /\ events' = Tail(events) /\ conn' = "deleted" /\ server' = server
<1> DEFINE t == [Fresh EXCEPT !.deleted = TRUE]
<1>1. /\ Fresh \in Sessions /\ Fresh.spawned = <<>> /\ Fresh.sent = <<>>
      /\ SameSession(Fresh, s) /\ SameTimer(Fresh, s)
      /\ Fresh.finished = s.finished /\ Fresh.resolved = s.resolved
      /\ Fresh.fault = s.fault /\ Fresh.set = s.set
  BY FreshFacts
<1>2. /\ t \in Sessions /\ t.spawned = <<>> /\ t.sent = <<>> /\ t.deleted
      /\ t.code = Fresh.code /\ t.is_connected_ = Fresh.is_connected_
      /\ t.is_initialized_ = Fresh.is_initialized_
      /\ t.set = Fresh.set /\ t.finished = Fresh.finished /\ t.resolved = Fresh.resolved
      /\ t.fault = Fresh.fault /\ SameTimer(t, Fresh)
  BY <1>1 DEF Sessions, SameTimer
<1> HIDE DEF t
<1>3. /\ s' = [t EXCEPT !.spawned = <<>>, !.sent = s.sent \o t.sent]
      /\ events' = Tail(events) \o t.spawned
      /\ conn' = "deleted"
      /\ server' = IF conn = "open" THEN server \o t.sent ELSE server
  <2>1. Effect("resume") = t
    BY DEF Effect, t
  <2> QED BY <2>1, RunEffect
<1>4. /\ s' \in Sessions /\ s'.spawned = <<>>
      /\ SameSession(s', t) /\ SameTimer(s', t)
      /\ s'.finished = t.finished /\ s'.resolved = t.resolved
      /\ s'.fault = t.fault /\ s'.set = t.set
      /\ s'.sent = s.sent \o t.sent
  BY <1>2, <1>3, BecomesFacts
<1>5. /\ s.sent \o <<>> = s.sent /\ server \o <<>> = server
      /\ Tail(events) \o <<>> = Tail(events)
  BY NothingAdded DEF RunEvent
<1> QED BY <1>1, <1>2, <1>3, <1>4, <1>5 DEF SameSession, SameTimer

\* A queued when_connected_.
LEMMA RunConnected ==
  ASSUME TypeOK, RunEvent, Head(events) = "connected"
  PROVE  /\ ConnectedStep(Tail(events)) /\ conn' = conn
         /\ s'.is_connected_ = s.is_connected_ /\ SameTimer(s', s)
<1> DEFINE t == SetValue(Fresh, "connected")
           path == IF s.code THEN "init" ELSE "run"
<1>1. /\ Fresh \in Sessions /\ Fresh.spawned = <<>> /\ Fresh.sent = <<>>
      /\ SameSession(Fresh, s) /\ SameTimer(Fresh, s)
      /\ Fresh.finished = s.finished /\ Fresh.resolved = s.resolved
      /\ Fresh.fault = s.fault /\ Fresh.set = s.set
  BY FreshFacts
<1>2. /\ t \in Sessions /\ SameSession(t, Fresh) /\ SameTimer(t, Fresh)
      /\ t.finished = Fresh.finished /\ t.spawned = <<>>
      /\ t.resolved = Fresh.resolved
      /\ \/ t.fault # "none" /\ t.sent = <<>>
            /\ ("connected" \in t.set <=> "connected" \in s.set)
         \/ Takes(t, Fresh, "connected") /\ t.sent = <<path>>
  <2>1. Append(Fresh.sent, path) = <<path>>
    BY <1>1
  <2> QED BY <1>1, <2>1, SendValue DEF SameSession, Breaks
<1>3. /\ s' = [t EXCEPT !.spawned = <<>>, !.sent = s.sent \o t.sent]
      /\ events' = Tail(events) \o t.spawned
      /\ conn' = conn
      /\ server' = IF conn = "open" THEN server \o t.sent ELSE server
      /\ events # <<>>
  <2>1. Effect("connected") = t
    BY DEF Effect
  <2> QED BY <2>1, RunEffect
<1> HIDE DEF t
<1>4. /\ s' \in Sessions /\ s'.spawned = <<>>
      /\ SameSession(s', t) /\ SameTimer(s', t)
      /\ s'.finished = t.finished /\ s'.resolved = t.resolved
      /\ s'.fault = t.fault /\ s'.set = t.set
      /\ s'.sent = s.sent \o t.sent
  BY <1>2, <1>3, BecomesFacts
<1>5. /\ s'.code = s.code /\ s'.deleted = s.deleted
      /\ s'.is_initialized_ = s.is_initialized_ /\ s'.resolved = s.resolved
      /\ s'.finished = s.finished
      /\ s'.is_connected_ = s.is_connected_ /\ SameTimer(s', s)
      /\ events' = Tail(events)
  BY <1>1, <1>2, <1>3, <1>4, NothingAdded DEF SameSession, SameTimer
<1>6. CASE t.fault # "none" /\ t.sent = <<>>
           /\ ("connected" \in t.set <=> "connected" \in s.set)
  <2>1. s'.sent = s.sent /\ server' = server
    BY <1>3, <1>4, <1>6, NothingAdded
  <2> QED BY <1>3, <1>4, <1>5, <1>6, <2>1 DEF ConnectedStep
<1>7. CASE Takes(t, Fresh, "connected") /\ t.sent = <<path>>
  <2>1. s'.sent = Append(s.sent, path) /\ server' \in {server, Append(server, path)}
    BY <1>3, <1>4, <1>7, OneSent
  <2>2. /\ s'.fault = "none" /\ "connected" \notin s.set /\ "connected" \in s'.set
        /\ "executed" \in s'.set \/ "executed" \notin s.set
    BY <1>1, <1>4, <1>7 DEF Takes
  <2> QED BY <1>3, <1>4, <1>5, <2>1, <2>2 DEF ConnectedStep
<1> QED BY <1>2, <1>6, <1>7

\* A queued when_closed_ or when_aborted_.
LEMMA RunEnd ==
  ASSUME TypeOK, RunEvent, NEW p \in {"closed", "aborted"}, Head(events) = p
  PROVE  EndStep(Tail(events), p) /\ conn' = conn
<1> DEFINE t == SetValue(Fresh, p)
<1>1. /\ Fresh \in Sessions /\ Fresh.spawned = <<>> /\ Fresh.sent = <<>>
      /\ SameSession(Fresh, s)
      /\ Fresh.finished = s.finished /\ Fresh.resolved = s.resolved
      /\ Fresh.fault = s.fault /\ Fresh.set = s.set
  BY FreshFacts
<1>2. /\ t \in Sessions /\ SameSession(t, Fresh)
      /\ t.sent = Fresh.sent /\ t.resolved = Fresh.resolved
      /\ \/ Breaks(t, Fresh)
         \/ /\ Takes(t, Fresh, p)
            /\ Fresh.finished = "unset"
            /\ t.finished = IF p = "closed" THEN "true" ELSE "false"
            /\ ~ t.timer_set
            /\ t.spawned = <<"resume">>
  BY <1>1, EndValue
<1>3. /\ s' = [t EXCEPT !.spawned = <<>>, !.sent = s.sent \o t.sent]
      /\ events' = Tail(events) \o t.spawned
      /\ conn' = conn
      /\ server' = IF conn = "open" THEN server \o t.sent ELSE server
      /\ events # <<>>
  <2>1. Effect(p) = t /\ p \notin {"connect", "resume"}
    BY DEF Effect
  <2> QED BY <2>1, RunEffect
<1> HIDE DEF t
<1>4. /\ s' \in Sessions /\ s'.spawned = <<>>
      /\ SameSession(s', t) /\ SameTimer(s', t)
      /\ s'.finished = t.finished /\ s'.resolved = t.resolved
      /\ s'.fault = t.fault /\ s'.set = t.set
      /\ s'.sent = s.sent \o t.sent
  BY <1>2, <1>3, BecomesFacts
<1>5. /\ s'.code = s.code /\ s'.deleted = s.deleted /\ s'.sent = s.sent
      /\ s'.is_initialized_ = s.is_initialized_ /\ s'.resolved = s.resolved
      /\ server' = server
  BY <1>1, <1>2, <1>3, <1>4, NothingAdded DEF SameSession
<1>6. CASE Breaks(t, Fresh)
  <2>1. events' = Tail(events)
    BY <1>1, <1>3, <1>6, NothingAdded DEF Breaks
  <2> QED BY <1>1, <1>3, <1>4, <1>5, <1>6, <2>1 DEF EndStep, Breaks
<1>7. CASE /\ Takes(t, Fresh, p)
           /\ Fresh.finished = "unset"
           /\ t.finished = IF p = "closed" THEN "true" ELSE "false"
           /\ ~ t.timer_set
           /\ t.spawned = <<"resume">>
  <2>1. /\ "connected" \in s'.set <=> "connected" \in s.set
        /\ "executed" \in s'.set \/ "executed" \notin s.set
    BY <1>1, <1>4, <1>7 DEF Takes
  <2> QED BY <1>1, <1>3, <1>4, <1>5, <1>7, <2>1
          DEF EndStep, Takes, SameSession, SameTimer
<1> QED BY <1>2, <1>6, <1>7

\* The connection ends, by its close, its reset, or as the timer sees it.
LEMMA EndBecomes ==
  ASSUME TypeOK, NEW p \in {"closed", "aborted"}, NEW u \in Sessions,
         u.spawned = <<>>, u.sent = <<>>,
         SameSession(u, s), u.finished = s.finished, u.resolved = s.resolved,
         u.fault = s.fault, u.set = s.set, s.fault = "none",
         Becomes(IF p = "closed" THEN Close(u) ELSE Abort(u)), UNCHANGED server
  PROVE  EndStep(events, p)
<1> DEFINE t == IF p = "closed" THEN Close(u) ELSE Abort(u)
<1>1. /\ t \in Sessions
      /\ t.code = u.code /\ t.deleted = u.deleted /\ t.sent = u.sent
      /\ ~ t.is_connected_ /\ t.is_initialized_ = u.is_initialized_
      /\ t.resolved = u.resolved
      /\ \/ Breaks(t, u)
         \/ /\ t.fault = u.fault /\ t.set = u.set /\ t.finished = u.finished
            /\ ~ t.timer_set /\ t.spawned = <<p>>
         \/ /\ Takes(t, u, p) /\ u.finished = "unset"
            /\ t.finished = IF p = "closed" THEN "true" ELSE "false"
            /\ ~ t.timer_set /\ t.spawned = <<"resume">>
  BY EndFacts
<1>2. /\ s' = [t EXCEPT !.spawned = <<>>, !.sent = s.sent \o t.sent]
      /\ events' = events \o t.spawned
  BY DEF Becomes
<1> HIDE DEF t
<1>3. /\ s' \in Sessions /\ s'.spawned = <<>>
      /\ SameSession(s', t) /\ SameTimer(s', t)
      /\ s'.finished = t.finished /\ s'.resolved = t.resolved
      /\ s'.fault = t.fault /\ s'.set = t.set
      /\ s'.sent = s.sent \o t.sent
  BY <1>1, <1>2, BecomesFacts
<1>4. /\ s'.code = s.code /\ s'.deleted = s.deleted /\ s'.sent = s.sent
      /\ s'.is_initialized_ = s.is_initialized_ /\ s'.resolved = s.resolved
  BY <1>1, <1>3, NothingAdded DEF SameSession
<1>5. CASE Breaks(t, u)
  <2>1. events' = events
    BY <1>2, <1>5, NothingAdded DEF Breaks
  <2> QED BY <1>3, <1>4, <1>5, <2>1 DEF EndStep, Breaks
<1>6. CASE /\ t.fault = u.fault /\ t.set = u.set /\ t.finished = u.finished
           /\ ~ t.timer_set /\ t.spawned = <<p>>
  BY <1>2, <1>3, <1>4, <1>6 DEF EndStep, SameTimer
<1>7. CASE /\ Takes(t, u, p) /\ u.finished = "unset"
           /\ t.finished = IF p = "closed" THEN "true" ELSE "false"
           /\ ~ t.timer_set /\ t.spawned = <<"resume">>
  <2>1. /\ "connected" \in s'.set <=> "connected" \in s.set
        /\ "executed" \in s'.set \/ "executed" \notin s.set
        /\ s'.fault = "none" /\ ~ s.deleted
    BY <1>1, <1>3, <1>7 DEF Takes, SameSession
  <2> QED BY <1>2, <1>3, <1>4, <1>7, <2>1 DEF EndStep, SameTimer
<1> QED BY <1>1, <1>5, <1>6, <1>7

\* The PCB reports the end of a connection.
LEMMA TcpEnd ==
  ASSUME TypeOK, TcpClose \/ TcpAbort
  PROVE  \/ EndStep(events, "closed") /\ conn' = "closed" /\ conn = "open"
         \/ /\ EndStep(events, "aborted") /\ conn' = "aborted"
            /\ conn \in {"connecting", "open"}
<1>1. /\ Fresh \in Sessions /\ Fresh.spawned = <<>> /\ Fresh.sent = <<>>
      /\ SameSession(Fresh, s)
      /\ Fresh.finished = s.finished /\ Fresh.resolved = s.resolved
      /\ Fresh.fault = s.fault /\ Fresh.set = s.set
  BY FreshFacts
<1> HIDE DEF Fresh
<1>2. CASE TcpClose
  <2>1. /\ Becomes(Close(Fresh)) /\ UNCHANGED server /\ s.fault = "none"
        /\ conn' = "closed" /\ conn = "open"
    BY <1>2 DEF TcpClose, Running
  <2>2. Becomes(IF "closed" = "closed" THEN Close(Fresh) ELSE Abort(Fresh))
    BY <2>1
  <2> QED BY <1>1, <2>1, <2>2, EndBecomes
<1>3. CASE TcpAbort
  <2>1. /\ Becomes(Abort(Fresh)) /\ UNCHANGED server /\ s.fault = "none"
        /\ conn' = "aborted" /\ conn \in {"connecting", "open"}
    BY <1>3 DEF TcpAbort, Running
  <2>2. Becomes(IF "aborted" = "closed" THEN Close(Fresh) ELSE Abort(Fresh))
    BY <2>1
  <2> QED BY <1>1, <2>1, <2>2, EndBecomes
<1> QED BY <1>2, <1>3

\* The timer fires, with its phase recorded in timeout_.
LEMMA FireStep ==
  ASSUME TypeOK, TimerFires, s.timeout_ # "clear"
  PROVE  EndStep(events, "aborted") /\ conn' = conn
<1>1. /\ Fresh \in Sessions /\ Fresh.spawned = <<>> /\ Fresh.sent = <<>>
      /\ SameSession(Fresh, s) /\ SameTimer(Fresh, s)
      /\ Fresh.finished = s.finished /\ Fresh.resolved = s.resolved
      /\ Fresh.fault = s.fault /\ Fresh.set = s.set
  BY FreshFacts
<1> HIDE DEF Fresh
<1>2. s.fault = "none" /\ UNCHANGED <<conn, server>>
  BY DEF TimerFires, Running
<1>3. CASE s.deleted
  <2> DEFINE t == [Fresh EXCEPT !.fault = "use_after_free"]
  <2>1. Becomes(t)
    BY <1>3 DEF TimerFires, Faulted
  <2>2. /\ t \in Sessions /\ SameSession(t, s) /\ t.sent = <<>> /\ t.spawned = <<>>
        /\ t.resolved = s.resolved /\ t.set = s.set /\ t.fault = "use_after_free"
    BY <1>1 DEF Sessions, SameSession
  <2> HIDE DEF t
  <2>3. /\ s' \in Sessions /\ s'.spawned = <<>>
        /\ SameSession(s', t) /\ s'.resolved = t.resolved
        /\ s'.fault = t.fault /\ s'.set = t.set
        /\ s'.sent = s.sent \o t.sent
        /\ events' = events \o t.spawned
    BY <2>1, <2>2, BecomesFacts DEF Becomes
  <2> QED BY <1>2, <2>2, <2>3, NothingAdded DEF EndStep, SameSession
<1>4. CASE ~ s.deleted
  <2> DEFINE u == [Fresh EXCEPT !.timer_set = FALSE, !.timeout_ = "clear"]
  <2>1. Becomes(Abort(u))
    BY <1>1, <1>4 DEF TimerFires, Fire, SameTimer
  <2>2. /\ u \in Sessions /\ u.spawned = <<>> /\ u.sent = <<>>
        /\ SameSession(u, s) /\ u.finished = s.finished /\ u.resolved = s.resolved
        /\ u.fault = s.fault /\ u.set = s.set
    BY <1>1 DEF Sessions, SameSession
  <2> HIDE DEF u
  <2>3. Becomes(IF "aborted" = "closed" THEN Close(u) ELSE Abort(u))
    BY <2>1
  <2> QED BY <1>2, <2>2, <2>3, EndBecomes
<1> QED BY <1>3, <1>4

\* The connection is established.
LEMMA ConnectedBecomes ==
  ASSUME TypeOK, TcpConnected
  PROVE  /\ ConnectedStep(events) /\ conn = "connecting" /\ conn' = "open"
         /\ s'.timer_set /\ s'.is_connected_ /\ s'.timeout_ = "run"
<1> DEFINE t == Connected(Fresh)
           path == IF s.code THEN "init" ELSE "run"
<1>1. /\ Fresh \in Sessions /\ Fresh.spawned = <<>> /\ Fresh.sent = <<>>
      /\ SameSession(Fresh, s) /\ SameTimer(Fresh, s)
      /\ Fresh.finished = s.finished /\ Fresh.resolved = s.resolved
      /\ Fresh.fault = s.fault /\ Fresh.set = s.set
  BY FreshFacts
<1>2. /\ t \in Sessions
      /\ t.code = Fresh.code /\ t.deleted = Fresh.deleted
      /\ t.is_connected_ /\ t.timer_set /\ t.timeout_ = "run"
      /\ t.is_initialized_ = Fresh.is_initialized_
      /\ t.finished = Fresh.finished /\ t.resolved = Fresh.resolved
      /\ \/ Breaks(t, Fresh)
         \/ /\ t.fault = Fresh.fault /\ t.set = Fresh.set /\ t.sent = <<>>
            /\ t.spawned = <<"connected">>
         \/ /\ Takes(t, Fresh, "connected") /\ t.sent = <<path>>
            /\ t.spawned = <<>>
  BY <1>1, ConnectedFacts DEF SameSession
<1>3. /\ s' = [t EXCEPT !.spawned = <<>>, !.sent = s.sent \o t.sent]
      /\ events' = events \o t.spawned
      /\ server' = server \o t.sent
      /\ conn = "connecting" /\ conn' = "open" /\ s.fault = "none"
  BY DEF TcpConnected, Becomes, Running
<1> HIDE DEF t, Fresh
<1>4. /\ s' \in Sessions /\ s'.spawned = <<>>
      /\ SameSession(s', t) /\ SameTimer(s', t)
      /\ s'.finished = t.finished /\ s'.resolved = t.resolved
      /\ s'.fault = t.fault /\ s'.set = t.set
      /\ s'.sent = s.sent \o t.sent
  BY <1>2, <1>3, BecomesFacts
<1>5. /\ s'.code = s.code /\ s'.deleted = s.deleted
      /\ s'.is_initialized_ = s.is_initialized_ /\ s'.resolved = s.resolved
      /\ s'.finished = s.finished
      /\ s'.timer_set /\ s'.is_connected_ /\ s'.timeout_ = "run"
  BY <1>1, <1>2, <1>4 DEF SameSession, SameTimer
<1>6. CASE Breaks(t, Fresh)
  <2>1. s'.sent = s.sent /\ server' = server /\ events' = events
    BY <1>1, <1>3, <1>4, <1>6, NothingAdded DEF Breaks
  <2> QED BY <1>1, <1>3, <1>4, <1>5, <1>6, <2>1 DEF ConnectedStep, Breaks
<1>7. CASE t.fault = Fresh.fault /\ t.set = Fresh.set /\ t.sent = <<>>
           /\ t.spawned = <<"connected">>
  <2>1. s'.sent = s.sent /\ server' = server
    BY <1>3, <1>4, <1>7, NothingAdded
  <2> QED BY <1>1, <1>3, <1>4, <1>5, <1>7, <2>1 DEF ConnectedStep
<1>8. CASE Takes(t, Fresh, "connected") /\ t.sent = <<path>> /\ t.spawned = <<>>
  <2>1. /\ s'.sent = Append(s.sent, path) /\ server' = Append(server, path)
        /\ events' = events
    BY <1>3, <1>4, <1>8, NothingAdded, OneSent
  <2>2. /\ s'.fault = "none" /\ "connected" \notin s.set /\ "connected" \in s'.set
        /\ "executed" \in s'.set \/ "executed" \notin s.set
    BY <1>1, <1>4, <1>8 DEF Takes
  <2> QED BY <1>3, <1>4, <1>5, <2>1, <2>2 DEF ConnectedStep
<1> QED BY <1>2, <1>3, <1>5, <1>6, <1>7, <1>8

\* What is on its way from the server: a whole segment, or the first of two.
LEMMA AnswerFacts ==
  ASSUME NEW m \in Requests, NEW a \in Answers(m)
  PROVE  a[1] \in DOMAIN Segments /\ a[2] \in Seq(Requests)
<1>1. DOMAIN Segments = {"ok", "failure", "head", "result", "part", "rest", "tail"}
  BY DEF Segments
<1>2. <<>> \in Seq(Requests) /\ \A n \in Requests : <<n>> \in Seq(Requests)
  OBVIOUS
<1>3. CASE m = "init"
  <2> DEFINE split == IF MaySplit THEN {<<"head", <<"ok">>>>} ELSE {}
  <2>1. Answers("init") = {<<"ok", <<>>>>, <<"failure", <<>>>>} \cup split
    BY DEF Answers
  <2>2. split \subseteq {<<"head", <<"ok">>>>}
    OBVIOUS
  <2> HIDE DEF split
  <2>3. a = <<"ok", <<>>>> \/ a = <<"failure", <<>>>> \/ a = <<"head", <<"ok">>>>
    BY <1>3, <2>1, <2>2
  <2>4. /\ a[1] \in {"ok", "failure", "head"}
        /\ a[2] = <<>> \/ a[2] = <<"ok">>
    BY <2>3
  <2> QED BY <2>4, <1>1, <1>2 DEF Requests
<1>4. CASE m = "run"
  <2> DEFINE split == IF MaySplit THEN {<<"head", <<"result">>>>, <<"part", <<"rest">>>>,
                                        <<"part", <<"tail">>>>} ELSE {}
  <2>1. Answers("run") =
          {<<"ok", <<>>>>, <<"result", <<>>>>, <<"failure", <<>>>>} \cup split
    BY DEF Answers
  <2>2. split \subseteq {<<"head", <<"result">>>>, <<"part", <<"rest">>>>,
                         <<"part", <<"tail">>>>}
    OBVIOUS
  <2> HIDE DEF split
  <2>3. \/ a = <<"ok", <<>>>> \/ a = <<"result", <<>>>> \/ a = <<"failure", <<>>>>
        \/ a = <<"head", <<"result">>>> \/ a = <<"part", <<"rest">>>>
        \/ a = <<"part", <<"tail">>>>
    BY <1>4, <2>1, <2>2
  <2>4. /\ a[1] \in {"ok", "result", "failure", "head", "part"}
        /\ \/ a[2] = <<>> \/ a[2] = <<"result">> \/ a[2] = <<"rest">>
           \/ a[2] = <<"tail">>
    BY <2>3
  <2> QED BY <2>4, <1>1, <1>2 DEF Requests
<1>5. CASE m \notin {"init", "run"}
  <2>1. a = <<m, <<>>>>
    BY <1>5 DEF Answers
  <2> QED BY <2>1, <1>2, <1>5 DEF Requests
<1> QED BY <1>3, <1>4, <1>5

\* A segment arrives.
LEMMA ReceiveStep ==
  ASSUME TypeOK, TcpReceive
  PROVE  /\ s' \in Sessions /\ s'.spawned = <<>>
         /\ s'.code = s.code /\ s'.deleted = s.deleted
         /\ s'.is_connected_ = s.is_connected_
         /\ s.is_initialized_ => s'.is_initialized_
         /\ "connected" \in s'.set <=> "connected" \in s.set
         /\ conn = "open" /\ conn' = conn
         /\ server # <<>> /\ server' \in Seq(Requests)
         /\ events' = events \/ events' = events \o <<"resume">>
         /\ \/ s'.fault # "none" /\ s'.sent = s.sent
            \/ /\ s'.fault = "none" /\ SameTimer(s', s)
               /\ ~ s.is_initialized_ /\ s'.is_initialized_
               /\ s'.finished = s.finished /\ s'.resolved = s.resolved
               /\ "executed" \in s'.set \/ "executed" \notin s.set
               /\ s'.sent = Append(s.sent, "run") /\ events' = events
            \/ /\ s'.fault = "none" /\ SameTimer(s', s) /\ ~ s.deleted
               /\ s'.is_initialized_ = s.is_initialized_
               /\ s'.finished = s.finished
               /\ "executed" \notin s.set /\ "executed" \in s'.set
               /\ s'.resolved \notin {"none", "failure"}
               /\ s'.sent = s.sent /\ events' = events
            \/ /\ s'.fault = "none" /\ ~ s.deleted
               /\ s'.is_initialized_ = s.is_initialized_
               /\ s.finished = "unset" /\ s'.finished = "false"
               /\ "executed" \notin s.set /\ "executed" \in s'.set
               /\ s'.resolved # "none"
               /\ ~ s'.timer_set
               /\ s'.sent = s.sent /\ events' = events \o <<"resume">>
<1>1. /\ Fresh \in Sessions /\ Fresh.spawned = <<>> /\ Fresh.sent = <<>>
      /\ SameSession(Fresh, s) /\ SameTimer(Fresh, s)
      /\ Fresh.finished = s.finished /\ Fresh.resolved = s.resolved
      /\ Fresh.fault = s.fault /\ Fresh.set = s.set
  BY FreshFacts
<1>2. /\ conn = "open" /\ conn' = conn /\ server # <<>> /\ Fresh.fault = "none"
      /\ server \in Seq(Requests)
  BY <1>1, TypeSession DEF TcpReceive, Running, Requests
<1>3. Head(server) \in Requests /\ Tail(server) \in Seq(Requests)
  BY <1>2
<1>4. PICK a \in Answers(Head(server)) :
        LET t == Receive(Fresh, Segments[a[1]])
        IN  /\ Becomes(t)
            /\ server' = a[2] \o Tail(server) \o t.sent
  BY DEF TcpReceive
<1>5. a[1] \in DOMAIN Segments /\ a[2] \in Seq(Requests)
  BY <1>3, AnswerFacts
<1> DEFINE t == Receive(Fresh, Segments[a[1]])
<1>6. /\ t \in Sessions
      /\ t.code = Fresh.code /\ t.deleted = Fresh.deleted
      /\ t.is_connected_ = Fresh.is_connected_
      /\ Fresh.is_initialized_ => t.is_initialized_
      /\ "connected" \in t.set <=> "connected" \in Fresh.set
      /\ \/ t.fault # "none" /\ t.sent = <<>> /\ t.spawned \in {<<>>, <<"resume">>}
         \/ /\ Takes(t, Fresh, "initialized") /\ SameTimer(t, Fresh)
            /\ ~ Fresh.is_initialized_ /\ t.is_initialized_
            /\ t.finished = Fresh.finished /\ t.resolved = Fresh.resolved
            /\ t.sent = <<"run">> /\ t.spawned = <<>>
         \/ /\ Takes(t, Fresh, "executed") /\ SameTimer(t, Fresh)
            /\ t.is_initialized_ = Fresh.is_initialized_
            /\ t.finished = Fresh.finished
            /\ t.resolved \in Bodies \ {"none", "failure"}
            /\ t.sent = <<>> /\ t.spawned = <<>>
         \/ /\ t.fault = "none" /\ ~ Fresh.deleted
            /\ "executed" \notin Fresh.set /\ "executed" \in t.set
            /\ t.is_initialized_ = Fresh.is_initialized_
            /\ Fresh.finished = "unset" /\ t.finished = "false"
            /\ t.resolved \in Bodies \ {"none"}
            /\ ~ t.timer_set
            /\ t.sent = <<>> /\ t.spawned = <<"resume">>
  BY <1>1, <1>2, <1>5, ReceiveFacts
<1>7. /\ s' = [t EXCEPT !.spawned = <<>>, !.sent = s.sent \o t.sent]
      /\ events' = events \o t.spawned
      /\ server' = a[2] \o Tail(server) \o t.sent
  BY <1>4 DEF Becomes
<1> HIDE DEF t, Fresh
<1>8. /\ s' \in Sessions /\ s'.spawned = <<>>
      /\ SameSession(s', t) /\ SameTimer(s', t)
      /\ s'.finished = t.finished /\ s'.resolved = t.resolved
      /\ s'.fault = t.fault /\ s'.set = t.set
      /\ s'.sent = s.sent \o t.sent
  BY <1>6, <1>7, BecomesFacts
<1>9. /\ s'.code = s.code /\ s'.deleted = s.deleted
      /\ s'.is_connected_ = s.is_connected_
      /\ s.is_initialized_ => s'.is_initialized_
      /\ "connected" \in s'.set <=> "connected" \in s.set
  BY <1>1, <1>6, <1>8 DEF SameSession
<1>10. server' \in Seq(Requests)
  <2>1. a[2] \o Tail(server) \in Seq(Requests)
    BY <1>3, <1>5, ConcatProperties
  <2>2. t.sent \in {<<>>, <<"run">>} /\ "run" \in Requests
    BY <1>6 DEF Requests
  <2>3. <<>> \in Seq(Requests) /\ <<"run">> \in Seq(Requests)
    BY <2>2
  <2> QED BY <1>7, <2>1, <2>2, <2>3, ConcatProperties
<1>11. events' = events \/ events' = events \o <<"resume">>
  BY <1>6, <1>7, NothingAdded
<1>12. CASE t.fault # "none" /\ t.sent = <<>>
  BY <1>2, <1>8, <1>9, <1>10, <1>11, <1>12, NothingAdded
<1>13. CASE /\ Takes(t, Fresh, "initialized") /\ SameTimer(t, Fresh)
            /\ ~ Fresh.is_initialized_ /\ t.is_initialized_
            /\ t.finished = Fresh.finished /\ t.resolved = Fresh.resolved
            /\ t.sent = <<"run">> /\ t.spawned = <<>>
  <2>1. s'.sent = Append(s.sent, "run") /\ events' = events
    BY <1>7, <1>8, <1>13, NothingAdded, OneSent
  <2> QED BY <1>1, <1>2, <1>8, <1>9, <1>10, <1>13, <2>1
          DEF Takes, SameSession, SameTimer
<1>14. CASE /\ Takes(t, Fresh, "executed") /\ SameTimer(t, Fresh)
            /\ t.is_initialized_ = Fresh.is_initialized_
            /\ t.finished = Fresh.finished
            /\ t.resolved \in Bodies \ {"none", "failure"}
            /\ t.sent = <<>> /\ t.spawned = <<>>
  <2>1. s'.sent = s.sent /\ events' = events
    BY <1>7, <1>8, <1>14, NothingAdded
  <2> QED BY <1>1, <1>2, <1>8, <1>9, <1>10, <1>14, <2>1
          DEF Takes, SameSession, SameTimer
<1>15. CASE /\ t.fault = "none" /\ ~ Fresh.deleted
            /\ "executed" \notin Fresh.set /\ "executed" \in t.set
            /\ t.is_initialized_ = Fresh.is_initialized_
            /\ Fresh.finished = "unset" /\ t.finished = "false"
            /\ t.resolved \in Bodies \ {"none"}
            /\ ~ t.timer_set
            /\ t.sent = <<>> /\ t.spawned = <<"resume">>
  <2>1. s'.sent = s.sent /\ events' = events \o <<"resume">>
    BY <1>7, <1>8, <1>15, NothingAdded
  <2> QED BY <1>1, <1>2, <1>8, <1>9, <1>10, <1>15, <2>1 DEF SameSession, SameTimer
<1> QED BY <1>6, <1>12, <1>13, <1>14, <1>15

-----------------------------------------------------------------------------
(* The inductive invariant.                                                *)

\* The connection has ended without a failure the session was told of.
Ended == {"closed", "deleted"}

\* The event that opens the session comes first and alone; a queued
\* when_closed_ means that the connection is closed.
EventsInv ==
  /\ \A e : Pending(e) => e \in {"connect", "connected", "closed", "aborted", "resume"}
  /\ Pending("connect") => events = <<"connect">> /\ conn = "none" /\ ~ s.timer_set
  /\ Pending("closed") => conn \in Ended

\* The blocked event is queued once, after Finish; the status and what was
\* resolved agree on whether the response had failed.
EndInv ==
  Running =>
    /\ s.finished = "true" => conn \in Ended
    /\ Pending("resume") => s.finished # "unset" /\ ~ s.deleted
    /\ s.deleted => s.finished # "unset"
    /\ OneResume(events)
    /\ "executed" \in s.set \/ s.resolved = "none"
    /\ s.resolved = "failure" => s.finished = "false"

\* What a session with code has sent goes with the promises that are set.
SentInv ==
  s.code =>
    /\ "connected" \notin s.set => s.sent = <<>> /\ server = <<>>
    /\ "connected" \in s.set /\ ~ s.is_initialized_ => s.sent = <<"init">>
    /\ s.is_initialized_ =>
         "connected" \in s.set /\ s.sent \in {<<"init">>, <<"init", "run">>}

SessionInv == EventsInv /\ EndInv /\ SentInv /\ TimerMatchesPhase /\ AlwaysGuarded

\* A new session, with its one event.
LEMMA SessionInit ==
  Init => TypeOK /\ SessionInv
<1> SUFFICES ASSUME Init PROVE TypeOK /\ SessionInv
  OBVIOUS
<1>1. PICK code \in BOOLEAN, sync \in BOOLEAN : s = NewSession(code, sync)
  BY DEF Init
<1>2. events = <<"connect">> /\ conn = "none" /\ server = <<>>
  BY DEF Init
<1>3. /\ s \in Sessions /\ s.spawned = <<>>
      /\ s.set = {} /\ s.finished = "unset" /\ s.resolved = "none" /\ s.sent = <<>>
      /\ s.deleted = FALSE /\ s.is_initialized_ = FALSE /\ s.timer_set = FALSE
  BY <1>1 DEF NewSession, Sessions, Bodies
<1>4. /\ <<"connect">> \in Seq(Events) /\ <<>> \in Seq(Requests)
      /\ DOMAIN <<"connect">> = {1} /\ <<"connect">>[1] = "connect"
  BY DEF Events
<1>5. TypeOK
  BY <1>2, <1>3, <1>4, TypeSession DEF Events, Requests
<1>6. \A e : Pending(e) <=> e = "connect"
  BY <1>2, <1>4 DEF Pending
<1>7. EventsInv
  BY <1>2, <1>3, <1>6 DEF EventsInv
<1>8. EndInv
  BY <1>2, <1>3, <1>4, <1>6 DEF EndInv, OneResume
<1>9. SentInv
  BY <1>2, <1>3 DEF SentInv
<1>10. TimerMatchesPhase
  BY <1>3 DEF TimerMatchesPhase
<1>11. AlwaysGuarded
  BY <1>6 DEF AlwaysGuarded
<1> QED BY <1>5, <1>7, <1>8, <1>9, <1>10, <1>11 DEF SessionInv

\* What a step leaves in the queue before it spawns: all of it, or its tail.
Left(E) ==
  /\ E \in Seq(Events)
  /\ \A e : In(e, E) => Pending(e)
  /\ OneResume(events) => OneResume(E)
  /\ ~ In("connect", E)

\* Only Connect runs while the first event is queued.
LEMMA LeftFacts ==
  ASSUME TypeOK, SessionInv
  PROVE  /\ conn # "none" \/ s.timer_set => Left(events)
         /\ events # <<>> =>
              /\ Left(Tail(events))
              /\ \A e : Pending(e) <=> e = Head(events) \/ In(e, Tail(events))
              /\ OneResume(events) /\ Head(events) = "resume" =>
                   ~ In("resume", Tail(events))
<1>1. events \in Seq(Events)
  BY TypeSession DEF Events
<1>2. \A e : In(e, events) <=> Pending(e)
  BY DEF In, Pending
<1>3. conn # "none" \/ s.timer_set => Left(events)
  BY <1>1, <1>2 DEF Left, SessionInv, EventsInv
<1>4. ASSUME events # <<>>
      PROVE  /\ Left(Tail(events))
             /\ \A e : Pending(e) <=> e = Head(events) \/ In(e, Tail(events))
             /\ OneResume(events) /\ Head(events) = "resume" =>
                  ~ In("resume", Tail(events))
  <2>1. /\ Tail(events) \in Seq(Events)
        /\ \A e : In(e, events) <=> e = Head(events) \/ In(e, Tail(events))
        /\ OneResume(events) => /\ OneResume(Tail(events))
                                /\ Head(events) = "resume" => ~ In("resume", Tail(events))
    BY <1>1, <1>4, TailFacts
  <2>2. ~ In("connect", Tail(events))
    <3>1. SUFFICES ASSUME In("connect", Tail(events)) PROVE FALSE
      OBVIOUS
    <3>2. events = <<"connect">>
      BY <3>1, <2>1, <1>2 DEF SessionInv, EventsInv
    <3>3. Tail(events) = <<>>
      BY <3>2
    <3> QED BY <3>1, <3>3 DEF In
  <2> QED BY <1>2, <2>1, <2>2 DEF Left
<1> QED BY <1>3, <1>4

\* What a queue holds after a step.
LEMMA QueueFacts ==
  ASSUME NEW E, Left(E)
  PROVE  /\ events' = E =>
              /\ events' \in Seq(Events) /\ \A e : Pending(e)' <=> In(e, E)
              /\ OneResume(E) => OneResume(events')
         /\ \A x \in Events : events' = E \o <<x>> =>
              /\ events' \in Seq(Events) /\ \A e : Pending(e)' <=> e = x \/ In(e, E)
              /\ OneResume(E) /\ (x = "resume" => ~ In("resume", E)) => OneResume(events')
<1>1. \A e : Pending(e)' <=> In(e, events')
  BY DEF In, Pending
<1>2. E \in Seq(Events)
  BY DEF Left
<1>3. ASSUME events' = E
      PROVE  /\ events' \in Seq(Events) /\ \A e : Pending(e)' <=> In(e, E)
             /\ OneResume(E) => OneResume(events')
  BY <1>1, <1>2, <1>3
<1>4. ASSUME NEW x \in Events, events' = E \o <<x>>
      PROVE  /\ events' \in Seq(Events) /\ \A e : Pending(e)' <=> e = x \/ In(e, E)
             /\ OneResume(E) /\ (x = "resume" => ~ In("resume", E)) => OneResume(events')
  BY <1>1, <1>2, <1>4, SpawnFacts
<1> QED BY <1>3, <1>4

Conns == {"none", "connecting", "open", "closed", "aborted", "deleted"}

\* when_connected_ is set, or will be.
LEMMA ConnectedKeeps ==
  ASSUME TypeOK, SessionInv, Running, NEW E, Left(E), ConnectedStep(E),
         \A e : Pending(e) => e = "connected" \/ In(e, E),
         conn' = conn \/ (conn = "connecting" /\ conn' = "open"),
         \/ s'.timer_set /\ s'.is_connected_ /\ s'.timeout_ = "run"
         \/ s'.is_connected_ = s.is_connected_ /\ SameTimer(s', s)
  PROVE  TypeOK' /\ SessionInv'
<1> DEFINE path == IF s.code THEN "init" ELSE "run"
<1>1. /\ s \in Sessions /\ conn \in Conns /\ server \in Seq(Requests)
      /\ s' \in Sessions /\ s'.spawned = <<>>
      /\ s'.code = s.code /\ s'.deleted = s.deleted
      /\ s'.is_initialized_ = s.is_initialized_ /\ s'.resolved = s.resolved
      /\ s'.finished = s.finished
      /\ "executed" \in s'.set \/ "executed" \notin s.set \/ s'.fault # "none"
  BY TypeSession DEF ConnectedStep, Conns, Requests
<1>2. events' = E \/ events' = E \o <<"connected">>
  BY DEF ConnectedStep
<1>3. "connected" \in Events
  BY DEF Events, Promises
<1>4. /\ events' \in Seq(Events)
      /\ \A e : In(e, E) => Pending(e)'
      /\ \A e : Pending(e)' => e = "connected" \/ In(e, E)
      /\ OneResume(E) => OneResume(events')
  BY <1>2, <1>3, QueueFacts
<1>5. /\ \A e : In(e, E) => Pending(e)
      /\ OneResume(events) => OneResume(E)
      /\ ~ In("connect", E)
  BY DEF Left
<1>6. server' \in Seq(Requests) /\ conn' \in Conns
  <2>1. path \in Requests
    BY DEF Requests
  <2>2. server' = server \/ server' = Append(server, path)
    BY DEF ConnectedStep
  <2> QED BY <1>1, <2>1, <2>2 DEF Conns
<1>7. TypeOK'
  BY <1>1, <1>4, <1>6, TypeSession DEF TypeOK, Sessions, Events, Requests, Conns
<1>8. EventsInv'
  BY <1>4, <1>5 DEF EventsInv, SessionInv, Ended
<1>9. EndInv'
  BY <1>1, <1>4, <1>5 DEF EndInv, SessionInv, Ended, Running
<1>10. SentInv'
  <2>1. SUFFICES ASSUME s.code PROVE SentInv'
    BY <1>1 DEF SentInv
  <2>2. CASE /\ s'.sent = s.sent /\ server' = server
             /\ "connected" \in s'.set <=> "connected" \in s.set
    BY <1>1, <2>1, <2>2 DEF SentInv, SessionInv
  <2>3. CASE /\ "connected" \notin s.set /\ "connected" \in s'.set
             /\ s'.sent = Append(s.sent, path)
    <3>1. ~ s.is_initialized_ /\ s.sent = <<>>
      BY <2>1, <2>3 DEF SentInv, SessionInv
    <3>2. s'.sent = <<"init">>
      BY <2>1, <2>3, <3>1
    <3> QED BY <1>1, <2>3, <3>1, <3>2 DEF SentInv
  <2> QED BY <2>2, <2>3 DEF ConnectedStep
<1>11. TimerMatchesPhase'
  <2>1. CASE s'.timer_set /\ s'.is_connected_ /\ s'.timeout_ = "run"
    BY <2>1 DEF TimerMatchesPhase
  <2>2. CASE s'.is_connected_ = s.is_connected_ /\ SameTimer(s', s)
    BY <2>2 DEF TimerMatchesPhase, SessionInv, SameTimer
  <2> QED BY <2>1, <2>2
<1>12. AlwaysGuarded'
  BY <1>1, <1>4 DEF AlwaysGuarded, SessionInv, SameTimer, Running
<1> QED BY <1>7, <1>8, <1>9, <1>10, <1>11, <1>12 DEF SessionInv

\* when_closed_ or when_aborted_ is set, or will be; the blocked event is never
\* left without an event to come, nor a failure turned into a success.
LEMMA EndKeeps ==
  ASSUME TypeOK, SessionInv, Running, NEW E, Left(E),
         NEW p \in {"closed", "aborted"}, EndStep(E, p),
         conn' \in Conns,
         p = "closed" => conn' \in Ended,
         conn \in Ended => conn' \in Ended
  PROVE  TypeOK' /\ SessionInv'
<1>1. /\ s \in Sessions /\ server \in Seq(Requests)
      /\ s' \in Sessions /\ s'.spawned = <<>>
      /\ s'.code = s.code /\ s'.deleted = s.deleted /\ s'.sent = s.sent
      /\ s'.is_initialized_ = s.is_initialized_ /\ s'.resolved = s.resolved
      /\ "connected" \in s'.set <=> "connected" \in s.set
      /\ "executed" \in s'.set \/ "executed" \notin s.set \/ s'.fault # "none"
      /\ server' = server
  BY TypeSession DEF EndStep, Requests
<1>2. events' = E \/ events' = E \o <<p>> \/ events' = E \o <<"resume">>
  BY DEF EndStep
<1>3. p \in Events /\ "resume" \in Events /\ p # "resume"
  BY DEF Events, Promises
<1>4. /\ events' \in Seq(Events)
      /\ \A e : In(e, E) => Pending(e)'
      /\ \A e : Pending(e)' => e = p \/ e = "resume" \/ In(e, E)
  BY <1>2, <1>3, QueueFacts
<1>5. /\ \A e : In(e, E) => Pending(e)
      /\ OneResume(events) => OneResume(E)
      /\ ~ In("connect", E)
  BY DEF Left
<1>6. TypeOK'
  BY <1>1, <1>4, TypeSession DEF TypeOK, Sessions, Events, Requests, Conns
<1>7. EventsInv'
  BY <1>4, <1>5 DEF EventsInv, SessionInv
<1>8. SentInv'
  BY <1>1 DEF SentInv, SessionInv
<1>9. CASE s'.fault # "none"
  <2>1. EndInv' /\ TimerMatchesPhase' /\ AlwaysGuarded'
    BY <1>9 DEF EndInv, TimerMatchesPhase, AlwaysGuarded, Running
  <2> QED BY <1>6, <1>7, <1>8, <2>1 DEF SessionInv
<1>10. CASE /\ s'.fault = "none" /\ s'.finished = s.finished
            /\ ~ s'.timer_set /\ events' = E \o <<p>>
  <2>1. /\ \A e : Pending(e)' <=> e = p \/ In(e, E)
        /\ OneResume(E) => OneResume(events')
    BY <1>3, <1>10, QueueFacts
  <2>2. EndInv'
    BY <1>1, <1>3, <1>5, <1>10, <2>1 DEF EndInv, SessionInv, Running
  <2>3. TimerMatchesPhase' /\ AlwaysGuarded'
    BY <1>10, <2>1 DEF TimerMatchesPhase, AlwaysGuarded
  <2> QED BY <1>6, <1>7, <1>8, <2>2, <2>3 DEF SessionInv
<1>11. CASE /\ s'.fault = "none" /\ ~ s.deleted
            /\ s.finished = "unset"
            /\ s'.finished = IF p = "closed" THEN "true" ELSE "false"
            /\ ~ s'.timer_set /\ events' = E \o <<"resume">>
  <2>1. /\ ~ In("resume", E) /\ OneResume(E)
        /\ s.resolved # "failure"
    BY <1>5, <1>11 DEF EndInv, SessionInv, Running
  <2>2. /\ \A e : Pending(e)' <=> e = "resume" \/ In(e, E)
        /\ OneResume(events')
    BY <1>3, <1>11, <2>1, QueueFacts
  <2>3. s'.finished # "unset" /\ (s'.finished = "true" => conn' \in Ended)
    BY <1>11
  <2>4. EndInv'
    BY <1>1, <1>11, <2>1, <2>2, <2>3 DEF EndInv, SessionInv, Running
  <2>5. TimerMatchesPhase' /\ AlwaysGuarded'
    BY <1>11, <2>2 DEF TimerMatchesPhase, AlwaysGuarded
  <2> QED BY <1>6, <1>7, <1>8, <2>4, <2>5 DEF SessionInv
<1>12. \/ s'.fault # "none"
       \/ /\ s'.fault = "none" /\ s'.finished = s.finished
          /\ ~ s'.timer_set /\ events' = E \o <<p>>
       \/ /\ s'.fault = "none" /\ ~ s.deleted
          /\ s.finished = "unset"
          /\ s'.finished = IF p = "closed" THEN "true" ELSE "false"
          /\ ~ s'.timer_set /\ events' = E \o <<"resume">>
  BY DEF EndStep
<1> QED BY <1>9, <1>10, <1>11, <1>12

\* Connect arms the timer of the connection.
LEMMA ConnectKeeps ==
  ASSUME TypeOK, SessionInv, RunEvent, Head(events) = "connect"
  PROVE  TypeOK' /\ SessionInv'
<1>1. /\ s' \in Sessions /\ s'.spawned = <<>> /\ SameSession(s', s)
      /\ s'.set = s.set /\ s'.finished = s.finished
      /\ s'.resolved = s.resolved /\ s'.sent = s.sent
      /\ s'.fault = "none" =>
           ~ s.is_connected_ /\ s'.timer_set /\ s'.timeout_ = "connect"
      /\ events' = Tail(events) /\ conn' = "connecting" /\ server' = server
  BY RunConnect
<1>2. s \in Sessions /\ server \in Seq(Requests) /\ Running /\ events # <<>>
  BY TypeSession DEF Requests, RunEvent
<1>3. Pending("connect")
  BY <1>2, LeftFacts
<1>4. events = <<"connect">> /\ conn = "none"
  BY <1>3 DEF SessionInv, EventsInv
<1>5. events' = <<>> /\ events' \in Seq(Events) /\ DOMAIN events' = {}
  BY <1>1, <1>4
<1>6. \A e : ~ Pending(e)'
  BY <1>5 DEF Pending
<1>7. TypeOK'
  BY <1>1, <1>2, <1>5, TypeSession DEF TypeOK, Sessions, Events, Requests
<1>8. EventsInv'
  BY <1>6 DEF EventsInv
<1>9. EndInv'
  BY <1>1, <1>2, <1>4, <1>5, <1>6
     DEF EndInv, SessionInv, SameSession, Running, Ended, OneResume
<1>10. SentInv'
  BY <1>1 DEF SentInv, SessionInv, SameSession
<1>11. TimerMatchesPhase'
  BY <1>1 DEF TimerMatchesPhase, SameSession, Running
<1>12. AlwaysGuarded'
  BY <1>1 DEF AlwaysGuarded, Running
<1> QED BY <1>7, <1>8, <1>9, <1>10, <1>11, <1>12 DEF SessionInv

\* The blocked event returns: what it was waiting for has come.
LEMMA ResumeKeeps ==
  ASSUME TypeOK, SessionInv, RunEvent, Head(events) = "resume"
  PROVE  TypeOK' /\ SessionInv'
<1>1. /\ s' \in Sessions /\ s'.spawned = <<>> /\ s'.deleted
      /\ s'.code = s.code /\ s'.is_connected_ = s.is_connected_
      /\ s'.is_initialized_ = s.is_initialized_
      /\ s'.set = s.set /\ s'.finished = s.finished
      /\ s'.resolved = s.resolved /\ s'.sent = s.sent /\ s'.fault = s.fault
      /\ SameTimer(s', s)
      /\ events' = Tail(events) /\ conn' = "deleted" /\ server' = server
  BY RunResume
<1>2. s \in Sessions /\ server \in Seq(Requests) /\ Running /\ events # <<>>
  BY TypeSession DEF Requests, RunEvent
<1> DEFINE E == Tail(events)
<1>3. /\ Left(E)
      /\ \A e : Pending(e) <=> e = "resume" \/ In(e, E)
      /\ OneResume(events) => ~ In("resume", E)
  BY <1>2, LeftFacts
<1>4. /\ events' \in Seq(Events) /\ \A e : Pending(e)' <=> In(e, E)
      /\ OneResume(E) => OneResume(events')
  BY <1>1, <1>3, QueueFacts
<1> HIDE DEF E
<1>5. /\ OneResume(events) => OneResume(E)
      /\ ~ In("connect", E)
  BY <1>3 DEF Left
<1>6. TypeOK'
  BY <1>1, <1>2, <1>4, TypeSession DEF TypeOK, Sessions, Events, Requests
<1>7. EventsInv'
  BY <1>1, <1>3, <1>4, <1>5 DEF EventsInv, SessionInv, Ended
<1>8. EndInv'
  BY <1>1, <1>2, <1>3, <1>4, <1>5 DEF EndInv, SessionInv, Running, Ended
<1>9. SentInv'
  BY <1>1 DEF SentInv, SessionInv
<1>10. TimerMatchesPhase'
  BY <1>1 DEF TimerMatchesPhase, SessionInv, SameTimer, Running
<1>11. AlwaysGuarded'
  BY <1>1 DEF AlwaysGuarded
<1> QED BY <1>6, <1>7, <1>8, <1>9, <1>10, <1>11 DEF SessionInv

\* A segment arrives: the session initialises, replies, fails, or breaks.
LEMMA ReceiveKeeps ==
  ASSUME TypeOK, SessionInv, TcpReceive
  PROVE  TypeOK' /\ SessionInv'
<1>1. /\ s' \in Sessions /\ s'.spawned = <<>>
      /\ s'.code = s.code /\ s'.deleted = s.deleted
      /\ s'.is_connected_ = s.is_connected_
      /\ s.is_initialized_ => s'.is_initialized_
      /\ "connected" \in s'.set <=> "connected" \in s.set
      /\ conn = "open" /\ conn' = conn
      /\ server # <<>> /\ server' \in Seq(Requests)
      /\ events' = events \/ events' = events \o <<"resume">>
  BY ReceiveStep
<1>2. /\ s \in Sessions /\ Running /\ Left(events) /\ "resume" \in Events
      /\ \A e : In(e, events) <=> Pending(e)
  BY <1>1, TypeSession, LeftFacts DEF TcpReceive, Events, In, Pending
<1>3. /\ events' \in Seq(Events)
      /\ \A e : Pending(e) => Pending(e)'
      /\ \A e : Pending(e)' => e = "resume" \/ Pending(e)
  BY <1>1, <1>2, QueueFacts
<1>4. ~ Pending("connect") /\ ~ Pending("closed") /\ s.finished # "true"
  BY <1>1, <1>2 DEF SessionInv, EventsInv, EndInv, Ended
<1>5. TypeOK'
  BY <1>1, <1>3, TypeSession DEF TypeOK, Sessions, Events, Requests
<1>6. EventsInv'
  BY <1>1, <1>2, <1>3, <1>4 DEF EventsInv, SessionInv
<1>7. SentInv'
  <2>1. SUFFICES ASSUME s.code PROVE SentInv'
    BY <1>1 DEF SentInv
  <2>2. "connected" \in s.set
    BY <1>1, <2>1 DEF SentInv, SessionInv
  <2>3. CASE s'.sent = s.sent
    BY <1>1, <2>1, <2>2, <2>3 DEF SentInv, SessionInv
  <2>4. CASE ~ s.is_initialized_ /\ s'.is_initialized_ /\ s'.sent = Append(s.sent, "run")
    <3>1. s.sent = <<"init">>
      BY <2>1, <2>2, <2>4 DEF SentInv, SessionInv
    <3>2. Append(<<"init">>, "run") = <<"init", "run">>
      <4> DEFINE u == Append(<<"init">>, "run")
                 v == <<"init", "run">>
      <4>1. u \in Seq({"init", "run"}) /\ Len(u) = 2 /\ u[1] = "init" /\ u[2] = "run"
        OBVIOUS
      <4>2. v \in Seq({"init", "run"}) /\ Len(v) = 2 /\ v[1] = "init" /\ v[2] = "run"
        OBVIOUS
      <4> HIDE DEF u, v
      <4>3. \A i \in 1 .. Len(u) : u[i] = v[i]
        BY <4>1, <4>2
      <4>4. u = v
        BY <4>1, <4>2, <4>3, SeqEqual
      <4> QED BY <4>4 DEF u, v
    <3>3. s'.sent = <<"init", "run">>
      BY <2>4, <3>1, <3>2
    <3> QED BY <1>1, <2>2, <2>4, <3>3 DEF SentInv
  <2> QED BY <2>3, <2>4, ReceiveStep
<1>8. CASE s'.fault # "none"
  <2>1. EndInv' /\ TimerMatchesPhase' /\ AlwaysGuarded'
    BY <1>8 DEF EndInv, TimerMatchesPhase, AlwaysGuarded, Running
  <2> QED BY <1>5, <1>6, <1>7, <2>1 DEF SessionInv
<1>9. CASE /\ s'.fault = "none" /\ SameTimer(s', s) /\ events' = events
           /\ s'.finished = s.finished
           /\ \/ /\ s'.resolved = s.resolved
                 /\ "executed" \in s'.set \/ "executed" \notin s.set
              \/ "executed" \in s'.set /\ s'.resolved # "failure"
  <2>1. /\ \A e : Pending(e)' <=> Pending(e)
        /\ OneResume(events) => OneResume(events')
    BY <1>2, <1>9, QueueFacts
  <2>2. EndInv'
    BY <1>1, <1>2, <1>9, <2>1 DEF EndInv, SessionInv, Running
  <2>3. TimerMatchesPhase'
    BY <1>1, <1>2, <1>9 DEF TimerMatchesPhase, SessionInv, SameTimer, Running
  <2>4. AlwaysGuarded'
    BY <1>1, <1>2, <1>9, <2>1 DEF AlwaysGuarded, SessionInv, SameTimer, Running
  <2> QED BY <1>5, <1>6, <1>7, <2>2, <2>3, <2>4 DEF SessionInv
<1>10. CASE /\ s'.fault = "none" /\ ~ s.deleted
            /\ s.finished = "unset" /\ s'.finished = "false"
            /\ "executed" \in s'.set
            /\ ~ s'.timer_set /\ events' = events \o <<"resume">>
  <2>1. OneResume(events) /\ ~ Pending("resume")
    BY <1>2, <1>10 DEF EndInv, SessionInv
  <2>2. /\ \A e : Pending(e)' <=> e = "resume" \/ Pending(e)
        /\ OneResume(events')
    BY <1>2, <1>10, <2>1, QueueFacts
  <2>3. EndInv'
    BY <1>1, <1>10, <2>2 DEF EndInv, Running
  <2>4. TimerMatchesPhase' /\ AlwaysGuarded'
    BY <1>10, <2>2 DEF TimerMatchesPhase, AlwaysGuarded
  <2> QED BY <1>5, <1>6, <1>7, <2>3, <2>4 DEF SessionInv
<1>11. \/ s'.fault # "none"
       \/ /\ s'.fault = "none" /\ SameTimer(s', s) /\ events' = events
          /\ s'.finished = s.finished
          /\ \/ /\ s'.resolved = s.resolved
                /\ "executed" \in s'.set \/ "executed" \notin s.set
             \/ "executed" \in s'.set /\ s'.resolved # "failure"
       \/ /\ s'.fault = "none" /\ ~ s.deleted
          /\ s.finished = "unset" /\ s'.finished = "false"
          /\ "executed" \in s'.set
          /\ ~ s'.timer_set /\ events' = events \o <<"resume">>
  BY ReceiveStep
<1> QED BY <1>8, <1>9, <1>10, <1>11

\* An armed timer records what it waits for.
LEMMA ArmedTimer ==
  ASSUME TypeOK, SessionInv, Running, s.timer_set
  PROVE  s.timeout_ # "clear"
BY DEF SessionInv, TimerMatchesPhase

\* The event at the head of the queue.
LEMMA HeadCases ==
  ASSUME TypeOK, SessionInv, RunEvent
  PROVE  /\ Running /\ events # <<>> /\ Pending(Head(events))
         /\ Head(events) \in {"connect", "connected", "closed", "aborted", "resume"}
<1>1. Running /\ events # <<>>
  BY DEF RunEvent
<1>2. Pending(Head(events))
  BY <1>1, LeftFacts
<1> QED BY <1>1, <1>2 DEF SessionInv, EventsInv

\* Every action keeps the invariant.
LEMMA SessionNext ==
  TypeOK /\ SessionInv /\ [Next]_vars => TypeOK' /\ SessionInv'
<1> SUFFICES ASSUME TypeOK, SessionInv, [Next]_vars PROVE TypeOK' /\ SessionInv'
  OBVIOUS
<1>0. conn \in Conns
  BY TypeSession DEF Conns
<1>1. CASE RunEvent
  <2>1. /\ Running /\ events # <<>>
        /\ Head(events) \in {"connect", "connected", "closed", "aborted", "resume"}
        /\ Pending(Head(events))
    BY <1>1, HeadCases
  <2>2. Left(Tail(events)) /\ \A e : Pending(e) <=> e = Head(events) \/ In(e, Tail(events))
    BY <2>1, LeftFacts
  <2>3. CASE Head(events) = "connect"
    BY <1>1, <2>3, ConnectKeeps
  <2>4. CASE Head(events) = "resume"
    BY <1>1, <2>4, ResumeKeeps
  <2>5. CASE Head(events) = "connected"
    <3>1. /\ ConnectedStep(Tail(events)) /\ conn' = conn
          /\ s'.is_connected_ = s.is_connected_ /\ SameTimer(s', s)
      BY <1>1, <2>5, RunConnected
    <3> QED BY <2>1, <2>2, <2>5, <3>1, ConnectedKeeps
  <2>6. ASSUME NEW p \in {"closed", "aborted"}, Head(events) = p
        PROVE  TypeOK' /\ SessionInv'
    <3>1. EndStep(Tail(events), p) /\ conn' = conn
      BY <1>1, <2>6, RunEnd
    <3>2. p = "closed" => conn \in Ended
      BY <2>1, <2>6 DEF SessionInv, EventsInv
    <3> QED BY <1>0, <2>1, <2>2, <3>1, <3>2, EndKeeps
  <2> QED BY <2>1, <2>3, <2>4, <2>5, <2>6
<1>2. CASE TimerFires
  <2>1. Running /\ s.timer_set
    BY <1>2 DEF TimerFires
  <2>2. Left(events) /\ \A e : Pending(e) <=> In(e, events)
    BY <2>1, LeftFacts DEF In, Pending
  <2>3. EndStep(events, "aborted") /\ conn' = conn
    BY <1>2, <2>1, ArmedTimer, FireStep
  <2> QED BY <1>0, <2>1, <2>2, <2>3, EndKeeps
<1>3. CASE TcpConnected
  <2>1. /\ ConnectedStep(events) /\ conn = "connecting" /\ conn' = "open"
        /\ s'.timer_set /\ s'.is_connected_ /\ s'.timeout_ = "run"
    BY <1>3, ConnectedBecomes
  <2>2. Running /\ Left(events) /\ \A e : Pending(e) <=> In(e, events)
    BY <1>3, <2>1, LeftFacts DEF TcpConnected, In, Pending
  <2> QED BY <2>1, <2>2, ConnectedKeeps
<1>4. CASE TcpClose \/ TcpAbort
  <2>1. Running /\ conn \in {"connecting", "open"}
    BY <1>4 DEF TcpClose, TcpAbort
  <2>2. Left(events)
    BY <2>1, LeftFacts
  <2>3. CASE EndStep(events, "closed") /\ conn' = "closed"
    <3>1. conn' \in Conns /\ conn' \in Ended
      BY <2>3 DEF Conns, Ended
    <3> QED BY <2>1, <2>2, <2>3, <3>1, EndKeeps
  <2>4. CASE EndStep(events, "aborted") /\ conn' = "aborted"
    <3>1. conn' \in Conns /\ conn \notin Ended
      BY <2>1, <2>4 DEF Conns, Ended
    <3> QED BY <2>1, <2>2, <2>4, <3>1, EndKeeps
  <2> QED BY <1>4, <2>3, <2>4, TcpEnd
<1>5. CASE TcpReceive
  BY <1>5, ReceiveKeeps
<1>6. CASE UNCHANGED vars
  <2>1. /\ TypeOK' = TypeOK /\ EventsInv' = EventsInv /\ EndInv' = EndInv
        /\ SentInv' = SentInv
        /\ TimerMatchesPhase' = TimerMatchesPhase /\ AlwaysGuarded' = AlwaysGuarded
    BY <1>6 DEF vars, TypeOK, EventsInv, EndInv, SentInv, TimerMatchesPhase,
                AlwaysGuarded, Running, Pending
  <2> QED BY <2>1 DEF SessionInv
<1> QED BY <1>1, <1>2, <1>3, <1>4, <1>5, <1>6 DEF Next, Terminated

-----------------------------------------------------------------------------
(* Theorems.                                                               *)

LEMMA SessionInvariant == Spec => [](TypeOK /\ SessionInv)
<1>1. Init => TypeOK /\ SessionInv
  BY SessionInit
<1>2. TypeOK /\ SessionInv /\ [Next]_vars => (TypeOK /\ SessionInv)'
  BY SessionNext
<1> QED BY <1>1, <1>2, PTL DEF Spec

\* The session, its queue of events, its connection and what the server has to
\* send always have their types: no method of the session leaves another value.
THEOREM TypeCorrect == Spec => []TypeOK
BY SessionInvariant, PTL

\* While the blocked event waits, an armed timer or a queued event leads to its
\* return: no order of connects, resets, closes, timeouts and spawned events
\* abandons it.
THEOREM NeverAbandoned == Spec => []AlwaysGuarded
<1>1. SessionInv => AlwaysGuarded
  BY DEF SessionInv
<1> QED BY <1>1, SessionInvariant, PTL

\* enable_timer and disable_timer are always called in the phase they are meant
\* for: an armed timer is the one of the connection before, of the run after
\* is_connected_ is set.
THEOREM TimerFollowsPhase == Spec => []TimerMatchesPhase
<1>1. SessionInv => TimerMatchesPhase
  BY DEF SessionInv
<1> QED BY <1>1, SessionInvariant, PTL

\* A cold session sends /init, and /run once and only after the response that
\* initialised it, however the responses to /run are cut into segments.
THEOREM InitPrecedesRun == Spec => []InitBeforeRun
<1>1. SessionInv => InitBeforeRun
  <2> SUFFICES ASSUME SentInv, s.code PROVE InitBeforeRun
    BY DEF SessionInv, InitBeforeRun
  <2>1. /\ s.sent \in {<<>>, <<"init">>, <<"init", "run">>}
        /\ ~ s.is_initialized_ => s.sent \in {<<>>, <<"init">>}
    BY DEF SentInv
  <2>2. <<"init", "run">> \notin {<<>>, <<"init">>}
    <3>1. Len(<<"init", "run">>) = 2 /\ Len(<<>>) = 0 /\ Len(<<"init">>) = 1
      OBVIOUS
    <3> QED BY <3>1
  <2> QED BY <2>1, <2>2 DEF InitBeforeRun
<1> QED BY <1>1, SessionInvariant, PTL

\* A session that resolved its invocation with a failed response never finishes
\* with the status of a success, whatever closes, resets or times out after.
THEOREM SuccessOnlyGenuine == Spec => []SuccessIsGenuine
<1>1. SessionInv => SuccessIsGenuine
  BY DEF SessionInv, EndInv, SuccessIsGenuine
<1> QED BY <1>1, SessionInvariant, PTL

-----------------------------------------------------------------------------
(* The session implements SessionContract.                                 *)

\* A step that reaches undefined behaviour, after which nothing is promised.
LEMMA BreakStep ==
  ASSUME Running, s' \in Sessions, s'.fault # "none"
  PROVE  C!Break
<1>1. /\ s'.finished \in {"unset", "true", "false"} /\ s'.deleted \in BOOLEAN
      /\ Running' = FALSE
  BY DEF Sessions, Running
<1>2. (~ Running)' = TRUE /\ (s.resolved # "none")' \in BOOLEAN /\ (s.deleted)' \in BOOLEAN
      /\ (s.finished)' \in {"unset", "true", "false"}
  BY <1>1
<1> QED BY <1>2 DEF C!Break

\* A step the contract does not see.
LEMMA Unseen ==
  ASSUME Running, s'.fault = "none",
         s'.finished = s.finished, s'.resolved = s.resolved, s'.deleted = s.deleted
  PROVE  UNCHANGED C!cvars
<1>1. Running' = Running
  BY DEF Running
<1> QED BY <1>1 DEF C!cvars

\* The end of a connection is Finish, or nothing yet.
LEMMA EndImplements ==
  ASSUME TypeOK, Running, NEW E, NEW p \in {"closed", "aborted"}, EndStep(E, p)
  PROVE  [C!CNext]_(C!cvars)
<1>1. s' \in Sessions /\ s'.deleted = s.deleted /\ s'.resolved = s.resolved
  BY DEF EndStep
<1>2. CASE s'.fault # "none"
  BY <1>1, <1>2, BreakStep DEF C!CNext
<1>3. CASE s'.fault = "none" /\ s'.finished = s.finished
  BY <1>1, <1>3, Unseen
<1>4. CASE /\ s'.fault = "none" /\ ~ s.deleted /\ s.finished = "unset"
           /\ s'.finished = IF p = "closed" THEN "true" ELSE "false"
  <2>1. Running' = Running
    BY <1>4 DEF Running
  <2>2. s'.finished \in {"true", "false"}
    BY <1>4
  <2>3. C!Finish
    BY <1>1, <1>4, <2>1, <2>2 DEF C!Finish
  <2>4. UNCHANGED (s.resolved # "none")
    BY <1>1
  <2> QED BY <2>3, <2>4 DEF C!CNext
<1> QED BY <1>2, <1>3, <1>4 DEF EndStep

\* A queued or immediate when_connected_ only sends.
LEMMA ConnectedImplements ==
  ASSUME TypeOK, Running, NEW E, ConnectedStep(E)
  PROVE  [C!CNext]_(C!cvars)
<1>1. /\ s' \in Sessions /\ s'.deleted = s.deleted /\ s'.resolved = s.resolved
      /\ s'.finished = s.finished
  BY DEF ConnectedStep
<1>2. CASE s'.fault # "none"
  BY <1>1, <1>2, BreakStep DEF C!CNext
<1>3. CASE s'.fault = "none"
  BY <1>1, <1>3, Unseen
<1> QED BY <1>2, <1>3

\* A segment is a reply, a failure with its reply, or nothing the invoker sees.
LEMMA ReceiveImplements ==
  ASSUME TypeOK, SessionInv, TcpReceive
  PROVE  [C!CNext]_(C!cvars)
<1>1. /\ Running /\ s \in Sessions /\ s' \in Sessions /\ s'.deleted = s.deleted
      /\ conn = "open"
  BY ReceiveStep, TypeSession DEF TcpReceive
<1>2. s.finished # "true" /\ ("executed" \notin s.set => s.resolved = "none")
  BY <1>1 DEF SessionInv, EndInv, Ended
<1>3. CASE s'.fault # "none"
  BY <1>1, <1>3, BreakStep DEF C!CNext
<1>4. CASE s'.fault = "none" /\ s'.finished = s.finished /\ s'.resolved = s.resolved
  BY <1>1, <1>4, Unseen
<1>5. CASE /\ s'.fault = "none" /\ ~ s.deleted /\ "executed" \notin s.set
           /\ s'.resolved # "none"
  <2>1. /\ Running' = Running /\ UNCHANGED s.deleted
        /\ ~ (s.resolved # "none") /\ (s.resolved # "none")' = TRUE
    BY <1>1, <1>2, <1>5 DEF Running
  <2>2. C!Reply
    BY <1>1, <1>2, <1>5, <2>1 DEF C!Reply
  <2>3. CASE s'.finished = s.finished
    BY <2>2, <2>3 DEF C!CNext
  <2>4. CASE s.finished = "unset" /\ s'.finished = "false"
    <3>1. C!FailAndReply
      BY <2>2, <2>4 DEF C!FailAndReply
    <3> QED BY <3>1 DEF C!CNext
  <2>5. s'.finished = s.finished \/ (s.finished = "unset" /\ s'.finished = "false")
    BY <1>5, ReceiveStep
  <2> QED BY <2>3, <2>4, <2>5
<1>6. \/ s'.fault # "none"
      \/ s'.fault = "none" /\ s'.finished = s.finished /\ s'.resolved = s.resolved
      \/ /\ s'.fault = "none" /\ ~ s.deleted /\ "executed" \notin s.set
         /\ s'.resolved # "none"
  BY ReceiveStep
<1> QED BY <1>3, <1>4, <1>5, <1>6

\* Connect is not seen; the blocked event returns with the status it waited for.
LEMMA RunImplements ==
  ASSUME TypeOK, SessionInv, RunEvent
  PROVE  [C!CNext]_(C!cvars)
<1>1. /\ Running /\ s \in Sessions
      /\ Pending(Head(events))
      /\ Head(events) \in {"connect", "connected", "closed", "aborted", "resume"}
  BY HeadCases, TypeSession
<1>2. CASE Head(events) = "connect"
  <2>1. /\ s' \in Sessions /\ SameSession(s', s) /\ s'.finished = s.finished
        /\ s'.resolved = s.resolved
    BY <1>2, RunConnect
  <2>2. CASE s'.fault # "none"
    BY <1>1, <2>1, <2>2, BreakStep DEF C!CNext
  <2>3. CASE s'.fault = "none"
    BY <1>1, <2>1, <2>3, Unseen DEF SameSession
  <2> QED BY <2>2, <2>3
<1>3. CASE Head(events) = "resume"
  <2>1. /\ s' \in Sessions /\ s'.deleted /\ s'.finished = s.finished
        /\ s'.resolved = s.resolved /\ s'.fault = s.fault
    BY <1>3, RunResume
  <2>2. s.finished # "unset" /\ ~ s.deleted
    BY <1>1, <1>3 DEF SessionInv, EndInv
  <2>3. Running' = Running /\ s'.deleted = TRUE
    BY <2>1 DEF Running, Sessions
  <2>4. UNCHANGED <<s.finished, s.resolved # "none", ~ Running>>
    BY <2>1, <2>3
  <2>5. C!Return
    BY <1>1, <2>2, <2>3, <2>4 DEF C!Return
  <2> QED BY <2>5 DEF C!CNext
<1>4. CASE Head(events) = "connected"
  BY <1>1, <1>4, RunConnected, ConnectedImplements
<1>5. ASSUME NEW p \in {"closed", "aborted"}, Head(events) = p
      PROVE  [C!CNext]_(C!cvars)
  BY <1>1, <1>5, RunEnd, EndImplements
<1> QED BY <1>1, <1>2, <1>3, <1>4, <1>5

\* Every step of the session is one of its contract, or invisible to it.
LEMMA StepImplements ==
  TypeOK /\ SessionInv /\ [Next]_vars => [C!CNext]_(C!cvars)
<1> SUFFICES ASSUME TypeOK, SessionInv, [Next]_vars PROVE [C!CNext]_(C!cvars)
  OBVIOUS
<1>1. CASE RunEvent
  BY <1>1, RunImplements
<1>2. CASE TimerFires
  <2>1. Running /\ s.timer_set
    BY <1>2 DEF TimerFires
  <2> QED BY <1>2, <2>1, ArmedTimer, FireStep, EndImplements
<1>3. CASE TcpConnected
  <2>1. Running
    BY <1>3 DEF TcpConnected
  <2> QED BY <1>3, <2>1, ConnectedBecomes, ConnectedImplements
<1>4. CASE TcpClose \/ TcpAbort
  <2>1. Running
    BY <1>4 DEF TcpClose, TcpAbort
  <2>2. \E p \in {"closed", "aborted"} : EndStep(events, p)
    BY <1>4, TcpEnd
  <2> QED BY <2>1, <2>2, EndImplements
<1>5. CASE TcpReceive
  BY <1>5, ReceiveImplements
<1>6. CASE UNCHANGED vars
  BY <1>6 DEF vars, C!cvars, Running
<1> QED BY <1>1, <1>2, <1>3, <1>4, <1>5, <1>6 DEF Next, Terminated

\* The invocation session keeps what the invoker relies on: one reply at most,
\* never after a success; one status; and the blocked event returns only after
\* it - until, if ever, undefined behaviour is met.  (That the event returns at
\* all is the liveness half of Contract.)
THEOREM SessionKeepsContract == Spec => C!CSpec
<1>1. Init => C!CInit
  BY DEF Init, NewSession, Running, C!CInit
<1>2. TypeOK /\ SessionInv /\ [Next]_vars => [C!CNext]_(C!cvars)
  BY StepImplements
<1> QED BY <1>1, <1>2, SessionInvariant, PTL DEF Spec, C!CSpec

=============================================================================
