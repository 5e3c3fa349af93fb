------------------------------ MODULE Benchmark ------------------------------
(***************************************************************************)
(* Benchmark mode of the hosted process (openwhisk::test and class bench,  *)
(* src/src/openwhisk).  One thread reads a line "rounds users threads      *)
(* sleep" and schedules that many activations; a handler on the future of  *)
(* each reports its duration and gives back its place in concurrencyPool.  *)
(*                                                                         *)
(* The pool is a plain int: "-= 1" and "+= 1" load, then store, and two    *)
(* threads do so at once.  Handlers run on the IO thread inside            *)
(* ResolveActivation, which holds m_, or, when the reply was quicker than  *)
(* Then, on the benchmark's own thread, without m_.  They refer to         *)
(* concurrencyPool and start_time by reference, variables of one round and *)
(* of one iteration, which may be out of scope by then.                    *)
(***************************************************************************)
EXTENDS Integers, Sequences, FiniteSets

CONSTANTS
  Lines,        \* what may be typed: [kind |-> "q", "bad" or "ints", ints |-> ...]
  MaxRounds,    \* bound: lines that start a round
  MaxRuns,      \* bound: the largest number of runs in Lines
  NDEBUG        \* TRUE when assert is compiled out

ASSUME BenchmarkAssumption ==
  /\ \A line \in Lines : /\ line.ints \in Seq(Int)
                         /\ line.ints # <<>> => line.ints[1] <= MaxRuns
  /\ MaxRounds \in Nat /\ MaxRuns \in Nat \ {0}
  /\ NDEBUG \in BOOLEAN

Thread == {"bench", "io"}

\* A request is known by its number; a round makes at most MaxRuns of them.
Request == 1 .. MaxRounds * MaxRuns

VARIABLES
  at,                \* where each of the two threads is
  b,                 \* the round's configuration
  round,             \* rounds begun
  todo,              \* runs the round has yet to make, of each function
  concurrencyPool,
  start_time,        \* the request whose start the variable holds
  next,              \* the number of the next request
  life,              \* of each request
  of,                \* the round of each request
  registered         \* a node has registered: Controller::Ready

config   == <<b, round, registered>>
requests == <<start_time, next, life, of>>
vars == <<at, config, todo, concurrencyPool, requests>>

-----------------------------------------------------------------------------
(* The input line.                                                         *)

Quit    == [kind |-> "q", ints |-> <<>>]
Garbled == [kind |-> "bad", ints |-> <<>>]
Empty   == [kind |-> "ints", ints |-> <<>>]

\* Constructor bench: what stoi cannot read leaves no runs.
Bench(line) ==
  LET field(k) == IF k <= Len(line.ints) THEN line.ints[k] ELSE 1
  IN  [size     |-> Len(line.ints),
       runs     |-> IF line = Garbled THEN 0 ELSE field(1),
       fns      |-> field(2),
       parallel |-> field(3)]

VecGood(c) == c.size <= 4 /\ c.runs # 0

\* genRevisionVec asserts that fns divides runs, where a zero faults, and makes a
\* vector of runs strings, which a negative number does not allow.
VectorFails(c) ==
  \/ c.runs < 0
  \/ /\ ~NDEBUG
     /\ c.fns = 0 \/ c.runs % (IF c.fns > 0 THEN c.fns ELSE -c.fns) # 0

\* The loop over the functions stores none when there are no functions.
Repeats(c) == IF c.fns > 0 THEN c.runs \div c.fns ELSE 0

\* Runs of each function; 0 is the empty name, left where none was stored.
Revisions(c) ==
  [f \in 0 .. MaxRuns |->
     IF f = 0 THEN c.runs - c.fns * Repeats(c)
     ELSE IF f <= c.fns THEN Repeats(c) ELSE 0]

NoRuns == [f \in 0 .. MaxRuns |-> 0]

Init ==
  /\ at = [p \in Thread |-> IF p = "bench" THEN <<"prompt">> ELSE <<"idle">>]
  /\ b = [size |-> 0, runs |-> 1, fns |-> 1, parallel |-> 1]
  /\ round = 0
  /\ registered = FALSE
  /\ todo = NoRuns
  /\ concurrencyPool = 0
  /\ start_time = 0
  /\ next = 1
  /\ life = [r \in Request |-> "none"]
  /\ of = [r \in Request |-> 0]

Go(p, where) == at' = [at EXCEPT ![p] = where]
Become(r, stage) == life' = [life EXCEPT ![r] = stage]

\* What follows the call of Then, or its handler, in the loop over the runs.
Continue(p) == IF p = "io" THEN <<"idle">>
               ELSE IF todo = NoRuns THEN <<"prompt">> ELSE <<"wait">>

\* RegisterNode makes the controller Ready, at any time.
Register ==
  /\ ~registered
  /\ registered' = TRUE
  /\ UNCHANGED <<at, b, round, todo, concurrencyPool, requests>>

-----------------------------------------------------------------------------
(* The benchmark's thread.                                                 *)

\* 'q', an empty or unusable line, or no node: exit, or another line.
NoRound(line) ==
  /\ at["bench"] = <<"prompt">>
  /\ IF line = Quit THEN Go("bench", <<"exit">>)
     ELSE (line = Empty \/ ~VecGood(Bench(line)) \/ ~registered) /\ UNCHANGED at
  /\ UNCHANGED <<config, todo, concurrencyPool, requests>>

\* A round begins, whether or not the last one's replies have all come.
BeginRound(line) ==
  /\ at["bench"] = <<"prompt">>
  /\ line \notin {Quit, Empty} /\ VecGood(Bench(line)) /\ registered
  /\ round < MaxRounds
  /\ b' = Bench(line)
  /\ round' = round + 1
  /\ IF VectorFails(Bench(line))
     THEN Go("bench", <<"down">>) /\ UNCHANGED <<todo, concurrencyPool>>
     ELSE /\ todo' = Revisions(Bench(line))
          /\ concurrencyPool' = Bench(line).parallel
          /\ Go("bench", <<"wait">>)
  /\ UNCHANGED <<registered, requests>>

\* Mutant: the pool is let down to nothing and below.
HasPlaceOffByOne == concurrencyPool >= 0

HasPlace == concurrencyPool >= 1

\* while (concurrencyPool < 1) sleep: the thread looks again and again.
Wait ==
  /\ at["bench"] = <<"wait">>
  /\ IF HasPlace THEN Go("bench", <<"take">>) ELSE UNCHANGED at
  /\ UNCHANGED <<config, todo, concurrencyPool, requests>>

\* concurrencyPool -= 1: the load.
Take ==
  /\ at["bench"] = <<"take">>
  /\ Go("bench", <<"put", concurrencyPool>>)
  /\ UNCHANGED <<config, todo, concurrencyPool, requests>>

Taken(loaded) == loaded - 1

\* The store, and start_time.
Put ==
  /\ at["bench"][1] = "put"
  /\ concurrencyPool' = Taken(at["bench"][2])
  /\ start_time' = next
  /\ Become(next, "taken")
  /\ of' = [of EXCEPT ![next] = round]
  /\ Go("bench", <<"schedule">>)
  /\ UNCHANGED <<config, todo, next>>

\* ScheduleActivation needs m_, which the IO thread holds in a handler.
Schedule(f) ==
  /\ at["bench"] = <<"schedule">>
  /\ at["io"] = <<"idle">>
  /\ todo[f] > 0
  /\ todo' = [todo EXCEPT ![f] = @ - 1]
  /\ Become(next, "sent")
  /\ next' = next + 1
  /\ Go("bench", <<"attach", next>>)
  /\ UNCHANGED <<config, concurrencyPool, start_time, of>>

\* Mutant: Then runs its handler only for a value that is still to come.
NeverHere(r) == FALSE

\* Then runs the handler here when the reply has come.
HandledHere(r) == life[r] = "ready"

Attach(r) ==
  /\ at["bench"] = <<"attach", r>>
  /\ IF HandledHere(r)
     THEN Become(r, "handling") /\ Go("bench", <<"report", r>>)
     ELSE /\ Become(r, IF life[r] = "sent" THEN "attached" ELSE life[r])
          /\ Go("bench", Continue("bench"))
  /\ UNCHANGED <<config, todo, concurrencyPool, start_time, next, of>>

-----------------------------------------------------------------------------
(* The IO thread and the handler.                                          *)

\* The reply to request r: SetValue runs the handler, or keeps the value.
Resolve(r) ==
  /\ at["io"] = <<"idle">>
  /\ \/ life[r] = "sent" /\ Become(r, "ready") /\ UNCHANGED at
     \/ life[r] = "attached" /\ Become(r, "handling") /\ Go("io", <<"report", r>>)
  /\ UNCHANGED <<config, todo, concurrencyPool, start_time, next, of>>

\* The line of results: its duration is counted from what start_time holds, a
\* variable that is out of scope once the iteration that made r is over.
Report(p) ==
  /\ at[p][1] = "report"
  /\ Go(p, <<"add", at[p][2]>>)
  /\ UNCHANGED <<config, todo, concurrencyPool, requests>>

\* concurrencyPool += 1: the load.
Add(p) ==
  /\ at[p][1] = "add"
  /\ Go(p, <<"store", at[p][2], concurrencyPool>>)
  /\ UNCHANGED <<config, todo, concurrencyPool, requests>>

\* Mutant: the handler does not give its place back.
NoneReturned(loaded) == loaded

Returned(loaded) == loaded + 1

\* The store.  A request of an earlier round refers to a variable that is gone:
\* the store reaches the one in its place, or something that is not modelled.
Store(p) ==
  /\ at[p][1] = "store"
  /\ LET r == at[p][2]
     IN /\ concurrencyPool' \in {Returned(at[p][3])}
             \cup (IF of[r] # round THEN {concurrencyPool} ELSE {})
        /\ Become(r, "done")
        /\ Go(p, Continue(p))
  /\ UNCHANGED <<config, todo, start_time, next, of>>

Handler(p) == Report(p) \/ Add(p) \/ Store(p)

-----------------------------------------------------------------------------

BenchThread ==
  \/ \E line \in Lines : BeginRound(line)
  \/ Wait \/ Take \/ Put
  \/ \E f \in DOMAIN todo : Schedule(f)
  \/ \E r \in Request : Attach(r)
  \/ Handler("bench")

Over == at["bench"][1] \in {"exit", "down"}

\* The process has ended, or the bound on rounds is reached.
Terminated ==
  /\ Over \/ (at["bench"] = <<"prompt">> /\ round = MaxRounds)
  /\ UNCHANGED vars

Next ==
  \/ Register
  \/ ~Over /\ BenchThread
  \/ \E line \in Lines : NoRound(line)
  \/ ~Over /\ \E r \in Request : Resolve(r)
  \/ ~Over /\ Handler("io")
  \/ Terminated

Spec == Init /\ [][Next]_vars

\* Both threads run, and the node answers every request: the benchmark itself
\* has no timeout.
FairSpec ==
  /\ Spec
  /\ WF_vars(~Over /\ BenchThread)
  /\ WF_vars(~Over /\ Handler("io"))
  /\ \A r \in Request : WF_vars(~Over /\ Resolve(r))

-----------------------------------------------------------------------------
(* Properties.                                                             *)

Position ==
  {<<"idle">>, <<"prompt">>, <<"wait">>, <<"take">>, <<"schedule">>, <<"exit">>, <<"down">>}
    \cup ({"attach", "report", "add"} \X Request)
    \cup ({"put"} \X Int) \cup ({"store"} \X Request \X Int)

TypeOK ==
  /\ at \in [Thread -> Position]
  /\ round \in 0 .. MaxRounds
  /\ registered \in BOOLEAN
  /\ todo \in [0 .. MaxRuns -> Nat]
  /\ concurrencyPool \in Int
  /\ start_time \in {0} \cup Request
  /\ next \in 1 .. MaxRounds * MaxRuns + 1
  /\ life \in [Request -> {"none", "taken", "sent", "ready", "attached", "handling", "done"}]
  /\ of \in [Request -> 0 .. MaxRounds]

\* Requests of the current round that hold a place of the pool.
Outstanding == {r \in Request : life[r] \notin {"none", "done"} /\ of[r] = round}

Started == at["bench"][1] \notin {"prompt", "exit", "down"}

\* However the loads and stores of the two threads fall, and whatever a handler
\* of an earlier round does to the pool, a round that was given a thread never
\* has a negative one (concurrencyPool, openwhisk.cc).
PoolNeverNegative == Started /\ b.parallel >= 0 => concurrencyPool >= 0

\* An update the race loses never loses the last place: the benchmark waits
\* only while a request of its round is still to give its place back.
NoStall ==
  at["bench"] = <<"wait">> /\ concurrencyPool < 1 /\ b.parallel >= 1 => Outstanding # {}

\* When the node answers every request, every round that was given a thread
\* ends, in spite of the race.
RoundEnds ==
  \A q \in 1 .. MaxRounds :
    (round = q /\ Started /\ b.parallel >= 1) ~> (at["bench"] = <<"prompt">> \/ round > q \/ Over)

(* What the repository says and the code does not keep to.                 *)

\* The prompt: "<rounds, users, threads, sleep(ms)>".
WithinThreads == Started /\ b.parallel >= 1 => Cardinality(Outstanding) <= b.parallel

\* "CSV format: <id, duratin, start time, end time, status, times, result>".
OwnStart ==
  \A p \in Thread : at[p][1] = "report" =>
    start_time = at[p][2] /\ at["bench"] \in {<<"attach", start_time>>, <<"report", start_time>>}

\* The prompt's "Input rounds, users": a negative number of rounds ends the
\* process instead of being refused, and so does, with assertions, a number of
\* users that does not divide the rounds (without them, runs are left nameless).
InputRejected == at["bench"] # <<"down">>

=============================================================================
