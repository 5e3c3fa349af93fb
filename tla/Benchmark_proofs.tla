-------------------------- MODULE Benchmark_proofs --------------------------
(***************************************************************************)
(* Proofs about Benchmark, for any input lines and any number of rounds.   *)
(***************************************************************************)
EXTENDS Benchmark, FiniteSetTheorems, FunctionTheorems, TLAPS

-----------------------------------------------------------------------------

\* What the two threads hold of the pool is a number.
PlaceInv ==
  /\ at = [p \in Thread |-> at[p]]
  /\ concurrencyPool \in Int
  /\ b.parallel \in Int
  /\ at["bench"][1] = "put" => at["bench"][2] \in Int
  /\ \A p \in Thread : at[p][1] = "store" => at[p][3] \in Int
  /\ at["io"][1] # "wait"

\* Neither the pool nor what a handler has loaded of it is negative.
Sound ==
  /\ concurrencyPool >= 0
  /\ \A p \in Thread : at[p][1] = "store" => at[p][3] >= 0

Waiting == at["bench"] = <<"wait">>

\* Only a round given a negative number of threads has a negative pool, as long
\* as it waits; a handler that loads it then stores it before anything else
\* changes the pool.  What the benchmark takes is there.
PoolInv ==
  /\ b.parallel >= 0 \/ ~Waiting \/ concurrencyPool >= 0 => Sound
  /\ at["bench"] = <<"take">> => concurrencyPool >= 1
  /\ at["bench"][1] = "put" => at["bench"][2] >= 1

BenchInv == PlaceInv /\ PoolInv

\* What the constructor makes of a line is a number of threads.
LEMMA ParallelIsInt == \A line \in Lines : Bench(line).parallel \in Int
<1> SUFFICES ASSUME NEW line \in Lines PROVE Bench(line).parallel \in Int
  OBVIOUS
<1>1. PICK s \in Seq(Int) : s = line.ints
  BY BenchmarkAssumption
<1>2. 3 <= Len(s) => s[3] \in Int
  OBVIOUS
<1>3. Bench(line).parallel = IF 3 <= Len(s) THEN s[3] ELSE 1
  BY <1>1 DEF Bench
<1> QED BY <1>2, <1>3

\* At first no thread has loaded anything.
LEMMA BenchInit == Init => BenchInv
<1> SUFFICES ASSUME Init PROVE BenchInv
  OBVIOUS
<1>1. at = [p \in Thread |-> IF p = "bench" THEN <<"prompt">> ELSE <<"idle">>]
  BY DEF Init
<1>2. at["bench"] = <<"prompt">> /\ at["io"] = <<"idle">> /\ Thread = {"bench", "io"}
  BY <1>1 DEF Thread
<1>3. concurrencyPool = 0 /\ b.parallel = 1
  BY DEF Init
<1>4. PlaceInv
  BY <1>1, <1>2, <1>3 DEF PlaceInv
<1>5. PoolInv
  BY <1>2, <1>3 DEF PoolInv, Sound, Waiting
<1> QED BY <1>4, <1>5 DEF BenchInv

\* A thread that goes elsewhere, with nothing loaded and the pool left alone.
LEMMA GoesOn ==
  ASSUME BenchInv, NEW p \in Thread, NEW where, Go(p, where),
         UNCHANGED <<b, concurrencyPool>>,
         where[1] \notin {"put", "store", "take"}, p = "io" => where[1] # "wait",
         p = "bench" => ~Waiting,
         where = <<"wait">> \/ where[1] # "wait"
  PROVE  BenchInv'
<1>1. Thread = {"bench", "io"}
  BY DEF Thread
<1>2. at'[p] = where /\ \A q \in Thread : q # p => at'[q] = at[q]
  BY DEF Go, BenchInv, PlaceInv
<1>3. at' = [q \in Thread |-> at'[q]]
  BY DEF Go, BenchInv, PlaceInv
<1>4. PlaceInv'
  BY <1>1, <1>2, <1>3 DEF BenchInv, PlaceInv
<1>5. PoolInv'
  BY <1>1, <1>2 DEF BenchInv, PlaceInv, PoolInv, Sound, Waiting
<1> QED BY <1>4, <1>5 DEF BenchInv

\* Where a thread goes after a call of Then or a handler.
LEMMA Continues ==
  ASSUME NEW p \in Thread
  PROVE  /\ Continue(p) \in {<<"idle">>, <<"prompt">>, <<"wait">>}
         /\ p = "io" => Continue(p) = <<"idle">>
BY DEF Continue

\* The thread of the benchmark, up to the store.
LEMMA BenchTakes ==
  ASSUME BenchInv
  PROVE  /\ \A line \in Lines : NoRound(line) \/ BeginRound(line) => BenchInv'
         /\ Wait \/ Take \/ Put => BenchInv'
<1>0. Thread = {"bench", "io"} /\ "bench" \in Thread
  BY DEF Thread
<1>1. ASSUME NEW where, Go("bench", where)
      PROVE  /\ at'["bench"] = where /\ at'["io"] = at["io"]
             /\ at' = [p \in Thread |-> at'[p]]
  BY <1>0, <1>1 DEF Go, BenchInv, PlaceInv
<1>2. ASSUME NEW line \in Lines, NoRound(line) PROVE BenchInv'
  <2>1. UNCHANGED <<b, concurrencyPool>> /\ ~Waiting
    BY <1>2 DEF NoRound, config, Waiting
  <2>2. CASE Go("bench", <<"exit">>)
    BY <1>0, <2>1, <2>2, GoesOn
  <2>3. CASE UNCHANGED at
    BY <2>1, <2>3 DEF BenchInv, PlaceInv, PoolInv, Sound, Waiting
  <2> QED BY <1>2, <2>2, <2>3 DEF NoRound
<1>3. ASSUME NEW line \in Lines, BeginRound(line) PROVE BenchInv'
  <2>1. Sound
    BY <1>3 DEF BeginRound, BenchInv, PoolInv, Waiting
  <2>2. b' = Bench(line) /\ Bench(line).parallel \in Int
    BY <1>3, ParallelIsInt DEF BeginRound
  <2>3. CASE Go("bench", <<"down">>) /\ UNCHANGED concurrencyPool
    <3>1. PlaceInv'
      BY <1>0, <1>1, <2>2, <2>3 DEF BenchInv, PlaceInv
    <3>2. PoolInv'
      BY <1>0, <1>1, <2>1, <2>3 DEF PoolInv, Sound, Waiting
    <3> QED BY <3>1, <3>2 DEF BenchInv
  <2>4. CASE Go("bench", <<"wait">>) /\ concurrencyPool' = Bench(line).parallel
    <3>1. PlaceInv'
      BY <1>0, <1>1, <2>2, <2>4 DEF BenchInv, PlaceInv
    <3>2. PoolInv'
      BY <1>0, <1>1, <2>1, <2>2, <2>4 DEF PoolInv, Sound, Waiting
    <3> QED BY <3>1, <3>2 DEF BenchInv
  <2> QED BY <1>3, <2>3, <2>4 DEF BeginRound
<1>4. CASE Wait
  <2>1. UNCHANGED <<b, concurrencyPool>>
    BY <1>4 DEF Wait, config
  <2>2. CASE UNCHANGED at
    BY <2>1, <2>2 DEF BenchInv, PlaceInv, PoolInv, Sound, Waiting
  <2>3. CASE HasPlace /\ Go("bench", <<"take">>)
    <3>1. concurrencyPool >= 1 /\ Sound
      BY <2>3 DEF HasPlace, BenchInv, PlaceInv, PoolInv
    <3>2. PlaceInv'
      BY <1>0, <1>1, <2>1, <2>3 DEF BenchInv, PlaceInv
    <3>3. PoolInv'
      BY <1>0, <1>1, <2>1, <2>3, <3>1 DEF PoolInv, Sound, Waiting
    <3> QED BY <3>2, <3>3 DEF BenchInv
  <2> QED BY <1>4, <2>2, <2>3 DEF Wait
<1>5. CASE Take
  <2>1. /\ UNCHANGED <<b, concurrencyPool>> /\ Go("bench", <<"put", concurrencyPool>>)
        /\ concurrencyPool >= 1 /\ Sound
    BY <1>5 DEF Take, config, BenchInv, PoolInv, Waiting
  <2>2. PlaceInv'
    BY <1>0, <1>1, <2>1 DEF BenchInv, PlaceInv
  <2>3. PoolInv'
    BY <1>0, <1>1, <2>1 DEF PoolInv, Sound, Waiting
  <2> QED BY <2>2, <2>3 DEF BenchInv
<1>6. CASE Put
  <2>1. PICK n \in Int : n = at["bench"][2] /\ n >= 1
    BY <1>6 DEF Put, BenchInv, PlaceInv, PoolInv
  <2>2. /\ UNCHANGED b /\ concurrencyPool' = n - 1 /\ Go("bench", <<"schedule">>)
        /\ Sound
    BY <1>6, <2>1 DEF Put, Taken, config, BenchInv, PoolInv, Waiting
  <2>3. PlaceInv'
    BY <1>0, <1>1, <2>1, <2>2 DEF BenchInv, PlaceInv
  <2>4. PoolInv'
    BY <1>0, <1>1, <2>1, <2>2 DEF PoolInv, Sound, Waiting
  <2> QED BY <2>3, <2>4 DEF BenchInv
<1> QED BY <1>2, <1>3, <1>4, <1>5, <1>6

\* What either thread does with a request that is out.
LEMMA BenchHandles ==
  ASSUME BenchInv
  PROVE  /\ \A f \in DOMAIN todo : Schedule(f) => BenchInv'
         /\ \A r \in Request : Attach(r) \/ Resolve(r) => BenchInv'
         /\ \A p \in Thread : Handler(p) => BenchInv'
<1>0. Thread = {"bench", "io"} /\ "bench" \in Thread /\ "io" \in Thread
  BY DEF Thread
<1>1. ASSUME NEW f \in DOMAIN todo, Schedule(f) PROVE BenchInv'
  <2>1. UNCHANGED <<b, concurrencyPool>> /\ Go("bench", <<"attach", next>>) /\ ~Waiting
    BY <1>1 DEF Schedule, config, Waiting
  <2> QED BY <1>0, <2>1, GoesOn
<1>2. ASSUME NEW r \in Request, Attach(r) PROVE BenchInv'
  <2>1. UNCHANGED <<b, concurrencyPool>> /\ ~Waiting
    BY <1>2 DEF Attach, config, Waiting
  <2>2. CASE Go("bench", <<"report", r>>)
    BY <1>0, <2>1, <2>2, GoesOn
  <2>3. CASE Go("bench", Continue("bench"))
    <3>1. PICK where \in {<<"idle">>, <<"prompt">>, <<"wait">>} : where = Continue("bench")
      BY <1>0, Continues
    <3> QED BY <1>0, <2>1, <2>3, <3>1, GoesOn
  <2> QED BY <1>2, <2>2, <2>3 DEF Attach
<1>3. ASSUME NEW r \in Request, Resolve(r) PROVE BenchInv'
  <2>1. UNCHANGED <<b, concurrencyPool>>
    BY <1>3 DEF Resolve, config
  <2>2. CASE UNCHANGED at
    BY <2>1, <2>2 DEF BenchInv, PlaceInv, PoolInv, Sound, Waiting
  <2>3. CASE Go("io", <<"report", r>>)
    BY <1>0, <2>1, <2>3, GoesOn
  <2> QED BY <1>3, <2>2, <2>3 DEF Resolve
<1>4. ASSUME NEW p \in Thread, Report(p) PROVE BenchInv'
  <2>1. UNCHANGED <<b, concurrencyPool>> /\ Go(p, <<"add", at[p][2]>>)
    BY <1>4 DEF Report, config
  <2>2. p = "bench" => ~Waiting
    BY <1>4 DEF Report, Waiting
  <2> QED BY <2>1, <2>2, GoesOn
<1>5. ASSUME NEW p \in Thread, NEW where, Go(p, where)
      PROVE  /\ at'[p] = where /\ \A q \in Thread : q # p => at'[q] = at[q]
             /\ at' = [q \in Thread |-> at'[q]]
  BY <1>5 DEF Go, BenchInv, PlaceInv
<1>6. ASSUME NEW p \in Thread, Add(p) PROVE BenchInv'
  <2>1. /\ UNCHANGED <<b, concurrencyPool>>
        /\ Go(p, <<"store", at[p][2], concurrencyPool>>)
        /\ p = "bench" => ~Waiting
    BY <1>6 DEF Add, config, Waiting
  <2>2. PlaceInv'
    BY <1>0, <1>5, <2>1 DEF BenchInv, PlaceInv
  <2>3. PoolInv'
    BY <1>0, <1>5, <2>1 DEF BenchInv, PlaceInv, PoolInv, Sound, Waiting
  <2> QED BY <2>2, <2>3 DEF BenchInv
<1>7. ASSUME NEW p \in Thread, Store(p) PROVE BenchInv'
  <2>1. PICK n \in Int : n = at[p][3] /\ (concurrencyPool' = n + 1 \/ UNCHANGED concurrencyPool)
    BY <1>7 DEF Store, Returned, BenchInv, PlaceInv
  <2>2. PICK where \in {<<"idle">>, <<"prompt">>, <<"wait">>} :
          Go(p, where) /\ (p = "io" => where = <<"idle">>)
    BY <1>7, Continues DEF Store
  <2>3. UNCHANGED b /\ at[p][1] = "store" /\ (p = "bench" => ~Waiting)
    BY <1>7 DEF Store, config, Waiting
  <2>4. PlaceInv'
    BY <1>0, <1>5, <2>1, <2>2, <2>3 DEF BenchInv, PlaceInv
  <2>5. PoolInv'
    <3>1. CASE Sound
      BY <1>0, <1>5, <2>1, <2>2, <2>3, <3>1 DEF BenchInv, PlaceInv, PoolInv, Sound, Waiting
    <3>2. CASE ~Sound
      <4>1. Waiting /\ b.parallel < 0 /\ p = "io"
        BY <1>0, <2>3, <3>2 DEF BenchInv, PlaceInv, PoolInv
      <4>2. at'["bench"] = <<"wait">> /\ at'["io"] = <<"idle">>
        BY <1>0, <1>5, <2>2, <4>1 DEF Waiting
      <4> QED BY <1>0, <2>3, <4>1, <4>2 DEF BenchInv, PlaceInv, PoolInv, Sound, Waiting
    <3> QED BY <3>1, <3>2
  <2> QED BY <2>4, <2>5 DEF BenchInv
<1> QED BY <1>1, <1>2, <1>3, <1>4, <1>6, <1>7 DEF Handler

\* Each step keeps the invariant.
LEMMA BenchNext == BenchInv /\ [Next]_vars => BenchInv'
<1> SUFFICES ASSUME BenchInv, [Next]_vars PROVE BenchInv'
  OBVIOUS
<1>1. ASSUME UNCHANGED <<at, b, concurrencyPool>> PROVE BenchInv'
  BY <1>1 DEF BenchInv, PlaceInv, PoolInv, Sound, Waiting
<1>2. CASE UNCHANGED vars
  BY <1>1, <1>2 DEF vars, config
<1>3. CASE Register
  BY <1>1, <1>3 DEF Register
<1>4. CASE Terminated
  BY <1>1, <1>4 DEF Terminated, vars, config
<1>5. CASE BenchThread
  <2>1. "bench" \in Thread
    BY DEF Thread
  <2> QED BY <1>5, <2>1, BenchTakes, BenchHandles DEF BenchThread
<1>6. CASE \E line \in Lines : NoRound(line)
  BY <1>6, BenchTakes
<1>7. CASE \E r \in Request : Resolve(r)
  BY <1>7, BenchHandles
<1>8. CASE Handler("io")
  <2>1. "io" \in Thread
    BY DEF Thread
  <2> QED BY <1>8, <2>1, BenchHandles
<1> QED BY <1>2, <1>3, <1>4, <1>5, <1>6, <1>7, <1>8 DEF Next

\* The pool of a round that was given no negative number of threads is never
\* negative, for any lines, however loads and stores interleave and whatever
\* replies outlive their round.
THEOREM PoolCorrect == Spec => []PoolNeverNegative
<1>1. BenchInv => PoolNeverNegative
  BY DEF BenchInv, PoolInv, Sound, PoolNeverNegative
<1> QED BY <1>1, BenchInit, BenchNext, PTL DEF Spec

-----------------------------------------------------------------------------
(* The requests of a round, and the places they hold.                      *)

\* The runs still to make, one by one.
RunsLeft(t) == {e \in (0 .. MaxRuns) \X Nat : 1 <= e[2] /\ e[2] <= t[e[1]]}

\* The vector the code fills: run k of function f, and the runs without one.
Slot(c, f, k) == IF f = 0 THEN c.fns * Repeats(c) + k ELSE (f - 1) * Repeats(c) + k

\* A multiple is at most a larger one.
LEMMA Multiples ==
  ASSUME NEW n \in Nat, NEW i \in Int, NEW j \in Int, i < j
  PROVE  i * n \in Int /\ j * n \in Int /\ i * n + n <= j * n
<1> PICK d \in Nat : j = i + 1 + d
  <2>1. j - i - 1 \in Nat /\ j = i + 1 + (j - i - 1)
    OBVIOUS
  <2> QED BY <2>1
<1>1. d * n \in Nat /\ i * n \in Int /\ j * n \in Int
  OBVIOUS
<1>2. (i + 1 + d) * n = i * n + n + d * n
  OBVIOUS
<1> QED BY <1>1, <1>2

LEMMA Cancels ==
  ASSUME NEW m \in Int, NEW i \in Int, NEW j \in Int, m + i = m + j
  PROVE  i = j
OBVIOUS

LEMMA Slots == \A m \in Nat : IsFiniteSet(1 .. m) /\ Cardinality(1 .. m) = m
<1> SUFFICES ASSUME NEW m \in Nat PROVE IsFiniteSet(1 .. m) /\ Cardinality(1 .. m) = m
  OBVIOUS
<1>1. /\ IsFiniteSet(1 .. m)
      /\ Cardinality(1 .. m) = IF 1 > m THEN 0 ELSE m - 1 + 1
  BY FS_Interval
<1> QED BY <1>1

\* A round that begins has runs to make, no more of each function than of all.
LEMMA RoundRuns ==
  ASSUME NEW line \in Lines, line \notin {Quit, Empty}, VecGood(Bench(line)),
         ~ VectorFails(Bench(line))
  PROVE  LET c == Bench(line)
         IN  /\ c.runs \in 1 .. MaxRuns /\ c.fns \in Int
             /\ Repeats(c) \in Nat /\ c.fns * Repeats(c) \in Nat
             /\ c.fns * Repeats(c) <= c.runs
             /\ c.fns <= 0 => Repeats(c) = 0
<1> DEFINE c == Bench(line)
<1>1. PICK q \in Seq(Int) : q = line.ints /\ (q # <<>> => q[1] <= MaxRuns)
  BY BenchmarkAssumption
<1>2. /\ 1 <= Len(q) => q[1] \in Int /\ q # <<>>
      /\ 2 <= Len(q) => q[2] \in Int
  OBVIOUS
<1>3. /\ c.runs = IF line = Garbled THEN 0 ELSE IF 1 <= Len(q) THEN q[1] ELSE 1
      /\ c.fns = IF 2 <= Len(q) THEN q[2] ELSE 1
  BY <1>1 DEF Bench
<1> HIDE DEF c
<1>4. c.runs # 0 /\ ~ (c.runs < 0)
  BY DEF VecGood, VectorFails, c
<1>5. c.runs \in 1 .. MaxRuns /\ c.fns \in Int
  BY <1>1, <1>2, <1>3, <1>4, BenchmarkAssumption
<1>6. CASE c.fns > 0
  <2>1. PICK runs \in Nat, fns \in Nat \ {0} : runs = c.runs /\ fns = c.fns
    BY <1>5, <1>6
  <2>2. runs \div fns \in Nat /\ fns * (runs \div fns) \in Nat /\ fns * (runs \div fns) <= runs
    OBVIOUS
  <2>3. Repeats(c) = runs \div fns
    BY <1>6, <2>1 DEF Repeats
  <2> QED BY <1>5, <1>6, <2>1, <2>2, <2>3 DEF c
<1>7. CASE c.fns <= 0
  <2>1. Repeats(c) = 0
    BY <1>5, <1>7 DEF Repeats
  <2>2. c.fns * 0 = 0
    BY <1>5
  <2> QED BY <1>5, <1>7, <2>1, <2>2 DEF c
<1> QED BY <1>5, <1>6, <1>7

\* They are no more than the runs of the line.
LEMMA RoundSize ==
  ASSUME NEW c, c.runs \in 1 .. MaxRuns, c.fns \in Int, Repeats(c) \in Nat,
         c.fns * Repeats(c) \in Nat, c.fns * Repeats(c) <= c.runs,
         c.fns <= 0 => Repeats(c) = 0
  PROVE  /\ Revisions(c) \in [0 .. MaxRuns -> Nat] /\ Revisions(c) # NoRuns
         /\ IsFiniteSet(RunsLeft(Revisions(c)))
         /\ Cardinality(RunsLeft(Revisions(c))) <= c.runs
<1>0. MaxRuns \in Nat \ {0}
  BY BenchmarkAssumption
<1> PICK runs \in 1 .. MaxRuns, fns \in Int, n \in Nat :
      runs = c.runs /\ fns = c.fns /\ n = Repeats(c)
  OBVIOUS
<1> DEFINE rest == runs - fns * n
           t == Revisions(c)
           L == RunsLeft(t)
<1>1. rest \in Nat /\ fns * n \in Nat /\ fns * n + rest = runs
  OBVIOUS
<1> HIDE DEF rest
<1>2. t = [f \in 0 .. MaxRuns |-> IF f = 0 THEN rest ELSE IF f <= fns THEN n ELSE 0]
  BY DEF Revisions, rest
<1> HIDE DEF t
<1>3. t \in [0 .. MaxRuns -> Nat]
  BY <1>1, <1>2
<1>4. t # NoRuns
  <2>1. CASE n = 0
    <3>1. fns * n = 0
      BY <2>1
    <3>2. t[0] = runs
      <4>1. rest = runs
        BY <1>1, <3>1
      <4> QED BY <1>0, <1>2, <4>1
    <3>3. NoRuns[0] = 0
      BY <1>0 DEF NoRuns
    <3> QED BY <3>2, <3>3
  <2>2. CASE n # 0
    <3>1. t[1] = n
      BY <1>0, <1>2, <2>2
    <3>2. NoRuns[1] = 0
      BY <1>0 DEF NoRuns
    <3> QED BY <2>2, <3>1, <3>2
  <2> QED BY <2>1, <2>2
<1>5. \A e \in L : /\ e[1] \in 0 .. MaxRuns /\ e[2] \in Nat /\ 1 <= e[2]
                   /\ e = <<e[1], e[2]>>
                   /\ e[1] = 0 => e[2] <= rest
                   /\ e[1] # 0 => e[1] <= fns /\ e[2] <= n
  BY <1>0, <1>1, <1>2 DEF RunsLeft
<1> DEFINE slot(e) == Slot(c, e[1], e[2])
           g == [e \in L |-> slot(e)]
<1> HIDE DEF L
<1>6. \A e \in L : slot(e) = IF e[1] = 0 THEN fns * n + e[2] ELSE (e[1] - 1) * n + e[2]
  BY DEF Slot
<1>7. ASSUME NEW e \in L, e[1] # 0
      PROVE  /\ slot(e) \in Int /\ (e[1] - 1) * n \in Nat
             /\ slot(e) = (e[1] - 1) * n + e[2]
             /\ slot(e) <= fns * n
  <2>1. PICK f \in 1 .. MaxRuns, k \in 1 .. n : f = e[1] /\ k = e[2] /\ f <= fns
    BY <1>0, <1>5, <1>7
  <2>2. (f - 1) * n \in Nat
    OBVIOUS
  <2>3. (f - 1) * n + n <= fns * n
    BY <2>1, Multiples
  <2> QED BY <1>6, <1>7, <2>1, <2>2, <2>3
<1>8. \A e \in L : slot(e) \in 1 .. runs
  <2> TAKE e \in L
  <2>1. CASE e[1] = 0
    BY <1>1, <1>5, <1>6, <2>1
  <2>2. CASE e[1] # 0
    BY <1>1, <1>5, <1>7, <2>2
  <2> QED BY <2>1, <2>2
<1>9. \A d, e \in L : slot(d) = slot(e) => d = e
  <2> SUFFICES ASSUME NEW d \in L, NEW e \in L, slot(d) = slot(e) PROVE d = e
    OBVIOUS
  <2>1. ASSUME NEW x \in L, NEW y \in L, x[1] = 0, y[1] # 0 PROVE slot(x) # slot(y)
    <3>1. slot(x) = fns * n + x[2] /\ x[2] >= 1 /\ x[2] \in Nat
      BY <1>5, <1>6, <2>1
    <3>2. slot(y) <= fns * n /\ slot(y) \in Int
      BY <1>7, <2>1
    <3> HIDE DEF slot
    <3> QED BY <1>1, <3>1, <3>2
  <2>2. ASSUME NEW x \in L, NEW y \in L, x[1] # 0, y[1] # 0, x[1] < y[1]
        PROVE  slot(x) # slot(y)
    <3>1. PICK f \in 1 .. MaxRuns, k \in 1 .. n : f = x[1] /\ k = x[2]
      BY <1>0, <1>5, <2>2
    <3>2. PICK h \in 1 .. MaxRuns, l \in 1 .. n : h = y[1] /\ l = y[2]
      BY <1>0, <1>5, <2>2
    <3>3. (f - 1) * n \in Int /\ (h - 1) * n \in Int /\ (f - 1) * n + n <= (h - 1) * n
      BY <2>2, <3>1, <3>2, Multiples
    <3>4. slot(x) = (f - 1) * n + k /\ slot(y) = (h - 1) * n + l
      BY <1>7, <2>2, <3>1, <3>2
    <3> HIDE DEF slot
    <3> QED BY <3>3, <3>4
  <2>3. d[1] = e[1]
    BY <1>0, <1>5, <2>1, <2>2
  <2>4. d[2] = e[2]
    <3>1. CASE d[1] = 0
      <4>1. slot(d) = fns * n + d[2] /\ slot(e) = fns * n + e[2]
        BY <1>6, <2>3, <3>1
      <4>2. PICK i \in Nat, j \in Nat : i = d[2] /\ j = e[2]
        BY <1>5
      <4> HIDE DEF slot
      <4>3. PICK x \in Nat : x = fns * n
        BY <1>1
      <4>4. x + i = x + j
        BY <4>1, <4>2, <4>3
      <4>5. i = j
        BY <4>4, Cancels
      <4> QED BY <4>2, <4>5
    <3>2. CASE d[1] # 0
      BY <1>5, <1>7, <2>3, <3>2
    <3> QED BY <3>1, <3>2
  <2>5. d = <<d[1], d[2]>> /\ e = <<e[1], e[2]>>
    BY <1>5
  <2> QED BY <2>3, <2>4, <2>5
<1> HIDE DEF slot
<1>10. g \in Injection(L, 1 .. runs)
  <2>1. g \in [L -> 1 .. runs]
    BY <1>8
  <2>2. \A d, e \in L : g[d] = g[e] => d = e
    BY <1>9
  <2> HIDE DEF g
  <2> QED BY <2>1, <2>2, Fun_IsInj
<1>11. IsFiniteSet(1 .. runs) /\ Cardinality(1 .. runs) = runs
  <2>1. runs \in Nat
    BY <1>0
  <2> QED BY <2>1, Slots
<1>12. IsFiniteSet(L) /\ Cardinality(L) <= runs
  BY <1>10, <1>11, FS_Injection
<1> QED BY <1>3, <1>4, <1>12 DEF L, t

Lives == {"none", "taken", "sent", "ready", "attached", "handling", "done"}

\* From its prompt to ScheduleActivation, the thread has a run to make.
Making == at["bench"][1] \in {"wait", "take", "put", "schedule"}

\* The requests made and those a round has yet to make are no more than all the
\* rounds begun may make: Request numbers enough of them.
NumberInv ==
  /\ round \in 0 .. MaxRounds
  /\ todo \in [0 .. MaxRuns -> Nat]
  /\ next \in Nat \ {0}
  /\ life \in [Request -> Lives] /\ of \in [Request -> 0 .. MaxRounds]
  /\ IsFiniteSet(RunsLeft(todo))
  /\ next - 1 + Cardinality(RunsLeft(todo)) <= round * MaxRuns
  /\ Making => todo # NoRuns

\* A round that was given a thread has a place in its pool, or a request that
\* will give one back.
StallInv == Started /\ b.parallel >= 1 => concurrencyPool >= 1 \/ Outstanding # {}

\* A thread with a run to make has a request left for it.
LEMMA RequestLeft ==
  ASSUME NumberInv, Making
  PROVE  next \in Request
<1>1. PICK f \in 0 .. MaxRuns : todo[f] # 0
  <2>1. \E f \in 0 .. MaxRuns : todo[f] # NoRuns[f]
    BY DEF NumberInv, NoRuns
  <2> QED BY <2>1 DEF NoRuns
<1>2. <<f, 1>> \in RunsLeft(todo)
  BY <1>1 DEF RunsLeft, NumberInv
<1>3. PICK n \in Nat : n = Cardinality(RunsLeft(todo))
  BY FS_CardinalityType DEF NumberInv
<1>4. n # 0
  BY <1>2, <1>3, FS_EmptySet DEF NumberInv
<1>5. round * MaxRuns \in Int /\ MaxRounds * MaxRuns \in Int
      /\ round * MaxRuns <= MaxRounds * MaxRuns
  <2>1. MaxRuns \in Nat /\ MaxRounds \in Nat /\ round \in Nat /\ round <= MaxRounds
    BY BenchmarkAssumption DEF NumberInv
  <2>2. CASE round = MaxRounds
    BY <2>1, <2>2
  <2>3. CASE round < MaxRounds
    BY <2>1, <2>3, Multiples
  <2> QED BY <2>1, <2>2, <2>3
<1>6. next \in Nat \ {0} /\ next - 1 + n <= round * MaxRuns
  BY <1>3 DEF NumberInv
<1> QED BY <1>3, <1>4, <1>5, <1>6 DEF Request

\* At first nothing is made.
LEMMA NumberInit == Init => NumberInv /\ StallInv
<1> SUFFICES ASSUME Init PROVE NumberInv /\ StallInv
  OBVIOUS
<1>1. at["bench"] = <<"prompt">>
  BY DEF Init, Thread
<1>2. ~ Making /\ ~ Started
  BY <1>1 DEF Making, Started
<1>3. RunsLeft(NoRuns) = {}
  BY DEF RunsLeft, NoRuns
<1>4. IsFiniteSet(RunsLeft(todo)) /\ Cardinality(RunsLeft(todo)) = 0
  BY <1>3, FS_EmptySet DEF Init
<1>5. /\ todo \in [0 .. MaxRuns -> Nat] /\ round = 0 /\ next = 1
      /\ life \in [Request -> Lives] /\ of \in [Request -> 0 .. MaxRounds]
  BY BenchmarkAssumption DEF Init, NoRuns, Lives
<1>6. 0 * MaxRuns = 0 /\ 0 \in 0 .. MaxRounds
  BY BenchmarkAssumption
<1> QED BY <1>2, <1>4, <1>5, <1>6 DEF NumberInv, StallInv

\* A step that makes no request and keeps the round.
LEMMA NumberFrame ==
  ASSUME NumberInv, UNCHANGED <<round, todo, next, of>>,
         life' \in [Request -> Lives], Making' => Making \/ todo # NoRuns
  PROVE  NumberInv'
BY DEF NumberInv

\* Where a thread is after a step of its own, and after one of the other's.
LEMMA Goes ==
  ASSUME BenchInv, NEW p \in Thread, NEW where, Go(p, where)
  PROVE  at'[p] = where /\ \A q \in Thread : q # p => at'[q] = at[q]
BY DEF Go, BenchInv, PlaceInv

\* A request that goes on is one that still holds its place.
LEMMA BecomesLife ==
  ASSUME NumberInv, NEW r, NEW stage \in Lives, Become(r, stage)
  PROVE  /\ life' \in [Request -> Lives]
         /\ UNCHANGED <<of, round>> =>
              /\ stage \notin {"none", "done"} => Outstanding \subseteq Outstanding'
              /\ Outstanding \ {r} \subseteq Outstanding'
<1>1. life \in [Request -> Lives] /\ life' = [life EXCEPT ![r] = stage]
  BY DEF NumberInv, Become
<1> QED BY <1>1 DEF Outstanding

\* Where the benchmark's thread is decides both.
LEMMA MakingStarted ==
  ASSUME at["bench"] = at'["bench"]
  PROVE  Making' = Making /\ Started' = Started
BY DEF Making, Started

\* A round begins with all its runs to make and all its places in the pool.
LEMMA StallBegins ==
  ASSUME BenchInv, NumberInv, StallInv, NEW line \in Lines,
         NoRound(line) \/ BeginRound(line)
  PROVE  NumberInv' /\ StallInv'
<1>0. "bench" \in Thread
  BY DEF Thread
<1>1. CASE NoRound(line)
  <2>1. UNCHANGED <<round, todo, next, of, life>> /\ at["bench"] = <<"prompt">>
    BY <1>1 DEF NoRound, config, requests
  <2>2. at'["bench"] = <<"prompt">> \/ at'["bench"] = <<"exit">>
    <3>1. CASE Go("bench", <<"exit">>)
      BY <1>0, <3>1, Goes
    <3>2. CASE UNCHANGED at
      BY <2>1, <3>2
    <3> QED BY <1>1, <3>1, <3>2 DEF NoRound
  <2>3. ~ Making' /\ ~ Started'
    BY <2>2 DEF Making, Started
  <2>4. life' \in [Request -> Lives]
    BY <2>1 DEF NumberInv
  <2> QED BY <2>1, <2>3, <2>4, NumberFrame DEF StallInv
<1>2. CASE BeginRound(line)
  <2> DEFINE c == Bench(line)
  <2>1. /\ line \notin {Quit, Empty} /\ VecGood(c) /\ round < MaxRounds
        /\ b' = c /\ round' = round + 1 /\ UNCHANGED <<next, life, of>>
    BY <1>2 DEF BeginRound, requests
  <2>2. /\ round \in Nat /\ round + 1 \in 0 .. MaxRounds
        /\ (round + 1) * MaxRuns = round * MaxRuns + MaxRuns
        /\ round * MaxRuns \in Nat /\ MaxRuns \in Nat
    <3>1. round \in 0 .. MaxRounds /\ MaxRounds \in Nat /\ MaxRuns \in Nat
      BY BenchmarkAssumption DEF NumberInv
    <3> QED BY <2>1, <3>1
  <2>3. CASE VectorFails(c)
    <3>1. Go("bench", <<"down">>) /\ UNCHANGED todo
      BY <1>2, <2>3 DEF BeginRound
    <3>2. at'["bench"] = <<"down">>
      BY <1>0, <3>1, Goes
    <3>3. ~ Making' /\ ~ Started'
      BY <3>2 DEF Making, Started
    <3>4. RunsLeft(todo)' = RunsLeft(todo)
      BY <3>1 DEF RunsLeft
    <3>5. PICK n \in Nat : n = Cardinality(RunsLeft(todo))
      BY FS_CardinalityType DEF NumberInv
    <3>6. next \in Nat /\ next - 1 + n <= (round + 1) * MaxRuns
      BY <2>2, <3>5 DEF NumberInv
    <3> QED BY <2>1, <2>2, <3>1, <3>3, <3>4, <3>5, <3>6 DEF NumberInv, StallInv
  <2>4. CASE ~ VectorFails(c)
    <3>1. /\ Go("bench", <<"wait">>) /\ todo' = Revisions(c)
          /\ concurrencyPool' = c.parallel
      BY <1>2, <2>4 DEF BeginRound
    <3>2. /\ c.runs \in 1 .. MaxRuns /\ c.fns \in Int /\ Repeats(c) \in Nat
          /\ c.fns * Repeats(c) \in Nat /\ c.fns * Repeats(c) <= c.runs
          /\ c.fns <= 0 => Repeats(c) = 0
      BY <2>1, <2>4, RoundRuns
    <3> HIDE DEF c
    <3>3. /\ todo' \in [0 .. MaxRuns -> Nat] /\ todo' # NoRuns
          /\ IsFiniteSet(RunsLeft(todo'))
          /\ Cardinality(RunsLeft(todo')) <= c.runs
      BY <3>1, <3>2, RoundSize
    <3>4. PICK n \in Nat : n = Cardinality(RunsLeft(todo')) /\ n <= MaxRuns
      <4>1. Cardinality(RunsLeft(todo')) \in Nat
        BY <3>3, FS_CardinalityType
      <4>2. c.runs \in Nat /\ c.runs <= MaxRuns
        BY <2>2, <3>2
      <4> QED BY <2>2, <3>3, <4>1, <4>2
    <3>5. PICK m \in Nat : m = Cardinality(RunsLeft(todo))
      BY FS_CardinalityType DEF NumberInv
    <3>6. next \in Nat \ {0} /\ next - 1 + m <= round * MaxRuns
      BY <3>5 DEF NumberInv
    <3>7. next - 1 + n <= (round + 1) * MaxRuns
      BY <2>2, <3>4, <3>6
    <3>8. NumberInv'
      BY <2>1, <2>2, <3>3, <3>4, <3>6, <3>7 DEF NumberInv
    <3>9. StallInv'
      <4>1. c.parallel \in Int
        BY ParallelIsInt DEF c
      <4> QED BY <2>1, <3>1, <4>1 DEF StallInv
    <3> QED BY <3>8, <3>9
  <2> QED BY <2>3, <2>4
<1> QED BY <1>1, <1>2

\* A place is taken only for a request that holds it from then on.
LEMMA StallTakes ==
  ASSUME BenchInv, NumberInv, StallInv, Wait \/ Take \/ Put
  PROVE  NumberInv' /\ StallInv'
<1>0. "bench" \in Thread
  BY DEF Thread
<1>1. Making /\ Started /\ UNCHANGED <<b, round, todo, next>>
  BY DEF Wait, Take, Put, Making, Started, config, requests
<1>2. CASE Wait \/ Take
  <2>1. UNCHANGED <<life, of, concurrencyPool>>
    BY <1>2 DEF Wait, Take, requests
  <2>2. NumberInv'
    BY <1>1, <2>1, NumberFrame DEF NumberInv
  <2>3. Outstanding' = Outstanding
    BY <1>1, <2>1 DEF Outstanding
  <2> QED BY <1>1, <2>1, <2>2, <2>3 DEF StallInv
<1>3. CASE Put
  <2>1. Become(next, "taken") /\ of' = [of EXCEPT ![next] = round]
        /\ Go("bench", <<"schedule">>)
    BY <1>3 DEF Put
  <2>2. next \in Request
    BY <1>1, RequestLeft
  <2>3. at'["bench"] = <<"schedule">>
    BY <1>0, <2>1, Goes
  <2>4. /\ life' \in [Request -> Lives] /\ life'[next] = "taken"
        /\ of' \in [Request -> 0 .. MaxRounds] /\ of'[next] = round
    BY <2>1, <2>2 DEF NumberInv, Become, Lives
  <2>5. NumberInv'
    BY <1>1, <2>4 DEF NumberInv
  <2>6. next \in Outstanding'
    BY <1>1, <2>2, <2>4 DEF Outstanding
  <2> QED BY <2>5, <2>6 DEF StallInv
<1> QED BY <1>2, <1>3

\* One run less is left, and one request more is made.
LEMMA StallSchedules ==
  ASSUME BenchInv, NumberInv, StallInv, NEW f \in DOMAIN todo, Schedule(f)
  PROVE  NumberInv' /\ StallInv'
<1>0. "bench" \in Thread
  BY DEF Thread
<1>1. /\ Started /\ todo[f] > 0 /\ todo' = [todo EXCEPT ![f] = todo[f] - 1]
      /\ Become(next, "sent") /\ next' = next + 1 /\ Go("bench", <<"attach", next>>)
      /\ UNCHANGED <<b, round, concurrencyPool, of>>
  BY DEF Schedule, config, Started
<1>2. at'["bench"] = <<"attach", next>>
  BY <1>0, <1>1, Goes
<1>3. ~ Making'
  BY <1>2 DEF Making
<1>4. /\ f \in 0 .. MaxRuns /\ todo \in [0 .. MaxRuns -> Nat]
      /\ todo' \in [0 .. MaxRuns -> Nat]
  BY <1>1 DEF NumberInv
<1> DEFINE e == <<f, todo[f]>>
           L == RunsLeft(todo)
<1>5. e \in L /\ RunsLeft(todo') = L \ {e}
  <2>1. e \in L
    BY <1>1, <1>4 DEF RunsLeft
  <2>2. ASSUME NEW d \in (0 .. MaxRuns) \X Nat
        PROVE  (1 <= d[2] /\ d[2] <= todo'[d[1]]) <=>
                 (1 <= d[2] /\ d[2] <= todo[d[1]] /\ d # e)
    <3>1. PICK g \in 0 .. MaxRuns, k \in Nat : d = <<g, k>>
      OBVIOUS
    <3>2. CASE g = f
      <4>1. todo'[g] = todo[f] - 1 /\ todo[f] \in Nat
        BY <1>1, <1>4, <3>2
      <4>2. d # e <=> k # todo[f]
        BY <3>1, <3>2
      <4> QED BY <3>1, <3>2, <4>1, <4>2
    <3>3. CASE g # f
      <4>1. todo'[g] = todo[g] /\ d # e
        BY <1>1, <1>4, <3>1, <3>3
      <4> QED BY <3>1, <4>1
    <3> QED BY <3>2, <3>3
  <2>3. RunsLeft(todo') = L \ {e}
    BY <2>2 DEF RunsLeft
  <2> QED BY <2>1, <2>3
<1> HIDE DEF e, L
<1>6. PICK n \in Nat : n = Cardinality(L)
  BY FS_CardinalityType DEF NumberInv, L
<1>7. IsFiniteSet(RunsLeft(todo')) /\ Cardinality(RunsLeft(todo')) = n - 1
  <2>1. IsFiniteSet(L)
    BY DEF NumberInv, L
  <2>2. IsFiniteSet(L \ {e})
        /\ Cardinality(L \ {e}) = IF e \in L THEN Cardinality(L) - 1 ELSE Cardinality(L)
    BY <2>1, FS_RemoveElement
  <2> QED BY <1>5, <1>6, <2>2
<1>8. next \in Nat \ {0} /\ next - 1 + n <= round * MaxRuns
  BY <1>6 DEF NumberInv, L
<1>9. /\ life' \in [Request -> Lives] /\ Outstanding \subseteq Outstanding'
  BY <1>1, BecomesLife DEF Lives
<1>10. NumberInv'
  <2>1. next' \in Nat \ {0} /\ next' - 1 + (n - 1) <= round * MaxRuns
    <3>1. round * MaxRuns \in Int
      BY BenchmarkAssumption DEF NumberInv
    <3> QED BY <1>1, <1>6, <1>8, <3>1
  <2> QED BY <1>1, <1>3, <1>4, <1>7, <1>9, <2>1 DEF NumberInv
<1>11. StallInv'
  BY <1>1, <1>9 DEF StallInv
<1> QED BY <1>10, <1>11

\* Then, and the reply: the request keeps its place.
LEMMA StallAnswers ==
  ASSUME BenchInv, NumberInv, StallInv, NEW r \in Request, Attach(r) \/ Resolve(r)
  PROVE  NumberInv' /\ StallInv'
<1>0. Thread = {"bench", "io"} /\ "bench" \in Thread /\ "io" \in Thread
  BY DEF Thread
<1>1. UNCHANGED <<b, round, todo, concurrencyPool, next, of>>
  BY DEF Attach, Resolve, config
<1>2. PICK stage \in Lives :
        Become(r, stage) /\ (stage \in {"none", "done"} => stage = life[r])
  <2>1. life[r] \in Lives
    BY DEF NumberInv
  <2> QED BY <2>1 DEF Attach, Resolve, Lives
<1>3. life' \in [Request -> Lives] /\ Outstanding \subseteq Outstanding'
  <2>1. CASE stage \notin {"none", "done"}
    BY <1>1, <1>2, <2>1, BecomesLife
  <2>2. CASE stage \in {"none", "done"}
    <3>1. UNCHANGED life
      BY <1>2, <2>2 DEF Become, NumberInv
    <3> QED BY <1>1, <3>1 DEF NumberInv, Outstanding
  <2> QED BY <2>1, <2>2
<1>4. Started' => Started
  <2>1. CASE Attach(r)
    BY <2>1 DEF Attach, Started
  <2>2. CASE Resolve(r)
    <3>1. at'["bench"] = at["bench"]
      BY <1>0, <2>2, Goes DEF Resolve
    <3> QED BY <3>1 DEF Started
  <2> QED BY <2>1, <2>2
<1>5. Making' => Making \/ todo # NoRuns
  <2>1. CASE Attach(r)
    <3>1. at'["bench"] = <<"report", r>> \/ at'["bench"] = Continue("bench")
      BY <1>0, <2>1, Goes DEF Attach
    <3>2. at'["bench"] # <<"report", r>> => todo # NoRuns \/ at'["bench"] = <<"prompt">>
      BY <3>1 DEF Continue
    <3>3. Making' => at'["bench"] # <<"report", r>> /\ at'["bench"] # <<"prompt">>
      BY DEF Making
    <3> QED BY <3>2, <3>3
  <2>2. CASE Resolve(r)
    <3>1. at'["bench"] = at["bench"]
      BY <1>0, <2>2, Goes DEF Resolve
    <3> QED BY <3>1 DEF Making
  <2> QED BY <2>1, <2>2
<1>6. NumberInv'
  BY <1>1, <1>3, <1>5, NumberFrame
<1>7. StallInv'
  BY <1>1, <1>3, <1>4 DEF StallInv
<1> QED BY <1>6, <1>7

\* A handler gives its place back where the pool of its round can be seen, and
\* the one it stores is a place at least.
LEMMA StallHandles ==
  ASSUME BenchInv, NumberInv, StallInv, NEW p \in Thread, Handler(p)
  PROVE  NumberInv' /\ StallInv'
<1>0. Thread = {"bench", "io"} /\ "bench" \in Thread /\ "io" \in Thread
  BY DEF Thread
<1>1. UNCHANGED <<b, round, todo, next, of>>
  BY DEF Handler, Report, Add, Store, config, requests
<1>2. CASE Report(p) \/ Add(p)
  <2>1. UNCHANGED <<concurrencyPool, life>>
    BY <1>2 DEF Report, Add, requests
  <2>2. PICK where : Go(p, where) /\ where[1] \in {"add", "store"}
    BY <1>2 DEF Report, Add
  <2>3. (Making' => Making) /\ (Started' => Started)
    <3>1. CASE p = "bench"
      <4>1. at'["bench"] = where
        BY <1>0, <2>2, <3>1, Goes
      <4>2. Started
        BY <1>2, <3>1 DEF Report, Add, Started
      <4> QED BY <2>2, <4>1, <4>2 DEF Making
    <3>2. CASE p = "io"
      <4>1. at'["bench"] = at["bench"]
        BY <1>0, <2>2, <3>2, Goes
      <4> QED BY <4>1, MakingStarted
    <3> QED BY <1>0, <3>1, <3>2
  <2>4. NumberInv'
    BY <1>1, <2>1, <2>3, NumberFrame DEF NumberInv
  <2>5. Outstanding' = Outstanding
    BY <1>1, <2>1 DEF Outstanding
  <2> QED BY <1>1, <2>1, <2>3, <2>4, <2>5 DEF StallInv
<1>3. CASE Store(p)
  <2> DEFINE r == at[p][2]
  <2>1. PICK n \in Int : n = at[p][3]
    BY <1>3 DEF Store, BenchInv, PlaceInv
  <2>2. /\ \/ concurrencyPool' = n + 1
           \/ of[r] # round /\ concurrencyPool' = concurrencyPool
        /\ Become(r, "done") /\ Go(p, Continue(p)) /\ at[p][1] = "store"
    BY <1>3, <2>1 DEF Store, Returned
  <2> HIDE DEF r
  <2>3. /\ life' \in [Request -> Lives] /\ Outstanding \ {r} \subseteq Outstanding'
    BY <1>1, <2>2, BecomesLife DEF Lives
  <2>4. (Making' => Making \/ todo # NoRuns) /\ (Started' => Started)
    <3>1. CASE p = "bench"
      <4>1. at'["bench"] = IF todo = NoRuns THEN <<"prompt">> ELSE <<"wait">>
        BY <1>0, <2>2, <3>1, Goes DEF Continue
      <4>2. Started
        BY <2>2, <3>1 DEF Started
      <4> QED BY <4>1, <4>2 DEF Making
    <3>2. CASE p = "io"
      <4>1. at'["bench"] = at["bench"]
        BY <1>0, <2>2, <3>2, Goes
      <4> QED BY <4>1, MakingStarted
    <3> QED BY <1>0, <3>1, <3>2
  <2>5. NumberInv'
    BY <1>1, <2>3, <2>4, NumberFrame
  <2>6. StallInv'
    <3>1. SUFFICES ASSUME Started, b.parallel >= 1
                   PROVE  concurrencyPool' >= 1 \/ Outstanding' # {}
      BY <1>1, <2>4 DEF StallInv
    <3>2. n >= 0
      <4>1. Sound
        BY <3>1 DEF BenchInv, PlaceInv, PoolInv
      <4> QED BY <2>1, <2>2, <4>1 DEF Sound
    <3>3. CASE concurrencyPool' = n + 1
      BY <3>2, <3>3
    <3>4. CASE of[r] # round /\ concurrencyPool' = concurrencyPool
      <4>1. r \notin Outstanding
        BY <3>4 DEF Outstanding
      <4> QED BY <2>3, <3>1, <3>4, <4>1 DEF StallInv
    <3> QED BY <2>2, <3>3, <3>4
  <2> QED BY <2>5, <2>6
<1> QED BY <1>2, <1>3 DEF Handler

LEMMA StallNext ==
  BenchInv /\ NumberInv /\ StallInv /\ [Next]_vars => NumberInv' /\ StallInv'
<1> SUFFICES ASSUME BenchInv, NumberInv, StallInv, [Next]_vars
             PROVE  NumberInv' /\ StallInv'
  OBVIOUS
<1>0. "bench" \in Thread /\ "io" \in Thread
  BY DEF Thread
<1>1. ASSUME UNCHANGED <<at, b, round, todo, concurrencyPool, next, of, life>>
      PROVE  NumberInv' /\ StallInv'
  BY <1>1 DEF NumberInv, StallInv, Making, Started, Outstanding
<1>2. CASE UNCHANGED vars
  BY <1>1, <1>2 DEF vars, config, requests
<1>3. CASE Register
  BY <1>1, <1>3 DEF Register, requests
<1>4. CASE Terminated
  BY <1>2, <1>4 DEF Terminated
<1>5. CASE BenchThread
  <2>1. CASE Wait \/ Take \/ Put
    BY <2>1, StallTakes
  <2>2. CASE \E line \in Lines : BeginRound(line)
    BY <2>2, StallBegins
  <2>3. CASE \E f \in DOMAIN todo : Schedule(f)
    BY <2>3, StallSchedules
  <2>4. CASE \E r \in Request : Attach(r)
    BY <2>4, StallAnswers
  <2>5. CASE Handler("bench")
    BY <1>0, <2>5, StallHandles
  <2> QED BY <1>5, <2>1, <2>2, <2>3, <2>4, <2>5 DEF BenchThread
<1>6. CASE \E line \in Lines : NoRound(line)
  BY <1>6, StallBegins
<1>7. CASE \E r \in Request : Resolve(r)
  BY <1>7, StallAnswers
<1>8. CASE Handler("io")
  BY <1>0, <1>8, StallHandles
<1> QED BY <1>2, <1>3, <1>4, <1>5, <1>6, <1>7, <1>8 DEF Next

\* The benchmark never waits for a place that nothing will give back: an update
\* of the pool that the race of its two threads loses is never the last one,
\* whatever the lines, the rounds and the replies that outlive their round.
THEOREM NeverStalls == Spec => []NoStall
<1>1. Init => BenchInv /\ NumberInv /\ StallInv
  BY BenchInit, NumberInit
<1>2. BenchInv /\ NumberInv /\ StallInv /\ [Next]_vars
        => (BenchInv /\ NumberInv /\ StallInv)'
  BY BenchNext, StallNext
<1>3. BenchInv /\ StallInv => NoStall
  <2> SUFFICES ASSUME BenchInv, StallInv, at["bench"] = <<"wait">>,
                      concurrencyPool < 1, b.parallel >= 1
               PROVE  Outstanding # {}
    BY DEF NoStall
  <2>1. Started
    BY DEF Started
  <2>2. concurrencyPool \in Int
    BY DEF BenchInv, PlaceInv
  <2> QED BY <2>1, <2>2 DEF StallInv
<1> QED BY <1>1, <1>2, <1>3, PTL DEF Spec

=============================================================================
