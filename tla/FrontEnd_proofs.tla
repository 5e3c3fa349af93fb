--------------------------- MODULE FrontEnd_proofs ---------------------------
(***************************************************************************)
(* Proofs about FrontEnd.  With its cache the front end is still the       *)
(* Controller, so the theorems of Controller_proofs hold of it; what the   *)
(* cache gives rests on one invariant, CacheInv.                           *)
(***************************************************************************)
EXTENDS FrontEnd, Controller_proofs

\* The actions that are the Controller's, and leave the cache alone.
Plain ==
  \/ CommitStored \/ RegisterPush \/ RegisterMap \/ SendRequest
  \/ \E t \in Tid : ResolveActivation(t)
  \/ Crash \/ Terminated

\* Every step of the front end is one of the controller's, or a step of the cache
\* or of the database that the controller does not see.
LEMMA StepIsControllers == [FNext]_fvars => [Next]_vars
<1> SUFFICES ASSUME [FNext]_fvars PROVE [Next]_vars
  OBVIOUS
<1>1. CASE UNCHANGED fvars
  BY <1>1 DEF fvars
<1>2. CASE \E f \in Action : Update(f)
  BY <1>2 DEF Update
<1>3. CASE \E a \in Act : PublishVersion(a)
  BY <1>3 DEF PublishVersion, Next
<1>4. CASE \E a \in Act : Hit(a) \/ Miss(a) \/ Unusable(a)
  BY <1>4 DEF Hit, Miss, Unusable
<1>5. CASE FConsumer
  BY <1>5 DEF FConsumer, Next, Consumer
<1>6. CASE Plain
  BY <1>6 DEF Plain, Next
<1>7. CASE FRestart
  BY <1>7 DEF FRestart, Next
<1> QED
  BY <1>1, <1>2, <1>3, <1>4, <1>5, <1>6, <1>7 DEF FNext, Plain

\* The front end implements the controller: whatever the cache and the database
\* do, a consumer that waits for code is one that has not come to the table.
THEOREM RefinesController == FSpec => Spec
<1>1. FInit => Init
  BY DEF FInit
<1> QED BY <1>1, StepIsControllers, PTL DEF FSpec, Spec

\* Hence a process completes an activation at most once, with any number of
\* actions and versions, and with health tests among the activations.
THEOREM FrontEndCompletion == FSpec => []CompletedOnce
BY RefinesController, CompletionCorrect, PTL

\* And the first reply finds its record.
THEOREM FrontEndFirstReply ==
  ASSUME DistinctIds, MaxReplies > 0
  PROVE  FSpec => []FirstReplyFound
BY RefinesController, FirstReplyCorrect, PTL

-----------------------------------------------------------------------------
(* Types.                                                                  *)

CacheTypeOK ==
  /\ db \in [Action -> 1 .. MaxVersion]
  /\ version \in [Act -> 1 .. MaxVersion]
  /\ db_cache \in [Key -> Document \cup {Empty, Absent}]
  /\ code \in [Act -> Document \cup {Empty, Absent}]

\* The cache is empty at first, and every document at its first version.
LEMMA CacheTypeInit == FInit => CacheTypeOK
BY FrontEndAssumption DEF FInit, CacheTypeOK

\* What is fetched is a document, and every key is one.
LEMMA FetchedType ==
  ASSUME CacheTypeOK, NEW a \in Act
  PROVE  Fetched(a) \in Document /\ CacheKey(a) \in Key
BY FrontEndAssumption DEF CacheTypeOK, Fetched, Document, CacheKey

\* Every step keeps the types of database, cache and code.
LEMMA CacheTypeNext == CacheTypeOK /\ [FNext]_fvars => CacheTypeOK'
<1> SUFFICES ASSUME CacheTypeOK, [FNext]_fvars PROVE CacheTypeOK'
  OBVIOUS
<1> USE DEF CacheTypeOK
<1>1. CASE UNCHANGED caching
  BY <1>1 DEF caching
<1>2. ASSUME NEW f \in Action, Update(f) PROVE CacheTypeOK'
  BY <1>2, FrontEndAssumption DEF Update
<1>3. ASSUME NEW a \in Act, PublishVersion(a) PROVE CacheTypeOK'
  <2>1. db[ActionOf[a]] \in 1 .. MaxVersion
    BY FrontEndAssumption
  <2> QED BY <1>3, <2>1, FrontEndAssumption DEF PublishVersion
<1>4. ASSUME NEW a \in Act, Hit(a) PROVE CacheTypeOK'
  BY <1>4, FetchedType DEF Hit, Give
<1>5. ASSUME NEW a \in Act, Miss(a) PROVE CacheTypeOK'
  BY <1>5, FetchedType DEF Miss, Give, Emplace
<1>6. ASSUME NEW a \in Act, Unusable(a) PROVE CacheTypeOK'
  BY <1>6 DEF Unusable, Give
<1>7. CASE FRestart
  BY <1>7 DEF FRestart
<1> QED
  BY <1>1, <1>2, <1>3, <1>4, <1>5, <1>6, <1>7 DEF FNext, FConsumer, fvars

\* The front end's state keeps its type, the controller's part included.
THEOREM FrontEndTypeCorrect == FSpec => []FTypeOK
<1>1. TypeOK /\ CacheTypeOK => FTypeOK
  BY DEF FTypeOK, CacheTypeOK
<1>2. FSpec => []CacheTypeOK
  BY CacheTypeInit, CacheTypeNext, PTL DEF FSpec
<1> QED BY <1>1, <1>2, RefinesController, TypeCorrect, PTL

-----------------------------------------------------------------------------
(* What the cache gives.  Code in hand is that of a published activation,  *)
(* whose version can no longer change, and is still in the cache under its *)
(* key; and a key's code is no older than its version.                     *)

OnlyPublished == \A a \in Act : code[a] # Absent => a \in Published

VersionExists == \A a \in Act : version[a] <= db[ActionOf[a]]

StillCached == \A a \in Act : Source(code[a]) => db_cache[CacheKey(a)] = code[a]

CacheNeverOlder ==
  KeysDistinct =>
    \A p \in Action \X (1 .. MaxVersion) :
      Source(db_cache[KeyOf[p]]) =>
        db_cache[KeyOf[p]].action = p[1] /\ db_cache[KeyOf[p]].version >= p[2]

CacheInv == OnlyPublished /\ VersionExists /\ StillCached /\ CacheNeverOlder

\* Nothing is cached or in hand at first.
LEMMA CacheInit == FInit => CacheInv
BY FrontEndAssumption
DEF FInit, CacheInv, OnlyPublished, VersionExists, StillCached, CacheNeverOlder, Source

\* An activation the consumer asks code for has been published.
LEMMA AskedIsPublished ==
  ASSUME TypeOK, LifeInv, NEW a \in Act, Asking(a)
  PROVE  a \in Published
<1>1. Polled(a)
  BY DEF LifeInv, LifeOrder, Asking, InHand
<1> QED BY <1>1 DEF Polled, Published, TypeOK

\* No step takes a message out of the topic.
LEMMA PublishedGrows ==
  ASSUME TypeOK, [FNext]_fvars, NEW a \in Published
  PROVE  a \in Published'
<1>1. UNCHANGED topic \/ \E b \in Act : topic' = Append(topic, b)
  BY DEF FNext, fvars, vars, Update, PublishVersion, Publish, Hit, Miss, Unusable, FConsumer,
     Poll, Schedule, Send, SendNowhere, Attach, CommitStored, RegisterPush, RegisterMap,
     SendRequest, ResolveActivation, Crash, Terminated, FRestart, Restart
<1>2. CASE UNCHANGED topic
  BY <1>2 DEF Published
<1>3. ASSUME NEW b \in Act, topic' = Append(topic, b) PROVE a \in Published'
  <2>1. PICK i \in DOMAIN topic : topic[i] = a
    BY DEF Published
  <2>2. /\ DOMAIN topic = 1 .. Len(topic) /\ Len(topic) \in Nat
        /\ DOMAIN topic' = 1 .. Len(topic) + 1
        /\ topic'[i] = topic[i]
    BY <1>3, <2>1, AppendProperties DEF TypeOK
  <2>3. i \in DOMAIN topic'
    BY <2>2
  <2> QED BY <2>1, <2>2, <2>3 DEF Published
<1> QED BY <1>1, <1>2, <1>3

\* Each step keeps the invariant of the cache.
LEMMA CacheNext ==
  ASSUME TypeOK, LifeInv, CacheTypeOK, CacheInv, [FNext]_fvars
  PROVE  CacheInv'
<1> USE FrontEndAssumption DEF CacheInv, CacheTypeOK
<1>0. \A a \in Published : a \in Published'
  BY PublishedGrows
<1>1. CASE UNCHANGED caching
  BY <1>0, <1>1 DEF caching, OnlyPublished, VersionExists, StillCached, CacheNeverOlder, CacheKey
<1>2. ASSUME NEW f \in Action, Update(f) PROVE CacheInv'
  <2>1. /\ db' = [db EXCEPT ![f] = @ + 1] /\ db'[f] = db[f] + 1
        /\ UNCHANGED <<version, db_cache, code>>
    BY <1>2 DEF Update
  <2>2. VersionExists'
    BY <2>1 DEF VersionExists
  <2> QED
    BY <1>0, <2>1, <2>2 DEF OnlyPublished, StillCached, CacheNeverOlder, CacheKey
<1>3. ASSUME NEW a \in Act, PublishVersion(a) PROVE CacheInv'
  <2>1. /\ UNCHANGED <<db, db_cache, code>>
        /\ code[a] = Absent
        /\ \A b \in Act : b # a => version'[b] = version[b]
        /\ version'[a] <= db[ActionOf[a]]
    BY <1>3 DEF PublishVersion, Publish, OnlyPublished
  <2>2. VersionExists'
    BY <2>1 DEF VersionExists
  <2>3. StillCached'
    BY <2>1 DEF StillCached, CacheKey, Source
  <2> QED
    BY <1>0, <2>1, <2>2, <2>3 DEF OnlyPublished, CacheNeverOlder
<1>4. ASSUME NEW a \in Act, Hit(a) PROVE CacheInv'
  <2>1. /\ UNCHANGED <<db, version, db_cache>>
        /\ code'[a] = db_cache[CacheKey(a)]
        /\ \A b \in Act : b # a => code'[b] = code[b]
    BY <1>4 DEF Hit, Give
  <2>2. a \in Published
    BY <1>4, AskedIsPublished DEF Hit
  <2>3. StillCached'
    BY <2>1 DEF StillCached, CacheKey
  <2> QED
    BY <1>0, <2>1, <2>2, <2>3 DEF OnlyPublished, VersionExists, CacheNeverOlder
<1>5. ASSUME NEW a \in Act, Miss(a) PROVE CacheInv'
  <2> DEFINE k == CacheKey(a)
  <2>1. k \in Key /\ db_cache[k] = Absent
    BY <1>5, FetchedType DEF Miss
  <2>2. PICK c \in {Fetched(a), Empty} :
          /\ code' = [code EXCEPT ![a] = c]
          /\ db_cache' = [db_cache EXCEPT ![k] = c]
          /\ UNCHANGED <<db, version>>
    BY <1>5 DEF Miss, Give, Emplace
  <2>3. /\ db_cache'[k] = c /\ code'[a] = c
        /\ \A b \in Act : b # a => code'[b] = code[b]
        /\ \A q \in Key : q # k => db_cache'[q] = db_cache[q]
        /\ \A b \in Act : CacheKey(b)' = CacheKey(b) /\ CacheKey(b) \in Key
    BY <2>1, <2>2, FetchedType DEF CacheKey
  <2>4. a \in Published
    BY <1>5, AskedIsPublished DEF Miss
  <2>5. StillCached'
    <3> SUFFICES ASSUME NEW b \in Act, Source(code'[b])
                 PROVE  db_cache'[CacheKey(b)] = code'[b]
      BY <2>3 DEF StillCached, Source
    <3>1. CASE b = a
      BY <2>3, <3>1
    <3>2. CASE b # a
      BY <2>1, <2>3, <3>2 DEF StillCached, Source
    <3> QED BY <3>1, <3>2
  <2>6. CacheNeverOlder'
    <3> SUFFICES ASSUME KeysDistinct, NEW p \in Action \X (1 .. MaxVersion),
                        Source(db_cache'[KeyOf[p]])
                 PROVE  /\ db_cache'[KeyOf[p]].action = p[1]
                        /\ db_cache'[KeyOf[p]].version >= p[2]
      BY DEF CacheNeverOlder, Source, KeysDistinct
    <3>1. CASE KeyOf[p] # k
      BY <2>3, <3>1 DEF CacheNeverOlder
    <3>2. CASE KeyOf[p] = k
      <4>1. p = <<ActionOf[a], version[a]>>
        BY <3>2 DEF KeysDistinct, CacheKey
      <4>2. db_cache'[KeyOf[p]] = Fetched(a)
        BY <2>3, <3>2 DEF Source
      <4> QED BY <4>1, <4>2 DEF Fetched, VersionExists
    <3> QED BY <3>1, <3>2
  <2> QED
    BY <1>0, <2>2, <2>3, <2>4, <2>5, <2>6 DEF OnlyPublished, VersionExists
<1>6. ASSUME NEW a \in Act, Unusable(a) PROVE CacheInv'
  <2>1. /\ UNCHANGED <<db, version, db_cache>>
        /\ code'[a] = Empty
        /\ \A b \in Act : b # a => code'[b] = code[b]
    BY <1>6 DEF Unusable, Give
  <2>2. a \in Published
    BY <1>6, AskedIsPublished DEF Unusable
  <2>3. StillCached'
    BY <2>1 DEF StillCached, CacheKey, Source
  <2> QED
    BY <1>0, <2>1, <2>2, <2>3 DEF OnlyPublished, VersionExists, CacheNeverOlder
<1>7. CASE FRestart
  <2>1. /\ UNCHANGED <<db, version>>
        /\ \A a \in Act : code'[a] = Absent
        /\ \A k \in Key : db_cache'[k] = Absent
    BY <1>7 DEF FRestart
  <2> QED
    BY <2>1 DEF OnlyPublished, VersionExists, StillCached, CacheNeverOlder, Source
<1> QED
  BY <1>1, <1>2, <1>3, <1>4, <1>5, <1>6, <1>7 DEF FNext, FConsumer, fvars

\* The invariant of the cache holds of every behaviour.
LEMMA CacheInvariant == FSpec => [](CacheTypeOK /\ CacheInv)
<1>1. FInit => CacheTypeOK /\ CacheInv
  BY CacheTypeInit, CacheInit
<1>2. FSpec => [](TypeOK /\ LifeInv)
  BY RefinesController, TypeCorrect, LifeInit, LifeNext, PTL DEF Spec
<1>3. TypeOK /\ LifeInv /\ CacheTypeOK /\ CacheInv /\ [FNext]_fvars
        => (CacheTypeOK /\ CacheInv)'
  BY CacheTypeNext, CacheNext
<1> QED BY <1>1, <1>2, <1>3, PTL DEF FSpec

\* Whatever is updated, fetched, cached or lost in a crash, code is that of the
\* activation's own action and no older than the version it names.
THEOREM CodeNeverOlder == FSpec => []NeverOlder
<1>1. CacheTypeOK /\ CacheInv => NeverOlder
  <2> SUFFICES ASSUME CacheTypeOK, CacheInv, KeysDistinct, NEW a \in Act, Source(code[a])
               PROVE  code[a].action = ActionOf[a] /\ code[a].version >= version[a]
    BY DEF NeverOlder
  <2>1. <<ActionOf[a], version[a]>> \in Action \X (1 .. MaxVersion)
    BY FrontEndAssumption DEF CacheTypeOK
  <2> QED
    BY <2>1 DEF CacheInv, StillCached, CacheNeverOlder, CacheKey
<1> QED BY <1>1, CacheInvariant, PTL

\* One process has one code for a version of an action.
THEOREM CodeIsOne == FSpec => []OneCode
<1>1. CacheTypeOK /\ CacheInv => OneCode
  BY DEF CacheInv, StillCached, CacheKey, OneCode
<1> QED BY <1>1, CacheInvariant, PTL

=============================================================================
