------------------------------ MODULE FrontEnd ------------------------------
(***************************************************************************)
(* The hosted front end with its action cache: Controller, where           *)
(* ScheduleActivation first asks couchdb::get_action (openwhisk/couchdb.cc *)
(* ) for the action's code.  The cache is filled from the database, whose  *)
(* documents are updated meanwhile and are asked for without a version; it *)
(* is never emptied, and is lost with the process.                         *)
(***************************************************************************)
EXTENDS Controller

CONSTANTS
  Action,        \* path and name: a document of the entity database
  ActionOf,      \* the action of each activation
  MaxVersion,    \* bound: versions of a document
  Key,           \* strings path + name + version
  KeyOf          \* the key of an action and a version; strings may coincide

ASSUME FrontEndAssumption ==
  /\ ActionOf \in [Act -> Action]
  /\ MaxVersion \in Nat \ {0}
  /\ KeyOf \in [Action \X (1 .. MaxVersion) -> Key]

VARIABLES
  db,            \* the version of each document
  version,       \* the version each published activation names
  db_cache,
  code           \* the code ScheduleActivation has for an activation

caching == <<db, version, db_cache, code>>
fvars == <<vars, caching>>

\* The source of an action's version; the empty string; and no entry.
Document == [action : Action, version : 1 .. MaxVersion]
Empty    == [action |-> "empty"]
Absent   == [action |-> "absent"]

Source(c) == c \notin {Empty, Absent}

FInit ==
  /\ Init
  /\ db = [f \in Action |-> 1]
  /\ version = [a \in Act |-> 1]
  /\ db_cache = [k \in Key |-> Absent]
  /\ code = [a \in Act |-> Absent]

-----------------------------------------------------------------------------
(* OpenWhisk: actions are updated, and activations name a version.         *)

Update(f) ==
  /\ db[f] < MaxVersion
  /\ db' = [db EXCEPT ![f] = @ + 1]
  /\ UNCHANGED <<vars, version, db_cache, code>>

PublishVersion(a) ==
  /\ Publish(a)
  /\ \E v \in 1 .. db[ActionOf[a]] : version' = [version EXCEPT ![a] = v]
  /\ UNCHANGED <<db, db_cache, code>>

-----------------------------------------------------------------------------
(* get_action, on the consumer's thread.                                   *)

\* Mutant: the version is left out of the key.
CacheKeyUnversioned(a) == KeyOf[<<ActionOf[a], 1>>]

CacheKey(a) == KeyOf[<<ActionOf[a], version[a]>>]

\* Mutant: what was fetched is not kept.
EmplaceNot(k, c) == UNCHANGED db_cache

Emplace(k, c) == db_cache' = [db_cache EXCEPT ![k] = c]

\* Mutant: the document's last version but one is fetched.
FetchedStale(a) == [action |-> ActionOf[a], version |-> db[ActionOf[a]] - 1]

\* The document as it is now: the address has no version.
Fetched(a) == [action |-> ActionOf[a], version |-> db[ActionOf[a]]]

Give(a, c) == code' = [code EXCEPT ![a] = c]

Asking(a) == Up /\ thread = <<"schedule", a>> /\ code[a] = Absent

Hit(a) ==
  /\ Asking(a)
  /\ db_cache[CacheKey(a)] # Absent
  /\ Give(a, db_cache[CacheKey(a)])
  /\ UNCHANGED <<vars, db, version, db_cache>>

\* A response without exec.code, as an error document is, is kept as well.
Miss(a) ==
  /\ Asking(a)
  /\ db_cache[CacheKey(a)] = Absent
  /\ \E c \in {Fetched(a), Empty} : Give(a, c) /\ Emplace(CacheKey(a), c)
  /\ UNCHANGED <<vars, db, version>>

\* A response that is no JSON, or none, is not kept; the request goes out
\* without code, if printing the null pointer has not ended the process (Crash).
Unusable(a) ==
  /\ Asking(a)
  /\ db_cache[CacheKey(a)] = Absent
  /\ Give(a, Empty)
  /\ UNCHANGED <<vars, db, version, db_cache>>

-----------------------------------------------------------------------------

\* The rest of the consumer's thread: the code comes before the table.
FConsumer ==
  /\ \/ Poll
     \/ \E a \in Act : \/ code[a] # Absent /\ Schedule(a)
                       \/ Send(a) \/ SendNowhere(a) \/ Attach(a)
  /\ UNCHANGED caching

\* A new process has an empty cache, and no calls in hand.
FRestart ==
  /\ Restart
  /\ db_cache' = [k \in Key |-> Absent]
  /\ code' = [a \in Act |-> Absent]
  /\ UNCHANGED <<db, version>>

FNext ==
  \/ \E f \in Action : Update(f)
  \/ \E a \in Act : PublishVersion(a) \/ Hit(a) \/ Miss(a) \/ Unusable(a)
  \/ FConsumer
  \/ /\ \/ CommitStored \/ RegisterPush \/ RegisterMap \/ SendRequest
        \/ \E t \in Tid : ResolveActivation(t)
        \/ Crash \/ Terminated
     /\ UNCHANGED caching
  \/ FRestart

FSpec == FInit /\ [][FNext]_fvars

\* Of the consumer's thread, the wait for the database is not expected to end.
FFairSpec == FSpec /\ WF_fvars(FConsumer)

-----------------------------------------------------------------------------
(* Properties.                                                             *)

FTypeOK ==
  /\ TypeOK
  /\ db \in [Action -> 1 .. MaxVersion]
  /\ version \in [Act -> 1 .. MaxVersion]
  /\ db_cache \in [Key -> Document \cup {Empty, Absent}]
  /\ code \in [Act -> Document \cup {Empty, Absent}]

KeysDistinct ==
  \A p, q \in Action \X (1 .. MaxVersion) : KeyOf[p] = KeyOf[q] => p = q

\* Whatever is updated, cached or lost meanwhile, an activation is never given
\* code older than the version it names, nor another action's, as long as keys
\* do not coincide (get_action).
NeverOlder ==
  KeysDistinct =>
    \A a \in Act : Source(code[a]) =>
      code[a].action = ActionOf[a] /\ code[a].version >= version[a]

\* One process gives two activations of one version of an action the same code,
\* whichever of its versions that is, or one of them none.
OneCode ==
  \A a, c \in Act :
    /\ <<ActionOf[a], version[a]>> = <<ActionOf[c], version[c]>>
    /\ Source(code[a]) /\ Source(code[c])
    => code[a] = code[c]

(* What the repository says and the code does not keep to.                 *)

\* get_action(action): the code of the action, at the version it names.
ExactCode == \A a \in Act : Source(code[a]) => code[a].version = version[a]

\* "Check the cache for function code": what is cached is code.
CacheHoldsCode == \A k \in Key : db_cache[k] # Empty

=============================================================================
