----------------------------- MODULE CacheManager -----------------------------
(***************************************************************************)
(* What the server caches in Redis (cache.manager.ts): values a reader     *)
(* loads from the database under a key, at most one load per key and       *)
(* process at a time (getOrSet, singleflight), values refreshed in the     *)
(* background before they expire, and the two ways in which a change makes *)
(* them obsolete: its key is deleted (del), or it contains the number a    *)
(* change increments (bumpVersion, chapter-cache.service.ts).  A behaviour *)
(* is about one value, invalidated in one of the two ways.                 *)
(***************************************************************************)
EXTENDS Naturals, FiniteSets, FiniteSetsExt

CONSTANTS Process,     \* server processes
          Reader,      \* requests
          ProcessOf,   \* the process that serves a request
          Fixed,       \* the key that is deleted (contributor:detail:<id>, ...)
          None,
          MaxChanges,  \* model bound: changes of the data
          MaxFailures  \* model bound: calls of Redis that fail

ASSUME CacheAssumption ==
  /\ {MaxChanges, MaxFailures} \subseteq Nat
  /\ ProcessOf \in [Reader -> Process]
  /\ None \notin Nat \cup {Fixed} /\ Fixed \notin Nat

\* A value is the number of changes its loader saw.
Value == 0..MaxChanges
Key == Value \cup {Fixed}   \* chapters:list:v2 contains the version
Purpose == {"answer", "refresh"}

VARIABLES
  source,   \* changes committed to the database
  scheme,   \* how the value is invalidated: never changes
  change,   \* what the handler of each change still has to do
  version,  \* chapters:list:version
  entry,    \* the cached values
  flight,   \* inflight of each process, by key; a refresh has a key of its own
  reader,
  announced, \* history: the newest change whose invalidation is complete
  failures

vars == <<source, scheme, change, version, entry, flight, reader, announced, failures>>

\* crossed: history, the key was deleted after the value was loaded.
Cached == [value : Value, crossed : BOOLEAN]
Inflight == [at : {"load", "store"}, value : Value, crossed : BOOLEAN]
Loading == [at |-> "load", value |-> 0, crossed |-> FALSE]
\* floor: history, what the request may expect; blind: history, it does not know the version.
Idle == [at |-> "idle", key |-> None, floor |-> 0, blind |-> FALSE, answer |-> None, crossed |-> FALSE]

ASSUME NoneAssumption == None \notin Inflight

Init == /\ source = 0 /\ version = 0 /\ announced = 0 /\ failures = 0
        /\ scheme \in {"delete", "bump"}
        /\ change = [n \in 1..MaxChanges |-> "none"]
        /\ entry = [k \in Key |-> None]
        /\ flight = [p \in Process |-> [k \in Key \X Purpose |-> None]]
        /\ reader = [r \in Reader |-> Idle]

\* Loads of the deleted key that are under way and have read the database.
Crossed ==
  [p \in Process |-> [k \in Key \X Purpose |->
     IF k[1] = Fixed /\ flight[p][k] # None /\ flight[p][k].at = "store"
     THEN [flight[p][k] EXCEPT !.crossed = TRUE] ELSE flight[p][k]]]

RedisFails == failures < MaxFailures /\ failures' = failures + 1

(***************************************************************************)
(* Handlers that change the data: createChapter bumps the version of the   *)
(* list, ContributorsService.update deletes the key of the contributor     *)
(***************************************************************************)
\* Mutant: the key is deleted before the transaction commits, as wallets.service.ts:270
\* does inside a transaction of its caller.
CommitAfterDelete ==
  \E n \in 1..MaxChanges :
    \/ /\ n = source + 1 /\ change[n] = "none"
       /\ change' = [change EXCEPT ![n] = "commit"]
       /\ entry' = [entry EXCEPT ![Fixed] = None]
       /\ flight' = Crossed
       /\ UNCHANGED <<source, scheme, version, reader, announced, failures>>
    \/ /\ change[n] = "commit"
       /\ source' = n /\ announced' = n
       /\ change' = [change EXCEPT ![n] = "done"]
       /\ UNCHANGED <<scheme, version, entry, flight, reader, failures>>

Commit ==
  /\ source < MaxChanges
  /\ source' = source + 1
  /\ change' = [change EXCEPT ![source + 1] = "invalidate"]
  /\ UNCHANGED <<scheme, version, entry, flight, reader, announced, failures>>

Announce(n) == announced' = Max({announced, n})

\* del: an error of Redis is swallowed, here and in bumpVersion.
Delete(n) ==
  /\ change[n] = "invalidate" /\ scheme = "delete"
  /\ change' = [change EXCEPT ![n] = "done"]
  /\ \/ /\ entry' = [entry EXCEPT ![Fixed] = None]
        /\ flight' = Crossed /\ Announce(n) /\ UNCHANGED failures
     \/ RedisFails /\ UNCHANGED <<entry, flight, announced>>
  /\ UNCHANGED <<source, scheme, version, reader>>

\* Mutant: the version is set to 1.
BumpToOne(n) ==
  /\ change[n] = "invalidate" /\ scheme = "bump"
  /\ change' = [change EXCEPT ![n] = "done"]
  /\ version' = 1 /\ Announce(n)
  /\ UNCHANGED <<source, scheme, entry, flight, reader, failures>>

Bump(n) ==
  /\ change[n] = "invalidate" /\ scheme = "bump"
  /\ change' = [change EXCEPT ![n] = "done"]
  /\ \/ version' = version + 1 /\ Announce(n) /\ UNCHANGED failures
     \/ RedisFails /\ UNCHANGED <<version, announced>>
  /\ UNCHANGED <<source, scheme, entry, flight, reader>>

\* The time to live of an entry is over.
Expire(k) ==
  /\ entry[k] # None
  /\ entry' = [entry EXCEPT ![k] = None]
  /\ UNCHANGED <<source, scheme, change, version, flight, reader, announced, failures>>

(***************************************************************************)
(* Requests                                                                *)
(***************************************************************************)
ReaderOnly == UNCHANGED <<source, scheme, change, version, entry, announced>>
Become(r, rec) == reader' = [reader EXCEPT ![r] = rec]

ReadFixed(r) ==
  /\ reader[r].at = "idle" /\ scheme = "delete"
  /\ Become(r, [Idle EXCEPT !.at = "get", !.key = Fixed, !.floor = announced])
  /\ UNCHANGED <<flight, failures>> /\ ReaderOnly
ReadVersioned(r) ==
  /\ reader[r].at = "idle" /\ scheme = "bump"
  /\ Become(r, [Idle EXCEPT !.at = "version", !.floor = announced])
  /\ UNCHANGED <<flight, failures>> /\ ReaderOnly

\* getVersion: '0' if Redis fails.
GetVersion(r) ==
  /\ reader[r].at = "version"
  /\ \/ /\ Become(r, [reader[r] EXCEPT !.at = "get", !.key = version])
        /\ UNCHANGED failures
     \/ RedisFails /\ Become(r, [reader[r] EXCEPT !.at = "get", !.key = 0, !.blind = TRUE])
  /\ UNCHANGED flight /\ ReaderOnly

\* singleflight: a load of the key that this process has begun is joined.
Fly(p, k, purpose) ==
  flight' = IF flight[p][<<k, purpose>>] # None THEN flight
            ELSE [flight EXCEPT ![p][<<k, purpose>>] = Loading]

\* getOrSet finds a value, and may refresh it in the background.
\* Only an answer older than the request may expect is remembered.
Answered(rec, hit) ==
  IF hit.value >= rec.floor THEN Idle
  ELSE [rec EXCEPT !.at = "idle", !.answer = hit.value, !.crossed = hit.crossed]
Hit(r) ==
  LET k == reader[r].key IN
  /\ reader[r].at = "get" /\ entry[k] # None
  /\ Become(r, Answered(reader[r], entry[k]))
  /\ Fly(ProcessOf[r], k, "refresh") \/ UNCHANGED flight
  /\ UNCHANGED failures /\ ReaderOnly

\* It finds none, or Redis fails: the value is loaded.
Miss(r) ==
  LET k == reader[r].key IN
  /\ reader[r].at = "get"
  /\ IF entry[k] = None THEN UNCHANGED failures ELSE RedisFails
  /\ Become(r, [reader[r] EXCEPT !.at = "wait"])
  /\ Fly(ProcessOf[r], k, "answer")
  /\ ReaderOnly

(***************************************************************************)
(* A load                                                                  *)
(***************************************************************************)
Load(p, k) ==
  /\ flight[p][k] # None /\ flight[p][k].at = "load"
  /\ flight' = [flight EXCEPT ![p][k].at = "store", ![p][k].value = source]
  /\ UNCHANGED <<reader, failures>> /\ ReaderOnly

\* Those who wait for the promise go on when it is kept or broken.
Waiting(p, k) == {r \in Reader : /\ k[2] = "answer" /\ ProcessOf[r] = p
                                 /\ reader[r].at = "wait" /\ reader[r].key = k[1]}
Land(p, k) == flight' = [flight EXCEPT ![p][k] = None]

\* writeEnvelope; what was loaded is the answer even if Redis fails.
Store(p, k) ==
  LET f == flight[p][k]
      result == [value |-> f.value, crossed |-> f.crossed]
  IN
  /\ f # None /\ f.at = "store" /\ Land(p, k)
  /\ reader' = [r \in Reader |-> IF r \in Waiting(p, k) THEN Answered(reader[r], result) ELSE reader[r]]
  /\ \/ entry' = [entry EXCEPT ![k[1]] = result] /\ UNCHANGED failures
     \/ RedisFails /\ UNCHANGED entry
  /\ UNCHANGED <<source, scheme, change, version, announced>>

\* The database fails: so do all who wait.
LoadFails(p, k) ==
  /\ flight[p][k] # None /\ flight[p][k].at = "load" /\ Land(p, k)
  /\ reader' = [r \in Reader |-> IF r \in Waiting(p, k) THEN Idle ELSE reader[r]]
  /\ UNCHANGED failures /\ ReaderOnly

-----------------------------------------------------------------------------
Read(r) == GetVersion(r) \/ Hit(r) \/ Miss(r)
Fulfil(p, k) == Load(p, k) \/ Store(p, k) \/ LoadFails(p, k)
Next == \/ Commit \/ \E n \in 1..MaxChanges : Delete(n) \/ Bump(n)
        \/ \E k \in Key : Expire(k)
        \/ \E r \in Reader : ReadFixed(r) \/ ReadVersioned(r) \/ Read(r)
        \/ \E p \in Process, k \in Key \X Purpose : Fulfil(p, k)
Spec == Init /\ [][Next]_vars

-----------------------------------------------------------------------------
(***************************************************************************)
(* Properties                                                              *)
(***************************************************************************)
TypeOK ==
  /\ source \in Value /\ version \in Value /\ announced \in 0..source
  /\ scheme \in {"delete", "bump"}
  /\ change \in [1..MaxChanges -> {"none", "invalidate", "done"}]
  /\ entry \in [Key -> Cached \cup {None}]
  /\ flight \in [Process -> [Key \X Purpose -> Inflight \cup {None}]]
  /\ reader \in [Reader -> [at : {"idle", "version", "get", "wait"}, key : Key \cup {None},
       floor : Value, blind : BOOLEAN, answer : Value \cup {None}, crossed : BOOLEAN]]
  /\ failures \in 0..MaxFailures

\* A request that waits has joined a load of its process that is still under way: no
\* load lands without answering all of those who wait for it.
WaitersHaveALoad ==
  \A r \in Reader : reader[r].at = "wait" => flight[ProcessOf[r]][<<reader[r].key, "answer">>] # None

\* A request that read the version after a change had incremented it sees that change,
\* whichever load it joins, whatever is refreshed and however many loads and changes
\* overlap: unless Redis did not tell it the version, and it looked under '0'.
VersionedReadsAreFresh ==
  \A r \in Reader : reader[r].answer # None /\ reader[r].key # Fixed /\ ~reader[r].blind
                      => reader[r].answer >= reader[r].floor

\* A request that comes after a change deleted the key sees it, unless it is answered
\* with a value that had been loaded before the key was deleted and was stored, or handed
\* to those who had joined its load, after that.
DeletedKeysAreFresh ==
  \A r \in Reader : reader[r].answer # None /\ reader[r].key = Fixed /\ ~reader[r].crossed
                      => reader[r].answer >= reader[r].floor
=============================================================================
