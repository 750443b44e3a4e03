----------------------------- MODULE DerivedDataProofs -----------------------------
(***************************************************************************)
(* Proofs about what the server derives from rows and keeps beside them:   *)
(* the cached values of CacheManager, for every number of server           *)
(* processes, requests, changes of the data and failures of Redis, and the *)
(* counters of BookCounters, for every number of books, chapters, users    *)
(* and requests and every batch size of the recount.                       *)
(***************************************************************************)
EXTENDS CacheManager, BookCounters, FiniteSetTheorems, WellFoundedInduction, TLAPS

(***************************************************************************)
(* Cached values.  The invariant speaks of the values that are held under  *)
(* a key, in Redis or by a load that has read the database: those a        *)
(* request may still be answered with.  Nothing is held under a version    *)
(* the list has not reached; what is held under the present one is as new  *)
(* as the newest change that was announced; and so is what is held under   *)
(* the key that is deleted, unless the key was deleted after it had been   *)
(* loaded.                                                                 *)
(***************************************************************************)
Flying(p, k, u) == flight[p][<<k, u>>]
Held(k, v, c) ==
  \/ entry[k] # None /\ entry[k].value = v /\ entry[k].crossed = c
  \/ \E p \in Process, u \in Purpose :
       /\ Flying(p, k, u) # None /\ Flying(p, k, u).at = "store"
       /\ Flying(p, k, u).value = v /\ Flying(p, k, u).crossed = c

\* Keys that are in use.
Used(k) ==
  \/ entry[k] # None
  \/ \E p \in Process, u \in Purpose : Flying(p, k, u) # None
  \/ \E r \in Reader : reader[r].at \in {"get", "wait"} /\ reader[r].key = k
KeysOK == \A k \in Key : Used(k) => IF scheme = "delete" THEN k = Fixed ELSE k \in 0..version

CurrentOK ==
  \A k \in Key, v \in Value, c \in BOOLEAN :
    Held(k, v, c) /\ (IF k = Fixed THEN ~c ELSE k = version) => v >= announced

ReaderOK ==
  \A r \in Reader :
    /\ reader[r].floor <= announced
    /\ reader[r].at # "idle" => reader[r].answer = None
    /\ reader[r].at = "version" => scheme = "bump" /\ ~reader[r].blind
    /\ reader[r].at \in {"get", "wait"} => reader[r].key # None

\* Whatever a request that knows its version may find there is new enough for it.
FloorOK ==
  \A r \in Reader, k \in Key, v \in Value, c \in BOOLEAN :
    /\ reader[r].at \in {"get", "wait"} /\ ~reader[r].blind
    /\ reader[r].key = k /\ k # Fixed /\ Held(k, v, c)
    => v >= reader[r].floor

\* Whoever waits has a load to wait for.
WaitOK ==
  \A r \in Reader, k \in Key :
    reader[r].at = "wait" /\ reader[r].key = k => Flying(ProcessOf[r], k, "answer") # None

DoneChanges == {n \in 1..MaxChanges : change[n] = "done"}
\* The changes happen in order, and each increments the version once at most.
ChangeOK ==
  /\ \A n \in 1..MaxChanges : change[n] # "none" => n <= source
  /\ version <= Cardinality(DoneChanges)

CacheInv == /\ TypeOK /\ KeysOK /\ CurrentOK /\ ReaderOK /\ FloorOK /\ WaitOK /\ ChangeOK
        /\ VersionedReadsAreFresh /\ DeletedKeysAreFresh

-----------------------------------------------------------------------------
RequestRecord == [at : {"idle", "version", "get", "wait"}, key : Key \cup {None}, floor : Value,
            blind : BOOLEAN, answer : Value \cup {None}, crossed : BOOLEAN]

\* The constants are numbers, and None and Fixed are none.
LEMMA CacheConstants ==
  /\ MaxChanges \in Nat /\ MaxFailures \in Nat /\ 0 \in Value /\ 0 \in Key /\ Fixed \in Key
  /\ Value \subseteq Nat /\ Value \subseteq Key /\ Fixed \notin Value /\ None \notin Key
  /\ \A k \in Key : k # Fixed => k \in Value
  /\ ProcessOf \in [Reader -> Process]
  BY CacheAssumption DEF Value, Key

\* The records that requests and loads begin with.
LEMMA IdleTyped ==
  /\ Idle \in RequestRecord /\ Idle.at = "idle" /\ Idle.answer = None /\ Idle.floor = 0
  /\ Loading \in Inflight /\ Loading.at = "load" /\ Loading # None /\ None \notin Inflight
  <1>1. Idle \in RequestRecord /\ Idle.at = "idle" /\ Idle.answer = None /\ Idle.floor = 0
    BY CacheConstants DEF Idle, RequestRecord
  <1>2. Loading \in Inflight /\ Loading.at = "load"
    BY CacheConstants DEF Loading, Inflight
  <1>3. QED
    BY <1>1, <1>2, NoneAssumption

\* The parts of the type invariant.
LEMMA CacheParts ==
  ASSUME TypeOK
  PROVE  /\ source \in Value /\ version \in Value /\ announced \in 0..source
         /\ \A k \in Key : entry[k] \in Cached \cup {None}
         /\ \A p \in Process, k \in Key, u \in Purpose : Flying(p, k, u) \in Inflight \cup {None}
         /\ \A r \in Reader : reader[r] \in RequestRecord /\ ProcessOf[r] \in Process
  <1>1. \A p \in Process, k \in Key, u \in Purpose : Flying(p, k, u) \in Inflight \cup {None}
    BY DEF TypeOK, Inflight, Flying
  <1>2. QED
    BY <1>1, CacheConstants DEF TypeOK, RequestRecord

\* The counters are numbers, and changes are announced after they are made.
LEMMA Ordered ==
  ASSUME TypeOK
  PROVE  /\ source \in Nat /\ announced \in Nat /\ version \in Nat
         /\ announced <= source /\ source <= MaxChanges
  <1>1. source \in 0..MaxChanges /\ version \in 0..MaxChanges /\ announced \in 0..source
    BY DEF TypeOK, Value
  <1>2. QED
    BY <1>1, CacheConstants

\* The invariant holds initially.
LEMMA CacheInitOK == Init => CacheInv
  <1> SUFFICES ASSUME Init PROVE CacheInv
    OBVIOUS
  <1>1. /\ source = 0 /\ version = 0 /\ announced = 0 /\ failures = 0
        /\ scheme \in {"delete", "bump"}
        /\ change = [n \in 1..MaxChanges |-> "none"]
        /\ entry = [k \in Key |-> None]
        /\ flight = [p \in Process |-> [k \in Key \X Purpose |-> None]]
        /\ reader = [r \in Reader |-> Idle]
    BY DEF Init
  <1>2. \A r \in Reader : reader[r] = Idle
    BY <1>1
  <1>3. TypeOK
    <2>1. reader \in [Reader -> RequestRecord]
      BY <1>1, IdleTyped
    <2>2. flight \in [Process -> [Key \X Purpose -> Inflight \cup {None}]]
      BY <1>1
    <2>3. QED
      BY <1>1, <2>1, <2>2, CacheConstants DEF TypeOK, RequestRecord, Inflight
  <1>4. \A k \in Key : entry[k] = None /\ \A p \in Process, u \in Purpose : Flying(p, k, u) = None
    BY <1>1 DEF Flying
  <1>5. KeysOK /\ CurrentOK /\ FloorOK /\ WaitOK
    <2>1. \A r \in Reader : reader[r].at = "idle"
      BY <1>2 DEF Idle
    <2>2. \A k \in Key : ~Used(k)
      BY <1>4, <2>1 DEF Used
    <2>3. \A k \in Key, v \in Value, c \in BOOLEAN : ~Held(k, v, c)
      BY <1>4 DEF Held
    <2>4. QED
      BY <2>1, <2>2, <2>3 DEF KeysOK, CurrentOK, FloorOK, WaitOK
  <1>6. ReaderOK /\ VersionedReadsAreFresh /\ DeletedKeysAreFresh
    BY <1>1, <1>2, CacheConstants DEF ReaderOK, VersionedReadsAreFresh, DeletedKeysAreFresh, Idle
  <1>7. ChangeOK
    <2>1. DoneChanges = {}
      BY <1>1 DEF DoneChanges
    <2>2. Cardinality({}) = 0
      BY FS_EmptySet
    <2>3. \A n \in 1..MaxChanges : change[n] = "none"
      BY <1>1
    <2>4. Cardinality(DoneChanges) = 0
      BY <2>1, <2>2, Zenon
    <2>5. version <= Cardinality(DoneChanges)
      BY <1>1, <2>4
    <2>6. QED
      BY <2>3, <2>5 DEF ChangeOK
  <1>8. QED
    BY <1>3, <1>5, <1>6, <1>7 DEF CacheInv

-----------------------------------------------------------------------------
(***************************************************************************)
(* Requests and loads.  They hold nothing that was not held before, but    *)
(* what a load has just read.                                              *)
(***************************************************************************)
\* What the step of a request or a load has to respect.
LEMMA CacheStep ==
  ASSUME CacheInv, TypeOK', UNCHANGED <<source, scheme, change, version, announced>>,
         \A k \in Key, v \in Value, c \in BOOLEAN : Held(k, v, c)' => Held(k, v, c) \/ v = source,
         \A k \in Key : Used(k)' => \/ Used(k)
                                    \/ IF scheme = "delete" THEN k = Fixed ELSE k \in 0..version,
         ReaderOK', WaitOK', VersionedReadsAreFresh', DeletedKeysAreFresh',
         \A r \in Reader :
           /\ reader'[r].at \in {"get", "wait"} /\ ~reader'[r].blind /\ reader'[r].key # Fixed
           => \/ /\ reader[r].at \in {"get", "wait"} /\ ~reader[r].blind
                 /\ reader'[r].key = reader[r].key /\ reader'[r].floor = reader[r].floor
              \/ reader'[r].key = version
  PROVE  CacheInv'
  <1> USE DEF CacheInv
  <1>1. KeysOK'
    BY DEF KeysOK
  <1>2. source \in Nat /\ announced \in Nat /\ announced <= source
    BY Ordered
  <1>3. CurrentOK'
    <2>1. ASSUME NEW k \in Key, NEW v \in Value, NEW c \in BOOLEAN, Held(k, v, c)',
                 IF k = Fixed THEN ~c ELSE k = version'
          PROVE  v >= announced'
      <3>1. CASE v = source
        BY <1>2, <3>1
      <3>2. CASE Held(k, v, c)
        BY <2>1, <3>2 DEF CurrentOK
      <3>3. QED
        BY <2>1, <3>1, <3>2
    <2>2. QED
      BY <2>1 DEF CurrentOK
  <1>4. FloorOK'
    <2>1. ASSUME NEW r \in Reader, NEW k \in Key, NEW v \in Value, NEW c \in BOOLEAN,
                 reader'[r].at \in {"get", "wait"}, ~reader'[r].blind,
                 reader'[r].key = k, k # Fixed, Held(k, v, c)'
          PROVE  v >= reader'[r].floor
      <3>1. reader'[r].floor <= announced /\ reader'[r].floor \in Nat
        <4>1. reader'[r].floor <= announced'
          BY DEF ReaderOK
        <4>2. reader'[r].floor \in Value
          BY DEF TypeOK
        <4>3. QED
          BY <4>1, <4>2, CacheConstants
      <3>2. CASE v = source
        BY <1>2, <3>1, <3>2
      <3>3. CASE k = version
        <4>1. v >= announced
          BY <2>1, <3>2, <3>3, <1>2 DEF CurrentOK
        <4>2. QED
          BY <1>2, <3>1, <4>1, CacheConstants
      <3>4. CASE Held(k, v, c) /\ k # version
        <4>1. /\ reader[r].at \in {"get", "wait"} /\ ~reader[r].blind
              /\ reader[r].key = k /\ reader'[r].floor = reader[r].floor
          BY <2>1, <3>4
        <4>2. QED
          BY <2>1, <3>4, <4>1 DEF FloorOK
      <3>5. QED
        BY <2>1, <3>2, <3>3, <3>4
    <2>2. QED
      BY <2>1 DEF FloorOK
  <1>5. ChangeOK'
    BY DEF ChangeOK, DoneChanges
  <1>6. QED
    BY <1>1, <1>3, <1>4, <1>5

\* The record of one request changes.
LEMMA Becomes ==
  ASSUME CacheInv, NEW r \in Reader, NEW rec \in RequestRecord, Become(r, rec), announced' = announced, scheme' = scheme,
         rec.floor <= announced, rec.at # "idle" => rec.answer = None,
         rec.at = "version" => scheme = "bump" /\ ~rec.blind,
         rec.at \in {"get", "wait"} => rec.key # None,
         rec.answer # None => \/ rec.answer >= rec.floor
                              \/ rec.key # Fixed /\ rec.blind
                              \/ rec.key = Fixed /\ rec.crossed
  PROVE  /\ reader' \in [Reader -> RequestRecord] /\ reader'[r] = rec
         /\ \A x \in Reader : x # r => reader'[x] = reader[x]
         /\ ReaderOK' /\ VersionedReadsAreFresh' /\ DeletedKeysAreFresh'
  <1>1. /\ reader' \in [Reader -> RequestRecord] /\ reader'[r] = rec
        /\ \A x \in Reader : x # r => reader'[x] = reader[x]
    BY DEF CacheInv, TypeOK, RequestRecord, Become
  <1>2. ReaderOK'
    BY <1>1 DEF CacheInv, ReaderOK
  <1>3. VersionedReadsAreFresh' /\ DeletedKeysAreFresh'
    BY <1>1 DEF CacheInv, VersionedReadsAreFresh, DeletedKeysAreFresh
  <1>4. QED
    BY <1>1, <1>2, <1>3

\* A step of a request that starts no load.
LEMMA RequestMoves ==
  ASSUME CacheInv, NEW r \in Reader, NEW rec \in RequestRecord, Become(r, rec), ReaderOnly, flight' = flight,
         failures' \in 0..MaxFailures,
         rec.floor <= announced, rec.at # "idle" => rec.answer = None, rec.at # "wait",
         rec.at = "version" => scheme = "bump" /\ ~rec.blind,
         rec.at = "get" => rec.key # None /\ IF scheme = "delete" THEN rec.key = Fixed ELSE rec.key \in 0..version,
         rec.at = "get" /\ ~rec.blind => rec.key = Fixed \/ rec.key = version,
         rec.answer = None
  PROVE  CacheInv'
  <1>1. UNCHANGED <<source, scheme, change, version, entry, announced>>
    BY DEF ReaderOnly
  <1>2. /\ reader' \in [Reader -> RequestRecord] /\ reader'[r] = rec
        /\ \A x \in Reader : x # r => reader'[x] = reader[x]
        /\ ReaderOK' /\ VersionedReadsAreFresh' /\ DeletedKeysAreFresh'
    BY <1>1, Becomes
  <1>3. TypeOK'
    BY <1>1, <1>2 DEF CacheInv, TypeOK, RequestRecord
  <1>4. \A k \in Key, v \in Value, c \in BOOLEAN : Held(k, v, c)' => Held(k, v, c) \/ v = source
    BY <1>1, SMTT(30) DEF Held, Flying
  <1>5. \A k \in Key : Used(k)' => \/ Used(k)
                                   \/ IF scheme = "delete" THEN k = Fixed ELSE k \in 0..version
    BY <1>1, <1>2 DEF Used, Flying
  <1>6. \A x \in Reader :
           /\ reader'[x].at \in {"get", "wait"} /\ ~reader'[x].blind /\ reader'[x].key # Fixed
           => \/ /\ reader[x].at \in {"get", "wait"} /\ ~reader[x].blind
                 /\ reader'[x].key = reader[x].key /\ reader'[x].floor = reader[x].floor
              \/ reader'[x].key = version
    BY <1>2
  <1>7. WaitOK'
    BY <1>1, <1>2 DEF CacheInv, WaitOK, Flying
  <1>8. QED
    BY <1>1, <1>2, <1>3, <1>4, <1>5, <1>6, <1>7, CacheStep

\* A request for the deleted key may expect what was announced before it.
LEMMA ReadFixedOK ==
  ASSUME CacheInv, NEW r \in Reader, ReadFixed(r)
  PROVE  CacheInv'
  <1> DEFINE rec == [Idle EXCEPT !.at = "get", !.key = Fixed, !.floor = announced]
  <1>1. announced \in Value /\ failures \in 0..MaxFailures
    BY CacheParts, CacheConstants DEF CacheInv, TypeOK, Value
  <1>2. /\ rec \in RequestRecord /\ rec.at = "get" /\ rec.key = Fixed /\ rec.floor = announced
        /\ rec.answer = None
    BY <1>1, CacheConstants DEF Idle, RequestRecord
  <1>3. /\ Become(r, rec) /\ ReaderOnly /\ flight' = flight /\ failures' = failures /\ scheme = "delete"
    BY DEF ReadFixed
  <1> HIDE DEF rec
  <1>4. Fixed # None
    BY CacheConstants
  <1>5. rec.floor <= announced
    BY <1>1, <1>2, CacheConstants
  <1>6. QED
    BY <1>1, <1>2, <1>3, <1>4, <1>5, RequestMoves

\* So may a request that has still to look up the version.
LEMMA ReadVersionedOK ==
  ASSUME CacheInv, NEW r \in Reader, ReadVersioned(r)
  PROVE  CacheInv'
  <1> DEFINE rec == [Idle EXCEPT !.at = "version", !.floor = announced]
  <1>1. announced \in Value /\ announced <= announced /\ failures \in 0..MaxFailures
    BY CacheParts, CacheConstants DEF CacheInv, TypeOK, Value
  <1>2. /\ rec \in RequestRecord /\ rec.at = "version" /\ rec.floor = announced
        /\ rec.answer = None /\ ~rec.blind
    BY <1>1, CacheConstants DEF Idle, RequestRecord
  <1>3. /\ Become(r, rec) /\ ReaderOnly /\ flight' = flight /\ failures' = failures /\ scheme = "bump"
    BY DEF ReadVersioned
  <1> HIDE DEF rec
  <1>4. QED
    BY <1>1, <1>2, <1>3, RequestMoves

\* The version is the one the newest announced change has set, or a later one.
LEMMA GetVersionOK ==
  ASSUME CacheInv, NEW r \in Reader, GetVersion(r)
  PROVE  CacheInv'
  <1>1. /\ reader[r] \in RequestRecord /\ reader[r].at = "version" /\ version \in Value /\ 0 \in 0..version
        /\ version \in 0..version
    BY CacheParts, Ordered DEF CacheInv, GetVersion
  <1>2. reader[r].floor <= announced /\ reader[r].answer = None /\ scheme = "bump" /\ ~reader[r].blind
    BY <1>1 DEF CacheInv, ReaderOK
  <1>3. ReaderOnly /\ flight' = flight
    BY DEF GetVersion
  <1>4. failures \in 0..MaxFailures
    BY DEF CacheInv, TypeOK
  <1>5. CASE Become(r, [reader[r] EXCEPT !.at = "get", !.key = version]) /\ UNCHANGED failures
    <2> DEFINE rec == [reader[r] EXCEPT !.at = "get", !.key = version]
    <2>1. /\ rec \in RequestRecord /\ rec.at = "get" /\ rec.key = version
          /\ rec.floor = reader[r].floor /\ rec.answer = None
      BY <1>1, <1>2, CacheConstants DEF RequestRecord
    <2>2. rec.key # None
      BY <1>1, <2>1, CacheConstants
    <2>3. Become(r, rec)
      BY <1>5
    <2> HIDE DEF rec
    <2>4. QED
      BY <1>1, <1>2, <1>3, <1>4, <1>5, <2>1, <2>2, <2>3, RequestMoves
  <1>6. CASE RedisFails /\ Become(r, [reader[r] EXCEPT !.at = "get", !.key = 0, !.blind = TRUE])
    <2> DEFINE rec == [reader[r] EXCEPT !.at = "get", !.key = 0, !.blind = TRUE]
    <2>1. /\ rec \in RequestRecord /\ rec.at = "get" /\ rec.key = 0
          /\ rec.floor = reader[r].floor /\ rec.answer = None /\ rec.blind
      BY <1>1, <1>2, CacheConstants DEF RequestRecord
    <2>2. rec.key # None
      BY <2>1, CacheConstants
    <2>3. failures' \in 0..MaxFailures
      BY <1>4, <1>6, CacheConstants DEF RedisFails
    <2>4. Become(r, rec)
      BY <1>6
    <2> HIDE DEF rec
    <2>5. QED
      BY <1>1, <1>2, <1>3, <2>1, <2>2, <2>3, <2>4, RequestMoves
  <1>7. QED
    BY <1>5, <1>6 DEF GetVersion

\* A load that begins, or is joined, holds nothing yet.
LEMMA FlyStep ==
  ASSUME TypeOK, NEW p \in Process, NEW k \in Key, NEW u \in Purpose, Fly(p, k, u)
  PROVE  /\ flight' \in [Process -> [Key \X Purpose -> Inflight \cup {None}]]
         /\ Flying(p, k, u)' # None
         /\ \A q \in Process, x \in Key, w \in Purpose :
              \/ Flying(q, x, w)' = Flying(q, x, w)
              \/ /\ q = p /\ x = k /\ w = u /\ Flying(q, x, w) = None
                 /\ Flying(q, x, w)' = Loading
  <1>1. flight \in [Process -> [Key \X Purpose -> Inflight \cup {None}]]
    BY DEF TypeOK, Inflight
  <1>2. <<k, u>> \in Key \X Purpose
    OBVIOUS
  <1>3. CASE Flying(p, k, u) # None
    BY <1>1, <1>3 DEF Fly, Flying
  <1>4. CASE Flying(p, k, u) = None
    <2>1. flight' = [flight EXCEPT ![p][<<k, u>>] = Loading]
      BY <1>4 DEF Fly, Flying
    <2>2. flight' \in [Process -> [Key \X Purpose -> Inflight \cup {None}]]
      BY <1>1, <2>1, IdleTyped
    <2>3. \A q \in Process, x \in Key, w \in Purpose :
            Flying(q, x, w)' = IF q = p /\ x = k /\ w = u THEN Loading ELSE Flying(q, x, w)
      BY <1>1, <2>1 DEF Flying
    <2>4. QED
      BY <1>2, <1>4, <2>2, <2>3, IdleTyped
  <1>5. QED
    BY <1>3, <1>4

\* What a request does that finds its key, or has to wait for a load of it.
LEMMA RequestFlies ==
  ASSUME CacheInv, NEW r \in Reader, NEW rec \in RequestRecord, NEW k \in Key, NEW u \in Purpose,
         reader[r].at = "get", reader[r].key = k,
         Become(r, rec), ReaderOnly, failures' \in 0..MaxFailures,
         Fly(ProcessOf[r], k, u) \/ (flight' = flight /\ rec.at # "wait"),
         rec.at \in {"idle", "wait"},
         rec.at = "wait" => /\ u = "answer" /\ rec.key = k /\ rec.answer = None
                            /\ rec.blind = reader[r].blind /\ rec.floor = reader[r].floor,
         rec.floor <= announced,
         rec.answer # None => \/ rec.answer >= rec.floor
                              \/ rec.key # Fixed /\ rec.blind
                              \/ rec.key = Fixed /\ rec.crossed
  PROVE  CacheInv'
  <1>1. UNCHANGED <<source, scheme, change, version, entry, announced>>
    BY DEF ReaderOnly
  <1>2. ProcessOf[r] \in Process /\ k # None
    BY CacheConstants
  <1>3. /\ reader' \in [Reader -> RequestRecord] /\ reader'[r] = rec
        /\ \A x \in Reader : x # r => reader'[x] = reader[x]
        /\ ReaderOK' /\ VersionedReadsAreFresh' /\ DeletedKeysAreFresh'
    BY <1>1, <1>2, Becomes
  <1>4. /\ flight' \in [Process -> [Key \X Purpose -> Inflight \cup {None}]]
        /\ rec.at = "wait" => Flying(ProcessOf[r], k, u)' # None
        /\ \A q \in Process, x \in Key, w \in Purpose :
              \/ Flying(q, x, w)' = Flying(q, x, w)
              \/ /\ x = k /\ Flying(q, x, w) = None /\ Flying(q, x, w)' = Loading
    <2>1. CASE Fly(ProcessOf[r], k, u)
      <3>1. TypeOK
        BY DEF CacheInv
      <3>2. PICK p \in Process : p = ProcessOf[r]
        BY <1>2
      <3>3. Fly(p, k, u)
        BY <2>1, <3>2
      <3>4. flight' \in [Process -> [Key \X Purpose -> Inflight \cup {None}]]
        BY <3>1, <3>3, FlyStep
      <3>5. Flying(p, k, u)' # None
        BY <3>1, <3>3, FlyStep
      <3>6. \A q \in Process, x \in Key, w \in Purpose :
              \/ Flying(q, x, w)' = Flying(q, x, w)
              \/ /\ x = k /\ Flying(q, x, w) = None /\ Flying(q, x, w)' = Loading
        BY <3>1, <3>3, FlyStep
      <3>7. Flying(ProcessOf[r], k, u)' # None
        BY <3>2, <3>5
      <3>8. QED
        BY <3>4, <3>6, <3>7
    <2>2. CASE flight' = flight /\ rec.at # "wait"
      BY <2>2 DEF CacheInv, TypeOK, Inflight, Flying
    <2>3. QED
      BY <2>1, <2>2
  <1>5. WaitOK'
    <2>1. ASSUME NEW x \in Reader, NEW y \in Key, reader'[x].at = "wait", reader'[x].key = y
          PROVE  Flying(ProcessOf[x], y, "answer")' # None
      <3>1. CASE x = r
        BY <1>3, <1>4, <2>1, <3>1
      <3>2. CASE x # r
        <4>1. Flying(ProcessOf[x], y, "answer") # None
          BY <1>3, <2>1, <3>2 DEF CacheInv, WaitOK
        <4>2. PICK q \in Process : q = ProcessOf[x]
          BY CacheConstants
        <4>3. Flying(q, y, "answer")' = Flying(q, y, "answer") \/ Flying(q, y, "answer")' = Loading
          BY <1>4 DEF Purpose
        <4>4. QED
          BY <4>1, <4>2, <4>3, IdleTyped
      <3>3. QED
        BY <3>1, <3>2
    <2>2. QED
      BY <2>1 DEF WaitOK
  <1>6. TypeOK'
    BY <1>1, <1>3, <1>4 DEF CacheInv, TypeOK, RequestRecord, Inflight
  <1>7. \A x \in Key, v \in Value, c \in BOOLEAN : Held(x, v, c)' => Held(x, v, c) \/ v = source
    <2>1. ASSUME NEW x \in Key, NEW q \in Process, NEW w \in Purpose,
                 Flying(q, x, w)' # None, Flying(q, x, w).at' = "store"
          PROVE  Flying(q, x, w)' = Flying(q, x, w)
      BY <1>4, <2>1, IdleTyped
    <2>2. ASSUME NEW x \in Key, NEW v \in Value, NEW c \in BOOLEAN, Held(x, v, c)'
          PROVE  Held(x, v, c)
      <3>1. CASE entry'[x] # None /\ entry'[x].value = v /\ entry'[x].crossed = c
        BY <1>1, <3>1 DEF Held
      <3>2. CASE \E q \in Process, w \in Purpose :
                   /\ Flying(q, x, w)' # None /\ Flying(q, x, w).at' = "store"
                   /\ Flying(q, x, w).value' = v /\ Flying(q, x, w).crossed' = c
        <4>1. PICK q \in Process, w \in Purpose :
                /\ Flying(q, x, w)' # None /\ Flying(q, x, w).at' = "store"
                /\ Flying(q, x, w).value' = v /\ Flying(q, x, w).crossed' = c
          BY <3>2
        <4>2. Flying(q, x, w)' = Flying(q, x, w)
          BY <2>1, <4>1
        <4>3. QED
          BY <4>1, <4>2 DEF Held
      <3>3. QED
        BY <2>2, <3>1, <3>2 DEF Held
    <2>3. QED
      BY <2>2
  <1>8. \A x \in Key : Used(x)' => Used(x)
    <2>1. Used(k)
      BY DEF Used
    <2>2. ASSUME NEW x \in Key, x # k, Used(x)'
          PROVE  Used(x)
      <3>1. \A q \in Process, w \in Purpose : Flying(q, x, w)' = Flying(q, x, w)
        BY <1>4, <2>2
      <3>2. \A y \in Reader : reader'[y].at \in {"get", "wait"} /\ reader'[y].key = x
                                => reader[y].at \in {"get", "wait"} /\ reader[y].key = x
        BY <1>3, <2>2
      <3>3. QED
        BY <1>1, <2>2, <3>1, <3>2 DEF Used
    <2>3. QED
      BY <2>1, <2>2
  <1>9. \A x \in Reader :
           /\ reader'[x].at \in {"get", "wait"} /\ ~reader'[x].blind /\ reader'[x].key # Fixed
           => \/ /\ reader[x].at \in {"get", "wait"} /\ ~reader[x].blind
                 /\ reader'[x].key = reader[x].key /\ reader'[x].floor = reader[x].floor
              \/ reader'[x].key = version
    BY <1>3
  <1>10. QED
    BY <1>1, <1>3, <1>5, <1>6, <1>7, <1>8, <1>9, CacheStep

\* What a request is answered with.
LEMMA AnsweredOK ==
  ASSUME CacheInv, NEW r \in Reader, NEW k \in Key, NEW v \in Value, NEW c \in BOOLEAN, Held(k, v, c),
         reader[r].at \in {"get", "wait"}, reader[r].key = k,
         NEW hit, hit.value = v, hit.crossed = c, NEW rec, rec = Answered(reader[r], hit)
  PROVE  /\ rec \in RequestRecord /\ rec.at = "idle" /\ rec.floor <= announced
         /\ rec.answer # None => \/ rec.answer >= rec.floor
                                 \/ rec.key # Fixed /\ rec.blind
                                 \/ rec.key = Fixed /\ rec.crossed
  <1>1. reader[r] \in RequestRecord /\ reader[r].floor <= announced /\ announced \in Nat
    BY CacheParts, Ordered DEF CacheInv, ReaderOK
  <1>2. CASE v >= reader[r].floor
    BY <1>1, <1>2, IdleTyped DEF Answered
  <1>3. CASE ~(v >= reader[r].floor)
    <2>1. rec = [reader[r] EXCEPT !.at = "idle", !.answer = v, !.crossed = c]
      BY <1>3 DEF Answered
    <2>2. /\ rec \in RequestRecord /\ rec.at = "idle" /\ rec.floor = reader[r].floor /\ rec.answer = v
          /\ rec.crossed = c /\ rec.key = k /\ rec.blind = reader[r].blind
      BY <1>1, <2>1 DEF RequestRecord
    <2>3. CASE k # Fixed /\ ~reader[r].blind
      BY <1>3, <2>3 DEF CacheInv, FloorOK
    <2>4. CASE k = Fixed /\ ~c
      <3>1. v >= announced
        BY <2>4 DEF CacheInv, CurrentOK
      <3>2. v \in Nat /\ reader[r].floor \in Nat
        BY <1>1, CacheConstants DEF RequestRecord
      <3>3. QED
        BY <1>1, <1>3, <3>1, <3>2
    <2>5. QED
      BY <1>1, <2>2, <2>3, <2>4
  <1>4. QED
    BY <1>2, <1>3

\* A request that finds its key is answered with what is held there.
LEMMA HitOK ==
  ASSUME CacheInv, NEW r \in Reader, Hit(r)
  PROVE  CacheInv'
  <1>1. reader[r].at = "get" /\ entry[reader[r].key] # None
    BY DEF Hit
  <1>2. reader[r].key \in Key
    BY <1>1, CacheParts DEF CacheInv, ReaderOK, RequestRecord
  <1>3. PICK k \in Key : k = reader[r].key
    BY <1>2
  <1>4. entry[k] \in Cached
    BY <1>1, <1>3, CacheParts DEF CacheInv
  <1>5. PICK hit \in Cached : hit = entry[k]
    BY <1>4
  <1>6. PICK rec : rec = Answered(reader[r], hit)
    OBVIOUS
  <1>7. hit.value \in Value /\ hit.crossed \in BOOLEAN /\ Held(k, hit.value, hit.crossed)
    BY <1>1, <1>3, <1>5 DEF Cached, Held
  <1>8. /\ rec \in RequestRecord /\ rec.at = "idle" /\ rec.floor <= announced
        /\ rec.answer # None => \/ rec.answer >= rec.floor
                                \/ rec.key # Fixed /\ rec.blind
                                \/ rec.key = Fixed /\ rec.crossed
    BY <1>1, <1>3, <1>6, <1>7, AnsweredOK
  <1>9. /\ Become(r, rec) /\ failures' = failures /\ ReaderOnly
        /\ Fly(ProcessOf[r], k, "refresh") \/ flight' = flight
    BY <1>3, <1>5, <1>6 DEF Hit
  <1>10. failures' \in 0..MaxFailures /\ "refresh" \in Purpose
    BY <1>9 DEF CacheInv, TypeOK, Purpose
  <1>11. QED
    BY <1>1, <1>3, <1>8, <1>9, <1>10, RequestFlies

\* A request that finds nothing waits for a load of its process.
LEMMA MissOK ==
  ASSUME CacheInv, NEW r \in Reader, Miss(r)
  PROVE  CacheInv'
  <1> DEFINE rec == [reader[r] EXCEPT !.at = "wait"]
  <1>1. reader[r].at = "get" /\ ReaderOnly /\ Become(r, rec)
    BY DEF Miss
  <1>2. reader[r].key \in Key /\ reader[r] \in RequestRecord /\ reader[r].floor <= announced /\ reader[r].answer = None
    BY <1>1, CacheParts DEF CacheInv, ReaderOK, RequestRecord
  <1>3. PICK k \in Key : k = reader[r].key
    BY <1>2
  <1>4. /\ rec \in RequestRecord /\ rec.at = "wait" /\ rec.key = k /\ rec.answer = None
        /\ rec.blind = reader[r].blind /\ rec.floor = reader[r].floor
    BY <1>2, <1>3 DEF RequestRecord
  <1>5. Fly(ProcessOf[r], k, "answer") /\ "answer" \in Purpose
    BY <1>3 DEF Miss, Purpose
  <1>6. failures' \in 0..MaxFailures
    <2>1. failures \in 0..MaxFailures
      BY DEF CacheInv, TypeOK
    <2>2. failures' = failures \/ (failures < MaxFailures /\ failures' = failures + 1)
      BY DEF Miss, RedisFails
    <2>3. QED
      BY <2>1, <2>2, CacheConstants
  <1> HIDE DEF rec
  <1>7. QED
    BY <1>1, <1>2, <1>3, <1>4, <1>5, <1>6, RequestFlies

-----------------------------------------------------------------------------
\* A load reads the database.
LEMMA LoadOK ==
  ASSUME CacheInv, NEW p \in Process, NEW k \in Key, NEW u \in Purpose, Load(p, <<k, u>>)
  PROVE  CacheInv'
  <1> DEFINE f == [flight[p][<<k, u>>] EXCEPT !.at = "store", !.value = source]
  <1>1. /\ UNCHANGED <<source, scheme, change, version, entry, announced, reader, failures>>
        /\ Flying(p, k, u) # None /\ Flying(p, k, u).at = "load"
    BY DEF Load, ReaderOnly, Flying
  <1>2. flight' = [flight EXCEPT ![p][<<k, u>>] = f]
    BY DEF Load
  <1>3. f \in Inflight /\ f.value = source
    <2>1. flight[p][<<k, u>>] \in Inflight /\ source \in Value
      BY <1>1, CacheParts DEF CacheInv, Flying
    <2>2. QED
      BY <2>1 DEF Inflight
  <1> HIDE DEF f
  <1>4. /\ flight' \in [Process -> [Key \X Purpose -> Inflight \cup {None}]]
        /\ Flying(p, k, u)' = f
        /\ \A q \in Process, x \in Key, w \in Purpose :
             ~(q = p /\ x = k /\ w = u) => Flying(q, x, w)' = Flying(q, x, w)
    <2>1. flight \in [Process -> [Key \X Purpose -> Inflight \cup {None}]]
      BY DEF CacheInv, TypeOK
    <2>2. PICK g \in Inflight : g = f
      BY <1>3
    <2>3. flight' = [flight EXCEPT ![p][<<k, u>>] = g]
      BY <1>2, <2>2
    <2>4. flight' \in [Process -> [Key \X Purpose -> Inflight \cup {None}]]
      BY <2>1, <2>2, <2>3 DEF Flying
    <2>5. Flying(p, k, u)' = g
      BY <2>1, <2>2, <2>3 DEF Flying
    <2>6. \A q \in Process, x \in Key, w \in Purpose :
            ~(q = p /\ x = k /\ w = u) => Flying(q, x, w)' = Flying(q, x, w)
      BY <2>1, <2>2, <2>3 DEF Flying
    <2>7. QED
      BY <2>2, <2>4, <2>5, <2>6
  <1>5. TypeOK'
    BY <1>1, <1>4 DEF CacheInv, TypeOK
  <1>6. ReaderOK' /\ VersionedReadsAreFresh' /\ DeletedKeysAreFresh'
    BY <1>1 DEF CacheInv, ReaderOK, VersionedReadsAreFresh, DeletedKeysAreFresh
  <1>7. \A q \in Process, x \in Key, w \in Purpose : Flying(q, x, w)' # None <=> Flying(q, x, w) # None
    BY <1>1, <1>3, <1>4, IdleTyped
  <1>8. WaitOK'
    <2>1. ASSUME NEW r \in Reader, NEW x \in Key, reader'[r].at = "wait", reader'[r].key = x
          PROVE  Flying(ProcessOf[r], x, "answer")' # None
      <3>1. PICK q \in Process : q = ProcessOf[r]
        BY CacheConstants
      <3>2. Flying(q, x, "answer") # None
        BY <1>1, <2>1, <3>1 DEF CacheInv, WaitOK
      <3>3. Flying(q, x, "answer")' # None
        BY <1>7, <3>2 DEF Purpose
      <3>4. QED
        BY <3>1, <3>3
    <2>2. QED
      BY <2>1 DEF WaitOK
  <1>9. ASSUME NEW x \in Key, NEW v \in Value, NEW c \in BOOLEAN, Held(x, v, c)'
        PROVE  Held(x, v, c) \/ v = source
    <2>1. CASE entry'[x] # None /\ entry'[x].value = v /\ entry'[x].crossed = c
      BY <1>1, <2>1 DEF Held
    <2>2. ASSUME NEW q \in Process, NEW w \in Purpose,
                 Flying(q, x, w)' # None, Flying(q, x, w).at' = "store",
                 Flying(q, x, w).value' = v, Flying(q, x, w).crossed' = c
          PROVE  Held(x, v, c) \/ v = source
      <3>1. CASE q = p /\ x = k /\ w = u
        BY <1>3, <1>4, <2>2, <3>1
      <3>2. CASE ~(q = p /\ x = k /\ w = u)
        BY <1>4, <2>2, <3>2 DEF Held
      <3>3. QED
        BY <3>1, <3>2
    <2>3. QED
      BY <1>9, <2>1, <2>2 DEF Held
  <1>10. \A x \in Key : Used(x)' => Used(x)
    BY <1>1, <1>7 DEF Used
  <1>11. QED
    BY <1>1, <1>5, <1>6, <1>8, <1>9, <1>10, CacheStep

\* A load that ends: all who wait for it go on, and it holds nothing any more.
LEMMA LandStep ==
  ASSUME CacheInv, NEW p \in Process, NEW k \in Key, NEW u \in Purpose, Flying(p, k, u) # None,
         Land(p, <<k, u>>),
         UNCHANGED <<source, scheme, change, version, announced>>, failures' \in 0..MaxFailures,
         entry' \in [Key -> Cached \cup {None}],
         \A x \in Key : \/ entry'[x] = entry[x]
                        \/ x = k /\ Held(x, entry'[x].value, entry'[x].crossed) /\ entry'[x] \in Cached,
         reader' \in [Reader -> RequestRecord],
         \A r \in Reader :
           \/ reader'[r] = reader[r] /\ ~(reader[r].at = "wait" /\ reader[r].key = k /\ u = "answer" /\ ProcessOf[r] = p)
           \/ /\ reader'[r].at = "idle" /\ reader'[r].floor <= announced
              /\ reader'[r].answer # None => \/ reader'[r].answer >= reader'[r].floor
                                             \/ reader'[r].key # Fixed /\ reader'[r].blind
                                             \/ reader'[r].key = Fixed /\ reader'[r].crossed
  PROVE  CacheInv'
  <1>1. /\ flight' \in [Process -> [Key \X Purpose -> Inflight \cup {None}]]
        /\ Flying(p, k, u)' = None
        /\ \A q \in Process, x \in Key, w \in Purpose :
             ~(q = p /\ x = k /\ w = u) => Flying(q, x, w)' = Flying(q, x, w)
    <2>1. flight \in [Process -> [Key \X Purpose -> Inflight \cup {None}]]
      BY DEF CacheInv, TypeOK
    <2>2. flight' = [flight EXCEPT ![p][<<k, u>>] = None]
      BY DEF Land
    <2>3. flight' \in [Process -> [Key \X Purpose -> Inflight \cup {None}]]
      BY <2>1, <2>2 DEF Flying
    <2>4. Flying(p, k, u)' = None
      BY <2>1, <2>2 DEF Flying
    <2>5. \A q \in Process, x \in Key, w \in Purpose :
            ~(q = p /\ x = k /\ w = u) => Flying(q, x, w)' = Flying(q, x, w)
      BY <2>1, <2>2 DEF Flying
    <2>6. QED
      BY <2>3, <2>4, <2>5
  <1>2. TypeOK'
    BY <1>1 DEF CacheInv, TypeOK, RequestRecord
  <1>3. ReaderOK'
    BY DEF CacheInv, ReaderOK
  <1>4. VersionedReadsAreFresh' /\ DeletedKeysAreFresh'
    BY DEF CacheInv, VersionedReadsAreFresh, DeletedKeysAreFresh
  <1>5. WaitOK'
    <2>1. ASSUME NEW r \in Reader, NEW x \in Key, reader'[r].at = "wait", reader'[r].key = x
          PROVE  Flying(ProcessOf[r], x, "answer")' # None
      <3>1. PICK q \in Process : q = ProcessOf[r]
        BY CacheConstants
      <3>2. /\ reader[r].at = "wait" /\ reader[r].key = x
            /\ ~(q = p /\ x = k /\ "answer" = u)
        BY <2>1, <3>1
      <3>3. Flying(q, x, "answer") # None
        BY <3>1, <3>2 DEF CacheInv, WaitOK
      <3>4. Flying(q, x, "answer")' = Flying(q, x, "answer")
        BY <1>1, <3>2 DEF Purpose
      <3>5. QED
        BY <3>1, <3>3, <3>4
    <2>2. QED
      BY <2>1 DEF WaitOK
  <1>6. ASSUME NEW x \in Key, NEW v \in Value, NEW c \in BOOLEAN, Held(x, v, c)'
        PROVE  Held(x, v, c)
    <2>1. CASE entry'[x] # None /\ entry'[x].value = v /\ entry'[x].crossed = c
      <3>1. CASE entry'[x] = entry[x]
        BY <2>1, <3>1 DEF Held
      <3>2. CASE Held(x, entry'[x].value, entry'[x].crossed)
        BY <2>1, <3>2
      <3>3. QED
        BY <3>1, <3>2
    <2>2. ASSUME NEW q \in Process, NEW w \in Purpose,
                 Flying(q, x, w)' # None, Flying(q, x, w).at' = "store",
                 Flying(q, x, w).value' = v, Flying(q, x, w).crossed' = c
          PROVE  Held(x, v, c)
      <3>1. Flying(q, x, w)' = Flying(q, x, w)
        BY <1>1, <2>2
      <3>2. QED
        BY <2>2, <3>1 DEF Held
    <2>3. QED
      BY <1>6, <2>1, <2>2 DEF Held
  <1>7. \A x \in Key : Used(x)' => Used(x)
    <2>1. Used(k)
      BY DEF Used
    <2>2. ASSUME NEW x \in Key, x # k, Used(x)'
          PROVE  Used(x)
      <3>1. \A q \in Process, w \in Purpose : Flying(q, x, w)' = Flying(q, x, w)
        BY <1>1, <2>2
      <3>2. \A y \in Reader : reader'[y].at \in {"get", "wait"} /\ reader'[y].key = x
                                => reader[y].at \in {"get", "wait"} /\ reader[y].key = x
        OBVIOUS
      <3>3. entry'[x] = entry[x]
        BY <2>2
      <3>4. QED
        BY <2>2, <3>1, <3>2, <3>3 DEF Used
    <2>3. QED
      BY <2>1, <2>2
  <1>8. \A r \in Reader :
           /\ reader'[r].at \in {"get", "wait"} /\ ~reader'[r].blind /\ reader'[r].key # Fixed
           => \/ /\ reader[r].at \in {"get", "wait"} /\ ~reader[r].blind
                 /\ reader'[r].key = reader[r].key /\ reader'[r].floor = reader[r].floor
              \/ reader'[r].key = version
    OBVIOUS
  <1>9. QED
    BY <1>2, <1>3, <1>4, <1>5, <1>6, <1>7, <1>8, CacheStep

\* A load that is done stores what it holds and hands it to those who wait.
LEMMA StoreOK ==
  ASSUME CacheInv, NEW p \in Process, NEW k \in Key, NEW u \in Purpose, Store(p, <<k, u>>)
  PROVE  CacheInv'
  <1> DEFINE f == flight[p][<<k, u>>]
             result == [value |-> f.value, crossed |-> f.crossed]
  <1>1. /\ UNCHANGED <<source, scheme, change, version, announced>>
        /\ Flying(p, k, u) # None /\ Flying(p, k, u).at = "store" /\ Land(p, <<k, u>>)
    BY DEF Store, Flying
  <1>2. f \in Inflight
    BY <1>1, CacheParts DEF CacheInv, Flying
  <1>3. PICK v \in Value, c \in BOOLEAN : v = f.value /\ c = f.crossed
    BY <1>2 DEF Inflight
  <1>4. Held(k, v, c)
    BY <1>1, <1>3 DEF Held, Flying
  <1>5. result \in Cached /\ result.value = v /\ result.crossed = c
    BY <1>3 DEF Cached
  <1>6. failures' \in 0..MaxFailures
    <2>1. failures \in 0..MaxFailures
      BY DEF CacheInv, TypeOK
    <2>2. failures' = failures \/ (failures < MaxFailures /\ failures' = failures + 1)
      BY DEF Store, RedisFails
    <2>3. QED
      BY <2>1, <2>2, CacheConstants
  <1>7. entry' = [entry EXCEPT ![k] = result] \/ entry' = entry
    BY DEF Store
  <1>8. /\ reader' = [r \in Reader |-> IF r \in Waiting(p, <<k, u>>) THEN Answered(reader[r], result) ELSE reader[r]]
        /\ \A r \in Reader : r \in Waiting(p, <<k, u>>)
             <=> u = "answer" /\ ProcessOf[r] = p /\ reader[r].at = "wait" /\ reader[r].key = k
    BY DEF Store, Waiting
  <1>9. PICK hit \in Cached : hit = result
    BY <1>5
  <1> HIDE DEF f, result
  <1>10. /\ entry' \in [Key -> Cached \cup {None}]
         /\ \A x \in Key : \/ entry'[x] = entry[x]
                           \/ x = k /\ Held(x, entry'[x].value, entry'[x].crossed) /\ entry'[x] \in Cached
    <2>1. entry \in [Key -> Cached \cup {None}]
      BY DEF CacheInv, TypeOK
    <2>2. entry' \in [Key -> Cached \cup {None}] /\ \A x \in Key : entry'[x] = entry[x] \/ (x = k /\ entry'[x] = result)
      BY <1>5, <1>7, <2>1
    <2>3. Held(k, result.value, result.crossed)
      BY <1>4, <1>5
    <2>4. QED
      BY <1>5, <2>2, <2>3
  <1>11. ASSUME NEW r \in Reader
         PROVE  /\ reader'[r] \in RequestRecord
                /\ \/ reader'[r] = reader[r] /\ ~(reader[r].at = "wait" /\ reader[r].key = k /\ u = "answer" /\ ProcessOf[r] = p)
                   \/ /\ reader'[r].at = "idle" /\ reader'[r].floor <= announced
                      /\ reader'[r].answer # None => \/ reader'[r].answer >= reader'[r].floor
                                                     \/ reader'[r].key # Fixed /\ reader'[r].blind
                                                     \/ reader'[r].key = Fixed /\ reader'[r].crossed
    <2>1. CASE r \in Waiting(p, <<k, u>>)
      <3>1. PICK rec : rec = Answered(reader[r], hit)
        OBVIOUS
      <3>2. reader'[r] = rec
        BY <1>8, <1>9, <2>1, <3>1
      <3>3. reader[r].at = "wait" /\ reader[r].key = k /\ hit.value = v /\ hit.crossed = c
        BY <1>5, <1>8, <1>9, <2>1
      <3>4. /\ rec \in RequestRecord /\ rec.at = "idle" /\ rec.floor <= announced
            /\ rec.answer # None => \/ rec.answer >= rec.floor
                                    \/ rec.key # Fixed /\ rec.blind
                                    \/ rec.key = Fixed /\ rec.crossed
        BY <1>4, <3>1, <3>3, AnsweredOK
      <3>5. QED
        BY <3>2, <3>4
    <2>2. CASE r \notin Waiting(p, <<k, u>>)
      BY <1>8, <2>2, CacheParts DEF CacheInv
    <2>3. QED
      BY <2>1, <2>2
  <1>12. reader' \in [Reader -> RequestRecord]
    <2>1. reader' = [r \in Reader |-> reader'[r]]
      BY <1>8
    <2>2. QED
      BY <1>11, <2>1
  <1>13. QED
    BY <1>1, <1>6, <1>10, <1>11, <1>12, LandStep

\* A load that fails sends those who wait away.
LEMMA LoadFailsOK ==
  ASSUME CacheInv, NEW p \in Process, NEW k \in Key, NEW u \in Purpose, LoadFails(p, <<k, u>>)
  PROVE  CacheInv'
  <1>1. /\ UNCHANGED <<source, scheme, change, version, announced, entry, failures>>
        /\ Flying(p, k, u) # None /\ Land(p, <<k, u>>)
        /\ reader' = [r \in Reader |-> IF r \in Waiting(p, <<k, u>>) THEN Idle ELSE reader[r]]
        /\ \A r \in Reader : r \in Waiting(p, <<k, u>>)
             <=> u = "answer" /\ ProcessOf[r] = p /\ reader[r].at = "wait" /\ reader[r].key = k
    BY DEF LoadFails, ReaderOnly, Flying, Waiting
  <1>2. failures' \in 0..MaxFailures /\ entry' \in [Key -> Cached \cup {None}]
    BY <1>1 DEF CacheInv, TypeOK
  <1>3. 0 <= announced
    BY Ordered DEF CacheInv
  <1>4. reader' \in [Reader -> RequestRecord]
    BY <1>1, IdleTyped, CacheParts DEF CacheInv
  <1>5. \A r \in Reader :
           \/ reader'[r] = reader[r] /\ ~(reader[r].at = "wait" /\ reader[r].key = k /\ u = "answer" /\ ProcessOf[r] = p)
           \/ reader'[r] = Idle
    BY <1>1
  <1>6. QED
    BY <1>1, <1>2, <1>3, <1>4, <1>5, IdleTyped, LandStep

-----------------------------------------------------------------------------
(***************************************************************************)
(* Changes of the data and the invalidations they are followed by          *)
(***************************************************************************)
\* What is held is in use.
LEMMA HeldIsUsed ==
  ASSUME NEW k, NEW v, NEW c, Held(k, v, c)
  PROVE  Used(k)
  BY DEF Held, Used

\* The greater of two numbers.
LEMMA MaxOfTwo ==
  ASSUME NEW a \in Nat, NEW b \in Nat
  PROVE  Max({a, b}) \in Nat /\ Max({a, b}) \in {a, b} /\ a <= Max({a, b}) /\ b <= Max({a, b})
  <1>1. \E x \in {a, b} : \A y \in {a, b} : x >= y
    <2>1. CASE a >= b
      BY <2>1
    <2>2. CASE ~(a >= b)
      BY <2>2
    <2>3. QED
      BY <2>1, <2>2
  <1>2. Max({a, b}) \in {a, b} /\ \A y \in {a, b} : Max({a, b}) >= y
    BY <1>1 DEF Max
  <1>3. QED
    BY <1>2

\* One more change is done.
LEMMA OneMoreDone ==
  ASSUME CacheInv, NEW n \in 1..MaxChanges, change[n] = "invalidate",
         change' = [change EXCEPT ![n] = "done"]
  PROVE  /\ Cardinality(DoneChanges) \in Nat /\ Cardinality(DoneChanges)' = Cardinality(DoneChanges) + 1
         /\ Cardinality(DoneChanges) + 1 <= MaxChanges
         /\ change' \in [1..MaxChanges -> {"none", "invalidate", "done"}]
         /\ n <= source /\ \A m \in 1..MaxChanges : change'[m] # "none" => m <= source
  <1>1. change \in [1..MaxChanges -> {"none", "invalidate", "done"}]
    BY DEF CacheInv, TypeOK
  <1>2. DoneChanges' = DoneChanges \cup {n} /\ n \notin DoneChanges /\ DoneChanges \cup {n} \subseteq 1..MaxChanges
    BY <1>1 DEF DoneChanges
  <1>3. IsFiniteSet(1..MaxChanges) /\ Cardinality(1..MaxChanges) = MaxChanges
    BY FS_Interval, CacheConstants, SMTT(30)
  <1>4. IsFiniteSet(DoneChanges) /\ IsFiniteSet(DoneChanges \cup {n})
    BY <1>2, <1>3, FS_Subset
  <1>5. Cardinality(DoneChanges \cup {n}) = Cardinality(DoneChanges) + 1 /\ Cardinality(DoneChanges) \in Nat
    BY <1>2, <1>4, FS_AddElement, FS_CardinalityType
  <1>6. Cardinality(DoneChanges \cup {n}) <= MaxChanges
    BY <1>2, <1>3, FS_Subset
  <1>7. \A m \in 1..MaxChanges : change[m] # "none" => m <= source
    BY DEF CacheInv, ChangeOK
  <1>8. n <= source /\ \A m \in 1..MaxChanges : change'[m] # "none" => m <= source
    BY <1>1, <1>7
  <1>9. QED
    BY <1>1, <1>2, <1>5, <1>6, <1>8

\* The common part of the steps that leave requests and loads alone.
LEMMA QuietStep ==
  ASSUME CacheInv, TypeOK', UNCHANGED <<reader, scheme>>, announced <= announced', version <= version',
         \A k \in Key, v \in Value, c \in BOOLEAN : Held(k, v, c)' => Held(k, v, c) \/ k = Fixed,
         \A k \in Key : Used(k)' => Used(k),
         \A q \in Process, k \in Key, u \in Purpose : Flying(q, k, u)' # None <=> Flying(q, k, u) # None,
         CurrentOK', ChangeOK'
  PROVE  CacheInv'
  <1>1. /\ announced \in Nat /\ announced' \in Nat /\ version \in Nat /\ version' \in Nat
    <2>1. announced \in Nat /\ version \in Nat
      BY Ordered DEF CacheInv
    <2>2. source' \in Value /\ announced' \in 0..source' /\ version' \in Value
      BY DEF TypeOK
    <2>3. QED
      BY <2>1, <2>2, CacheConstants
  <1>2. KeysOK'
    BY <1>1 DEF CacheInv, KeysOK
  <1>3. ReaderOK'
    <2>1. \A r \in Reader : reader[r].floor \in Nat
      BY CacheParts, CacheConstants DEF CacheInv, RequestRecord
    <2>2. QED
      BY <1>1, <2>1 DEF CacheInv, ReaderOK
  <1>4. FloorOK'
    BY DEF CacheInv, FloorOK
  <1>5. WaitOK'
    <2>1. ASSUME NEW r \in Reader, NEW x \in Key, reader'[r].at = "wait", reader'[r].key = x
          PROVE  Flying(ProcessOf[r], x, "answer")' # None
      <3>1. PICK q \in Process : q = ProcessOf[r]
        BY CacheConstants
      <3>2. Flying(q, x, "answer") # None
        BY <2>1, <3>1 DEF CacheInv, WaitOK
      <3>3. Flying(q, x, "answer")' # None
        BY <3>2 DEF Purpose
      <3>4. QED
        BY <3>1, <3>3
    <2>2. QED
      BY <2>1 DEF WaitOK
  <1>6. VersionedReadsAreFresh' /\ DeletedKeysAreFresh'
    BY DEF CacheInv, VersionedReadsAreFresh, DeletedKeysAreFresh
  <1>7. QED
    BY <1>2, <1>3, <1>4, <1>5, <1>6 DEF CacheInv

\* A change of the data announces nothing.
LEMMA CommitOK ==
  ASSUME CacheInv, Commit
  PROVE  CacheInv'
  <1>1. /\ UNCHANGED <<scheme, version, entry, flight, reader, announced, failures>>
        /\ source < MaxChanges /\ source' = source + 1
        /\ change' = [change EXCEPT ![source + 1] = "invalidate"]
    BY DEF Commit
  <1>2. /\ source \in Nat /\ announced \in Nat /\ version \in Nat /\ announced <= source
        /\ source + 1 \in 1..MaxChanges
    BY <1>1, Ordered, CacheConstants DEF CacheInv
  <1>3. change \in [1..MaxChanges -> {"none", "invalidate", "done"}]
    BY DEF CacheInv, TypeOK
  <1>4. \A n \in 1..MaxChanges : change[n] # "none" => n <= source
    BY DEF CacheInv, ChangeOK
  <1>5. change[source + 1] = "none"
    BY <1>2, <1>4
  <1>6. TypeOK'
    <2>1. source' \in Value /\ announced' \in 0..source'
      BY <1>1, <1>2, CacheConstants DEF Value
    <2>2. change' \in [1..MaxChanges -> {"none", "invalidate", "done"}]
      BY <1>1, <1>2, <1>3
    <2>3. QED
      BY <1>1, <2>1, <2>2 DEF CacheInv, TypeOK
  <1>7. DoneChanges' = DoneChanges
    BY <1>1, <1>2, <1>3, <1>5 DEF DoneChanges
  <1>8. ChangeOK'
    <2>1. \A n \in 1..MaxChanges : change'[n] # "none" => n <= source'
      BY <1>1, <1>2, <1>3, <1>4
    <2>2. QED
      BY <1>1, <1>7, <2>1 DEF CacheInv, ChangeOK
  <1>9. \A k \in Key, v \in Value, c \in BOOLEAN : Held(k, v, c)' => Held(k, v, c)
    BY <1>1 DEF Held, Flying
  <1>10. CurrentOK'
    BY <1>1, <1>9 DEF CacheInv, CurrentOK
  <1>11. \A k \in Key : Used(k)' => Used(k)
    BY <1>1 DEF Used, Flying
  <1>12. \A q \in Process, k \in Key, u \in Purpose : Flying(q, k, u)' = Flying(q, k, u)
    BY <1>1 DEF Flying
  <1>13. announced <= announced' /\ version <= version'
    BY <1>1, <1>2
  <1>14. QED
    BY <1>1, <1>6, <1>8, <1>9, <1>10, <1>11, <1>12, <1>13, QuietStep

\* An entry whose time is over.
LEMMA ExpireOK ==
  ASSUME CacheInv, NEW k \in Key, Expire(k)
  PROVE  CacheInv'
  <1>1. /\ UNCHANGED <<source, scheme, change, version, flight, reader, announced, failures>>
        /\ entry[k] # None /\ entry' = [entry EXCEPT ![k] = None]
    BY DEF Expire
  <1>2. TypeOK'
    BY <1>1 DEF CacheInv, TypeOK
  <1>3. \A x \in Key : entry'[x] # None => entry'[x] = entry[x]
    BY <1>1 DEF CacheInv, TypeOK
  <1>4. \A x \in Key, v \in Value, c \in BOOLEAN : Held(x, v, c)' => Held(x, v, c)
    BY <1>1, <1>3 DEF Held, Flying
  <1>5. \A x \in Key : Used(x)' => Used(x)
    BY <1>1, <1>3 DEF Used, Flying
  <1>6. \A q \in Process, x \in Key, u \in Purpose : Flying(q, x, u)' = Flying(q, x, u)
    BY <1>1 DEF Flying
  <1>7. ReaderOK' /\ WaitOK' /\ VersionedReadsAreFresh' /\ DeletedKeysAreFresh'
    BY <1>1 DEF CacheInv, ReaderOK, WaitOK, Flying, VersionedReadsAreFresh, DeletedKeysAreFresh
  <1>8. QED
    BY <1>1, <1>2, <1>4, <1>5, <1>7, CacheStep

\* An invalidation that Redis did not execute: only the handler goes on.
LEMMA NotInvalidated ==
  ASSUME CacheInv, NEW n \in 1..MaxChanges, change[n] = "invalidate",
         change' = [change EXCEPT ![n] = "done"], RedisFails,
         UNCHANGED <<source, scheme, version, entry, flight, reader, announced>>
  PROVE  CacheInv'
  <1>1. /\ Cardinality(DoneChanges) \in Nat /\ Cardinality(DoneChanges)' = Cardinality(DoneChanges) + 1
        /\ change' \in [1..MaxChanges -> {"none", "invalidate", "done"}]
        /\ \A m \in 1..MaxChanges : change'[m] # "none" => m <= source
    BY OneMoreDone
  <1>2. announced \in Nat /\ version \in Nat
    BY Ordered DEF CacheInv
  <1>3. failures' \in 0..MaxFailures
    <2>1. failures \in 0..MaxFailures /\ failures < MaxFailures /\ failures' = failures + 1
      BY DEF CacheInv, TypeOK, RedisFails
    <2>2. QED
      BY <2>1, CacheConstants
  <1>4. TypeOK'
    BY <1>1, <1>3 DEF CacheInv, TypeOK
  <1>5. ChangeOK'
    BY <1>1, <1>2 DEF CacheInv, ChangeOK
  <1>6. CurrentOK'
    BY ZenonT(60) DEF CacheInv, CurrentOK, Held, Flying
  <1>7. \A k \in Key, v \in Value, c \in BOOLEAN : Held(k, v, c)' => Held(k, v, c)
    BY DEF Held, Flying
  <1>8. \A k \in Key : Used(k)' => Used(k)
    BY DEF Used, Flying
  <1>9. \A q \in Process, k \in Key, u \in Purpose : Flying(q, k, u)' = Flying(q, k, u)
    BY DEF Flying
  <1>10. announced <= announced' /\ version <= version'
    BY <1>2
  <1>11. QED
    BY <1>4, <1>5, <1>6, <1>7, <1>8, <1>9, <1>10, QuietStep

\* What is announced is a change of the source.
LEMMA AnnounceStep ==
  ASSUME CacheInv, NEW n \in 1..MaxChanges, n <= source, Announce(n), source' = source
  PROVE  announced' \in 0..source' /\ announced <= announced'
  <1>1. source \in Nat /\ announced \in Nat /\ announced <= source /\ n \in Nat
    BY Ordered, CacheConstants DEF CacheInv
  <1>2. announced' \in Nat /\ announced' \in {announced, n} /\ announced <= announced'
    BY <1>1, MaxOfTwo DEF Announce
  <1>3. QED
    BY <1>1, <1>2

\* Deleting the key: what the loads under way hold is marked as crossed.
LEMMA DeleteOK ==
  ASSUME CacheInv, NEW n \in 1..MaxChanges, Delete(n)
  PROVE  CacheInv'
  <1>1. /\ change[n] = "invalidate" /\ scheme = "delete" /\ change' = [change EXCEPT ![n] = "done"]
        /\ UNCHANGED <<source, scheme, version, reader>>
    BY DEF Delete
  <1>2. CASE RedisFails /\ UNCHANGED <<entry, flight, announced>>
    BY <1>1, <1>2, NotInvalidated
  <1>3. CASE /\ entry' = [entry EXCEPT ![Fixed] = None]
             /\ flight' = Crossed /\ Announce(n) /\ UNCHANGED failures
    <2>1. /\ Cardinality(DoneChanges) \in Nat /\ Cardinality(DoneChanges)' = Cardinality(DoneChanges) + 1
          /\ change' \in [1..MaxChanges -> {"none", "invalidate", "done"}]
          /\ n <= source /\ \A m \in 1..MaxChanges : change'[m] # "none" => m <= source
      BY <1>1, OneMoreDone
    <2>2. announced' \in 0..source' /\ announced <= announced' /\ version \in Nat
      BY <1>1, <1>3, <2>1, AnnounceStep, Ordered DEF CacheInv
    <2>3. \A q \in Process, k \in Key, u \in Purpose :
            Flying(q, k, u)' = IF k = Fixed /\ Flying(q, k, u) # None /\ Flying(q, k, u).at = "store"
                                 THEN [Flying(q, k, u) EXCEPT !.crossed = TRUE] ELSE Flying(q, k, u)
      BY <1>3 DEF Crossed, Flying
    <2>4. \A q \in Process, k \in Key, u \in Purpose :
            /\ Flying(q, k, u)' \in Inflight \cup {None}
            /\ Flying(q, k, u)' # None <=> Flying(q, k, u) # None
            /\ k # Fixed => Flying(q, k, u)' = Flying(q, k, u)
            /\ Flying(q, k, u)' # None /\ Flying(q, k, u).at' = "store" /\ k = Fixed
                 => Flying(q, k, u).crossed'
      <3>1. ASSUME NEW q \in Process, NEW k \in Key, NEW u \in Purpose
            PROVE  /\ Flying(q, k, u)' \in Inflight \cup {None}
                   /\ Flying(q, k, u)' # None <=> Flying(q, k, u) # None
                   /\ k # Fixed => Flying(q, k, u)' = Flying(q, k, u)
                   /\ Flying(q, k, u)' # None /\ Flying(q, k, u).at' = "store" /\ k = Fixed
                        => Flying(q, k, u).crossed'
        <4>1. CASE k = Fixed /\ Flying(q, k, u) # None /\ Flying(q, k, u).at = "store"
          <5>1. Flying(q, k, u) \in Inflight
            BY <4>1, CacheParts DEF CacheInv
          <5>2. Flying(q, k, u)' = [Flying(q, k, u) EXCEPT !.crossed = TRUE]
            BY <2>3, <4>1
          <5>3. Flying(q, k, u)' \in Inflight /\ Flying(q, k, u).crossed' = TRUE
            BY <5>1, <5>2 DEF Inflight
          <5>4. QED
            BY <4>1, <5>3, IdleTyped
        <4>2. CASE ~(k = Fixed /\ Flying(q, k, u) # None /\ Flying(q, k, u).at = "store")
          <5>1. Flying(q, k, u)' = Flying(q, k, u)
            BY <2>3, <4>2
          <5>2. Flying(q, k, u) \in Inflight \cup {None}
            BY CacheParts DEF CacheInv
          <5>3. QED
            BY <4>2, <5>1, <5>2
        <4>3. QED
          BY <4>1, <4>2
      <3>2. QED
        BY <3>1
    <2>5. \A k \in Key : IF k = Fixed THEN entry'[k] = None ELSE entry'[k] = entry[k]
      BY <1>3 DEF CacheInv, TypeOK
    <2>6. flight' \in [Process -> [Key \X Purpose -> Inflight \cup {None}]]
      <3>1. ASSUME NEW q \in Process, NEW x \in Key \X Purpose
            PROVE  flight'[q][x] \in Inflight \cup {None}
        <4>1. PICK k \in Key, u \in Purpose : x = <<k, u>>
          OBVIOUS
        <4>2. Flying(q, k, u)' \in Inflight \cup {None}
          BY <2>4
        <4>3. QED
          BY <4>1, <4>2 DEF Flying
      <3>2. flight' = [q \in Process |-> [x \in Key \X Purpose |-> flight'[q][x]]]
        BY <1>3 DEF Crossed
      <3>3. QED
        BY <3>1, <3>2
    <2>7. TypeOK'
      <3>1. entry' \in [Key -> Cached \cup {None}]
        BY <1>3 DEF CacheInv, TypeOK
      <3>2. QED
        BY <1>1, <1>3, <2>1, <2>2, <2>6, <3>1 DEF CacheInv, TypeOK
    <2>8. ASSUME NEW k \in Key, NEW v \in Value, NEW c \in BOOLEAN, Held(k, v, c)'
          PROVE  IF k = Fixed THEN c ELSE Held(k, v, c)
      <3>1. CASE entry'[k] # None /\ entry'[k].value = v /\ entry'[k].crossed = c
        BY <2>5, <3>1 DEF Held
      <3>2. ASSUME NEW q \in Process, NEW u \in Purpose,
                   Flying(q, k, u)' # None, Flying(q, k, u).at' = "store",
                   Flying(q, k, u).value' = v, Flying(q, k, u).crossed' = c
            PROVE  IF k = Fixed THEN c ELSE Held(k, v, c)
        <4>1. CASE k = Fixed
          BY <2>4, <3>2, <4>1
        <4>2. CASE k # Fixed
          <5>1. Flying(q, k, u)' = Flying(q, k, u)
            BY <2>4, <4>2
          <5>2. QED
            BY <3>2, <4>2, <5>1 DEF Held
        <4>3. QED
          BY <4>1, <4>2
      <3>3. QED
        BY <2>8, <3>1, <3>2 DEF Held
    <2>9. ASSUME NEW k \in Key, Used(k)'
          PROVE  Used(k)
      BY <1>1, <2>4, <2>5, <2>9 DEF Used
    <2>10. CurrentOK'
      <3>1. ASSUME NEW k \in Key, NEW v \in Value, NEW c \in BOOLEAN, Held(k, v, c)',
                   IF k = Fixed THEN ~c ELSE k = version'
            PROVE  v >= announced'
        <4>1. k # Fixed /\ Held(k, v, c)
          BY <2>8, <3>1
        <4>2. Used(k)
          BY <4>1, HeldIsUsed
        <4>3. QED
          BY <1>1, <4>1, <4>2 DEF CacheInv, KeysOK
      <3>2. QED
        BY <3>1 DEF CurrentOK
    <2>11. ChangeOK'
      BY <1>1, <2>1, <2>2 DEF CacheInv, ChangeOK
    <2>12. version <= version'
      BY <1>1, <2>2
    <2>13. QED
      BY <1>1, <2>2, <2>4, <2>7, <2>8, <2>9, <2>10, <2>11, <2>12, QuietStep
  <1>4. QED
    BY <1>2, <1>3 DEF Delete

\* Incrementing the version: nothing is held under the new one.
LEMMA BumpOK ==
  ASSUME CacheInv, NEW n \in 1..MaxChanges, Bump(n)
  PROVE  CacheInv'
  <1>1. /\ change[n] = "invalidate" /\ scheme = "bump" /\ change' = [change EXCEPT ![n] = "done"]
        /\ UNCHANGED <<source, scheme, entry, flight, reader>>
    BY DEF Bump
  <1>2. CASE RedisFails /\ UNCHANGED <<version, announced>>
    BY <1>1, <1>2, NotInvalidated
  <1>3. CASE version' = version + 1 /\ Announce(n) /\ UNCHANGED failures
    <2>1. /\ Cardinality(DoneChanges) \in Nat /\ Cardinality(DoneChanges)' = Cardinality(DoneChanges) + 1
          /\ Cardinality(DoneChanges) + 1 <= MaxChanges
          /\ change' \in [1..MaxChanges -> {"none", "invalidate", "done"}]
          /\ n <= source /\ \A m \in 1..MaxChanges : change'[m] # "none" => m <= source
      BY <1>1, OneMoreDone
    <2>2. announced' \in 0..source' /\ announced <= announced' /\ version \in Nat
      BY <1>1, <1>3, <2>1, AnnounceStep, Ordered DEF CacheInv
    <2>3. version <= Cardinality(DoneChanges)
      BY DEF CacheInv, ChangeOK
    <2>4. version' \in Value /\ version <= version' /\ version' <= Cardinality(DoneChanges)'
      BY <1>3, <2>1, <2>2, <2>3, CacheConstants DEF Value
    <2>5. TypeOK'
      BY <1>1, <1>3, <2>1, <2>2, <2>4 DEF CacheInv, TypeOK
    <2>6. ChangeOK'
      BY <1>1, <2>1, <2>4 DEF ChangeOK
    <2>7. \A k \in Key, v \in Value, c \in BOOLEAN : Held(k, v, c)' => Held(k, v, c)
      BY <1>1, SMTT(30) DEF Held, Flying
    <2>8. \A k \in Key : Used(k)' => Used(k)
      BY <1>1 DEF Used, Flying
    <2>9. \A q \in Process, k \in Key, u \in Purpose : Flying(q, k, u)' = Flying(q, k, u)
      BY <1>1 DEF Flying
    <2>10. CurrentOK'
      <3>1. ASSUME NEW k \in Key, NEW v \in Value, NEW c \in BOOLEAN, Held(k, v, c)',
                   IF k = Fixed THEN ~c ELSE k = version'
            PROVE  v >= announced'
        <4>1. Used(k)
          BY <2>7, <3>1, HeldIsUsed
        <4>2. k \in 0..version
          BY <1>1, <4>1 DEF CacheInv, KeysOK
        <4>3. k # Fixed
          BY <2>2, <4>2, CacheAssumption
        <4>4. QED
          BY <1>3, <2>2, <3>1, <4>2, <4>3
      <3>2. QED
        BY <3>1 DEF CurrentOK
    <2>11. QED
      BY <1>1, <2>2, <2>4, <2>5, <2>6, <2>7, <2>8, <2>9, <2>10, QuietStep
  <1>4. QED
    BY <1>2, <1>3 DEF Bump

-----------------------------------------------------------------------------
\* Every step preserves the invariant.
LEMMA CacheNextOK == CacheInv /\ [Next]_vars => CacheInv'
  <1> SUFFICES ASSUME CacheInv, [Next]_vars PROVE CacheInv'
    OBVIOUS
  <1>1. CASE Commit
    BY <1>1, CommitOK
  <1>2. ASSUME NEW n \in 1..MaxChanges, Delete(n) \/ Bump(n) PROVE CacheInv'
    BY <1>2, DeleteOK, BumpOK
  <1>3. ASSUME NEW k \in Key, Expire(k) PROVE CacheInv'
    BY <1>3, ExpireOK
  <1>4. ASSUME NEW r \in Reader, ReadFixed(r) \/ ReadVersioned(r) PROVE CacheInv'
    BY <1>4, ReadFixedOK, ReadVersionedOK
  <1>5. ASSUME NEW r \in Reader, Read(r) PROVE CacheInv'
    BY <1>5, GetVersionOK, HitOK, MissOK DEF Read
  <1>6. ASSUME NEW p \in Process, NEW x \in Key \X Purpose, Fulfil(p, x) PROVE CacheInv'
    <2>1. PICK k \in Key, u \in Purpose : x = <<k, u>>
      BY <1>6
    <2>2. Load(p, <<k, u>>) \/ Store(p, <<k, u>>) \/ LoadFails(p, <<k, u>>)
      BY <1>6, <2>1 DEF Fulfil
    <2>3. QED
      BY <2>2, LoadOK, StoreOK, LoadFailsOK
  <1>7. CASE UNCHANGED vars
    <2>1. UNCHANGED <<source, scheme, change, version, entry, flight, reader, announced, failures>>
      BY <1>7 DEF vars
    <2>2. TypeOK' /\ ChangeOK'
      BY <2>1 DEF CacheInv, TypeOK, ChangeOK, DoneChanges
    <2>3. CurrentOK' /\ KeysOK' /\ FloorOK'
      <3>1. \A k \in Key, v \in Value, c \in BOOLEAN : Held(k, v, c)' <=> Held(k, v, c)
        BY <2>1 DEF Held, Flying
      <3>2. \A k \in Key : Used(k)' <=> Used(k)
        BY <2>1 DEF Used, Flying
      <3>3. QED
        BY <2>1, <3>1, <3>2 DEF CacheInv, CurrentOK, KeysOK, FloorOK
    <2>4. ReaderOK' /\ WaitOK' /\ VersionedReadsAreFresh' /\ DeletedKeysAreFresh'
      BY <2>1 DEF CacheInv, ReaderOK, WaitOK, Flying, VersionedReadsAreFresh, DeletedKeysAreFresh
    <2>5. QED
      BY <2>2, <2>3, <2>4 DEF CacheInv
  <1>8. QED
    BY <1>1, <1>2, <1>3, <1>4, <1>5, <1>6, <1>7 DEF Next

\* The invariant holds in every reachable state.
LEMMA CacheInvariance == Spec => []CacheInv
  <1>1. QED
    BY CacheInitOK, CacheNextOK, PTL DEF Spec

-----------------------------------------------------------------------------
(***************************************************************************)
(* What the cache promises                                                 *)
(***************************************************************************)
\* The state of cache.manager.ts keeps its shape; in particular the version never
\* exceeds the number of the changes.
THEOREM CacheTyped == Spec => []TypeOK
  <1>1. CacheInv => TypeOK
    BY DEF CacheInv
  <1>2. QED
    BY <1>1, CacheInvariance, PTL

\* Nobody is left waiting for a load that singleflight has already finished.
THEOREM WaitersAreServed == Spec => []WaitersHaveALoad
  <1>1. CacheInv => WaitersHaveALoad
    <2>1. ASSUME CacheInv, NEW r \in Reader, reader[r].at = "wait"
          PROVE  flight[ProcessOf[r]][<<reader[r].key, "answer">>] # None
      <3>1. reader[r].key \in Key
        BY <2>1, CacheParts DEF CacheInv, ReaderOK, RequestRecord
      <3>2. PICK k \in Key : k = reader[r].key
        BY <3>1
      <3>3. Flying(ProcessOf[r], k, "answer") # None
        BY <2>1, <3>2 DEF CacheInv, WaitOK
      <3>4. QED
        BY <3>2, <3>3 DEF Flying
    <2>2. QED
      BY <2>1 DEF WaitersHaveALoad
  <1>2. QED
    BY <1>1, CacheInvariance, PTL

\* A list of chapters looked up under its version contains every change announced
\* before the request, for every number of requests, processes, changes and failures.
THEOREM VersionedStayFresh == Spec => []VersionedReadsAreFresh
  <1>1. CacheInv => VersionedReadsAreFresh
    BY DEF CacheInv
  <1>2. QED
    BY <1>1, CacheInvariance, PTL

\* A value under a key that changes delete is stale only if the key was deleted
\* between the load that read it and its delivery.
THEOREM DeletedStayFresh == Spec => []DeletedKeysAreFresh
  <1>1. CacheInv => DeletedKeysAreFresh
    BY DEF CacheInv
  <1>2. QED
    BY <1>1, CacheInvariance, PTL

-----------------------------------------------------------------------------
(***************************************************************************)
(* The counters.  A handler holds what it has read, and the recount the    *)
(* counts it is about to write.  The invariant says of each what it still  *)
(* is good for: what a request has read is right unless it is marked as    *)
(* stale (RequestOK), a rating is added up under the lock of its book's    *)
(* row, and the recount will only write over counts that are known to be   *)
(* wrong (RecountOK).                                                      *)
(***************************************************************************)
Sum == [ratings : Nat, sum : Nat]
OpRecord ==
  [at : {"new", "done", "update", "delete", "scheduled", "edit", "drop", "lock", "aggregate", "rate"},
   chapter : Chapter \cup {Nothing}, book : 0..NumBooks, before : Shown \cup {Nothing},
   credited : BOOLEAN, rater : Rater \cup {Nothing}, value : Rating, total : Sum, stale : BOOLEAN]
JobRecord ==
  [at : {"none", "waiting", "next", "count", "write", "save", "completed", "failed"},
   cursor : 0..NumBooks, pos : 0..NumBooks, last : 0..NumBooks,
   want : [Book -> Nat \cup {Nothing}], touched : SUBSET Book,
   attempts : 0..MaxAttempts, stalls : 0..(MaxStalls + 1)]
CountersTyped ==
  /\ book \in [Book -> [live : BOOLEAN, count : Int, total : Sum]]
  /\ made \in Book
  /\ locked \in [Book -> Request \cup {Nothing}]
  /\ status \in [Chapter -> Shown \cup {"ABSENT", "DELETED"}]
  /\ rated \in [Book -> [Rater -> Rating]]
  /\ written \subseteq Book /\ credit \in Int
  /\ op \in [Request -> OpRecord] /\ job \in JobRecord
  /\ drift \subseteq Book /\ covered \subseteq Book /\ owed \subseteq Book
  /\ miscredited \in BOOLEAN

\* Ids are given out once: nothing is said of a book before it is made.
MadeOK ==
  /\ \A b \in Book : b > made =>
       ~book[b].live /\ book[b].count = 0 /\ b \notin written /\ b \notin drift /\ b \notin owed
  /\ \A c \in Chapter : status[c] = "ABSENT" \/ BookOf[c] <= made

\* What a request x of q has read, given the rows as they are now.
ReadsOK(x, st, wr, m) ==
  /\ x.at \in {"update", "delete", "scheduled"} => x.chapter \in Chapter
  /\ x.at \in {"update", "delete"} => x.before \in Shown /\ (x.stale \/ x.before = st[x.chapter])
  /\ x.at \in {"edit", "drop"} => x.book \in 1..m /\ (x.stale \/ (x.credited <=> x.book \in wr))
RatesOK(q, x, ra, lo) ==
  /\ x.at \in {"lock", "aggregate", "rate"} => x.book \in Book /\ x.rater \in Rater
  /\ x.at \in {"aggregate", "rate"} => lo[x.book] = q
  /\ x.at = "rate" => x.total = Total([ra[x.book] EXCEPT ![x.rater] = x.value])
RequestOK ==
  \A q \in Request : ReadsOK(op[q], status, written, made) /\ RatesOK(q, op[q], rated, locked)
LocksOK ==
  \A b \in Book : locked[b] # Nothing =>
    op[locked[b]].book = b /\ op[locked[b]].at \in {"aggregate", "rate"}
TotalsOK == \A b \in Book : book[b].total = Total(rated[b])

RecountOK ==
  /\ job.at # "failed" => job.attempts >= 1 /\ job.stalls <= MaxStalls
  /\ job.at = "none" => job.cursor = 0
  /\ job.at = "write" => \A b \in Book : job.want[b] # Nothing =>
       /\ b <= made
       /\ book[b].live => b \in drift /\ (b \in job.touched \/ job.want[b] = Published(b))

\* What the cursors have passed is covered.
CoverOK ==
  \A b \in Book : b \in owed /\ book[b].live =>
    /\ b <= job.cursor => b \in covered
    /\ Recounting /\ b <= job.pos => b \in covered
    /\ job.at = "completed" => b \in covered

CountersInv ==
  /\ CountersTyped /\ MadeOK /\ RequestOK /\ LocksOK /\ TotalsOK
  /\ RecountOK /\ CoverOK /\ ChapterCountExact /\ CreditsExact

-----------------------------------------------------------------------------
(***************************************************************************)
(* Sets, sums and rows.                                                    *)
(***************************************************************************)
\* The constants: books are numbers, and Nothing is no request and no status.
LEMMA CounterConstants ==
  /\ NumBooks \in Nat /\ NumBooks >= 1 /\ BatchSize \in Nat /\ BatchSize >= 1
  /\ MaxAttempts \in Nat /\ MaxAttempts >= 1 /\ MaxStalls \in Nat /\ MaxRating \in Nat /\ MaxDrift \in Nat
  /\ IsFiniteSet(Chapter) /\ IsFiniteSet(Rater) /\ BookOf \in [Chapter -> Book]
  /\ Nothing \notin Request /\ Nothing \notin Shown
  /\ Book \subseteq 0..NumBooks /\ IsFiniteSet(Book)
  /\ \A b \in Book : b \in Nat /\ b >= 1 /\ b <= NumBooks
  <1>1. /\ NumBooks \in Nat /\ NumBooks >= 1 /\ BatchSize \in Nat /\ BatchSize >= 1
        /\ MaxAttempts \in Nat /\ MaxAttempts >= 1 /\ MaxStalls \in Nat /\ MaxRating \in Nat /\ MaxDrift \in Nat
    BY CounterAssumption
  <1>2. IsFiniteSet(1..NumBooks)
    BY <1>1, FS_Interval
  <1>3. QED
    BY <1>1, <1>2, CounterAssumption DEF Book

\* A set of books that is not empty has a first one.
LEMMA FirstBook ==
  ASSUME NEW S \in SUBSET Book, S # {}
  PROVE  \E x \in S : \A y \in S : x <= y
  <1>1. S \in SUBSET Nat
    BY CounterConstants
  <1>2. PICK x \in S : \A y \in S : ~(<<y, x>> \in OpToRel(<, Nat))
    BY <1>1, NatLessThanWellFounded, WFMin
  <1>3. \A y \in S : <<y, x>> \in OpToRel(<, Nat) <=> y < x
    BY <1>1 DEF OpToRel
  <1>4. \A y \in S : ~(y < x) /\ y \in Nat /\ x \in Nat
    BY <1>1, <1>2, <1>3
  <1>5. QED
    BY <1>4

\* And a last one: the one that leaves the fewest after it.
LEMMA LastBook ==
  ASSUME NEW S \in SUBSET Book, S # {}
  PROVE  Max(S) \in S
  <1> DEFINE T == {b \in Book : \E x \in S : x = NumBooks + 1 - b}
  <1>1. \A x \in S : x \in Book /\ NumBooks + 1 - x \in T /\ x = NumBooks + 1 - (NumBooks + 1 - x)
    BY CounterConstants DEF Book
  <1>2. T \in SUBSET Book /\ T # {}
    BY <1>1
  <1>3. PICK t \in T : \A y \in T : t <= y
    <2> HIDE DEF T
    <2>1. QED
      BY <1>2, FirstBook
  <1>4. PICK x \in S : x = NumBooks + 1 - t
    BY <1>3
  <1>5. \A y \in S : x >= y
    <2>1. SUFFICES ASSUME NEW y \in S PROVE x >= y
      OBVIOUS
    <2>2. t <= NumBooks + 1 - y /\ t \in Nat /\ y \in Nat /\ NumBooks \in Nat
      BY <1>1, <1>2, <1>3, CounterConstants
    <2>3. QED
      BY <1>4, <2>2
  <1>6. QED
    BY <1>5 DEF Max

\* A batch is empty only when no book is left.
LEMMA BatchTaken ==
  ASSUME CountersTyped
  PROVE  /\ Batch = {} => \A b \in Live : ~(b > job.pos)
         /\ Batch # {} => Max(Batch) \in Book
  <1>1. Live \subseteq Book /\ Batch \in SUBSET Book
    BY DEF Live, Batch
  <1>2. Batch # {} => Max(Batch) \in Book
    BY <1>1, LastBook
  <1>3. ASSUME NEW c \in Live, c > job.pos PROVE Batch # {}
    <2> DEFINE after == {b \in Live : b > job.pos}
    <2>1. after \in SUBSET Book /\ after # {}
      BY <1>1, <1>3
    <2>2. PICK x \in after : \A y \in after : x <= y
      <3> HIDE DEF after
      <3>1. QED
        BY <2>1, FirstBook
    <2>3. \A y \in after : y \in Nat /\ x \in Nat
      BY <2>1, CounterConstants
    <2>4. {a \in after : a <= x} = {x}
      BY <2>2, <2>3
    <2>5. Cardinality({a \in after : a <= x}) <= BatchSize
      <3>1. Cardinality({x}) = 1
        BY FS_Singleton
      <3>2. QED
        BY <2>4, <3>1, CounterConstants
    <2>6. QED
      BY <2>2, <2>5 DEF Batch
  <1>4. QED
    BY <1>2, <1>3

\* Nobody's ratings add up to nothing; and the total of any ratings is two numbers.
LEMMA Totals ==
  /\ Total([u \in Rater |-> 0]) = NoRatings
  /\ NoRatings \in Sum
  /\ \A ratings : Total(ratings) \in Sum
  <1> DEFINE none == [u \in Rater |-> 0]
  <1>1. {u \in Rater : none[u] > 0} = {}
    OBVIOUS
  <1>2. {p \in Rater \X (Rating \ {0}) : p[2] <= none[p[1]]} = {}
    <2>1. \A u \in Rater, n \in Rating \ {0} : ~(n <= none[u])
      BY CounterConstants DEF Rating
    <2>2. \A p \in Rater \X (Rating \ {0}) : p[1] \in Rater /\ p[2] \in Rating \ {0}
      OBVIOUS
    <2>3. QED
      BY <2>1, <2>2
  <1>3. Total(none) = NoRatings
    BY <1>1, <1>2, FS_EmptySet DEF Total, NoRatings
  <1>4. ASSUME NEW ratings PROVE Total(ratings) \in Sum
    <2>1. IsFiniteSet(Rating \ {0})
      <3>1. IsFiniteSet(0..MaxRating)
        BY CounterConstants, FS_Interval
      <3>2. QED
        BY <3>1, FS_Subset DEF Rating
    <2>2. IsFiniteSet(Rater \X (Rating \ {0}))
      BY <2>1, CounterConstants, FS_Product
    <2>3. Cardinality({p \in Rater \X (Rating \ {0}) : p[2] <= ratings[p[1]]}) \in Nat
      BY <2>2, FS_Subset, FS_CardinalityType
    <2>4. Cardinality({u \in Rater : ratings[u] > 0}) \in Nat
      BY CounterConstants, FS_Subset, FS_CardinalityType
    <2>5. QED
      BY <2>3, <2>4 DEF Total, Sum
  <1>5. QED
    BY <1>3, <1>4 DEF NoRatings, Sum

\* How many chapters of b are published in st.
PublishedIn(st, b) == Cardinality({c \in ChaptersOf(b) : st[c] = "PUBLISHED"})

\* The number of published chapters of a book is a number, 0 without any.
LEMMA PublishedTyped ==
  ASSUME NEW st, NEW b
  PROVE  /\ PublishedIn(st, b) \in Nat
         /\ (\A c \in Chapter : BookOf[c] = b => st[c] # "PUBLISHED") => PublishedIn(st, b) = 0
  <1>1. {c \in ChaptersOf(b) : st[c] = "PUBLISHED"} \in SUBSET Chapter
    BY DEF ChaptersOf
  <1>2. PublishedIn(st, b) \in Nat
    BY <1>1, CounterConstants, FS_Subset, FS_CardinalityType DEF PublishedIn
  <1>3. ASSUME \A c \in Chapter : BookOf[c] = b => st[c] # "PUBLISHED" PROVE PublishedIn(st, b) = 0
    <2>1. {c \in ChaptersOf(b) : st[c] = "PUBLISHED"} = {}
      BY <1>3 DEF ChaptersOf
    <2>2. QED
      BY <2>1, FS_EmptySet DEF PublishedIn
  <1>4. QED
    BY <1>2, <1>3

\* What the number of published chapters gains when one of them changes.
Gain(before, after) ==
  (IF after = "PUBLISHED" THEN 1 ELSE 0) - (IF before = "PUBLISHED" THEN 1 ELSE 0)

\* A chapter that becomes published, or no longer is, counts for its book only.
LEMMA PublishedChanges ==
  ASSUME NEW st \in [Chapter -> Shown \cup {"ABSENT", "DELETED"}], NEW c \in Chapter, NEW b,
         NEW new, \A d \in Chapter : d # c => new[d] = st[d]
  PROVE  /\ PublishedIn(st, b) \in Nat
         /\ BookOf[c] # b => PublishedIn(new, b) = PublishedIn(st, b)
         /\ BookOf[c] = b => PublishedIn(new, b) = PublishedIn(st, b) + Gain(st[c], new[c])
  <1> DEFINE old == {d \in ChaptersOf(b) : st[d] = "PUBLISHED"}
             now == {d \in ChaptersOf(b) : new[d] = "PUBLISHED"}
  <1>1. IsFiniteSet(old) /\ Cardinality(old) \in Nat
    <2>1. old \in SUBSET Chapter
      BY DEF ChaptersOf
    <2>2. QED
      BY <2>1, CounterConstants, FS_Subset, FS_CardinalityType
  <1>2. CASE BookOf[c] # b
    <2>1. now = old
      BY <1>2 DEF ChaptersOf
    <2>2. QED
      BY <1>1, <1>2, <2>1 DEF PublishedIn
  <1>3. CASE BookOf[c] = b /\ new[c] = "PUBLISHED"
    <2>1. now = old \cup {c}
      BY <1>3 DEF ChaptersOf
    <2>2. Cardinality(now) = IF c \in old THEN Cardinality(old) ELSE Cardinality(old) + 1
      <3> HIDE DEF old
      <3>1. QED
        BY <2>1, <1>1, FS_AddElement
    <2>3. c \in old <=> st[c] = "PUBLISHED"
      BY <1>3 DEF ChaptersOf
    <2>4. QED
      BY <1>1, <1>3, <2>2, <2>3 DEF PublishedIn, Gain
  <1>4. CASE BookOf[c] = b /\ new[c] # "PUBLISHED"
    <2>1. now = old \ {c}
      BY <1>4 DEF ChaptersOf
    <2>2. Cardinality(now) = IF c \in old THEN Cardinality(old) - 1 ELSE Cardinality(old)
      <3> HIDE DEF old
      <3>1. QED
        BY <2>1, <1>1, FS_RemoveElement
    <2>3. c \in old <=> st[c] = "PUBLISHED"
      BY <1>4 DEF ChaptersOf
    <2>4. QED
      BY <1>1, <1>4, <2>2, <2>3 DEF PublishedIn, Gain
  <1>5. QED
    BY <1>2, <1>3, <1>4

\* A contribution to one book more, or to one less.
LEMMA ContributionsChange ==
  ASSUME NEW wr \in SUBSET Book, NEW b \in Book
  PROVE  /\ Cardinality(wr) \in Nat
         /\ Cardinality(wr \cup {b}) = Cardinality(wr) + (IF b \in wr THEN 0 ELSE 1)
         /\ Cardinality(wr \ {b}) = Cardinality(wr) - (IF b \in wr THEN 1 ELSE 0)
  <1>1. IsFiniteSet(wr) /\ Cardinality(wr) \in Nat
    BY CounterConstants, FS_Subset, FS_CardinalityType
  <1>2. Cardinality(wr \cup {b}) = IF b \in wr THEN Cardinality(wr) ELSE Cardinality(wr) + 1
    BY <1>1, FS_AddElement
  <1>3. Cardinality(wr \ {b}) = IF b \in wr THEN Cardinality(wr) - 1 ELSE Cardinality(wr)
    BY <1>1, FS_RemoveElement
  <1>4. QED
    BY <1>1, <1>2, <1>3

-----------------------------------------------------------------------------
(***************************************************************************)
(* The initial states.                                                     *)
(***************************************************************************)
\* The records that requests and the recount begin with, and the one requests end with.
LEMMA RecordsTyped ==
  /\ NewOp \in OpRecord /\ NewOp.at = "new" /\ NewOp.before = Nothing /\ ~NewOp.stale
  /\ Done \in OpRecord /\ Done.at = "done" /\ Done.before = Nothing
  /\ NewJob \in JobRecord /\ NewJob.at = "none" /\ NewJob.cursor = 0
  /\ NewJob.attempts = MaxAttempts /\ NewJob.stalls = 0
  /\ NoWant \in [Book -> Nat \cup {Nothing}]
  <1>1. NewOp \in OpRecord /\ NewOp.at = "new" /\ NewOp.before = Nothing /\ ~NewOp.stale
    BY CounterConstants, Totals DEF NewOp, OpRecord, Rating
  <1>2. Done \in OpRecord /\ Done.at = "done" /\ Done.before = Nothing
    BY <1>1 DEF Done, OpRecord
  <1>3. NoWant \in [Book -> Nat \cup {Nothing}]
    BY DEF NoWant
  <1>4. NewJob \in JobRecord /\ NewJob.at = "none" /\ NewJob.cursor = 0
        /\ NewJob.attempts = MaxAttempts /\ NewJob.stalls = 0
    BY <1>3, CounterConstants DEF NewJob, JobRecord
  <1>5. QED
    BY <1>1, <1>2, <1>3, <1>4

\* The invariant holds initially.
LEMMA CountersInitOK == CountersInit => CountersInv
  <1> SUFFICES ASSUME CountersInit PROVE CountersInv
    OBVIOUS
  <1>1. /\ status \in [Chapter -> {"ABSENT", "DRAFT", "PUBLISHED"}]
        /\ drift \in SUBSET Book
        /\ made \in Book /\ drift \subseteq 1..made
        /\ \A c \in Chapter : status[c] = "ABSENT" \/ BookOf[c] <= made
        /\ locked = [b \in Book |-> Nothing]
        /\ rated = [b \in Book |-> [u \in Rater |-> 0]]
        /\ written \in {{}, {1}} /\ credit = Cardinality(written)
        /\ op = [r \in Request |-> NewOp] /\ job = NewJob
        /\ miscredited = FALSE /\ covered = {} /\ owed = {}
    BY DEF CountersInit
  <1>2. PICK off \in (-MaxDrift)..MaxDrift :
          book = [b \in Book |-> [live |-> b <= made, total |-> NoRatings,
                                  count |-> Published(b) + (IF b \in drift THEN off ELSE 0)]]
    BY DEF CountersInit
  <1>3. off \in Int
    BY <1>2, CounterConstants
  <1>4. \A b \in Book : Published(b) \in Nat /\ (b > made => Published(b) = 0)
    <2>1. SUFFICES ASSUME NEW b \in Book PROVE Published(b) \in Nat /\ (b > made => Published(b) = 0)
      OBVIOUS
    <2>2. b > made => \A c \in Chapter : BookOf[c] = b => status[c] # "PUBLISHED"
      BY <1>1, CounterConstants
    <2>3. Published(b) = PublishedIn(status, b)
      BY DEF Published, PublishedIn
    <2>4. QED
      BY <2>2, <2>3, PublishedTyped
  <1>5. \A b \in Book : /\ book[b].live = (b <= made) /\ book[b].total = NoRatings
                        /\ book[b].count = Published(b) + (IF b \in drift THEN off ELSE 0)
    BY <1>2
  <1>6. CountersTyped
    <2>1. book \in [Book -> [live : BOOLEAN, count : Int, total : Sum]]
      <3>1. \A b \in Book : Published(b) + (IF b \in drift THEN off ELSE 0) \in Int /\ (b <= made) \in BOOLEAN
        BY <1>3, <1>4
      <3>2. NoRatings \in Sum
        BY Totals
      <3>3. QED
        BY <1>2, <3>1, <3>2
    <2>2. written \subseteq Book /\ credit \in Int
      <3>1. 1 \in Book
        BY CounterConstants DEF Book
      <3>2. written \in SUBSET Book
        BY <1>1, <3>1
      <3>3. Cardinality(written) \in Nat
        BY <3>1, <3>2, ContributionsChange
      <3>4. QED
        BY <1>1, <3>2, <3>3
    <2>3. rated \in [Book -> [Rater -> Rating]]
      BY <1>1, CounterConstants DEF Rating
    <2>4. status \in [Chapter -> Shown \cup {"ABSENT", "DELETED"}]
      BY <1>1 DEF Shown
    <2>5. QED
      BY <1>1, <2>1, <2>2, <2>3, <2>4, RecordsTyped DEF CountersTyped
  <1>7. MadeOK
    <2>1. SUFFICES ASSUME NEW b \in Book, b > made
                   PROVE  ~book[b].live /\ book[b].count = 0 /\ b \notin written /\ b \notin drift /\ b \notin owed
      BY <1>1 DEF MadeOK
    <2>2. b \notin drift /\ b \notin written /\ b \notin owed /\ (b <= made) = FALSE
      BY <1>1, <2>1, CounterConstants
    <2>3. book[b].count = 0
      BY <1>4, <1>5, <2>1, <2>2
    <2>4. ~book[b].live
      BY <1>5, <2>2
    <2>5. QED
      BY <2>2, <2>3, <2>4
  <1>8. RequestOK
    <2>1. \A q \in Request : op[q].at = "new"
      BY <1>1, RecordsTyped
    <2>2. QED
      BY <2>1 DEF RequestOK, ReadsOK, RatesOK
  <1>9. LocksOK /\ TotalsOK
    <2>1. LocksOK
      BY <1>1 DEF LocksOK
    <2>2. TotalsOK
      BY <1>1, <1>5, Totals DEF TotalsOK
    <2>3. QED
      BY <2>1, <2>2
  <1>10. RecountOK /\ CoverOK
    BY <1>1, RecordsTyped, CounterConstants DEF RecountOK, CoverOK
  <1>11. ChapterCountExact /\ CreditsExact
    <2>1. ChapterCountExact
      BY <1>4, <1>5 DEF ChapterCountExact, Live
    <2>2. QED
      BY <1>1, <2>1 DEF CreditsExact
  <1>12. QED
    BY <1>6, <1>7, <1>8, <1>9, <1>10, <1>11 DEF CountersInv

-----------------------------------------------------------------------------
(***************************************************************************)
(* Requests that read.  Nothing but the record of one request changes.     *)
(***************************************************************************)
\* A request may put down whatever is right.
LEMMA OpStep ==
  ASSUME CountersInv, NEW r \in Request, NEW rec \in OpRecord, op' = [op EXCEPT ![r] = rec], OpOnly,
         ReadsOK(rec, status, written, made), RatesOK(r, rec, rated, locked),
         \A b \in Book : locked[b] = r => rec.book = b /\ rec.at \in {"aggregate", "rate"}
  PROVE  CountersInv'
  <1>1. /\ CountersTyped /\ MadeOK /\ RequestOK /\ LocksOK /\ TotalsOK
        /\ RecountOK /\ CoverOK /\ ChapterCountExact /\ CreditsExact
    BY DEF CountersInv
  <1>2. /\ UNCHANGED <<book, made, locked, status, rated, written, credit>>
        /\ UNCHANGED <<job, drift, miscredited, covered, owed>>
    BY DEF OpOnly, rows, history
  <1>3. op' \in [Request -> OpRecord] /\ op'[r] = rec /\ \A q \in Request : q # r => op'[q] = op[q]
    BY <1>1 DEF CountersTyped
  <1>4. CountersTyped'
    BY <1>1, <1>2, <1>3 DEF CountersTyped
  <1>5. RequestOK'
    <2>1. SUFFICES ASSUME NEW q \in Request
                   PROVE  ReadsOK(op'[q], status, written, made) /\ RatesOK(q, op'[q], rated, locked)
      BY <1>2 DEF RequestOK
    <2>2. QED
      BY <1>1, <1>3 DEF RequestOK
  <1>6. LocksOK'
    BY <1>1, <1>2, <1>3 DEF LocksOK, CountersTyped
  <1>7. MadeOK' /\ TotalsOK'
    BY <1>1, <1>2 DEF MadeOK, TotalsOK
  <1>8. \A b : Published(b)' = Published(b)
    BY <1>2 DEF Published, ChaptersOf
  <1>9. RecountOK' /\ CoverOK'
    BY <1>1, <1>2, <1>8 DEF RecountOK, CoverOK, Recounting
  <1>10. ChapterCountExact' /\ CreditsExact'
    BY <1>1, <1>2, <1>8 DEF ChapterCountExact, CreditsExact, Live
  <1>11. QED
    BY <1>4, <1>5, <1>6, <1>7, <1>9, <1>10 DEF CountersInv

\* Whoever does not add up ratings holds no row.
LEMMA HoldsNothing ==
  ASSUME CountersInv, NEW r \in Request, op[r].at \notin {"aggregate", "rate"}
  PROVE  \A b \in Book : locked[b] # r
  <1>1. LocksOK
    BY DEF CountersInv
  <1>2. SUFFICES ASSUME NEW b \in Book, locked[b] = r PROVE FALSE
    OBVIOUS
  <1>3. r # Nothing
    BY CounterConstants
  <1>4. QED
    BY <1>1, <1>2, <1>3 DEF LocksOK

\* updateChapter and deleteChapter read the chapter.
LEMMA ReadChapterStep ==
  ASSUME CountersInv, NEW r \in Request, NEW c \in Chapter, NEW next \in {"update", "delete"},
         ReadChapter(r, c, next)
  PROVE  CountersInv'
  <1> DEFINE rec == [NewOp EXCEPT !.at = next, !.chapter = c, !.before = status[c]]
  <1>1. status[c] \in Shown /\ op[r].at = "new" /\ op' = [op EXCEPT ![r] = rec] /\ OpOnly
    BY DEF ReadChapter, Begin, At
  <1>2. rec \in OpRecord /\ rec.at = next /\ rec.chapter = c /\ rec.before = status[c]
    BY <1>1, RecordsTyped DEF OpRecord
  <1>3. ReadsOK(rec, status, written, made) /\ RatesOK(r, rec, rated, locked)
    <2> HIDE DEF rec
    <2>1. QED
      BY <1>1, <1>2 DEF ReadsOK, RatesOK
  <1>4. \A b \in Book : locked[b] # r
    BY <1>1, HoldsNothing
  <1> HIDE DEF rec
  <1>5. QED
    BY <1>1, <1>2, <1>3, <1>4, OpStep

\* update and deleteById read the contributors.
LEMMA ReadContributorsStep ==
  ASSUME CountersInv, NEW r \in Request, NEW b \in Book, NEW next \in {"edit", "drop"},
         ReadContributors(r, b, next)
  PROVE  CountersInv'
  <1> DEFINE rec == [NewOp EXCEPT !.at = next, !.book = b, !.credited = b \in written]
  <1>1. b \in Live /\ op[r].at = "new" /\ op' = [op EXCEPT ![r] = rec] /\ OpOnly
    BY DEF ReadContributors, Begin, At
  <1>2. rec \in OpRecord /\ rec.at = next /\ rec.book = b /\ rec.credited = (b \in written)
    <2>1. PICK z \in BOOLEAN : z = (b \in written)
      <3>1. (b \in written) = TRUE \/ (b \in written) = FALSE
        OBVIOUS
      <3>2. QED
        BY <3>1, Zenon
    <2>2. \A x \in OpRecord : LET y == [x EXCEPT !.at = next, !.book = b, !.credited = z]
                             IN  y \in OpRecord /\ y.at = next /\ y.book = b /\ y.credited = z
      BY CounterConstants DEF OpRecord
    <2>3. QED
      BY <2>1, <2>2, RecordsTyped
  <1>3. b \in 1..made
    <2>1. MadeOK /\ made \in Book
      BY DEF CountersInv, CountersTyped
    <2>2. QED
      BY <1>1, <2>1, CounterConstants DEF MadeOK, Live
  <1>4. ReadsOK(rec, status, written, made) /\ RatesOK(r, rec, rated, locked)
    <2> HIDE DEF rec
    <2>1. QED
      BY <1>2, <1>3 DEF ReadsOK, RatesOK
  <1>5. \A d \in Book : locked[d] # r
    BY <1>1, HoldsNothing
  <1> HIDE DEF rec
  <1>6. QED
    BY <1>1, <1>2, <1>4, <1>5, OpStep

\* rateBook begins.
LEMMA RateBookStep ==
  ASSUME CountersInv, NEW r \in Request, NEW b \in Book, NEW u \in Rater, NEW n \in Rating,
         RateBook(r, b, u, n)
  PROVE  CountersInv'
  <1> DEFINE rec == [NewOp EXCEPT !.at = "lock", !.book = b, !.rater = u, !.value = n]
  <1>1. op[r].at = "new" /\ op' = [op EXCEPT ![r] = rec] /\ OpOnly
    BY DEF RateBook, Begin, At
  <1>2. rec \in OpRecord /\ rec.at = "lock" /\ rec.book = b /\ rec.rater = u
    BY RecordsTyped, CounterConstants DEF OpRecord
  <1>3. ReadsOK(rec, status, written, made) /\ RatesOK(r, rec, rated, locked)
    <2> HIDE DEF rec
    <2>1. QED
      BY <1>2 DEF ReadsOK, RatesOK
  <1>4. \A d \in Book : locked[d] # r
    BY <1>1, HoldsNothing
  <1> HIDE DEF rec
  <1>5. QED
    BY <1>1, <1>2, <1>3, <1>4, OpStep

\* rateBook adds the ratings up, under its lock.
LEMMA AggregateStep ==
  ASSUME CountersInv, NEW r \in Request, Aggregate(r)
  PROVE  CountersInv'
  <1>1. PICK x \in OpRecord : x = op[r]
    BY DEF CountersInv, CountersTyped
  <1> DEFINE t == Total([rated[x.book] EXCEPT ![x.rater] = x.value])
             rec == [x EXCEPT !.at = "rate", !.total = t]
  <1>2. x.at = "aggregate" /\ op' = [op EXCEPT ![r] = rec] /\ OpOnly
    BY <1>1 DEF Aggregate, At
  <1>3. t \in Sum
    BY Totals
  <1>4. /\ rec \in OpRecord /\ rec.at = "rate" /\ rec.total = t
        /\ rec.book = x.book /\ rec.rater = x.rater /\ rec.value = x.value
    <2> HIDE DEF t
    <2>1. QED
      BY <1>3 DEF OpRecord
  <1>5. RatesOK(r, x, rated, locked)
    BY <1>1 DEF CountersInv, RequestOK
  <1>6. ReadsOK(rec, status, written, made) /\ RatesOK(r, rec, rated, locked)
    <2>1. rec.total = Total([rated[rec.book] EXCEPT ![rec.rater] = rec.value])
      BY <1>4
    <2> HIDE DEF rec, t
    <2>2. QED
      BY <1>2, <1>4, <1>5, <2>1 DEF ReadsOK, RatesOK
  <1>7. \A b \in Book : locked[b] = r => rec.book = b /\ rec.at \in {"aggregate", "rate"}
    <2>1. \A b \in Book : locked[b] = r => x.book = b
      BY <1>1, CounterConstants DEF CountersInv, LocksOK
    <2> HIDE DEF rec
    <2>2. QED
      BY <1>4, <2>1
  <1> HIDE DEF rec
  <1>8. QED
    BY <1>2, <1>4, <1>6, <1>7, OpStep

-----------------------------------------------------------------------------
(***************************************************************************)
(* Chapters.  Whoever changes a chapter marks the others that have read    *)
(* it, and touches its book for the recount.                               *)
(***************************************************************************)
\* Others that have read the chapter keep what is right, or are marked.
LEMMA Overtakes ==
  ASSUME CountersInv, NEW r \in Request, NEW c \in Chapter, NEW s, NEW mine \in OpRecord,
         Overtaking(c, r, mine), status' = [status EXCEPT ![c] = s]
  PROVE  /\ op' \in [Request -> OpRecord] /\ op'[r] = mine
         /\ \A q \in Request : q # r =>
              /\ op'[q].at = op[q].at /\ op'[q].book = op[q].book
              /\ ReadsOK(op'[q], status', written, made)
              /\ RatesOK(q, op'[q], rated, locked)
  <1>1. CountersTyped /\ RequestOK
    BY DEF CountersInv
  <1>2. op' = [q \in Request |-> IF q = r THEN mine
                           ELSE IF op[q].chapter = c /\ op[q].before # Nothing
                                THEN [op[q] EXCEPT !.stale = TRUE] ELSE op[q]]
    BY DEF Overtaking
  <1>3. \A q \in Request : op[q] \in OpRecord
    BY <1>1 DEF CountersTyped
  <1>4. \A x \in OpRecord :
          /\ [x EXCEPT !.stale = TRUE] \in OpRecord /\ [x EXCEPT !.stale = TRUE].stale
          /\ [x EXCEPT !.stale = TRUE].at = x.at /\ [x EXCEPT !.stale = TRUE].chapter = x.chapter
          /\ [x EXCEPT !.stale = TRUE].book = x.book /\ [x EXCEPT !.stale = TRUE].before = x.before
          /\ [x EXCEPT !.stale = TRUE].rater = x.rater /\ [x EXCEPT !.stale = TRUE].value = x.value
          /\ [x EXCEPT !.stale = TRUE].total = x.total
    BY DEF OpRecord
  <1>5. op' \in [Request -> OpRecord] /\ op'[r] = mine
    BY <1>2, <1>3, <1>4
  <1>6. ASSUME NEW q \in Request, q # r
        PROVE  /\ op'[q].at = op[q].at /\ op'[q].book = op[q].book
               /\ ReadsOK(op'[q], status', written, made)
               /\ RatesOK(q, op'[q], rated, locked)
    <2>1. PICK x \in OpRecord : x = op[q]
      BY <1>3
    <2>2. PICK y \in OpRecord : y = op'[q]
      BY <1>5
    <2>3. ReadsOK(x, status, written, made) /\ RatesOK(q, x, rated, locked)
      BY <1>1, <2>1 DEF RequestOK
    <2>4. y = IF x.chapter = c /\ x.before # Nothing THEN [x EXCEPT !.stale = TRUE] ELSE x
      BY <1>2, <1>6, <2>1, <2>2
    <2>5. /\ y.at = x.at /\ y.chapter = x.chapter /\ y.book = x.book /\ y.before = x.before
          /\ y.rater = x.rater /\ y.value = x.value /\ y.total = x.total
          /\ IF x.chapter = c /\ x.before # Nothing THEN y.stale ELSE y = x
      BY <1>4, <2>4
    <2>6. RatesOK(q, y, rated, locked)
      BY <2>3, <2>5 DEF RatesOK
    <2>7. \A d \in Chapter : d # c => status'[d] = status[d]
      BY <1>1 DEF CountersTyped
    <2>8. ReadsOK(y, status', written, made)
      BY <2>3, <2>5, <2>7, CounterConstants DEF ReadsOK
    <2>9. QED
      BY <2>1, <2>2, <2>5, <2>6, <2>8
  <1>7. QED
    BY <1>5, <1>6

\* A touched recount is the recount, which knows one book more to have changed.
LEMMA Touched ==
  ASSUME CountersInv, NEW b \in Book, Touch(b)
  PROVE  /\ job' \in JobRecord /\ job'.at = job.at /\ job'.cursor = job.cursor /\ job'.pos = job.pos
         /\ job'.want = job.want /\ job'.attempts = job.attempts /\ job'.stalls = job.stalls
         /\ job.touched \subseteq job'.touched
         /\ job.at = "write" => b \in job'.touched
  <1>1. PICK j \in JobRecord : j = job
    BY DEF CountersInv, CountersTyped
  <1>2. PICK k : k = job'
    OBVIOUS
  <1>3. k = IF j.at = "write" THEN [j EXCEPT !.touched = @ \cup {b}] ELSE j
    BY <1>1, <1>2 DEF Touch
  <1>4. /\ k \in JobRecord /\ k.at = j.at /\ k.cursor = j.cursor /\ k.pos = j.pos
        /\ k.want = j.want /\ k.attempts = j.attempts /\ k.stalls = j.stalls
        /\ j.touched \subseteq k.touched
        /\ j.at = "write" => b \in k.touched
    BY <1>3 DEF JobRecord
  <1>5. QED
    BY <1>1, <1>2, <1>4

\* A chapter changes, and the count of its book as it should, or the book is noted.
LEMMA ChapterStep ==
  ASSUME CountersInv, NEW r \in Request, NEW c \in Chapter, NEW s \in Shown \cup {"DELETED"},
         NEW mine \in OpRecord, NEW gain \in Int, NEW cause \in BOOLEAN,
         op[r].at \notin {"aggregate", "rate"}, mine.at \in {"done", "scheduled"},
         mine.at = "scheduled" => mine.chapter = c,
         BookOf[c] <= made,
         SetStatus(c, s), Count(BookOf[c], gain), Drifting(BookOf[c], cause),
         Overtaking(c, r, mine), Touch(BookOf[c]),
         cause \/ gain = Gain(status[c], s),
         UNCHANGED <<made, locked, rated, written, credit, miscredited, covered, owed>>
  PROVE  CountersInv'
  <1>1. /\ CountersTyped /\ MadeOK /\ RequestOK /\ LocksOK /\ TotalsOK
        /\ RecountOK /\ CoverOK /\ ChapterCountExact /\ CreditsExact
    BY DEF CountersInv
  <1>2. PICK b \in Book : b = BookOf[c]
    BY CounterConstants
  <1>3. /\ status' = [status EXCEPT ![c] = s]
        /\ book' = [book EXCEPT ![b].count = @ + gain]
        /\ drift' = IF cause THEN drift \cup {b} ELSE drift
        /\ UNCHANGED <<made, locked, rated, written, credit, miscredited, covered, owed>>
    BY <1>2 DEF SetStatus, Count, Drifting
  <1>4. /\ \A d \in Book : /\ book'[d].live = book[d].live /\ book'[d].total = book[d].total
                           /\ d # b => book'[d] = book[d]
        /\ book'[b].count = book[b].count + gain /\ book[b].count \in Int
        /\ book' \in [Book -> [live : BOOLEAN, count : Int, total : Sum]]
    BY <1>1, <1>3 DEF CountersTyped
  <1>5. /\ op' \in [Request -> OpRecord] /\ op'[r] = mine
        /\ \A q \in Request : q # r =>
              /\ op'[q].at = op[q].at /\ op'[q].book = op[q].book
              /\ ReadsOK(op'[q], status', written, made)
              /\ RatesOK(q, op'[q], rated, locked)
    BY <1>3, Overtakes
  <1>6. /\ job' \in JobRecord /\ job'.at = job.at /\ job'.cursor = job.cursor /\ job'.pos = job.pos
        /\ job'.want = job.want /\ job'.attempts = job.attempts /\ job'.stalls = job.stalls
        /\ job.touched \subseteq job'.touched
        /\ job.at = "write" => b \in job'.touched
    BY <1>2, Touched
  <1>7. status' \in [Chapter -> Shown \cup {"ABSENT", "DELETED"}]
    BY <1>1, <1>3 DEF CountersTyped
  <1>8. CountersTyped'
    BY <1>1, <1>3, <1>4, <1>5, <1>6, <1>7 DEF CountersTyped
  <1>9. b <= made /\ b \in Nat /\ made \in Nat
    BY <1>1, <1>2, CounterConstants DEF CountersTyped
  <1>10. MadeOK'
    <2>1. ASSUME NEW d \in Book, d > made PROVE d # b /\ d \in Nat
      BY <1>9, <2>1, CounterConstants
    <2>2. \A d \in Book : d > made =>
            ~book'[d].live /\ book'[d].count = 0 /\ d \notin written /\ d \notin drift' /\ d \notin owed
      BY <1>1, <1>3, <1>4, <2>1 DEF MadeOK
    <2>3. \A d \in Chapter : status'[d] = "ABSENT" \/ BookOf[d] <= made
      BY <1>1, <1>2, <1>3, <1>9 DEF MadeOK, CountersTyped
    <2>4. QED
      BY <1>3, <2>2, <2>3 DEF MadeOK
  <1>11. RequestOK'
    <2>1. ReadsOK(mine, status', written, made) /\ RatesOK(r, mine, rated, locked)
      BY DEF ReadsOK, RatesOK
    <2>2. \A q \in Request : ReadsOK(op'[q], status', written, made) /\ RatesOK(q, op'[q], rated, locked)
      BY <1>5, <2>1
    <2>3. QED
      BY <1>3, <2>2 DEF RequestOK
  <1>12. LocksOK'
    <2>1. \A d \in Book : locked[d] # r
      BY HoldsNothing
    <2>2. \A d \in Book : locked[d] # Nothing => locked[d] \in Request
      BY <1>1 DEF CountersTyped
    <2>3. QED
      BY <1>1, <1>3, <1>5, <2>1, <2>2 DEF LocksOK
  <1>13. TotalsOK'
    BY <1>1, <1>3, <1>4 DEF TotalsOK
  <1>14. \A d \in Book : /\ Published(d) = PublishedIn(status, d)
                         /\ Published(d)' = PublishedIn(status', d)
    BY DEF Published, PublishedIn, ChaptersOf
  <1>15. /\ \A d \in Book : d # b => Published(d)' = Published(d)
         /\ Published(b)' = Published(b) + Gain(status[c], s) /\ Published(b) \in Nat
    <2>1. /\ status \in [Chapter -> Shown \cup {"ABSENT", "DELETED"}]
          /\ status'[c] = s /\ \A d \in Chapter : d # c => status'[d] = status[d]
      BY <1>1, <1>3 DEF CountersTyped
    <2>2. \A d \in Book : /\ PublishedIn(status, d) \in Nat
                          /\ d # b => PublishedIn(status', d) = PublishedIn(status, d)
                          /\ d = b => PublishedIn(status', d) = PublishedIn(status, d) + Gain(status[c], s)
      BY <2>1, <1>2, PublishedChanges
    <2>3. QED
      BY <1>14, <2>2
  <1>16. ChapterCountExact'
    <2>1. SUFFICES ASSUME NEW d \in Book, book[d].live, d \notin drift'
                   PROVE  book'[d].count = Published(d)'
      BY <1>4 DEF ChapterCountExact, Live
    <2>2. d \notin drift /\ book[d].count = Published(d)
      BY <1>1, <1>3, <2>1 DEF ChapterCountExact, Live
    <2>3. CASE d # b
      BY <1>4, <1>15, <2>2, <2>3
    <2>4. CASE d = b
      <3>1. ~cause
        BY <1>3, <2>1, <2>4
      <3>2. QED
        BY <1>4, <1>15, <2>2, <2>4, <3>1
    <2>5. QED
      BY <2>3, <2>4
  <1>17. RecountOK'
    <2>1. \A d \in Book : job.at = "write" /\ d # b => Published(d)' = Published(d)
      BY <1>15
    <2>2. drift \subseteq drift'
      BY <1>3
    <2>3. job'.at = "write" => \A d \in Book : job'.want[d] # Nothing =>
            /\ d <= made
            /\ book'[d].live => d \in drift' /\ (d \in job'.touched \/ job'.want[d] = Published(d)')
      BY <1>1, <1>4, <1>6, <2>1, <2>2 DEF RecountOK
    <2>4. QED
      BY <1>1, <1>3, <1>6, <2>3 DEF RecountOK
  <1>18. CoverOK'
    BY <1>1, <1>3, <1>4, <1>6 DEF CoverOK, Recounting
  <1>19. CreditsExact'
    BY <1>1, <1>3 DEF CreditsExact
  <1>20. QED
    BY <1>8, <1>10, <1>11, <1>12, <1>13, <1>16, <1>17, <1>18, <1>19 DEF CountersInv

\* A chapter that is shown belongs to a book that was made.
LEMMA ShownIsMade ==
  ASSUME CountersInv, NEW c \in Chapter, status[c] # "ABSENT"
  PROVE  BookOf[c] <= made
  BY DEF CountersInv, MadeOK

\* The records requests on chapters end with.
LEMMA DoneIsDone == Done \in OpRecord /\ Done.at \in {"done", "scheduled"} /\ Done.at # "scheduled"
  BY RecordsTyped

\* create inserts a chapter and counts it.
LEMMA CreateChapterStep ==
  ASSUME CountersInv, NEW r \in Request, NEW c \in Chapter, NEW s \in Shown, CreateChapter(r, c, s)
  PROVE  CountersInv'
  <1> DEFINE gain == IF s = "PUBLISHED" THEN 1 ELSE 0
  <1>1. /\ op[r].at = "new" /\ status[c] = "ABSENT" /\ book[BookOf[c]].live
        /\ SetStatus(c, s) /\ Count(BookOf[c], gain)
        /\ Overtaking(c, r, Done) /\ Touch(BookOf[c])
        /\ UNCHANGED <<made, locked, rated, written, credit, history, covered, owed>>
    BY DEF CreateChapter, At
  <1>2. Drifting(BookOf[c], FALSE) /\ UNCHANGED miscredited
    BY <1>1 DEF Drifting, history
  <1>3. BookOf[c] <= made
    <2>1. MadeOK /\ made \in Book /\ BookOf[c] \in Book
      BY CounterConstants DEF CountersInv, CountersTyped
    <2>2. ~(BookOf[c] > made)
      BY <1>1, <2>1 DEF MadeOK
    <2>3. BookOf[c] \in Nat /\ made \in Nat
      BY <2>1, CounterConstants
    <2>4. QED
      BY <2>2, <2>3
  <1>4. gain \in Int /\ gain = Gain(status[c], s)
    BY <1>1 DEF Gain
  <1> HIDE DEF gain
  <1>5. QED
    BY <1>1, <1>2, <1>3, <1>4, DoneIsDone, ChapterStep

\* What a request that updates or deletes a chapter has read.
LEMMA ReadChapterOf ==
  ASSUME CountersInv, NEW r \in Request, op[r].at \in {"update", "delete"}
  PROVE  /\ op[r].chapter \in Chapter /\ op[r].before \in Shown /\ op[r].stale \in BOOLEAN
         /\ op[r].stale \/ op[r].before = status[op[r].chapter]
  <1>1. op[r] \in OpRecord /\ ReadsOK(op[r], status, written, made)
    BY DEF CountersInv, CountersTyped, RequestOK
  <1>2. op[r].stale \in BOOLEAN
    BY <1>1 DEF OpRecord
  <1>3. QED
    BY <1>1, <1>2 DEF ReadsOK

\* updateChapter writes, and adjusts the count by what it has read.
LEMMA UpdateChapterStep ==
  ASSUME CountersInv, NEW r \in Request, NEW s \in Shown, UpdateChapter(r, s)
  PROVE  CountersInv'
  <1>1. PICK c \in Chapter, x \in Shown, stale \in BOOLEAN :
          c = op[r].chapter /\ x = op[r].before /\ stale = op[r].stale /\ (stale \/ x = status[c])
    BY ReadChapterOf DEF UpdateChapter, At
  <1> DEFINE gain == CountChange(x, s)
  <1>2. /\ op[r].at = "update" /\ status[c] \in Shown
        /\ SetStatus(c, s) /\ Count(BookOf[c], gain) /\ Drifting(BookOf[c], stale)
        /\ Overtaking(c, r, Done) /\ Touch(BookOf[c])
        /\ UNCHANGED <<made, locked, rated, written, credit, miscredited, covered, owed>>
    BY <1>1 DEF UpdateChapter, At
  <1>3. BookOf[c] <= made
    BY <1>2, ShownIsMade DEF Shown
  <1>4. gain \in Int /\ gain = Gain(x, s)
    BY DEF CountChange, Gain
  <1>5. stale \/ gain = Gain(status[c], s)
    BY <1>1, <1>4
  <1> HIDE DEF gain
  <1>6. QED
    BY <1>2, <1>3, <1>4, <1>5, DoneIsDone, ChapterStep

\* deleteChapter deletes, and adjusts the count by what it has read.
LEMMA DeleteChapterStep ==
  ASSUME CountersInv, NEW r \in Request, DeleteChapter(r)
  PROVE  CountersInv'
  <1>1. PICK c \in Chapter, x \in Shown, stale \in BOOLEAN :
          c = op[r].chapter /\ x = op[r].before /\ stale = op[r].stale /\ (stale \/ x = status[c])
    BY ReadChapterOf DEF DeleteChapter, At
  <1> DEFINE gain == CountChange(x, "DELETED")
  <1>2. /\ op[r].at = "delete" /\ status[c] \in Shown
        /\ SetStatus(c, "DELETED") /\ Count(BookOf[c], gain) /\ Drifting(BookOf[c], stale)
        /\ Overtaking(c, r, Done) /\ Touch(BookOf[c])
        /\ UNCHANGED <<made, locked, rated, written, credit, miscredited, covered, owed>>
    BY <1>1 DEF DeleteChapter, At
  <1>3. BookOf[c] <= made
    BY <1>2, ShownIsMade DEF Shown
  <1>4. gain \in Int /\ gain = Gain(x, "DELETED")
    BY DEF CountChange, Gain
  <1>5. stale \/ gain = Gain(status[c], "DELETED")
    BY <1>1, <1>4
  <1>6. "DELETED" \in Shown \cup {"DELETED"}
    OBVIOUS
  <1> HIDE DEF gain
  <1>7. QED
    BY <1>2, <1>3, <1>4, <1>5, <1>6, DoneIsDone, ChapterStep

\* A schedule writes a status that is not PUBLISHED, and no count.
LEMMA MarkStep ==
  ASSUME CountersInv, NEW r \in Request, NEW c \in Chapter, NEW s \in {"SCHEDULED", "DRAFT"},
         NEW next \in OpRecord, next.at \in {"done", "scheduled"}, next.at = "scheduled" => next.chapter = c,
         op[r].at \notin {"aggregate", "rate"}, Mark(r, c, s, next)
  PROVE  CountersInv'
  <1>1. /\ status[c] \in Shown /\ SetStatus(c, s) /\ Drifting(BookOf[c], status[c] = "PUBLISHED")
        /\ Overtaking(c, r, next) /\ Touch(BookOf[c])
        /\ UNCHANGED <<book, made, locked, rated, written, credit, miscredited, covered, owed>>
    BY DEF Mark
  <1>2. BookOf[c] <= made /\ BookOf[c] \in Book
    BY <1>1, CounterConstants, ShownIsMade DEF Shown
  <1>3. Count(BookOf[c], 0)
    <2>1. PICK x : x = book
      OBVIOUS
    <2>2. x \in [Book -> [live : BOOLEAN, count : Int, total : Sum]]
      BY <2>1 DEF CountersInv, CountersTyped
    <2>3. x[BookOf[c]].count + 0 = x[BookOf[c]].count
      BY <1>2, <2>2
    <2>4. x = [x EXCEPT ![BookOf[c]].count = @ + 0]
      BY <1>2, <2>2, <2>3
    <2>5. QED
      BY <1>1, <2>1, <2>4 DEF Count
  <1>4. PICK cause \in BOOLEAN : cause = (status[c] = "PUBLISHED")
    <2>1. (status[c] = "PUBLISHED") = TRUE \/ (status[c] = "PUBLISHED") = FALSE
      OBVIOUS
    <2>2. QED
      BY <2>1, Zenon
  <1>5. Drifting(BookOf[c], cause)
    BY <1>1, <1>4
  <1>6. cause \/ 0 = Gain(status[c], s)
    <2>1. cause \/ status[c] # "PUBLISHED"
      BY <1>4, Zenon
    <2>2. QED
      BY <2>1 DEF Gain
  <1>7. s \in Shown \cup {"DELETED"}
    BY DEF Shown
  <1>8. QED
    BY <1>1, <1>2, <1>3, <1>5, <1>6, <1>7, ChapterStep

\* A schedule is made.
LEMMA ScheduleChapterStep ==
  ASSUME CountersInv, NEW r \in Request, NEW c \in Chapter, ScheduleChapter(r, c)
  PROVE  CountersInv'
  <1> DEFINE next == [NewOp EXCEPT !.at = "scheduled", !.chapter = c]
  <1>1. op[r].at = "new" /\ Mark(r, c, "SCHEDULED", next)
    BY DEF ScheduleChapter, At
  <1>2. next \in OpRecord /\ next.at = "scheduled" /\ next.chapter = c
    BY RecordsTyped DEF OpRecord
  <1> HIDE DEF next
  <1>3. QED
    BY <1>1, <1>2, MarkStep

\* A schedule is cancelled.
LEMMA CancelScheduleStep ==
  ASSUME CountersInv, NEW r \in Request, CancelSchedule(r)
  PROVE  CountersInv'
  <1>1. op[r].at = "scheduled" /\ Mark(r, op[r].chapter, "DRAFT", Done)
    BY DEF CancelSchedule, At
  <1>2. op[r].chapter \in Chapter
    BY <1>1 DEF CountersInv, RequestOK, ReadsOK
  <1>3. QED
    BY <1>1, <1>2, DoneIsDone, MarkStep

\* A schedule is carried out.
LEMMA PublishTargetStep ==
  ASSUME CountersInv, NEW r \in Request, PublishTarget(r)
  PROVE  CountersInv'
  <1>1. PICK c \in Chapter : c = op[r].chapter
    BY DEF PublishTarget, At, CountersInv, RequestOK, ReadsOK
  <1>2. /\ op[r].at = "scheduled" /\ status[c] \in Shown
        /\ SetStatus(c, "PUBLISHED") /\ Count(BookOf[c], 1)
        /\ Drifting(BookOf[c], status[c] = "PUBLISHED")
        /\ Overtaking(c, r, Done) /\ Touch(BookOf[c])
        /\ UNCHANGED <<made, locked, rated, written, credit, miscredited, covered, owed>>
    BY <1>1 DEF PublishTarget, At
  <1>3. BookOf[c] <= made
    BY <1>2, ShownIsMade DEF Shown
  <1>4. PICK cause \in BOOLEAN : cause = (status[c] = "PUBLISHED")
    <2>1. (status[c] = "PUBLISHED") = TRUE \/ (status[c] = "PUBLISHED") = FALSE
      OBVIOUS
    <2>2. QED
      BY <2>1, Zenon
  <1>5. Drifting(BookOf[c], cause)
    BY <1>2, <1>4
  <1>6. cause \/ 1 = Gain(status[c], "PUBLISHED")
    <2>1. cause \/ status[c] # "PUBLISHED"
      BY <1>4, Zenon
    <2>2. QED
      BY <2>1 DEF Gain
  <1>7. "PUBLISHED" \in Shown \cup {"DELETED"}
    BY DEF Shown
  <1>8. QED
    BY <1>2, <1>3, <1>5, <1>6, <1>7, DoneIsDone, ChapterStep

-----------------------------------------------------------------------------
(***************************************************************************)
(* Books.                                                                  *)
(***************************************************************************)
\* A request that ends leaves the others as they are.
LEMMA Ends ==
  ASSUME CountersInv, NEW r \in Request, End(r)
  PROVE  /\ op' \in [Request -> OpRecord] /\ op'[r] = Done
         /\ \A q \in Request : q # r => op'[q] = op[q]
  <1>1. op \in [Request -> OpRecord] /\ op' = [op EXCEPT ![r] = Done]
    BY DEF CountersInv, CountersTyped, End, Done
  <1>2. QED
    BY <1>1, RecordsTyped

\* Whatever the rows are, a request that is done has nothing to keep.
LEMMA DoneOK ==
  ASSUME NEW r, NEW st, NEW wr, NEW m, NEW ra, NEW lo
  PROVE  ReadsOK(Done, st, wr, m) /\ RatesOK(r, Done, ra, lo)
  BY RecordsTyped DEF ReadsOK, RatesOK

\* create makes a book no request has read and no count was wrong of.
LEMMA CreateBookStep ==
  ASSUME CountersInv, NEW r \in Request, NEW credited \in BOOLEAN, CreateBook(r, credited)
  PROVE  CountersInv'
  <1>1. /\ CountersTyped /\ MadeOK /\ RequestOK /\ LocksOK /\ TotalsOK
        /\ RecountOK /\ CoverOK /\ ChapterCountExact /\ CreditsExact
    BY DEF CountersInv
  <1>2. PICK b \in Book : b = made + 1
    BY DEF CreateBook
  <1>3. /\ op[r].at = "new" /\ made' = b /\ book' = [book EXCEPT ![b].live = TRUE]
        /\ written' = IF credited THEN written \cup {b} ELSE written
        /\ Credit(FALSE, credited) /\ End(r)
        /\ UNCHANGED <<locked, status, rated, job, drift, miscredited, covered, owed>>
    BY <1>2 DEF CreateBook, At, history
  <1>4. made \in Nat /\ b \in Nat /\ b > made /\ \A d \in Book : d \in Nat /\ (d > b => d > made /\ d # b)
    BY <1>1, <1>2, CounterConstants DEF CountersTyped
  <1>5. /\ ~book[b].live /\ book[b].count = 0 /\ b \notin written /\ b \notin drift /\ b \notin owed
        /\ \A c \in Chapter : status[c] = "ABSENT" \/ BookOf[c] <= made
    BY <1>1, <1>4 DEF MadeOK
  <1>6. /\ book' \in [Book -> [live : BOOLEAN, count : Int, total : Sum]]
        /\ \A d \in Book : /\ book'[d].count = book[d].count /\ book'[d].total = book[d].total
                           /\ d # b => book'[d] = book[d]
    BY <1>1, <1>3 DEF CountersTyped
  <1>7. /\ op' \in [Request -> OpRecord] /\ op'[r] = Done
        /\ \A q \in Request : q # r => op'[q] = op[q]
    BY <1>3, Ends
  <1>8. /\ written' \subseteq Book /\ \A d \in Book : d # b => (d \in written' <=> d \in written)
        /\ Cardinality(written) \in Nat
        /\ Cardinality(written') = Cardinality(written) + (IF credited THEN 1 ELSE 0)
    <2>1. /\ Cardinality(written) \in Nat /\ Cardinality(written \cup {b}) = Cardinality(written) + 1
      BY <1>1, <1>5, ContributionsChange DEF CountersTyped
    <2>2. QED
      BY <1>1, <1>3, <2>1 DEF CountersTyped
  <1>9. credit' = credit + (IF credited THEN 1 ELSE 0) /\ credit' \in Int /\ credit \in Int
    BY <1>1, <1>3 DEF Credit, CountersTyped
  <1>10. CountersTyped'
    BY <1>1, <1>3, <1>6, <1>7, <1>8, <1>9 DEF CountersTyped
  <1>11. MadeOK'
    <2>1. \A d \in Book : d > b =>
            ~book'[d].live /\ book'[d].count = 0 /\ d \notin written' /\ d \notin drift /\ d \notin owed
      BY <1>1, <1>4, <1>6, <1>8 DEF MadeOK
    <2>2. \A c \in Chapter : status[c] = "ABSENT" \/ BookOf[c] <= b
      <3>1. \A c \in Chapter : BookOf[c] \in Nat
        BY CounterConstants
      <3>2. QED
        BY <1>4, <1>5, <3>1
    <2>3. QED
      BY <1>3, <2>1, <2>2 DEF MadeOK
  <1>12. RequestOK'
    <2>1. ASSUME NEW q \in Request PROVE ReadsOK(op'[q], status, written', b) /\ RatesOK(q, op'[q], rated, locked)
      <3>1. CASE q = r
        BY <1>7, <3>1, DoneOK
      <3>2. CASE q # r
        <4>1. PICK x : x = op[q] /\ x = op'[q]
          BY <1>7, <3>2
        <4>2. ReadsOK(x, status, written, made) /\ RatesOK(q, x, rated, locked)
          BY <1>1, <4>1 DEF RequestOK
        <4>3. \A n \in 1..made : n \in 1..b /\ n # b /\ n \in Book
          BY <1>1, <1>4, CounterConstants DEF Book, CountersTyped
        <4>4. ReadsOK(x, status, written', b)
          BY <1>8, <4>2, <4>3 DEF ReadsOK
        <4>5. QED
          BY <4>1, <4>2, <4>4
      <3>3. QED
        BY <3>1, <3>2
    <2>2. QED
      BY <1>3, <2>1 DEF RequestOK
  <1>13. LocksOK'
    <2>1. \A d \in Book : locked[d] # r
      BY <1>3, HoldsNothing
    <2>2. \A d \in Book : locked[d] # Nothing => locked[d] \in Request
      BY <1>1 DEF CountersTyped
    <2>3. QED
      BY <1>1, <1>3, <1>7, <2>1, <2>2 DEF LocksOK
  <1>14. TotalsOK'
    BY <1>1, <1>3, <1>6 DEF TotalsOK
  <1>15. \A d \in Book : Published(d)' = Published(d)
    BY <1>3 DEF Published, ChaptersOf
  <1>16. Published(b) = 0
    <2>1. \A c \in Chapter : BookOf[c] = b => status[c] # "PUBLISHED"
      BY <1>4, <1>5
    <2>2. QED
      BY <2>1, PublishedTyped DEF Published, PublishedIn
  <1>17. ChapterCountExact'
    BY <1>1, <1>3, <1>5, <1>6, <1>15, <1>16 DEF ChapterCountExact, Live
  <1>18. RecountOK'
    <2>1. job.at = "write" => \A d \in Book : job.want[d] # Nothing =>
            /\ d # b /\ d <= b
            /\ book'[d].live => d \in drift /\ (d \in job.touched \/ job.want[d] = Published(d)')
      BY <1>1, <1>4, <1>6, <1>15 DEF RecountOK
    <2>2. QED
      BY <1>1, <1>3, <2>1 DEF RecountOK
  <1>19. CoverOK'
    BY <1>1, <1>3, <1>5, <1>6 DEF CoverOK, Recounting
  <1>20. CreditsExact'
    BY <1>1, <1>3, <1>8, <1>9 DEF CreditsExact
  <1>21. QED
    BY <1>10, <1>11, <1>12, <1>13, <1>14, <1>17, <1>18, <1>19, <1>20 DEF CountersInv

\* Others that have read the contributors of the book keep what is right, or are marked.
LEMMA Recredits ==
  ASSUME CountersInv, NEW r \in Request, NEW b \in Book, Recrediting(b, r),
         \A d \in Book : d # b => (d \in written' <=> d \in written)
  PROVE  /\ op' \in [Request -> OpRecord] /\ op'[r] = Done
         /\ \A q \in Request : q # r =>
              /\ op'[q].at = op[q].at /\ op'[q].book = op[q].book /\ op'[q].rater = op[q].rater
              /\ op'[q].value = op[q].value /\ op'[q].total = op[q].total
              /\ ReadsOK(op'[q], status, written', made)
  <1>1. CountersTyped /\ RequestOK
    BY DEF CountersInv
  <1>2. op' = [q \in Request |-> IF q = r THEN Done
                           ELSE IF op[q].at \in {"edit", "drop"} /\ op[q].book = b
                                THEN [op[q] EXCEPT !.stale = TRUE] ELSE op[q]]
    BY DEF Recrediting
  <1>3. \A q \in Request : op[q] \in OpRecord
    BY <1>1 DEF CountersTyped
  <1>4. \A x \in OpRecord :
          /\ [x EXCEPT !.stale = TRUE] \in OpRecord /\ [x EXCEPT !.stale = TRUE].stale
          /\ [x EXCEPT !.stale = TRUE].at = x.at /\ [x EXCEPT !.stale = TRUE].chapter = x.chapter
          /\ [x EXCEPT !.stale = TRUE].book = x.book /\ [x EXCEPT !.stale = TRUE].before = x.before
          /\ [x EXCEPT !.stale = TRUE].rater = x.rater /\ [x EXCEPT !.stale = TRUE].value = x.value
          /\ [x EXCEPT !.stale = TRUE].total = x.total
    BY DEF OpRecord
  <1>5. op' \in [Request -> OpRecord] /\ op'[r] = Done
    BY <1>2, <1>3, <1>4, RecordsTyped
  <1>6. ASSUME NEW q \in Request, q # r
        PROVE  /\ op'[q].at = op[q].at /\ op'[q].book = op[q].book /\ op'[q].rater = op[q].rater
               /\ op'[q].value = op[q].value /\ op'[q].total = op[q].total
               /\ ReadsOK(op'[q], status, written', made)
    <2>1. PICK x \in OpRecord : x = op[q]
      BY <1>3
    <2>2. PICK y \in OpRecord : y = op'[q]
      BY <1>5
    <2>3. ReadsOK(x, status, written, made)
      BY <1>1, <2>1 DEF RequestOK
    <2>4. y = IF x.at \in {"edit", "drop"} /\ x.book = b THEN [x EXCEPT !.stale = TRUE] ELSE x
      BY <1>2, <1>6, <2>1, <2>2
    <2>5. /\ y.at = x.at /\ y.chapter = x.chapter /\ y.book = x.book /\ y.before = x.before
          /\ y.rater = x.rater /\ y.value = x.value /\ y.total = x.total
          /\ IF x.at \in {"edit", "drop"} /\ x.book = b THEN y.stale ELSE y = x
      BY <1>4, <2>4
    <2>6. \A n \in 1..made : n \in Book
      BY <1>1, CounterConstants DEF Book, CountersTyped
    <2>7. ReadsOK(y, status, written', made)
      BY <2>3, <2>5, <2>6 DEF ReadsOK
    <2>8. QED
      BY <2>1, <2>2, <2>5, <2>7
  <1>7. QED
    BY <1>5, <1>6

\* A request that writes the contributors of a book credits them rightly, unless what it
\* has read of them is stale.
LEMMA CreditKept ==
  ASSUME CountersInv, NEW r \in Request, op[r].at \in {"edit", "drop"}, NEW after \in BOOLEAN,
         written' = IF after THEN written \cup {op[r].book} ELSE written \ {op[r].book},
         Credit(op[r].credited, after), miscredited' = (miscredited \/ op[r].stale)
  PROVE  /\ CreditsExact' /\ written' \subseteq Book /\ credit' \in Int /\ miscredited' \in BOOLEAN
         /\ op[r].book \in Book /\ op[r].book <= made
         /\ \A d \in Book : d # op[r].book => (d \in written' <=> d \in written)
  <1>1. CountersTyped /\ RequestOK /\ CreditsExact
    BY DEF CountersInv
  <1>2. PICK x \in OpRecord : x = op[r]
    BY <1>1 DEF CountersTyped
  <1>3. ReadsOK(x, status, written, made)
    BY <1>1, <1>2 DEF RequestOK
  <1>4. /\ x.book \in 1..made /\ x.credited \in BOOLEAN /\ x.stale \in BOOLEAN
        /\ x.stale \/ (x.credited <=> x.book \in written)
    BY <1>2, <1>3 DEF ReadsOK, OpRecord
  <1>5. x.book \in Book /\ x.book <= made
    BY <1>1, <1>4, CounterConstants DEF Book, CountersTyped
  <1>6. PICK b \in Book : b = x.book
    BY <1>5
  <1>7. written' = IF after THEN written \cup {b} ELSE written \ {b}
    BY <1>2, <1>6
  <1>8. written' \subseteq Book /\ \A d \in Book : d # b => (d \in written' <=> d \in written)
    BY <1>1, <1>7 DEF CountersTyped
  <1>9. credit' = credit + (IF after THEN 1 ELSE 0) - (IF x.credited THEN 1 ELSE 0)
    BY <1>2 DEF Credit
  <1>10. credit \in Int /\ credit' \in Int
    BY <1>1, <1>9 DEF CountersTyped
  <1>11. miscredited' \in BOOLEAN /\ (~miscredited' => ~miscredited /\ ~x.stale)
    BY <1>1, <1>2, <1>4 DEF CountersTyped
  <1>12. ASSUME ~miscredited' PROVE credit' = Cardinality(written')
    <2>1. credit = Cardinality(written) /\ (x.credited <=> b \in written)
      BY <1>1, <1>4, <1>6, <1>11, <1>12 DEF CreditsExact
    <2>2. /\ Cardinality(written) \in Nat
          /\ Cardinality(written \cup {b}) = Cardinality(written) + (IF b \in written THEN 0 ELSE 1)
          /\ Cardinality(written \ {b}) = Cardinality(written) - (IF b \in written THEN 1 ELSE 0)
      BY <1>1, ContributionsChange DEF CountersTyped
    <2>3. Cardinality(written') = IF after THEN Cardinality(written \cup {b}) ELSE Cardinality(written \ {b})
      BY <1>7, Zenon
    <2>4. CASE b \in written
      <3>1. credit' = credit + (IF after THEN 1 ELSE 0) - 1
        BY <1>9, <2>1, <2>4
      <3>2. Cardinality(written \cup {b}) = Cardinality(written) /\ Cardinality(written \ {b}) = Cardinality(written) - 1
        BY <2>2, <2>4
      <3>3. QED
        BY <2>1, <2>2, <2>3, <3>1, <3>2
    <2>5. CASE b \notin written
      <3>1. credit' = credit + (IF after THEN 1 ELSE 0)
        BY <1>9, <1>10, <2>1, <2>5
      <3>2. Cardinality(written \cup {b}) = Cardinality(written) + 1 /\ Cardinality(written \ {b}) = Cardinality(written)
        BY <2>2, <2>5
      <3>3. QED
        BY <2>1, <2>2, <2>3, <3>1, <3>2
    <2>6. QED
      BY <2>4, <2>5
  <1>13. QED
    BY <1>2, <1>5, <1>6, <1>8, <1>10, <1>11, <1>12 DEF CreditsExact

\* update writes the contributors.
LEMMA UpdateBookStep ==
  ASSUME CountersInv, NEW r \in Request, NEW credited \in BOOLEAN, UpdateBook(r, credited)
  PROVE  CountersInv'
  <1>1. /\ CountersTyped /\ MadeOK /\ RequestOK /\ LocksOK /\ TotalsOK
        /\ RecountOK /\ CoverOK /\ ChapterCountExact
    BY DEF CountersInv
  <1>2. /\ op[r].at = "edit"
        /\ written' = IF credited THEN written \cup {op[r].book} ELSE written \ {op[r].book}
        /\ Credit(op[r].credited, credited)
        /\ miscredited' = (miscredited \/ op[r].stale)
        /\ Recrediting(op[r].book, r)
        /\ UNCHANGED <<book, made, locked, status, rated, job, drift, covered, owed>>
    BY DEF UpdateBook, At
  <1>3. /\ CreditsExact' /\ written' \subseteq Book /\ credit' \in Int /\ miscredited' \in BOOLEAN
        /\ op[r].book \in Book /\ op[r].book <= made
        /\ \A d \in Book : d # op[r].book => (d \in written' <=> d \in written)
    BY <1>2, CreditKept
  <1>4. /\ op' \in [Request -> OpRecord] /\ op'[r] = Done
        /\ \A q \in Request : q # r =>
             /\ op'[q].at = op[q].at /\ op'[q].book = op[q].book /\ op'[q].rater = op[q].rater
             /\ op'[q].value = op[q].value /\ op'[q].total = op[q].total
             /\ ReadsOK(op'[q], status, written', made)
    BY <1>2, <1>3, Recredits
  <1>5. CountersTyped'
    BY <1>1, <1>2, <1>3, <1>4 DEF CountersTyped
  <1>6. MadeOK'
    <2>1. \A d \in Book : d > made => d # op[r].book
      BY <1>1, <1>3, CounterConstants DEF CountersTyped
    <2>2. QED
      BY <1>1, <1>2, <1>3, <2>1 DEF MadeOK
  <1>7. RequestOK'
    <2>1. ASSUME NEW q \in Request
          PROVE  ReadsOK(op'[q], status, written', made) /\ RatesOK(q, op'[q], rated, locked)
      <3>1. CASE q = r
        BY <1>4, <3>1, DoneOK
      <3>2. CASE q # r
        <4>1. RatesOK(q, op[q], rated, locked)
          BY <1>1 DEF RequestOK
        <4>2. RatesOK(q, op'[q], rated, locked)
          BY <1>4, <3>2, <4>1 DEF RatesOK
        <4>3. QED
          BY <1>4, <3>2, <4>2
      <3>3. QED
        BY <3>1, <3>2
    <2>2. QED
      BY <1>2, <2>1 DEF RequestOK
  <1>8. LocksOK'
    <2>1. \A d \in Book : locked[d] # r
      BY <1>2, HoldsNothing
    <2>2. \A d \in Book : locked[d] # Nothing => locked[d] \in Request
      BY <1>1 DEF CountersTyped
    <2>3. QED
      BY <1>1, <1>2, <1>4, <2>1, <2>2 DEF LocksOK
  <1>9. \A d : Published(d)' = Published(d)
    BY <1>2 DEF Published, ChaptersOf
  <1>10. TotalsOK' /\ CoverOK'
    BY <1>1, <1>2 DEF TotalsOK, CoverOK, Recounting
  <1>11. RecountOK' /\ ChapterCountExact'
    BY <1>1, <1>2, <1>9 DEF RecountOK, ChapterCountExact, Live
  <1>12. QED
    BY <1>3, <1>5, <1>6, <1>7, <1>8, <1>10, <1>11 DEF CountersInv

\* deleteById takes the ratings and the contributions with the book; nobody is
\* rating it, since its row is free.
LEMMA DeleteBookStep ==
  ASSUME CountersInv, NEW r \in Request, DeleteBook(r)
  PROVE  CountersInv'
  <1>1. /\ CountersTyped /\ MadeOK /\ RequestOK /\ LocksOK /\ TotalsOK
        /\ RecountOK /\ CoverOK /\ ChapterCountExact
    BY DEF CountersInv
  <1>2. /\ op[r].at = "drop" /\ Free(op[r].book)
        /\ book' = [book EXCEPT ![op[r].book] = [live |-> FALSE, count |-> 0, total |-> NoRatings]]
        /\ rated' = [rated EXCEPT ![op[r].book] = [u \in Rater |-> 0]]
        /\ written' = written \ {op[r].book}
        /\ Credit(op[r].credited, FALSE)
        /\ miscredited' = (miscredited \/ op[r].stale)
        /\ drift' = drift \ {op[r].book}
        /\ Recrediting(op[r].book, r) /\ Touch(op[r].book)
        /\ UNCHANGED <<made, locked, status, covered, owed>>
    BY DEF DeleteBook, At
  <1>3. /\ CreditsExact' /\ written' \subseteq Book /\ credit' \in Int /\ miscredited' \in BOOLEAN
        /\ op[r].book \in Book /\ op[r].book <= made
        /\ \A d \in Book : d # op[r].book => (d \in written' <=> d \in written)
    <2>1. written' = IF FALSE THEN written \cup {op[r].book} ELSE written \ {op[r].book}
      BY <1>2
    <2>2. QED
      BY <1>2, <2>1, CreditKept
  <1>4. PICK b \in Book : b = op[r].book
    BY <1>3
  <1>5. /\ op' \in [Request -> OpRecord] /\ op'[r] = Done
        /\ \A q \in Request : q # r =>
             /\ op'[q].at = op[q].at /\ op'[q].book = op[q].book /\ op'[q].rater = op[q].rater
             /\ op'[q].value = op[q].value /\ op'[q].total = op[q].total
             /\ ReadsOK(op'[q], status, written', made)
    BY <1>2, <1>3, Recredits
  <1>6. /\ job' \in JobRecord /\ job'.at = job.at /\ job'.cursor = job.cursor /\ job'.pos = job.pos
        /\ job'.want = job.want /\ job'.attempts = job.attempts /\ job'.stalls = job.stalls
        /\ job.touched \subseteq job'.touched
    BY <1>2, <1>3, Touched
  <1>7. /\ book' \in [Book -> [live : BOOLEAN, count : Int, total : Sum]]
        /\ ~book'[b].live /\ book'[b].count = 0 /\ book'[b].total = NoRatings
        /\ \A d \in Book : d # b => book'[d] = book[d]
    <2>1. [live |-> FALSE, count |-> 0, total |-> NoRatings] \in [live : BOOLEAN, count : Int, total : Sum]
      BY Totals
    <2>2. QED
      BY <1>1, <1>2, <1>4, <2>1 DEF CountersTyped
  <1>8. /\ rated' \in [Book -> [Rater -> Rating]] /\ rated'[b] = [u \in Rater |-> 0]
        /\ \A d \in Book : d # b => rated'[d] = rated[d]
    <2>1. [u \in Rater |-> 0] \in [Rater -> Rating]
      BY CounterConstants DEF Rating
    <2>2. QED
      BY <1>1, <1>2, <1>4, <2>1 DEF CountersTyped
  <1>9. CountersTyped'
    BY <1>1, <1>2, <1>3, <1>5, <1>6, <1>7, <1>8 DEF CountersTyped
  <1>10. MadeOK'
    BY <1>1, <1>2, <1>3, <1>4, <1>7 DEF MadeOK
  <1>11. RequestOK'
    <2>1. ASSUME NEW q \in Request
          PROVE  ReadsOK(op'[q], status, written', made) /\ RatesOK(q, op'[q], rated', locked)
      <3>1. CASE q = r
        BY <1>5, <3>1, DoneOK
      <3>2. CASE q # r
        <4>1. RatesOK(q, op[q], rated, locked)
          BY <1>1 DEF RequestOK
        <4>2. RatesOK(q, op'[q], rated, locked)
          BY <1>5, <3>2, <4>1 DEF RatesOK
        <4>3. op'[q].at = "rate" => op'[q].book \in Book /\ op'[q].book # b
          BY <1>2, <1>4, <4>2, CounterConstants DEF RatesOK, Free
        <4>4. RatesOK(q, op'[q], rated', locked)
          BY <1>8, <4>2, <4>3 DEF RatesOK
        <4>5. QED
          BY <1>5, <3>2, <4>4
      <3>3. QED
        BY <3>1, <3>2
    <2>2. QED
      BY <1>2, <2>1 DEF RequestOK
  <1>12. LocksOK'
    <2>1. \A d \in Book : locked[d] # r
      BY <1>2, HoldsNothing
    <2>2. \A d \in Book : locked[d] # Nothing => locked[d] \in Request
      BY <1>1 DEF CountersTyped
    <2>3. QED
      BY <1>1, <1>2, <1>5, <2>1, <2>2 DEF LocksOK
  <1>13. TotalsOK'
    BY <1>1, <1>7, <1>8, Totals DEF TotalsOK
  <1>14. \A d : Published(d)' = Published(d)
    BY <1>2 DEF Published, ChaptersOf
  <1>15. ChapterCountExact'
    BY <1>1, <1>2, <1>4, <1>7, <1>14 DEF ChapterCountExact, Live
  <1>16. RecountOK'
    <2>1. job.at = "write" => \A d \in Book : job.want[d] # Nothing =>
            /\ d <= made
            /\ book'[d].live => d \in drift' /\ (d \in job'.touched \/ job.want[d] = Published(d)')
      BY <1>1, <1>2, <1>4, <1>6, <1>7, <1>14 DEF RecountOK
    <2>2. QED
      BY <1>1, <1>2, <1>6, <2>1 DEF RecountOK
  <1>17. CoverOK'
    BY <1>1, <1>2, <1>6, <1>7 DEF CoverOK, Recounting
  <1>18. QED
    BY <1>3, <1>9, <1>10, <1>11, <1>12, <1>13, <1>15, <1>16, <1>17 DEF CountersInv

-----------------------------------------------------------------------------
(***************************************************************************)
(* Ratings.                                                                *)
(***************************************************************************)
\* What only locks and records of requests change leaves the counts right.
LEMMA CountsStay ==
  ASSUME CountersInv,
         UNCHANGED <<book, made, status, rated, written, credit, job, history, covered, owed>>,
         op' \in [Request -> OpRecord], locked' \in [Book -> Request \cup {Nothing}],
         RequestOK', LocksOK'
  PROVE  CountersInv'
  <1>1. /\ CountersTyped /\ MadeOK /\ TotalsOK
        /\ RecountOK /\ CoverOK /\ ChapterCountExact /\ CreditsExact
    BY DEF CountersInv
  <1>2. UNCHANGED <<book, made, status, rated, written, credit, job, drift, miscredited, covered, owed>>
    BY DEF history
  <1>3. CountersTyped'
    BY <1>1, <1>2 DEF CountersTyped
  <1>4. MadeOK' /\ TotalsOK' /\ CoverOK' /\ CreditsExact'
    BY <1>1, <1>2 DEF MadeOK, TotalsOK, CoverOK, CreditsExact, Recounting
  <1>5. \A d : Published(d)' = Published(d)
    BY <1>2 DEF Published, ChaptersOf
  <1>6. RecountOK' /\ ChapterCountExact'
    BY <1>1, <1>2, <1>5 DEF RecountOK, ChapterCountExact, Live
  <1>7. QED
    BY <1>3, <1>4, <1>6 DEF CountersInv

\* rateBook gets the row when it is free.
LEMMA LockBookStep ==
  ASSUME CountersInv, NEW r \in Request, LockBook(r)
  PROVE  CountersInv'
  <1>1. CountersTyped /\ RequestOK /\ LocksOK
    BY DEF CountersInv
  <1>2. PICK x \in OpRecord : x = op[r]
    BY <1>1 DEF CountersTyped
  <1>3. ReadsOK(x, status, written, made) /\ RatesOK(r, x, rated, locked)
    BY <1>1, <1>2 DEF RequestOK
  <1>4. /\ x.at = "lock" /\ locked[x.book] = Nothing
        /\ locked' = [locked EXCEPT ![x.book] = r]
        /\ op' = [op EXCEPT ![r].at = "aggregate"]
        /\ UNCHANGED <<book, made, status, rated, written, credit, job, history, covered, owed>>
    BY <1>2 DEF LockBook, At, Free
  <1>5. PICK b \in Book : b = x.book
    BY <1>3, <1>4 DEF RatesOK
  <1>6. PICK y \in OpRecord : y.at = "aggregate" /\ y.book = b /\ y.rater = x.rater /\ op' = [op EXCEPT ![r] = y]
    <2>1. /\ [x EXCEPT !.at = "aggregate"] \in OpRecord
          /\ [x EXCEPT !.at = "aggregate"].at = "aggregate" /\ [x EXCEPT !.at = "aggregate"].book = b
          /\ [x EXCEPT !.at = "aggregate"].rater = x.rater
      BY <1>5 DEF OpRecord
    <2>2. op' = [op EXCEPT ![r] = [x EXCEPT !.at = "aggregate"]]
      BY <1>1, <1>2, <1>4 DEF CountersTyped
    <2>3. QED
      BY <2>1, <2>2
  <1>7. /\ op' \in [Request -> OpRecord] /\ op'[r] = y /\ \A q \in Request : q # r => op'[q] = op[q]
        /\ locked' \in [Book -> Request \cup {Nothing}] /\ locked'[b] = r
        /\ \A d \in Book : d # b => locked'[d] = locked[d]
    BY <1>1, <1>4, <1>5, <1>6 DEF CountersTyped
  <1>8. UNCHANGED <<made, status, rated, written>>
    BY <1>4
  <1>9. RequestOK'
    <2>1. ASSUME NEW q \in Request
          PROVE  ReadsOK(op'[q], status, written, made) /\ RatesOK(q, op'[q], rated, locked')
      <3>1. CASE q = r
        <4>1. x.rater \in Rater
          BY <1>3, <1>4 DEF RatesOK
        <4>2. ReadsOK(y, status, written, made) /\ RatesOK(r, y, rated, locked')
          BY <1>6, <1>7, <4>1 DEF ReadsOK, RatesOK
        <4>3. QED
          BY <1>7, <3>1, <4>2
      <3>2. CASE q # r
        <4>1. PICK z : z = op[q] /\ z = op'[q]
          BY <1>7, <3>2
        <4>2. ReadsOK(z, status, written, made) /\ RatesOK(q, z, rated, locked)
          BY <1>1, <4>1 DEF RequestOK
        <4>3. z.at \in {"aggregate", "rate"} => z.book \in Book /\ z.book # b
          BY <1>4, <1>5, <4>2, CounterConstants DEF RatesOK
        <4>4. RatesOK(q, z, rated, locked')
          BY <1>7, <4>2, <4>3 DEF RatesOK
        <4>5. QED
          BY <4>1, <4>2, <4>4
      <3>3. QED
        BY <3>1, <3>2
    <2>2. QED
      BY <1>8, <2>1 DEF RequestOK
  <1>10. LocksOK'
    <2>1. \A d \in Book : locked[d] # r
      BY <1>2, <1>4, HoldsNothing
    <2>2. \A d \in Book : locked[d] # Nothing => locked[d] \in Request
      BY <1>1 DEF CountersTyped
    <2>3. ASSUME NEW d \in Book, locked'[d] # Nothing
          PROVE  op'[locked'[d]].book = d /\ op'[locked'[d]].at \in {"aggregate", "rate"}
      <3>1. CASE d = b
        BY <1>6, <1>7, <3>1
      <3>2. CASE d # b
        BY <1>1, <1>7, <2>1, <2>2, <2>3, <3>2 DEF LocksOK
      <3>3. QED
        BY <3>1, <3>2
    <2>4. QED
      BY <2>3 DEF LocksOK
  <1>11. QED
    BY <1>4, <1>7, <1>9, <1>10, CountsStay

\* A transaction that ends without a commit gives back its lock.
LEMMA AbortStep ==
  ASSUME CountersInv, NEW r \in Request, Abort(r)
  PROVE  CountersInv'
  <1>1. CountersTyped /\ RequestOK /\ LocksOK
    BY DEF CountersInv
  <1>2. /\ locked' = [b \in Book |-> IF locked[b] = r THEN Nothing ELSE locked[b]]
        /\ End(r)
        /\ UNCHANGED <<book, made, status, rated, written, credit, job, history, covered, owed>>
    BY DEF Abort
  <1>3. /\ op' \in [Request -> OpRecord] /\ op'[r] = Done
        /\ \A q \in Request : q # r => op'[q] = op[q]
    BY <1>2, Ends
  <1>4. /\ locked' \in [Book -> Request \cup {Nothing}]
        /\ \A d \in Book : IF locked[d] = r THEN locked'[d] = Nothing ELSE locked'[d] = locked[d]
    BY <1>1, <1>2 DEF CountersTyped
  <1>5. UNCHANGED <<made, status, rated, written>>
    BY <1>2
  <1>6. RequestOK'
    <2>1. ASSUME NEW q \in Request
          PROVE  ReadsOK(op'[q], status, written, made) /\ RatesOK(q, op'[q], rated, locked')
      <3>1. CASE q = r
        BY <1>3, <3>1, DoneOK
      <3>2. CASE q # r
        <4>1. PICK z : z = op[q] /\ z = op'[q]
          BY <1>3, <3>2
        <4>2. ReadsOK(z, status, written, made) /\ RatesOK(q, z, rated, locked)
          BY <1>1, <4>1 DEF RequestOK
        <4>3. RatesOK(q, z, rated, locked')
          BY <1>4, <3>2, <4>2 DEF RatesOK
        <4>4. QED
          BY <4>1, <4>2, <4>3
      <3>3. QED
        BY <3>1, <3>2
    <2>2. QED
      BY <1>5, <2>1 DEF RequestOK
  <1>7. LocksOK'
    <2>1. \A d \in Book : locked[d] # Nothing => locked[d] \in Request
      BY <1>1 DEF CountersTyped
    <2>2. QED
      BY <1>1, <1>3, <1>4, <2>1 DEF LocksOK
  <1>8. QED
    BY <1>2, <1>3, <1>4, <1>6, <1>7, CountsStay

\* rateBook commits a rating and the total it has computed: since it has held the row
\* all the time, the total is that of the ratings there are.
LEMMA CommitRatingStep ==
  ASSUME CountersInv, NEW r \in Request, CommitRating(r)
  PROVE  CountersInv'
  <1>1. /\ CountersTyped /\ MadeOK /\ RequestOK /\ LocksOK /\ TotalsOK
        /\ RecountOK /\ CoverOK /\ ChapterCountExact /\ CreditsExact
    BY DEF CountersInv
  <1>2. PICK x \in OpRecord : x = op[r]
    BY <1>1 DEF CountersTyped
  <1>3. RatesOK(r, x, rated, locked) /\ x.value \in Rating /\ x.total \in Sum
    BY <1>1, <1>2 DEF RequestOK, OpRecord
  <1>4. /\ x.at = "rate"
        /\ rated' = [rated EXCEPT ![x.book][x.rater] = x.value]
        /\ book' = [book EXCEPT ![x.book].total = x.total]
        /\ locked' = [locked EXCEPT ![x.book] = Nothing]
        /\ End(r)
        /\ UNCHANGED <<made, status, written, credit, job, drift, miscredited, covered, owed>>
    BY <1>2 DEF CommitRating, At, history
  <1>5. PICK b \in Book, u \in Rater : b = x.book /\ u = x.rater
    BY <1>3, <1>4 DEF RatesOK
  <1>6. locked[b] = r /\ x.total = Total([rated[b] EXCEPT ![u] = x.value])
    BY <1>3, <1>4, <1>5 DEF RatesOK
  <1>7. /\ rated' \in [Book -> [Rater -> Rating]] /\ rated'[b] = [rated[b] EXCEPT ![u] = x.value]
        /\ \A d \in Book : d # b => rated'[d] = rated[d]
    BY <1>1, <1>3, <1>4, <1>5 DEF CountersTyped
  <1>8. /\ book' \in [Book -> [live : BOOLEAN, count : Int, total : Sum]]
        /\ \A d \in Book : /\ book'[d].live = book[d].live /\ book'[d].count = book[d].count
                           /\ d # b => book'[d] = book[d]
        /\ book'[b].total = x.total
    BY <1>1, <1>3, <1>4, <1>5 DEF CountersTyped
  <1>9. /\ locked' \in [Book -> Request \cup {Nothing}] /\ locked'[b] = Nothing
        /\ \A d \in Book : d # b => locked'[d] = locked[d]
    BY <1>1, <1>4, <1>5 DEF CountersTyped
  <1>10. /\ op' \in [Request -> OpRecord] /\ op'[r] = Done
         /\ \A q \in Request : q # r => op'[q] = op[q]
    BY <1>4, Ends
  <1>11. CountersTyped'
    BY <1>1, <1>4, <1>7, <1>8, <1>9, <1>10 DEF CountersTyped
  <1>12. MadeOK'
    BY <1>1, <1>4, <1>8 DEF MadeOK
  <1>13. RequestOK'
    <2>1. ASSUME NEW q \in Request
          PROVE  ReadsOK(op'[q], status, written, made) /\ RatesOK(q, op'[q], rated', locked')
      <3>1. CASE q = r
        BY <1>10, <3>1, DoneOK
      <3>2. CASE q # r
        <4>1. PICK z : z = op[q] /\ z = op'[q]
          BY <1>10, <3>2
        <4>2. ReadsOK(z, status, written, made) /\ RatesOK(q, z, rated, locked)
          BY <1>1, <4>1 DEF RequestOK
        <4>3. z.at \in {"aggregate", "rate"} => z.book \in Book /\ z.book # b
          BY <1>6, <3>2, <4>2 DEF RatesOK
        <4>4. RatesOK(q, z, rated', locked')
          BY <1>7, <1>9, <4>2, <4>3 DEF RatesOK
        <4>5. QED
          BY <4>1, <4>2, <4>4
      <3>3. QED
        BY <3>1, <3>2
    <2>2. QED
      BY <1>4, <2>1 DEF RequestOK
  <1>14. LocksOK'
    <2>1. \A d \in Book : d # b => locked[d] # r
      BY <1>1, <1>2, <1>5, CounterConstants DEF LocksOK
    <2>2. \A d \in Book : locked[d] # Nothing => locked[d] \in Request
      BY <1>1 DEF CountersTyped
    <2>3. QED
      BY <1>1, <1>9, <1>10, <2>1, <2>2 DEF LocksOK
  <1>15. TotalsOK'
    BY <1>1, <1>6, <1>7, <1>8 DEF TotalsOK
  <1>16. \A d : Published(d)' = Published(d)
    BY <1>4 DEF Published, ChaptersOf
  <1>17. RecountOK' /\ ChapterCountExact'
    BY <1>1, <1>4, <1>8, <1>16 DEF RecountOK, ChapterCountExact, Live
  <1>18. CoverOK' /\ CreditsExact'
    BY <1>1, <1>4, <1>8 DEF CoverOK, CreditsExact, Recounting
  <1>19. QED
    BY <1>11, <1>12, <1>13, <1>14, <1>15, <1>17, <1>18 DEF CountersInv

-----------------------------------------------------------------------------
(***************************************************************************)
(* The recount.                                                            *)
(***************************************************************************)
\* What of the recount alone says how the invariant goes on.
JobOK(j, m) ==
  /\ j.at # "failed" => j.attempts >= 1 /\ j.stalls <= MaxStalls
  /\ j.at = "none" => j.cursor = 0
  /\ j.at = "write" => \A b \in Book : j.want[b] # Nothing =>
       /\ b <= m
       /\ book[b].live => b \in drift /\ (b \in j.touched \/ j.want[b] = Published(b))
Covers(j, ow) ==
  \A b \in Book : b \in ow /\ book[b].live =>
    /\ b <= j.cursor => b \in covered
    /\ j.at \in {"next", "count", "write", "save"} /\ b <= j.pos => b \in covered
    /\ j.at = "completed" => b \in covered

\* The recount goes on; the rows and the requests stay as they are.
LEMMA JobStep ==
  ASSUME CountersInv, JobOnly, NEW j \in JobRecord, job' = j, owed' \subseteq Book,
         \A b \in owed' : b <= made,
         JobOK(j, made), Covers(j, owed')
  PROVE  CountersInv'
  <1>1. /\ CountersTyped /\ MadeOK /\ RequestOK /\ LocksOK /\ TotalsOK
        /\ ChapterCountExact /\ CreditsExact
    BY DEF CountersInv
  <1>2. /\ UNCHANGED <<book, made, locked, status, rated, written, credit>>
        /\ UNCHANGED <<op, drift, miscredited, covered>>
    BY DEF JobOnly, rows, history
  <1>3. CountersTyped'
    BY <1>1, <1>2 DEF CountersTyped
  <1>4. MadeOK'
    <2>1. \A b \in Book : b > made => b \notin owed'
      BY <1>1, CounterConstants DEF CountersTyped
    <2>2. QED
      BY <1>1, <1>2, <2>1 DEF MadeOK
  <1>5. RequestOK' /\ LocksOK'
    BY <1>1, <1>2 DEF RequestOK, LocksOK
  <1>6. TotalsOK' /\ CreditsExact'
    BY <1>1, <1>2 DEF TotalsOK, CreditsExact
  <1>7. \A d : Published(d)' = Published(d)
    BY <1>2 DEF Published, ChaptersOf
  <1>8. ChapterCountExact'
    BY <1>1, <1>2, <1>7 DEF ChapterCountExact, Live
  <1>9. RecountOK'
    BY <1>2, <1>7 DEF RecountOK, JobOK
  <1>10. CoverOK'
    BY <1>2 DEF CoverOK, Covers, Recounting
  <1>11. QED
    BY <1>3, <1>4, <1>5, <1>6, <1>8, <1>9, <1>10 DEF CountersInv

\* The recount as the invariant has it.
LEMMA JobHolds ==
  ASSUME CountersInv
  PROVE  /\ job \in JobRecord /\ JobOK(job, made) /\ Covers(job, owed)
         /\ owed \subseteq Book /\ \A b \in owed : b <= made
  <1>1. CountersTyped /\ MadeOK /\ RecountOK /\ CoverOK
    BY DEF CountersInv
  <1>2. JobOK(job, made)
    BY <1>1 DEF RecountOK, JobOK
  <1>3. Covers(job, owed)
    BY <1>1 DEF CoverOK, Covers, Recounting
  <1>4. \A b \in owed : b <= made
    <2>1. \A b \in owed : b \in Book /\ b \in Nat /\ made \in Nat /\ ~(b > made)
      BY <1>1, CounterConstants DEF MadeOK, CountersTyped
    <2>2. QED
      BY <2>1
  <1>5. QED
    BY <1>1, <1>2, <1>3, <1>4 DEF CountersTyped

\* The daily job is queued; it owes a recount to the books there are.
LEMMA EnqueueDailySyncStep ==
  ASSUME CountersInv, EnqueueDailySync
  PROVE  CountersInv'
  <1>1. PICK j \in JobRecord : j = job /\ JobOK(j, made)
    BY JobHolds
  <1>2. PICK k : k = [j EXCEPT !.at = "waiting"]
    OBVIOUS
  <1>3. j.at = "none" /\ job' = k /\ owed' = Live /\ JobOnly
    BY <1>1, <1>2 DEF EnqueueDailySync, JobAt
  <1>4. /\ k \in JobRecord /\ k.at = "waiting" /\ k.cursor = j.cursor
        /\ k.attempts = j.attempts /\ k.stalls = j.stalls
    BY <1>2 DEF JobRecord
  <1>5. owed' \subseteq Book /\ \A b \in owed' : b <= made
    <2>1. MadeOK /\ made \in Book
      BY DEF CountersInv, CountersTyped
    <2>2. QED
      BY <1>3, <2>1, CounterConstants DEF MadeOK, Live
  <1>6. JobOK(k, made)
    BY <1>1, <1>3, <1>4 DEF JobOK
  <1>7. Covers(k, owed')
    <2>1. k.cursor = 0
      BY <1>1, <1>3, <1>4 DEF JobOK
    <2>2. QED
      BY <1>4, <2>1, CounterConstants DEF Covers
  <1>8. QED
    BY <1>3, <1>4, <1>5, <1>6, <1>7, JobStep

\* A worker takes the job and goes on after its cursor.
LEMMA StartSyncStep ==
  ASSUME CountersInv, StartSync
  PROVE  CountersInv'
  <1>1. PICK j \in JobRecord : j = job /\ JobOK(j, made) /\ Covers(j, owed)
    BY JobHolds
  <1>2. PICK k : k = [j EXCEPT !.at = "next", !.pos = j.cursor]
    OBVIOUS
  <1>3. j.at = "waiting" /\ job' = k /\ owed' = owed /\ JobOnly
    BY <1>1, <1>2 DEF StartSync, JobAt
  <1>4. /\ k \in JobRecord /\ k.at = "next" /\ k.cursor = j.cursor /\ k.pos = j.cursor
        /\ k.attempts = j.attempts /\ k.stalls = j.stalls
    BY <1>2 DEF JobRecord
  <1>5. JobOK(k, made) /\ Covers(k, owed')
    BY <1>1, <1>3, <1>4 DEF JobOK, Covers
  <1>6. QED
    BY <1>3, <1>4, <1>5, JobHolds, JobStep

\* A batch is chosen, or none is left: then every book that is owed a recount comes
\* before the position, and has had it.
LEMMA NextBatchStep ==
  ASSUME CountersInv, NextBatch
  PROVE  CountersInv'
  <1>1. PICK j \in JobRecord : j = job /\ JobOK(j, made) /\ Covers(j, owed)
    BY JobHolds
  <1>2. /\ Batch = {} => \A b \in Live : ~(b > j.pos)
        /\ Batch # {} => Max(Batch) \in Book
    BY <1>1, BatchTaken DEF CountersInv
  <1>3. j.at = "next" /\ owed' = owed /\ JobOnly
    BY <1>1 DEF NextBatch, JobAt
  <1>4. CASE Batch = {}
    <2>1. PICK k : k = [j EXCEPT !.at = "completed"]
      OBVIOUS
    <2>2. job' = k
      BY <1>1, <1>4, <2>1 DEF NextBatch
    <2>3. /\ k \in JobRecord /\ k.at = "completed" /\ k.cursor = j.cursor
          /\ k.attempts = j.attempts /\ k.stalls = j.stalls
      BY <2>1 DEF JobRecord
    <2>4. \A b \in Book : book[b].live => b <= j.pos
      <3>1. \A b \in Book : book[b].live => ~(b > j.pos) /\ b \in Nat /\ j.pos \in Int
        BY <1>2, <1>4, CounterConstants DEF Live, JobRecord
      <3>2. QED
        BY <3>1
    <2>5. JobOK(k, made) /\ Covers(k, owed')
      BY <1>1, <1>3, <2>3, <2>4 DEF JobOK, Covers
    <2>6. QED
      BY <1>3, <2>2, <2>3, <2>5, JobHolds, JobStep
  <1>5. CASE Batch # {}
    <2>1. PICK n \in Book : n = Max(Batch)
      BY <1>2, <1>5
    <2>2. PICK k : k = [j EXCEPT !.at = "count", !.last = n]
      OBVIOUS
    <2>3. job' = k
      BY <1>1, <1>5, <2>1, <2>2 DEF NextBatch
    <2>4. /\ k \in JobRecord /\ k.at = "count" /\ k.cursor = j.cursor /\ k.pos = j.pos
          /\ k.attempts = j.attempts /\ k.stalls = j.stalls
      BY <2>2, CounterConstants DEF JobRecord
    <2>5. JobOK(k, made) /\ Covers(k, owed')
      BY <1>1, <1>3, <2>4 DEF JobOK, Covers
    <2>6. QED
      BY <1>3, <2>3, <2>4, <2>5, JobHolds, JobStep
  <1>6. QED
    BY <1>4, <1>5

\* The statement takes its snapshot: a count it finds wrong is known to be.
LEMMA CountChaptersStep ==
  ASSUME CountersInv, CountChapters
  PROVE  CountersInv'
  <1>1. PICK j \in JobRecord : j = job /\ JobOK(j, made) /\ Covers(j, owed)
    BY JobHolds
  <1>2. PICK want : want = [b \in Book |-> IF b \in Wrong THEN Published(b) ELSE Nothing]
    OBVIOUS
  <1>3. PICK k : k = [j EXCEPT !.at = "write", !.touched = {}, !.want = want]
    OBVIOUS
  <1>4. j.at = "count" /\ job' = k /\ owed' = owed /\ JobOnly
    BY <1>1, <1>2, <1>3 DEF CountChapters, JobAt
  <1>5. \A b \in Book : Published(b) \in Nat
    BY PublishedTyped DEF Published, PublishedIn
  <1>6. /\ want \in [Book -> Nat \cup {Nothing}]
        /\ \A b \in Book : want[b] # Nothing => b \in Wrong /\ want[b] = Published(b)
    BY <1>2, <1>5
  <1>7. /\ k \in JobRecord /\ k.at = "write" /\ k.cursor = j.cursor /\ k.pos = j.pos /\ k.want = want
        /\ k.attempts = j.attempts /\ k.stalls = j.stalls
    BY <1>3, <1>6 DEF JobRecord
  <1>8. \A b \in Book : b \in Wrong => b <= made /\ b \in drift
    <2>1. MadeOK /\ made \in Book /\ ChapterCountExact
      BY DEF CountersInv, CountersTyped
    <2>2. \A b \in Book : b \in Wrong => book[b].live /\ book[b].count # Published(b)
      BY DEF Wrong, Live
    <2>3. \A b \in Book : b \in Wrong => b \in drift
      BY <2>1, <2>2 DEF ChapterCountExact, Live
    <2>4. QED
      BY <2>1, <2>2, <2>3, CounterConstants DEF MadeOK
  <1>9. JobOK(k, made)
    BY <1>1, <1>4, <1>6, <1>7, <1>8 DEF JobOK
  <1>10. Covers(k, owed')
    BY <1>1, <1>4, <1>7 DEF Covers
  <1>11. QED
    BY <1>4, <1>7, <1>9, <1>10, JobHolds, JobStep

\* The cursor is saved.
LEMMA SaveCursorStep ==
  ASSUME CountersInv, SaveCursor
  PROVE  CountersInv'
  <1>1. PICK j \in JobRecord : j = job /\ JobOK(j, made) /\ Covers(j, owed)
    BY JobHolds
  <1>2. PICK k : k = [j EXCEPT !.at = "next", !.cursor = j.pos]
    OBVIOUS
  <1>3. j.at = "save" /\ job' = k /\ owed' = owed /\ JobOnly
    BY <1>1, <1>2 DEF SaveCursor, JobAt
  <1>4. /\ k \in JobRecord /\ k.at = "next" /\ k.cursor = j.pos /\ k.pos = j.pos
        /\ k.attempts = j.attempts /\ k.stalls = j.stalls
    BY <1>2 DEF JobRecord
  <1>5. JobOK(k, made) /\ Covers(k, owed')
    BY <1>1, <1>3, <1>4 DEF JobOK, Covers
  <1>6. QED
    BY <1>3, <1>4, <1>5, JobHolds, JobStep

\* An attempt or a worker fails: what was not saved is done again, or never.
LEMMA RetryStep ==
  ASSUME CountersInv, NEW j \in JobRecord, j = job, Recounting, JobOnly, owed' = owed,
         NEW k \in JobRecord, job' = k, k.at \in {"waiting", "failed"}, k.cursor = j.cursor,
         k.at = "waiting" => k.attempts >= 1 /\ k.stalls <= MaxStalls
  PROVE  CountersInv'
  <1>1. JobOK(k, made)
    BY DEF JobOK
  <1>2. Covers(k, owed')
    BY JobHolds DEF Covers
  <1>3. QED
    BY <1>1, <1>2, JobHolds, JobStep

\* An attempt fails.
LEMMA FailSyncStep ==
  ASSUME CountersInv, FailSync
  PROVE  CountersInv'
  <1>1. PICK j \in JobRecord : j = job /\ JobOK(j, made)
    BY JobHolds
  <1>2. j.at \in {"next", "count", "write", "save"} /\ Recounting /\ owed' = owed /\ JobOnly
    BY <1>1 DEF FailSync, Recounting
  <1>3. PICK at \in {"waiting", "failed"} : at = IF j.attempts > 1 THEN "waiting" ELSE "failed"
    OBVIOUS
  <1>4. PICK k : k = [[j EXCEPT !.at = at, !.pos = 0, !.last = 0, !.want = NoWant, !.touched = {}]
                         EXCEPT !.attempts = @ - 1]
    OBVIOUS
  <1>5. job' = k
    BY <1>1, <1>3, <1>4 DEF FailSync, Retry
  <1>6. j.attempts \in 0..MaxAttempts /\ j.attempts >= 1 /\ j.stalls <= MaxStalls /\ MaxAttempts \in Nat
    BY <1>1, <1>2, CounterConstants DEF JobOK, JobRecord
  <1>7. /\ k \in JobRecord /\ k.at = at /\ k.cursor = j.cursor
        /\ k.attempts = j.attempts - 1 /\ k.stalls = j.stalls
    <2>1. PICK m : m = [j EXCEPT !.at = at, !.pos = 0, !.last = 0, !.want = NoWant, !.touched = {}]
      OBVIOUS
    <2>2. /\ m \in JobRecord /\ m.at = at /\ m.cursor = j.cursor
          /\ m.attempts = j.attempts /\ m.stalls = j.stalls
      BY <2>1, RecordsTyped, CounterConstants DEF JobRecord
    <2>3. k = [m EXCEPT !.attempts = j.attempts - 1] /\ j.attempts - 1 \in 0..MaxAttempts
      BY <1>4, <1>6, <2>1, <2>2 DEF JobRecord
    <2>4. QED
      BY <2>2, <2>3 DEF JobRecord
  <1>8. k.at = "waiting" => k.attempts >= 1 /\ k.stalls <= MaxStalls
    BY <1>3, <1>6, <1>7
  <1>9. QED
    BY <1>1, <1>2, <1>3, <1>5, <1>7, <1>8, RetryStep

\* The server stops.
LEMMA StallSyncStep ==
  ASSUME CountersInv, StallSync
  PROVE  CountersInv'
  <1>1. PICK j \in JobRecord : j = job /\ JobOK(j, made)
    BY JobHolds
  <1>2. j.at \in {"next", "count", "write", "save"} /\ Recounting /\ owed' = owed /\ JobOnly
    BY <1>1 DEF StallSync, Recounting
  <1>3. PICK at \in {"waiting", "failed"} : at = IF j.stalls < MaxStalls THEN "waiting" ELSE "failed"
    OBVIOUS
  <1>4. PICK k : k = [[j EXCEPT !.at = at, !.pos = 0, !.last = 0, !.want = NoWant, !.touched = {}]
                         EXCEPT !.stalls = @ + 1]
    OBVIOUS
  <1>5. job' = k
    BY <1>1, <1>3, <1>4 DEF StallSync, Retry
  <1>6. /\ j.stalls \in 0..(MaxStalls + 1) /\ j.attempts >= 1 /\ j.stalls <= MaxStalls /\ MaxStalls \in Nat
    BY <1>1, <1>2, CounterConstants DEF JobOK, JobRecord
  <1>7. /\ k \in JobRecord /\ k.at = at /\ k.cursor = j.cursor
        /\ k.stalls = j.stalls + 1 /\ k.attempts = j.attempts
    <2>1. PICK m : m = [j EXCEPT !.at = at, !.pos = 0, !.last = 0, !.want = NoWant, !.touched = {}]
      OBVIOUS
    <2>2. /\ m \in JobRecord /\ m.at = at /\ m.cursor = j.cursor
          /\ m.attempts = j.attempts /\ m.stalls = j.stalls
      BY <2>1, RecordsTyped, CounterConstants DEF JobRecord
    <2>3. k = [m EXCEPT !.stalls = j.stalls + 1] /\ j.stalls + 1 \in 0..(MaxStalls + 1)
      BY <1>4, <1>6, <2>1, <2>2 DEF JobRecord
    <2>4. QED
      BY <2>2, <2>3 DEF JobRecord
  <1>8. k.at = "waiting" => k.attempts >= 1 /\ k.stalls <= MaxStalls
    BY <1>3, <1>6, <1>7
  <1>9. QED
    BY <1>1, <1>2, <1>3, <1>5, <1>7, <1>8, RetryStep

\* The statement writes: over counts that are known to be wrong, what was right when it
\* took its snapshot and is still right of the books nobody has touched.
LEMMA WriteCountsStep ==
  ASSUME CountersInv, WriteCounts
  PROVE  CountersInv'
  <1>1. /\ CountersTyped /\ MadeOK /\ RequestOK /\ LocksOK /\ TotalsOK
        /\ ChapterCountExact /\ CreditsExact
    BY DEF CountersInv
  <1>2. PICK j \in JobRecord : j = job /\ JobOK(j, made) /\ Covers(j, owed)
    BY JobHolds
  <1>3. PICK wrong : wrong = {b \in Live : j.want[b] # Nothing}
    OBVIOUS
  <1>4. PICK k : k = [j EXCEPT !.at = "save", !.pos = j.last, !.want = NoWant, !.touched = {}]
    OBVIOUS
  <1>5. /\ j.at = "write" /\ job' = k
        /\ book' = [b \in Book |-> IF b \in wrong THEN [book[b] EXCEPT !.count = j.want[b]] ELSE book[b]]
        /\ drift' = drift \ (wrong \ j.touched)
        /\ covered' = covered \cup {b \in Book : j.pos < b /\ b <= j.last}
        /\ UNCHANGED <<made, locked, status, rated, written, credit, op, miscredited, owed>>
    BY <1>2, <1>3, <1>4 DEF WriteCounts, JobAt
  <1>6. /\ k \in JobRecord /\ k.at = "save" /\ k.cursor = j.cursor /\ k.pos = j.last
        /\ k.attempts = j.attempts /\ k.stalls = j.stalls
    BY <1>4, RecordsTyped DEF JobRecord
  <1>7. \A b \in Book :
          b \in wrong <=> book[b].live /\ j.want[b] # Nothing
    BY <1>3 DEF Live
  <1>8. \A b \in Book : b \in wrong =>
          b <= made /\ b \in drift /\ j.want[b] \in Nat /\ (b \in j.touched \/ j.want[b] = Published(b))
    BY <1>2, <1>5, <1>7 DEF JobOK, JobRecord
  <1>9. /\ book' \in [Book -> [live : BOOLEAN, count : Int, total : Sum]]
        /\ \A b \in Book : /\ book'[b].live = book[b].live /\ book'[b].total = book[b].total
                           /\ IF b \in wrong THEN book'[b].count = j.want[b] ELSE book'[b] = book[b]
    <2>1. \A b \in Book : book[b] \in [live : BOOLEAN, count : Int, total : Sum]
      BY <1>1 DEF CountersTyped
    <2>2. ASSUME NEW b \in Book
          PROVE  /\ book'[b] \in [live : BOOLEAN, count : Int, total : Sum]
                 /\ book'[b].live = book[b].live /\ book'[b].total = book[b].total
                 /\ IF b \in wrong THEN book'[b].count = j.want[b] ELSE book'[b] = book[b]
      <3>1. CASE b \in wrong
        <4>1. book'[b] = [book[b] EXCEPT !.count = j.want[b]] /\ j.want[b] \in Int
          BY <1>5, <1>8, <3>1
        <4>2. QED
          BY <2>1, <3>1, <4>1
      <3>2. CASE b \notin wrong
        <4>1. book'[b] = book[b]
          BY <1>5, <3>2
        <4>2. QED
          BY <2>1, <3>2, <4>1
      <3>3. QED
        BY <3>1, <3>2
    <2>3. QED
      BY <1>5, <2>2
  <1>10. CountersTyped'
    BY <1>1, <1>5, <1>6, <1>9 DEF CountersTyped
  <1>11. MadeOK'
    <2>1. \A b \in Book : b > made => b \notin wrong
      BY <1>1, <1>7 DEF MadeOK
    <2>2. QED
      BY <1>1, <1>5, <1>9, <2>1 DEF MadeOK
  <1>12. RequestOK' /\ LocksOK'
    BY <1>1, <1>5 DEF RequestOK, LocksOK
  <1>13. TotalsOK' /\ CreditsExact'
    BY <1>1, <1>5, <1>9 DEF TotalsOK, CreditsExact
  <1>14. \A d : Published(d)' = Published(d)
    BY <1>5 DEF Published, ChaptersOf
  <1>15. ChapterCountExact'
    <2>1. SUFFICES ASSUME NEW b \in Book, book[b].live, b \notin drift'
                   PROVE  book'[b].count = Published(b)
      BY <1>9, <1>14 DEF ChapterCountExact, Live
    <2>2. CASE b \in wrong
      BY <1>5, <1>8, <1>9, <2>1, <2>2
    <2>3. CASE b \notin wrong
      <3>1. b \notin drift
        BY <1>5, <2>1, <2>3
      <3>2. QED
        BY <1>1, <1>9, <2>1, <2>3, <3>1 DEF ChapterCountExact, Live
    <2>4. QED
      BY <2>2, <2>3
  <1>16. RecountOK'
    BY <1>2, <1>5, <1>6 DEF RecountOK, JobOK
  <1>17. CoverOK'
    <2>1. \A b \in Book : b \in Nat /\ j.pos \in Int /\ j.last \in Int
      BY CounterConstants DEF JobRecord
    <2>2. QED
      BY <1>2, <1>5, <1>6, <1>9, <2>1 DEF CoverOK, Covers, Recounting
  <1>18. QED
    BY <1>10, <1>11, <1>12, <1>13, <1>15, <1>16, <1>17 DEF CountersInv

-----------------------------------------------------------------------------
(***************************************************************************)
(* The theorems about the counters.                                        *)
(***************************************************************************)
\* Every step of a request keeps the invariant.
LEMMA RequestKeeps ==
  ASSUME CountersInv, NEW r \in Request, Start(r) \/ Continue(r) \/ Abort(r)
  PROVE  CountersInv'
  <1>1. ASSUME NEW c \in Chapter, NEW s \in Shown, CreateChapter(r, c, s) PROVE CountersInv'
    BY <1>1, CreateChapterStep
  <1>2. ASSUME NEW c \in Chapter, ReadChapter(r, c, "update") \/ ReadChapter(r, c, "delete") \/ ScheduleChapter(r, c)
        PROVE CountersInv'
    BY <1>2, ReadChapterStep, ScheduleChapterStep
  <1>3. ASSUME NEW b \in Book, ReadContributors(r, b, "edit") \/ ReadContributors(r, b, "drop") PROVE CountersInv'
    BY <1>3, ReadContributorsStep
  <1>4. ASSUME NEW credited \in BOOLEAN, CreateBook(r, credited) PROVE CountersInv'
    BY <1>4, CreateBookStep
  <1>5. ASSUME NEW b \in Book, NEW u \in Rater, NEW n \in Rating, RateBook(r, b, u, n) PROVE CountersInv'
    BY <1>5, RateBookStep
  <1>6. CASE Start(r)
    BY <1>1, <1>2, <1>3, <1>4, <1>5, <1>6 DEF Start
  <1>7. ASSUME NEW s \in Shown, UpdateChapter(r, s) PROVE CountersInv'
    BY <1>7, UpdateChapterStep
  <1>8. ASSUME NEW credited \in BOOLEAN, UpdateBook(r, credited) PROVE CountersInv'
    BY <1>8, UpdateBookStep
  <1>9. ASSUME DeleteChapter(r) \/ PublishTarget(r) \/ CancelSchedule(r) \/ DeleteBook(r) PROVE CountersInv'
    BY <1>9, DeleteChapterStep, PublishTargetStep, CancelScheduleStep, DeleteBookStep
  <1>10. ASSUME LockBook(r) \/ Aggregate(r) \/ CommitRating(r) PROVE CountersInv'
    BY <1>10, LockBookStep, AggregateStep, CommitRatingStep
  <1>11. CASE Continue(r)
    BY <1>7, <1>8, <1>9, <1>10, <1>11 DEF Continue
  <1>12. CASE Abort(r)
    BY <1>12, AbortStep
  <1>13. QED
    BY <1>6, <1>11, <1>12

\* Every step keeps the invariant.
LEMMA CountersNextOK ==
  ASSUME CountersInv, [CountersNext]_counterVars
  PROVE  CountersInv'
  <1>1. ASSUME NEW r \in Request, Start(r) \/ Continue(r) \/ Abort(r) PROVE CountersInv'
    BY <1>1, RequestKeeps
  <1>2. CASE EnqueueDailySync \/ StallSync
    BY <1>2, EnqueueDailySyncStep, StallSyncStep
  <1>3. CASE Recount
    BY <1>3, StartSyncStep, NextBatchStep, CountChaptersStep, WriteCountsStep, SaveCursorStep, FailSyncStep
       DEF Recount
  <1>4. CASE UNCHANGED counterVars
    <2>1. /\ UNCHANGED <<book, made, locked, status, rated, written, credit>>
          /\ UNCHANGED <<op, job, drift, miscredited, covered, owed>>
      BY <1>4 DEF counterVars, rows, history
    <2>2. PICK j \in JobRecord : j = job /\ JobOK(j, made) /\ Covers(j, owed)
      BY JobHolds
    <2>3. JobOnly /\ job' = j /\ owed' = owed
      BY <2>1, <2>2 DEF JobOnly, rows, history
    <2>4. QED
      BY <2>2, <2>3, JobHolds, JobStep
  <1>5. QED
    BY <1>1, <1>2, <1>3, <1>4 DEF CountersNext

\* What the counters, the requests and the recount hold is right in every reachable
\* state: the invariant the theorems below are read off.
THEOREM CountersInvariance == CountersSpec => []CountersInv
  <1>1. CountersInv /\ [CountersNext]_counterVars => CountersInv'
    BY CountersNextOK
  <1>2. QED
    BY CountersInitOK, <1>1, PTL DEF CountersSpec

\* Every variable of BookCounters keeps its type, and whoever holds a book's row is
\* adding up its ratings.
THEOREM CountersTypedHolds == CountersSpec => []CountersTypeOK
  <1>1. CountersInv => CountersTypeOK
    <2> SUFFICES ASSUME CountersInv PROVE CountersTypeOK
      OBVIOUS
    <2>1. CountersTyped /\ MadeOK /\ LocksOK /\ job \in JobRecord
      BY DEF CountersInv, CountersTyped
    <2>2. job.cursor \in 0..NumBooks /\ job.attempts \in 0..MaxAttempts /\ job.stalls \in 0..(MaxStalls + 1)
      BY <2>1 DEF JobRecord
    <2>3. Live \subseteq 1..made
      <3>1. \A b \in Book : b \in Nat /\ b >= 1 /\ (b \in Live => ~(b > made)) /\ made \in Nat
        BY <2>1, CounterConstants DEF MadeOK, CountersTyped, Live
      <3>2. QED
        BY <3>1 DEF Live
    <2>4. QED
      BY <2>1, <2>2, <2>3 DEF CountersTypeOK, CountersTyped, Sum, LocksOK
  <1>2. QED
    BY CountersInvariance, <1>1, PTL

\* Book.chapterCount is the number of published chapters of every book no known cause
\* has put wrong (updateChapter, deleteChapter, publishTarget, reconcileBatch): the
\* recount writes late, but only over counts that are known to be wrong.
THEOREM ChapterCountsExact == CountersSpec => []ChapterCountExact
  <1>1. CountersInv => ChapterCountExact
    BY DEF CountersInv
  <1>2. QED
    BY CountersInvariance, <1>1, PTL

\* rateBook: the total shown is that of all ratings, for any number of users who rate at
\* once, since it is added up and written under the lock of the book's row.
THEOREM RatingTotalsExact == CountersSpec => []RatingsExact
  <1>1. CountersInv => RatingsExact
    BY DEF CountersInv, TotalsOK, RatingsExact, Live
  <1>2. QED
    BY CountersInvariance, <1>1, PTL

\* Contributor.bookCount counts the books of the contributor, as long as no update or
\* deletion wrote by what it had read before another changed it.
THEOREM ContributorCreditsExact == CountersSpec => []CreditsExact
  <1>1. CountersInv => CreditsExact
    BY DEF CountersInv
  <1>2. QED
    BY CountersInvariance, <1>1, PTL

\* The recount that completes has recounted every book it owed it to, after any number
\* of attempts and stalls and for every batch size.
THEOREM RecountIsComplete == CountersSpec => []RecountCovers
  <1>1. CountersInv => RecountCovers
    BY DEF CountersInv, CoverOK, RecountCovers, JobAt, Live
  <1>2. QED
    BY CountersInvariance, <1>1, PTL

=============================================================================
