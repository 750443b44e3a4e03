---------------------------- MODULE SearchSyncProofs ----------------------------
(***************************************************************************)
(* Proofs about SearchSync for every number of books, events and server    *)
(* processes, every batch, page and concurrency limit, and every number of *)
(* changes, stalls, crashes and full synchronizations.                     *)
(***************************************************************************)
EXTENDS SearchSync, FiniteSetTheorems, TLAPS

(***************************************************************************)
(* The inductive invariant.  An event tells of a change its book has had,  *)
(* a reader of a book holds at least the version of its event, and once    *)
(* an event has been written, the index and whoever else has read the book *)
(* without overlapping another reader hold a document as new as the event: *)
(* at least its version, and the book as it is when that is the newest.    *)
(***************************************************************************)
BookOK ==
  \A b \in Book : /\ book[b].state = "NONE" => book[b].version = 0
                  /\ book[b].state = "EXISTS" => book[b].version >= 1
                  /\ silent[b] => book[b].state = "EXISTS"

EventOK ==
  \A e \in Event :
    /\ event[e].version <= book[event[e].book].version
    /\ event[e].status = "ABSENT" => event[e].kind = "ignored"
    /\ event[e].kind = "ignored" <=> event[e].version = 0
    /\ event[e].kind = "delete" => book[event[e].book].state = "GONE"
    /\ event[e].status \in {"ABSENT", "PENDING", "PROCESSING"} => event[e].attempts < MaxAttempts

\* The newest change of a book was announced, unless it wrote no row.
Newest(e, b) == /\ event[e].book = b /\ event[e].kind # "ignored"
                /\ event[e].version = book[b].version
LatestOK == \A b \in Book : book[b].state # "NONE" /\ ~silent[b] => \E f \in Event : Newest(f, b)

TaskOK ==
  \A w \in Worker, e \in Event : task[w][e] # None =>
    /\ event[e].status # "ABSENT" /\ task[w][e].attempts < MaxAttempts
    /\ At(w, e, "read") => event[e].kind = "sync"
    /\ At(w, e, "write") => event[e].kind # "ignored"
    /\ At(w, e, "mark") => applied[event[e].book] >= event[e].version
    /\ At(w, e, "write") /\ event[e].kind = "sync" =>
         /\ event[e].version <= task[w][e].version
         /\ task[w][e].version <= book[event[e].book].version
         /\ task[w][e].version = book[event[e].book].version => task[w][e].doc = Content(event[e].book)
         /\ book[event[e].book].state = "EXISTS" => task[w][e].doc = task[w][e].version

ScanOK == \A w \in Worker : scan[w] # None /\ scan[w].step = "read" => \A b \in Book : scan[w].docs[b] = 0

\* Without an overlap a book has one reader.
Scans(w, b) == scan[w] # None /\ scan[w].step = "write" /\ scan[w].docs[b] # 0
AloneOK ==
  \A b \in Book : ~overlap[b] =>
    /\ \A v, w \in Worker, e, f \in Event : Reads(v, e, b) /\ Reads(w, f, b) => v = w /\ e = f
    /\ \A v, w \in Worker, e \in Event : ~(Reads(v, e, b) /\ Scans(w, b))
    /\ \A v, w \in Worker : Scans(v, b) /\ Scans(w, b) => v = w

\* The event was written.
Finished(e) == event[e].status = "PROCESSED" \/ \E w \in Worker : At(w, e, "mark")
\* The document d of the event's book is as new as the event.
AsNew(e, d) == /\ event[e].version = book[event[e].book].version => d = Content(event[e].book)
               /\ book[event[e].book].state = "EXISTS" => d >= event[e].version
FreshOK ==
  \A b \in Book, e \in Event :
    event[e].book = b /\ event[e].kind # "ignored" /\ Finished(e) /\ ~overlap[b] =>
      /\ AsNew(e, index[b])
      /\ \A w \in Worker, f \in Event : Reads(w, f, b) => AsNew(e, task[w][f].doc)
      /\ \A w \in Worker : Scans(w, b) => AsNew(e, scan[w].docs[b])

IInv == TypeOK /\ BookOK /\ EventOK /\ LatestOK /\ TaskOK /\ ScanOK /\ AloneOK /\ FreshOK
        /\ ProcessedIsApplied

-----------------------------------------------------------------------------
\* The constants are numbers.
LEMMA Constants ==
  /\ NumBooks \in Nat /\ NumBooks >= 1 /\ MaxAttempts \in Nat /\ MaxAttempts >= 1
  /\ MaxVersion \in Nat /\ MaxStalls \in Nat /\ MaxCrashes \in Nat /\ MaxScans \in Nat
  /\ 0 \in Version /\ 1 \in Book /\ 0 \in 0..MaxAttempts
  /\ None \notin Worker
  BY SearchAssumption DEF Version, Book

\* The larger of two versions.
LEMMA MaxOfTwo ==
  ASSUME NEW a \in Version, NEW b \in Version
  PROVE  Max({a, b}) \in Version /\ Max({a, b}) >= a /\ Max({a, b}) >= b
  <1>1. \E x \in {a, b} : \A y \in {a, b} : x >= y
    BY Constants DEF Version
  <1>2. Max({a, b}) \in {a, b} /\ \A y \in {a, b} : Max({a, b}) >= y
    BY <1>1 DEF Max
  <1>3. QED
    BY <1>2

\* A row of SearchOutboxEvent.
Row == [book : Book, version : Version, kind : Kind, status : EventStatus, attempts : 0..MaxAttempts,
        lockedBy : Worker \cup {None}, stale : BOOLEAN]

\* The invariant holds initially.
LEMMA InitIInv == Init => IInv
  <1> SUFFICES ASSUME Init PROVE IInv
    OBVIOUS
  <1> USE Constants DEF Init, NoRow
  <1>1. TypeOK
    BY DEF TypeOK, BookState, EventStatus, Kind
  <1>2. BookOK /\ EventOK /\ LatestOK /\ TaskOK /\ ScanOK /\ ProcessedIsApplied
    BY DEF BookOK, EventOK, LatestOK, TaskOK, ScanOK, ProcessedIsApplied
  <1>3. AloneOK /\ FreshOK
    BY DEF AloneOK, FreshOK, Reads, Scans, At
  <1>4. QED
    BY <1>1, <1>2, <1>3 DEF IInv

\* Nobody has a page with the book when ScansOf is empty.
LEMMA NoScan ==
  ASSUME NEW b \in Book
  PROVE  \A w \in Worker : w \in ScansOf(b) <=> Scans(w, b)
  BY DEF ScansOf, Scans

\* What a step has to leave alone so that no reader becomes stale: documents may
\* only disappear, and a document as new as a written event stays as new.
LEMMA ReadersKept ==
  ASSUME IInv, index' = index, overlap' = overlap,
         \A b \in Book, w \in Worker, e \in Event :
           Reads(w, e, b)' => Reads(w, e, b) /\ task'[w][e].doc = task[w][e].doc,
         \A b \in Book, w \in Worker :
           Scans(w, b)' => Scans(w, b) /\ scan'[w].docs[b] = scan[w].docs[b],
         \A e \in Event : event'[e].kind # "ignored" /\ Finished(e)' =>
           /\ event'[e].book = event[e].book /\ event[e].kind # "ignored" /\ Finished(e)
           /\ \A d : AsNew(e, d) => AsNew(e, d)'
  PROVE  AloneOK' /\ FreshOK'
  <1>1. AloneOK'
    BY DEF IInv, AloneOK
  <1>2. ASSUME NEW b \in Book, NEW e \in Event,
               event'[e].book = b, event'[e].kind # "ignored", Finished(e)', ~overlap'[b]
        PROVE  /\ AsNew(e, index[b])'
               /\ \A w \in Worker, f \in Event : Reads(w, f, b)' => AsNew(e, task[w][f].doc)'
               /\ \A w \in Worker : Scans(w, b)' => AsNew(e, scan[w].docs[b])'
    <2>1. event[e].book = b /\ event[e].kind # "ignored" /\ Finished(e) /\ ~overlap[b]
      BY <1>2
    <2>2. /\ AsNew(e, index[b])
          /\ \A w \in Worker, f \in Event : Reads(w, f, b) => AsNew(e, task[w][f].doc)
          /\ \A w \in Worker : Scans(w, b) => AsNew(e, scan[w].docs[b])
      BY <2>1 DEF IInv, FreshOK
    <2>3. \A d : AsNew(e, d) =>
            (/\ event'[e].version = book'[event'[e].book].version => d = Content(event[e].book)'
             /\ book'[event'[e].book].state = "EXISTS" => d >= event'[e].version)
      BY <1>2 DEF AsNew
    <2>4. AsNew(e, index[b])'
      BY <2>2, <2>3 DEF AsNew
    <2>5. ASSUME NEW w \in Worker, NEW f \in Event, Reads(w, f, b)'
          PROVE  AsNew(e, task[w][f].doc)'
      <3>1. AsNew(e, task[w][f].doc) /\ task'[w][f].doc = task[w][f].doc
        BY <2>2, <2>5
      <3>2. QED
        BY <2>3, <3>1 DEF AsNew
    <2>6. ASSUME NEW w \in Worker, Scans(w, b)'
          PROVE  AsNew(e, scan[w].docs[b])'
      <3>1. AsNew(e, scan[w].docs[b]) /\ scan'[w].docs[b] = scan[w].docs[b]
        BY <2>2, <2>6
      <3>2. QED
        BY <2>3, <3>1 DEF AsNew
    <2>7. QED
      BY <2>4, <2>5, <2>6
  <1>3. FreshOK'
    BY <1>2 DEF FreshOK
  <1>4. QED
    BY <1>1, <1>3

\* A step that leaves the books alone and what their events say keeps a document as
\* new as an event.
LEMMA AsNewKept ==
  ASSUME book' = book, NEW e \in Event, event'[e].book = event[e].book, event'[e].version = event[e].version
  PROVE  \A d : AsNew(e, d) => AsNew(e, d)'
  BY DEF AsNew, Content

\* CreateIgnored preserves the invariant.
LEMMA CreateIgnoredIInv ==
  ASSUME IInv, NEW e \in Event, CreateIgnored(e)
  PROVE  IInv'
  <1> USE Constants DEF CreateIgnored, bounds, IInv
  <1>1. TypeOK'
    <2>1. event' \in [Event -> Row]
      <3>1. \A f \in Event : event[f] \in Row
        BY DEF TypeOK, Row
      <3>2. \A f \in Event : event'[f] \in Row
        BY <3>1, ZenonT(60) DEF TypeOK, EventOK, TaskOK, Row, EventStatus, Task
      <3>3. event' = [f \in Event |-> event'[f]]
        BY DEF TypeOK
      <3>4. QED
        BY <3>2, <3>3
    <2>2. task' \in [Worker -> [Event -> Task \cup {None}]]
      BY DEF TypeOK, EventOK, TaskOK, Task, Kind
    <2>3. scan' \in [Worker -> Scan \cup {None}]
      BY DEF TypeOK, Scan
    <2>4. QED
      BY <2>1, <2>2, <2>3 DEF TypeOK, Row
  <1>2. BookOK' /\ LatestOK' /\ ScanOK'
    <2>1. \A f \in Event : /\ event'[f].book = event[f].book /\ event'[f].version = event[f].version
                          /\ event'[f].kind = event[f].kind
      BY DEF TypeOK
    <2>2. QED
      BY <2>1 DEF TypeOK, BookOK, LatestOK, Newest, ScanOK, Scan
  <1>3. EventOK'
    BY DEF TypeOK, EventOK, TaskOK, Task
  <1>4. TaskOK'
    BY DEF TypeOK, EventOK, TaskOK, At, Content, Task, Kind, Version
  <1>5. AloneOK' /\ FreshOK'
    <2>1. ASSUME NEW c \in Book, NEW v \in Worker, NEW f \in Event, Reads(v, f, c)'
          PROVE  Reads(v, f, c) /\ task'[v][f].doc = task[v][f].doc
      BY <2>1 DEF Reads, At, TypeOK, EventOK, TaskOK, Kind, Task
    <2>2. ASSUME NEW c \in Book, NEW v \in Worker, Scans(v, c)'
          PROVE  Scans(v, c) /\ scan'[v].docs[c] = scan[v].docs[c]
      BY <2>2 DEF Scans, TypeOK, Scan
    <2>3. ASSUME NEW f \in Event, event'[f].kind # "ignored", Finished(f)'
          PROVE  /\ event'[f].book = event[f].book /\ event'[f].version = event[f].version
                 /\ event[f].kind # "ignored" /\ Finished(f)
      BY <2>3 DEF Finished, At, TypeOK, EventOK, TaskOK, Kind, Task
    <2>4. QED
      BY <2>1, <2>2, <2>3, ReadersKept, AsNewKept
  <1>6. ProcessedIsApplied'
    BY DEF TypeOK, EventOK, TaskOK, ProcessedIsApplied, Task
  <1>7. QED
    BY <1>1, <1>2, <1>3, <1>4, <1>5, <1>6


\* Claim preserves the invariant.
LEMMA ClaimIInv ==
  ASSUME IInv, NEW w \in Worker, NEW batch \in SUBSET Event, Claim(w, batch)
  PROVE  IInv'
  <1> USE Constants DEF IInv
  <1>1. /\ \A f \in Event : f \notin batch => event'[f] = event[f]
        /\ \A f \in batch :
             /\ event[f].status \in {"PENDING", "PROCESSING"}
             /\ event'[f] = [event[f] EXCEPT !.status = "PROCESSING", !.lockedBy = w, !.stale = FALSE]
        /\ event' = [f \in Event |-> event'[f]]
    BY DEF Claim, Claimable
  <1>2. /\ \A f \in Event : task[w][f] = None
        /\ \A v \in Worker : v # w => task'[v] = task[v]
        /\ \A f \in Event : task'[w][f] = IF f \in batch
             THEN [step |-> "queued", attempts |-> event[f].attempts, version |-> 0, doc |-> 0] ELSE None
        /\ task' = [task EXCEPT ![w] = task'[w]] /\ task'[w] = [f \in Event |-> task'[w][f]]
    BY DEF Claim, TypeOK
  <1>3. UNCHANGED <<book, index, scan, applied, overlap, silent, stalls, crashes, scans>>
    BY DEF Claim, bounds
  <1>4. \A f \in Event : event[f] \in Row
    BY DEF TypeOK, Row
  <1>5. \A f \in batch : /\ event'[f] \in Row /\ event'[f].status = "PROCESSING"
                         /\ event'[f].book = event[f].book /\ event'[f].version = event[f].version
                         /\ event'[f].kind = event[f].kind /\ event'[f].attempts = event[f].attempts
    <2>1. TAKE f \in batch
    <2>2. /\ event[f] \in Row
          /\ event'[f] = [event[f] EXCEPT !.status = "PROCESSING", !.lockedBy = w, !.stale = FALSE]
      BY <1>1, <1>4
    <2>3. QED
      BY <2>2 DEF Row, EventStatus
  <1>6. \A f \in Event : /\ event'[f].book = event[f].book /\ event'[f].version = event[f].version
                         /\ event'[f].kind = event[f].kind
    BY <1>1, <1>5
  <1>7. ASSUME NEW f \in Event, task'[w][f] # None
         PROVE  /\ f \in batch /\ task'[w][f] \in Task /\ task'[w][f].step = "queued"
                /\ task'[w][f].attempts = event[f].attempts
    <2>1. /\ f \in batch
          /\ task'[w][f] = [step |-> "queued", attempts |-> event[f].attempts, version |-> 0, doc |-> 0]
      BY <1>2, <1>7
    <2>2. event[f].attempts \in 0..MaxAttempts
      BY <1>4 DEF Row
    <2>3. QED
      BY <2>1, <2>2 DEF Task
  <1>8. \A f \in Event : /\ event'[f].attempts = event[f].attempts
                          /\ \/ event'[f].status = event[f].status
                             \/ /\ event'[f].status = "PROCESSING" /\ event[f].status # "ABSENT"
                                /\ event[f].attempts < MaxAttempts
    <2>1. TAKE f \in Event
    <2>2. CASE f \in batch
      <3>1. event[f].status \in {"PENDING", "PROCESSING"}
        BY <1>1, <2>2
      <3>2. event[f].attempts < MaxAttempts
        BY <3>1 DEF EventOK
      <3>3. QED
        BY <1>5, <2>2, <3>1, <3>2
    <2>3. CASE f \notin batch
      <3>1. event'[f] = event[f]
        BY <1>1, <2>3
      <3>2. QED
        BY <3>1
    <2>4. QED
      BY <2>2, <2>3
  <1>9. TypeOK'
    <2>1. event' \in [Event -> Row]
      BY <1>1, <1>4, <1>5
    <2>2. \A f \in Event : task'[w][f] \in Task \cup {None}
      BY <1>7
    <2>3. task'[w] \in [Event -> Task \cup {None}]
      BY <1>2, <2>2
    <2>4. task' \in [Worker -> [Event -> Task \cup {None}]]
      BY <1>2, <2>3 DEF TypeOK
    <2>5. QED
      BY <1>3, <2>1, <2>4 DEF TypeOK, Row
  <1>10. BookOK' /\ LatestOK' /\ ScanOK'
    BY <1>3, <1>6 DEF BookOK, LatestOK, Newest, ScanOK
  <1>11. EventOK'
    BY <1>3, <1>6, <1>8 DEF EventOK
  <1>12. TaskOK'
    <2>1. ASSUME NEW f \in Event, task'[w][f] # None
          PROVE  /\ event'[f].status # "ABSENT" /\ task'[w][f].attempts < MaxAttempts
                 /\ task'[w][f].step = "queued"
      <3>1. f \in batch /\ task'[w][f].step = "queued" /\ task'[w][f].attempts = event[f].attempts
        BY <1>7, <2>1
      <3>2. event[f].attempts < MaxAttempts /\ event'[f].status = "PROCESSING"
        BY <1>1, <1>5, <3>1 DEF EventOK
      <3>3. QED
        BY <3>1, <3>2
    <2>2. \A f \in Event : event[f].status # "ABSENT" => event'[f].status # "ABSENT"
      BY <1>8
    <2>3. ASSUME NEW v \in Worker, v # w
          PROVE  task'[v] = task[v]
      BY <1>2, <2>3
    <2>4. QED
      BY <1>3, <1>6, <2>1, <2>2, <2>3 DEF TaskOK, At, Content
  <1>13. AloneOK' /\ FreshOK'
    <2>1. ASSUME NEW c \in Book, NEW v \in Worker, NEW f \in Event, Reads(v, f, c)'
          PROVE  Reads(v, f, c) /\ task'[v][f].doc = task[v][f].doc
      <3>1. v # w
        BY <1>7, <2>1 DEF Reads, At
      <3>2. task'[v] = task[v]
        BY <1>2, <3>1
      <3>3. QED
        BY <1>6, <2>1, <3>2 DEF Reads, At
    <2>2. ASSUME NEW c \in Book, NEW v \in Worker, Scans(v, c)'
          PROVE  Scans(v, c) /\ scan'[v].docs[c] = scan[v].docs[c]
      BY <1>3, <2>2 DEF Scans
    <2>3. ASSUME NEW f \in Event, event'[f].kind # "ignored", Finished(f)'
          PROVE  event[f].kind # "ignored" /\ Finished(f)
      <3>1. \A v \in Worker : At(v, f, "mark")' => At(v, f, "mark")
        BY <1>2, <1>7 DEF At
      <3>2. event'[f].status = "PROCESSED" => event[f].status = "PROCESSED"
        BY <1>8
      <3>3. QED
        BY <1>6, <2>3, <3>1, <3>2 DEF Finished
    <2>4. QED
      BY <1>3, <1>6, <2>1, <2>2, <2>3, ReadersKept, AsNewKept
  <1>14. ProcessedIsApplied'
    BY <1>1, <1>3, <1>5 DEF ProcessedIsApplied
  <1>15. QED
    BY <1>9, <1>10, <1>11, <1>12, <1>13, <1>14


\* Start preserves the invariant.
LEMMA StartIInv ==
  ASSUME IInv, NEW w \in Worker, NEW e \in Event, Start(w, e)
  PROVE  IInv'
  <1> USE Constants DEF Start, GoTo, At, bounds, IInv
  <1>1. TypeOK'
    <2>1. event' \in [Event -> Row]
      <3>1. \A f \in Event : event[f] \in Row
        BY DEF TypeOK, Row
      <3>2. \A f \in Event : event'[f] \in Row
        BY <3>1 DEF TypeOK, EventOK, TaskOK, Row, EventStatus, Task
      <3>3. event' = [f \in Event |-> event'[f]]
        BY DEF TypeOK
      <3>4. QED
        BY <3>2, <3>3
    <2>2. task' \in [Worker -> [Event -> Task \cup {None}]]
      <3>1. task[w][e] \in Task /\ event[e].kind \in Kind
        BY DEF TypeOK
      <3>2. [sync |-> "read", delete |-> "write", ignored |-> "mark"][event[e].kind]
              \in {"read", "write", "mark"}
        BY <3>1 DEF Kind
      <3>3. [task[w][e] EXCEPT !.step =
               [sync |-> "read", delete |-> "write", ignored |-> "mark"][event[e].kind]] \in Task
        BY <3>1, <3>2 DEF Task
      <3>4. QED
        BY <3>3 DEF TypeOK
    <2>3. scan' \in [Worker -> Scan \cup {None}]
      BY DEF TypeOK, Scan
    <2>4. QED
      BY <2>1, <2>2, <2>3 DEF TypeOK, Row
  <1>2. BookOK' /\ LatestOK' /\ ScanOK'
    <2>1. \A f \in Event : /\ event'[f].book = event[f].book /\ event'[f].version = event[f].version
                          /\ event'[f].kind = event[f].kind
      BY DEF TypeOK
    <2>2. QED
      BY <2>1 DEF TypeOK, BookOK, LatestOK, Newest, ScanOK, Scan
  <1>3. EventOK'
    BY DEF TypeOK, EventOK, TaskOK, Task
  <1>4. TaskOK'
    BY DEF TypeOK, EventOK, TaskOK, At, Content, Task, Kind, Version
  <1>5. AloneOK' /\ FreshOK'
    <2>1. ASSUME NEW c \in Book, NEW v \in Worker, NEW f \in Event, Reads(v, f, c)'
          PROVE  Reads(v, f, c) /\ task'[v][f].doc = task[v][f].doc
      BY <2>1 DEF Reads, At, TypeOK, EventOK, TaskOK, Kind, Task
    <2>2. ASSUME NEW c \in Book, NEW v \in Worker, Scans(v, c)'
          PROVE  Scans(v, c) /\ scan'[v].docs[c] = scan[v].docs[c]
      BY <2>2 DEF Scans, TypeOK, Scan
    <2>3. ASSUME NEW f \in Event, event'[f].kind # "ignored", Finished(f)'
          PROVE  /\ event'[f].book = event[f].book /\ event'[f].version = event[f].version
                 /\ event[f].kind # "ignored" /\ Finished(f)
      BY <2>3 DEF Finished, At, TypeOK, EventOK, TaskOK, Kind, Task
    <2>4. QED
      BY <2>1, <2>2, <2>3, ReadersKept, AsNewKept
  <1>6. ProcessedIsApplied'
    BY DEF TypeOK, EventOK, TaskOK, ProcessedIsApplied, Task
  <1>7. QED
    BY <1>1, <1>2, <1>3, <1>4, <1>5, <1>6


\* HandlerFails preserves the invariant.
LEMMA HandlerFailsIInv ==
  ASSUME IInv, NEW w \in Worker, NEW e \in Event, HandlerFails(w, e)
  PROVE  IInv'
  <1> USE Constants DEF HandlerFails, Running, GoTo, At, bounds, IInv
  <1>1. TypeOK'
    <2>1. event' \in [Event -> Row]
      <3>1. \A f \in Event : event[f] \in Row
        BY DEF TypeOK, Row
      <3>2. \A f \in Event : event'[f] \in Row
        BY <3>1 DEF TypeOK, EventOK, TaskOK, Row, EventStatus, Task
      <3>3. event' = [f \in Event |-> event'[f]]
        BY DEF TypeOK
      <3>4. QED
        BY <3>2, <3>3
    <2>2. task' \in [Worker -> [Event -> Task \cup {None}]]
      <3>1. task[w][e] \in Task
        BY DEF TypeOK
      <3>2. [task[w][e] EXCEPT !.step = "fail"] \in Task
        BY <3>1 DEF Task
      <3>3. QED
        BY <3>2 DEF TypeOK
    <2>3. scan' \in [Worker -> Scan \cup {None}]
      BY DEF TypeOK, Scan
    <2>4. QED
      BY <2>1, <2>2, <2>3 DEF TypeOK, Row
  <1>2. BookOK' /\ LatestOK' /\ ScanOK'
    <2>1. \A f \in Event : /\ event'[f].book = event[f].book /\ event'[f].version = event[f].version
                          /\ event'[f].kind = event[f].kind
      BY DEF TypeOK
    <2>2. QED
      BY <2>1 DEF TypeOK, BookOK, LatestOK, Newest, ScanOK, Scan
  <1>3. EventOK'
    BY DEF TypeOK, EventOK, TaskOK, Task
  <1>4. TaskOK'
    BY DEF TypeOK, EventOK, TaskOK, At, Content, Task, Kind, Version
  <1>5. AloneOK' /\ FreshOK'
    <2>1. ASSUME NEW c \in Book, NEW v \in Worker, NEW f \in Event, Reads(v, f, c)'
          PROVE  Reads(v, f, c) /\ task'[v][f].doc = task[v][f].doc
      BY <2>1 DEF Reads, At, TypeOK, EventOK, TaskOK, Kind, Task
    <2>2. ASSUME NEW c \in Book, NEW v \in Worker, Scans(v, c)'
          PROVE  Scans(v, c) /\ scan'[v].docs[c] = scan[v].docs[c]
      BY <2>2 DEF Scans, TypeOK, Scan
    <2>3. ASSUME NEW f \in Event, event'[f].kind # "ignored", Finished(f)'
          PROVE  /\ event'[f].book = event[f].book /\ event'[f].version = event[f].version
                 /\ event[f].kind # "ignored" /\ Finished(f)
      BY <2>3 DEF Finished, At, TypeOK, EventOK, TaskOK, Kind, Task
    <2>4. QED
      BY <2>1, <2>2, <2>3, ReadersKept, AsNewKept
  <1>6. ProcessedIsApplied'
    BY DEF TypeOK, EventOK, TaskOK, ProcessedIsApplied, Task
  <1>7. QED
    BY <1>1, <1>2, <1>3, <1>4, <1>5, <1>6


\* MarkProcessed preserves the invariant.
LEMMA MarkProcessedIInv ==
  ASSUME IInv, NEW w \in Worker, NEW e \in Event, MarkProcessed(w, e)
  PROVE  IInv'
  <1> USE Constants DEF MarkProcessed, Drop, Holder, At, bounds, IInv
  <1>1. TypeOK'
    <2>1. event' \in [Event -> Row]
      <3>1. \A f \in Event : event[f] \in Row
        BY DEF TypeOK, Row
      <3>2. \A f \in Event : event'[f] \in Row
        BY <3>1 DEF TypeOK, EventOK, TaskOK, Row, EventStatus, Task
      <3>3. event' = [f \in Event |-> event'[f]]
        BY DEF TypeOK
      <3>4. QED
        BY <3>2, <3>3
    <2>2. task' \in [Worker -> [Event -> Task \cup {None}]]
      BY DEF TypeOK, EventOK, TaskOK, Task, Kind
    <2>3. scan' \in [Worker -> Scan \cup {None}]
      BY DEF TypeOK, Scan
    <2>4. QED
      BY <2>1, <2>2, <2>3 DEF TypeOK, Row
  <1>2. BookOK' /\ LatestOK' /\ ScanOK'
    <2>1. \A f \in Event : /\ event'[f].book = event[f].book /\ event'[f].version = event[f].version
                          /\ event'[f].kind = event[f].kind
      BY DEF TypeOK
    <2>2. \A c \in Book, f \in Event : Newest(f, c) => Newest(f, c)'
      BY <2>1 DEF Newest
    <2>3. LatestOK'
      BY <2>2 DEF LatestOK
    <2>4. QED
      BY <2>3 DEF BookOK, ScanOK
  <1>3. EventOK'
    BY DEF TypeOK, EventOK, TaskOK, Task
  <1>4. TaskOK'
    BY SMTT(60) DEF TypeOK, EventOK, TaskOK, At, Content, Task, Kind, Version
  <1>5. AloneOK' /\ FreshOK'
    <2>1. ASSUME NEW c \in Book, NEW v \in Worker, NEW f \in Event, Reads(v, f, c)'
          PROVE  Reads(v, f, c) /\ task'[v][f].doc = task[v][f].doc
      BY <2>1 DEF Reads, At, TypeOK, EventOK, TaskOK, Kind, Task
    <2>2. ASSUME NEW c \in Book, NEW v \in Worker, Scans(v, c)'
          PROVE  Scans(v, c) /\ scan'[v].docs[c] = scan[v].docs[c]
      BY <2>2 DEF Scans, TypeOK, Scan
    <2>3. ASSUME NEW f \in Event, event'[f].kind # "ignored", Finished(f)'
          PROVE  /\ event'[f].book = event[f].book /\ event'[f].version = event[f].version
                 /\ event[f].kind # "ignored" /\ Finished(f)
      BY <2>3 DEF Finished, At, TypeOK, EventOK, TaskOK, Kind, Task
    <2>4. QED
      BY <2>1, <2>2, <2>3, ReadersKept, AsNewKept
  <1>6. ProcessedIsApplied'
    BY DEF TypeOK, EventOK, TaskOK, ProcessedIsApplied, Task
  <1>7. QED
    BY <1>1, <1>2, <1>3, <1>4, <1>5, <1>6


\* RecordFailure preserves the invariant.
LEMMA RecordFailureIInv ==
  ASSUME IInv, NEW w \in Worker, NEW e \in Event, RecordFailure(w, e)
  PROVE  IInv'
  <1> USE Constants DEF IInv
  <1>1. /\ task[w][e] \in Task /\ task[w][e].step = "fail" /\ task[w][e].attempts < MaxAttempts
        /\ event[e].status # "ABSENT"
    BY DEF RecordFailure, At, TypeOK, TaskOK
  <1>2. \A f \in Event : event[f] \in Row
    BY DEF TypeOK, Row
  <1>3. /\ task' = [task EXCEPT ![w][e] = None]
        /\ UNCHANGED <<book, index, scan, applied, overlap, silent, stalls, crashes, scans>>
    BY DEF RecordFailure, Drop, bounds
  <1>4. /\ event'[e] \in Row /\ event'[e].book = event[e].book
        /\ event'[e].version = event[e].version /\ event'[e].kind = event[e].kind
        /\ event'[e].status # "ABSENT" /\ (event'[e].status = "PROCESSED" => event[e].status = "PROCESSED")
        /\ event'[e].status \in {"PENDING", "PROCESSING"} => event'[e].attempts < MaxAttempts
        /\ event' = [event EXCEPT ![e] = event'[e]]
    <2>1. CASE Holder(w, e)
      <3>1. task[w][e].attempts + 1 \in 0..MaxAttempts
        BY <1>1 DEF Task
      <3>2. event'[e] = [event[e] EXCEPT
              !.status = IF Dead(task[w][e].attempts + 1) THEN "DEAD_LETTER" ELSE "PENDING",
              !.attempts = task[w][e].attempts + 1, !.lockedBy = None, !.stale = FALSE]
        BY <2>1 DEF RecordFailure, TypeOK
      <3>3. ~Dead(task[w][e].attempts + 1) => task[w][e].attempts + 1 < MaxAttempts
        BY <3>1 DEF Dead
      <3>4. event' = [event EXCEPT ![e] = event'[e]]
        BY <2>1 DEF RecordFailure, TypeOK
      <3>5. QED
        BY <1>2, <3>1, <3>2, <3>3, <3>4, ZenonT(60) DEF Row, EventStatus
    <2>2. CASE ~Holder(w, e)
      BY <1>1, <1>2, <2>2 DEF RecordFailure, TypeOK, EventOK
    <2>3. QED
      BY <2>1, <2>2
  <1>5. \A f \in Event : /\ event'[f].book = event[f].book /\ event'[f].version = event[f].version
                         /\ event'[f].kind = event[f].kind
                         /\ (event'[f].status = "ABSENT" <=> event[f].status = "ABSENT")
                         /\ (event'[f].status = "PROCESSED" => event[f].status = "PROCESSED")
    BY <1>1, <1>4 DEF TypeOK
  <1>6. TypeOK'
    <2>1. event' \in [Event -> Row]
      BY <1>2, <1>4 DEF TypeOK
    <2>2. QED
      BY <1>3, <2>1 DEF TypeOK, Row
  <1>7. BookOK' /\ LatestOK' /\ ScanOK'
    BY <1>3, <1>5 DEF BookOK, LatestOK, Newest, ScanOK
  <1>8. EventOK'
    <2>1. \A f \in Event : event'[f].status \in {"ABSENT", "PENDING", "PROCESSING"}
                             => event'[f].attempts < MaxAttempts
      BY <1>4 DEF EventOK, TypeOK
    <2>2. QED
      BY <1>3, <1>5, <2>1 DEF EventOK
  <1>9. \A v \in Worker, f \in Event : task'[v][f] # None => task'[v][f] = task[v][f]
    BY <1>3 DEF TypeOK
  <1>10. TaskOK'
    BY <1>3, <1>5, <1>9 DEF TaskOK, At, Content
  <1>11. AloneOK' /\ FreshOK'
    <2>1. ASSUME NEW c \in Book, NEW v \in Worker, NEW f \in Event, Reads(v, f, c)'
          PROVE  Reads(v, f, c) /\ task'[v][f].doc = task[v][f].doc
      BY <1>9, <1>5, <2>1 DEF Reads, At
    <2>2. ASSUME NEW c \in Book, NEW v \in Worker, Scans(v, c)'
          PROVE  Scans(v, c) /\ scan'[v].docs[c] = scan[v].docs[c]
      BY <1>3, <2>2 DEF Scans
    <2>3. ASSUME NEW f \in Event, event'[f].kind # "ignored", Finished(f)'
          PROVE  event[f].kind # "ignored" /\ Finished(f)
      BY <1>5, <1>9, <2>3 DEF Finished, At
    <2>4. QED
      BY <1>3, <1>5, <2>1, <2>2, <2>3, ReadersKept, AsNewKept
  <1>12. ProcessedIsApplied'
    BY <1>3, <1>5 DEF ProcessedIsApplied
  <1>13. QED
    BY <1>6, <1>7, <1>8, <1>10, <1>11, <1>12


\* StartScan preserves the invariant.
LEMMA StartScanIInv ==
  ASSUME IInv, NEW w \in Worker, StartScan(w)
  PROVE  IInv'
  <1> USE Constants DEF StartScan, bounds, IInv
  <1>1. TypeOK'
    <2>1. event' \in [Event -> Row]
      <3>1. \A f \in Event : event[f] \in Row
        BY DEF TypeOK, Row
      <3>2. \A f \in Event : event'[f] \in Row
        BY <3>1 DEF TypeOK, EventOK, TaskOK, Row, EventStatus, Task
      <3>3. event' = [f \in Event |-> event'[f]]
        BY DEF TypeOK
      <3>4. QED
        BY <3>2, <3>3
    <2>2. task' \in [Worker -> [Event -> Task \cup {None}]]
      BY DEF TypeOK, EventOK, TaskOK, Task, Kind
    <2>3. scan' \in [Worker -> Scan \cup {None}]
      BY DEF TypeOK, Scan
    <2>4. QED
      BY <2>1, <2>2, <2>3 DEF TypeOK, Row
  <1>2. BookOK' /\ LatestOK' /\ ScanOK'
    <2>1. \A f \in Event : /\ event'[f].book = event[f].book /\ event'[f].version = event[f].version
                          /\ event'[f].kind = event[f].kind
      BY DEF TypeOK
    <2>2. QED
      BY <2>1 DEF TypeOK, BookOK, LatestOK, Newest, ScanOK, Scan
  <1>3. EventOK'
    BY DEF TypeOK, EventOK, TaskOK, Task
  <1>4. TaskOK'
    BY DEF TypeOK, EventOK, TaskOK, At, Content, Task, Kind, Version
  <1>5. AloneOK' /\ FreshOK'
    <2>1. ASSUME NEW c \in Book, NEW v \in Worker, NEW f \in Event, Reads(v, f, c)'
          PROVE  Reads(v, f, c) /\ task'[v][f].doc = task[v][f].doc
      BY <2>1 DEF Reads, At, TypeOK, EventOK, TaskOK, Kind, Task
    <2>2. ASSUME NEW c \in Book, NEW v \in Worker, Scans(v, c)'
          PROVE  Scans(v, c) /\ scan'[v].docs[c] = scan[v].docs[c]
      BY <2>2 DEF Scans, TypeOK, Scan
    <2>3. ASSUME NEW f \in Event, event'[f].kind # "ignored", Finished(f)'
          PROVE  /\ event'[f].book = event[f].book /\ event'[f].version = event[f].version
                 /\ event[f].kind # "ignored" /\ Finished(f)
      BY <2>3 DEF Finished, At, TypeOK, EventOK, TaskOK, Kind, Task
    <2>4. QED
      BY <2>1, <2>2, <2>3, ReadersKept, AsNewKept
  <1>6. ProcessedIsApplied'
    BY DEF TypeOK, EventOK, TaskOK, ProcessedIsApplied, Task
  <1>7. QED
    BY <1>1, <1>2, <1>3, <1>4, <1>5, <1>6


\* EndScan preserves the invariant.
LEMMA EndScanIInv ==
  ASSUME IInv, NEW w \in Worker, EndScan(w)
  PROVE  IInv'
  <1> USE Constants DEF EndScan, bounds, IInv
  <1>1. TypeOK'
    <2>1. event' \in [Event -> Row]
      <3>1. \A f \in Event : event[f] \in Row
        BY DEF TypeOK, Row
      <3>2. \A f \in Event : event'[f] \in Row
        BY <3>1 DEF TypeOK, EventOK, TaskOK, Row, EventStatus, Task
      <3>3. event' = [f \in Event |-> event'[f]]
        BY DEF TypeOK
      <3>4. QED
        BY <3>2, <3>3
    <2>2. task' \in [Worker -> [Event -> Task \cup {None}]]
      BY DEF TypeOK, EventOK, TaskOK, Task, Kind
    <2>3. scan' \in [Worker -> Scan \cup {None}]
      BY DEF TypeOK, Scan
    <2>4. QED
      BY <2>1, <2>2, <2>3 DEF TypeOK, Row
  <1>2. BookOK' /\ LatestOK' /\ ScanOK'
    <2>1. \A f \in Event : /\ event'[f].book = event[f].book /\ event'[f].version = event[f].version
                          /\ event'[f].kind = event[f].kind
      BY DEF TypeOK
    <2>2. QED
      BY <2>1 DEF TypeOK, BookOK, LatestOK, Newest, ScanOK, Scan
  <1>3. EventOK'
    BY DEF TypeOK, EventOK, TaskOK, Task
  <1>4. TaskOK'
    BY DEF TypeOK, EventOK, TaskOK, At, Content, Task, Kind, Version
  <1>5. AloneOK' /\ FreshOK'
    <2>1. ASSUME NEW c \in Book, NEW v \in Worker, NEW f \in Event, Reads(v, f, c)'
          PROVE  Reads(v, f, c) /\ task'[v][f].doc = task[v][f].doc
      BY <2>1 DEF Reads, At, TypeOK, EventOK, TaskOK, Kind, Task
    <2>2. ASSUME NEW c \in Book, NEW v \in Worker, Scans(v, c)'
          PROVE  Scans(v, c) /\ scan'[v].docs[c] = scan[v].docs[c]
      BY <2>2 DEF Scans, TypeOK, Scan
    <2>3. ASSUME NEW f \in Event, event'[f].kind # "ignored", Finished(f)'
          PROVE  /\ event'[f].book = event[f].book /\ event'[f].version = event[f].version
                 /\ event[f].kind # "ignored" /\ Finished(f)
      BY <2>3 DEF Finished, At, TypeOK, EventOK, TaskOK, Kind, Task
    <2>4. QED
      BY <2>1, <2>2, <2>3, ReadersKept, AsNewKept
  <1>6. ProcessedIsApplied'
    BY DEF TypeOK, EventOK, TaskOK, ProcessedIsApplied, Task
  <1>7. QED
    BY <1>1, <1>2, <1>3, <1>4, <1>5, <1>6


\* ScanFails preserves the invariant.
LEMMA ScanFailsIInv ==
  ASSUME IInv, NEW w \in Worker, ScanFails(w)
  PROVE  IInv'
  <1> USE Constants DEF ScanFails, bounds, IInv
  <1>1. TypeOK'
    <2>1. event' \in [Event -> Row]
      <3>1. \A f \in Event : event[f] \in Row
        BY DEF TypeOK, Row
      <3>2. \A f \in Event : event'[f] \in Row
        BY <3>1 DEF TypeOK, EventOK, TaskOK, Row, EventStatus, Task
      <3>3. event' = [f \in Event |-> event'[f]]
        BY DEF TypeOK
      <3>4. QED
        BY <3>2, <3>3
    <2>2. task' \in [Worker -> [Event -> Task \cup {None}]]
      BY DEF TypeOK, EventOK, TaskOK, Task, Kind
    <2>3. scan' \in [Worker -> Scan \cup {None}]
      BY DEF TypeOK, Scan
    <2>4. QED
      BY <2>1, <2>2, <2>3 DEF TypeOK, Row
  <1>2. BookOK' /\ LatestOK' /\ ScanOK'
    <2>1. \A f \in Event : /\ event'[f].book = event[f].book /\ event'[f].version = event[f].version
                          /\ event'[f].kind = event[f].kind
      BY DEF TypeOK
    <2>2. QED
      BY <2>1 DEF TypeOK, BookOK, LatestOK, Newest, ScanOK, Scan
  <1>3. EventOK'
    BY DEF TypeOK, EventOK, TaskOK, Task
  <1>4. TaskOK'
    BY DEF TypeOK, EventOK, TaskOK, At, Content, Task, Kind, Version
  <1>5. AloneOK' /\ FreshOK'
    <2>1. ASSUME NEW c \in Book, NEW v \in Worker, NEW f \in Event, Reads(v, f, c)'
          PROVE  Reads(v, f, c) /\ task'[v][f].doc = task[v][f].doc
      BY <2>1 DEF Reads, At, TypeOK, EventOK, TaskOK, Kind, Task
    <2>2. ASSUME NEW c \in Book, NEW v \in Worker, Scans(v, c)'
          PROVE  Scans(v, c) /\ scan'[v].docs[c] = scan[v].docs[c]
      BY <2>2 DEF Scans, TypeOK, Scan
    <2>3. ASSUME NEW f \in Event, event'[f].kind # "ignored", Finished(f)'
          PROVE  /\ event'[f].book = event[f].book /\ event'[f].version = event[f].version
                 /\ event[f].kind # "ignored" /\ Finished(f)
      BY <2>3 DEF Finished, At, TypeOK, EventOK, TaskOK, Kind, Task
    <2>4. QED
      BY <2>1, <2>2, <2>3, ReadersKept, AsNewKept
  <1>6. ProcessedIsApplied'
    BY DEF TypeOK, EventOK, TaskOK, ProcessedIsApplied, Task
  <1>7. QED
    BY <1>1, <1>2, <1>3, <1>4, <1>5, <1>6


\* ExpireLease preserves the invariant.
LEMMA ExpireLeaseIInv ==
  ASSUME IInv, NEW e \in Event, ExpireLease(e)
  PROVE  IInv'
  <1> USE Constants DEF ExpireLease, bounds, IInv
  <1>1. TypeOK'
    <2>1. event' \in [Event -> Row]
      <3>1. \A f \in Event : event[f] \in Row
        BY DEF TypeOK, Row
      <3>2. \A f \in Event : event'[f] \in Row
        BY <3>1, ZenonT(60) DEF TypeOK, EventOK, TaskOK, Row, EventStatus, Task
      <3>3. event' = [f \in Event |-> event'[f]]
        BY DEF TypeOK
      <3>4. QED
        BY <3>2, <3>3
    <2>2. task' \in [Worker -> [Event -> Task \cup {None}]]
      BY DEF TypeOK, EventOK, TaskOK, Task, Kind
    <2>3. scan' \in [Worker -> Scan \cup {None}]
      BY DEF TypeOK, Scan
    <2>4. QED
      BY <2>1, <2>2, <2>3 DEF TypeOK, Row
  <1>2. BookOK' /\ LatestOK' /\ ScanOK'
    <2>1. \A f \in Event : /\ event'[f].book = event[f].book /\ event'[f].version = event[f].version
                          /\ event'[f].kind = event[f].kind
      BY DEF TypeOK
    <2>2. QED
      BY <2>1 DEF TypeOK, BookOK, LatestOK, Newest, ScanOK, Scan
  <1>3. EventOK'
    BY DEF TypeOK, EventOK, TaskOK, Task
  <1>4. TaskOK'
    BY DEF TypeOK, EventOK, TaskOK, At, Content, Task, Kind, Version
  <1>5. AloneOK' /\ FreshOK'
    <2>1. ASSUME NEW c \in Book, NEW v \in Worker, NEW f \in Event, Reads(v, f, c)'
          PROVE  Reads(v, f, c) /\ task'[v][f].doc = task[v][f].doc
      BY <2>1 DEF Reads, At, TypeOK, EventOK, TaskOK, Kind, Task
    <2>2. ASSUME NEW c \in Book, NEW v \in Worker, Scans(v, c)'
          PROVE  Scans(v, c) /\ scan'[v].docs[c] = scan[v].docs[c]
      BY <2>2 DEF Scans, TypeOK, Scan
    <2>3. ASSUME NEW f \in Event, event'[f].kind # "ignored", Finished(f)'
          PROVE  /\ event'[f].book = event[f].book /\ event'[f].version = event[f].version
                 /\ event[f].kind # "ignored" /\ Finished(f)
      BY <2>3 DEF Finished, At, TypeOK, EventOK, TaskOK, Kind, Task
    <2>4. QED
      BY <2>1, <2>2, <2>3, ReadersKept, AsNewKept
  <1>6. ProcessedIsApplied'
    BY DEF TypeOK, EventOK, TaskOK, ProcessedIsApplied, Task
  <1>7. QED
    BY <1>1, <1>2, <1>3, <1>4, <1>5, <1>6


\* Heartbeat preserves the invariant.
LEMMA HeartbeatIInv ==
  ASSUME IInv, NEW w \in Worker, NEW e \in Event, Heartbeat(w, e)
  PROVE  IInv'
  <1> USE Constants DEF Heartbeat, Running, Holder, bounds, IInv
  <1>1. TypeOK'
    <2>1. event' \in [Event -> Row]
      <3>1. \A f \in Event : event[f] \in Row
        BY DEF TypeOK, Row
      <3>2. \A f \in Event : event'[f] \in Row
        BY <3>1, ZenonT(60) DEF TypeOK, EventOK, TaskOK, Row, EventStatus, Task
      <3>3. event' = [f \in Event |-> event'[f]]
        BY DEF TypeOK
      <3>4. QED
        BY <3>2, <3>3
    <2>2. task' \in [Worker -> [Event -> Task \cup {None}]]
      BY DEF TypeOK, EventOK, TaskOK, Task, Kind
    <2>3. scan' \in [Worker -> Scan \cup {None}]
      BY DEF TypeOK, Scan
    <2>4. QED
      BY <2>1, <2>2, <2>3 DEF TypeOK, Row
  <1>2. BookOK' /\ LatestOK' /\ ScanOK'
    <2>1. \A f \in Event : /\ event'[f].book = event[f].book /\ event'[f].version = event[f].version
                          /\ event'[f].kind = event[f].kind
      BY DEF TypeOK
    <2>2. QED
      BY <2>1 DEF TypeOK, BookOK, LatestOK, Newest, ScanOK, Scan
  <1>3. EventOK'
    BY DEF TypeOK, EventOK, TaskOK, Task
  <1>4. TaskOK'
    BY DEF TypeOK, EventOK, TaskOK, At, Content, Task, Kind, Version
  <1>5. AloneOK' /\ FreshOK'
    <2>1. ASSUME NEW c \in Book, NEW v \in Worker, NEW f \in Event, Reads(v, f, c)'
          PROVE  Reads(v, f, c) /\ task'[v][f].doc = task[v][f].doc
      BY <2>1 DEF Reads, At, TypeOK, EventOK, TaskOK, Kind, Task
    <2>2. ASSUME NEW c \in Book, NEW v \in Worker, Scans(v, c)'
          PROVE  Scans(v, c) /\ scan'[v].docs[c] = scan[v].docs[c]
      BY <2>2 DEF Scans, TypeOK, Scan
    <2>3. ASSUME NEW f \in Event, event'[f].kind # "ignored", Finished(f)'
          PROVE  /\ event'[f].book = event[f].book /\ event'[f].version = event[f].version
                 /\ event[f].kind # "ignored" /\ Finished(f)
      BY <2>3 DEF Finished, At, TypeOK, EventOK, TaskOK, Kind, Task
    <2>4. QED
      BY <2>1, <2>2, <2>3, ReadersKept, AsNewKept
  <1>6. ProcessedIsApplied'
    BY DEF TypeOK, EventOK, TaskOK, ProcessedIsApplied, Task
  <1>7. QED
    BY <1>1, <1>2, <1>3, <1>4, <1>5, <1>6


\* Crash preserves the invariant.
LEMMA CrashIInv ==
  ASSUME IInv, NEW w \in Worker, Crash(w)
  PROVE  IInv'
  <1> USE Constants DEF Crash, bounds, IInv
  <1>1. TypeOK'
    <2>1. event' \in [Event -> Row]
      <3>1. \A f \in Event : event[f] \in Row
        BY DEF TypeOK, Row
      <3>2. \A f \in Event : event'[f] \in Row
        BY <3>1 DEF TypeOK, EventOK, TaskOK, Row, EventStatus, Task
      <3>3. event' = [f \in Event |-> event'[f]]
        BY DEF TypeOK
      <3>4. QED
        BY <3>2, <3>3
    <2>2. task' \in [Worker -> [Event -> Task \cup {None}]]
      BY DEF TypeOK, EventOK, TaskOK, Task, Kind
    <2>3. scan' \in [Worker -> Scan \cup {None}]
      BY DEF TypeOK, Scan
    <2>4. QED
      BY <2>1, <2>2, <2>3 DEF TypeOK, Row
  <1>2. BookOK' /\ LatestOK' /\ ScanOK'
    <2>1. \A f \in Event : /\ event'[f].book = event[f].book /\ event'[f].version = event[f].version
                          /\ event'[f].kind = event[f].kind
      BY DEF TypeOK
    <2>2. QED
      BY <2>1 DEF TypeOK, BookOK, LatestOK, Newest, ScanOK, Scan
  <1>3. EventOK'
    BY DEF TypeOK, EventOK, TaskOK, Task
  <1>4. TaskOK'
    BY DEF TypeOK, EventOK, TaskOK, At, Content, Task, Kind, Version
  <1>5. AloneOK' /\ FreshOK'
    <2>1. ASSUME NEW c \in Book, NEW v \in Worker, NEW f \in Event, Reads(v, f, c)'
          PROVE  Reads(v, f, c) /\ task'[v][f].doc = task[v][f].doc
      BY <2>1 DEF Reads, At, TypeOK, EventOK, TaskOK, Kind, Task
    <2>2. ASSUME NEW c \in Book, NEW v \in Worker, Scans(v, c)'
          PROVE  Scans(v, c) /\ scan'[v].docs[c] = scan[v].docs[c]
      BY <2>2 DEF Scans, TypeOK, Scan
    <2>3. ASSUME NEW f \in Event, event'[f].kind # "ignored", Finished(f)'
          PROVE  /\ event'[f].book = event[f].book /\ event'[f].version = event[f].version
                 /\ event[f].kind # "ignored" /\ Finished(f)
      BY <2>3 DEF Finished, At, TypeOK, EventOK, TaskOK, Kind, Task
    <2>4. QED
      BY <2>1, <2>2, <2>3, ReadersKept, AsNewKept
  <1>6. ProcessedIsApplied'
    BY DEF TypeOK, EventOK, TaskOK, ProcessedIsApplied, Task
  <1>7. QED
    BY <1>1, <1>2, <1>3, <1>4, <1>5, <1>6


\* What a change to version n of b writes to the outbox: rows, or nothing at all.
Written(b, n, sync, other) ==
  \/ Announce(b, n, sync, other) /\ sync \cup other # {}
  \/ Unannounced(b) /\ sync \cup other = {} /\ book'[b].state = "EXISTS"

\* A change of book b: only its rows are new, and they are announced later than
\* every read of the book.
LEMMA ChangeIInv ==
  ASSUME IInv, NEW b \in Book, NEW n \in Version, NEW sync \in SUBSET Event, NEW other \in SUBSET Event,
         n = book[b].version + 1, Written(b, n, sync, other),
         book' \in [Book -> [state : BookState, version : Version, published : BOOLEAN]],
         \A c \in Book : c # b => book'[c] = book[c],
         book'[b].version = n, book'[b].state \in {"EXISTS", "GONE"},
         other # {} => book'[b].state = "GONE", book[b].state # "GONE",
         UNCHANGED <<index, task, scan, applied, overlap, bounds>>
  PROVE  IInv'
  <1> DEFINE rows == sync \cup other
  <1> USE Constants DEF IInv
  <1>1. /\ \A f \in Event : f \in rows =>
             event'[f] = [NoRow EXCEPT !.book = b, !.version = n, !.status = "PENDING",
                                       !.kind = IF f \in sync THEN "sync" ELSE "delete"]
        /\ event' = [f \in Event |-> event'[f]]
    BY DEF Written, Announce, Unannounced, TypeOK
  <1>2. /\ \A f \in Event : f \notin rows => event'[f] = event[f]
        /\ \A f \in Event : f \in rows => event[f].status = "ABSENT"
    BY DEF Written, Announce, Unannounced
  <1>3. \A f \in Event : f \in rows =>
             /\ event'[f] \in Row /\ event'[f].book = b /\ event'[f].version = n
             /\ event'[f].status = "PENDING" /\ event'[f].attempts = 0
             /\ event'[f].kind = IF f \in sync THEN "sync" ELSE "delete"
    <2>1. SUFFICES ASSUME NEW f \in Event, f \in rows
                   PROVE  /\ event'[f] \in Row /\ event'[f].book = b /\ event'[f].version = n
                          /\ event'[f].status = "PENDING" /\ event'[f].attempts = 0
                          /\ event'[f].kind = IF f \in sync THEN "sync" ELSE "delete"
      OBVIOUS
    <2>2. event'[f] = [NoRow EXCEPT !.book = b, !.version = n, !.status = "PENDING",
                                    !.kind = IF f \in sync THEN "sync" ELSE "delete"]
      BY <1>1, <2>1
    <2>3. QED
      BY <2>2 DEF NoRow, Row, EventStatus, Kind
  <1>4. n >= 1 /\ n > book[b].version /\ book[b].version \in Nat
    BY DEF TypeOK, Version
  <1>5. \A f \in Event : f \in rows => event[f].kind = "ignored" /\ \A v \in Worker : task[v][f] = None
    BY <1>2 DEF EventOK, TaskOK
  <1>6. UNCHANGED <<index, task, scan, applied, overlap, stalls, crashes, scans>>
    BY DEF bounds
  <1>7. \A f \in Event : event[f] \in Row
    BY DEF TypeOK, Row
  <1>8. \A c \in Book : book[c].version \in Nat /\ book[c].version <= book'[c].version
    <2>1. \A c \in Book : book[c].version \in Nat
      BY DEF TypeOK, Version
    <2>2. book[b].version <= book'[b].version
      BY <1>4
    <2>3. \A c \in Book : c # b => book'[c] = book[c]
      OBVIOUS
    <2>4. QED
      BY <2>1, <2>2, <2>3
  <1>9. /\ silent' \in [Book -> BOOLEAN] /\ \A c \in Book : c # b => silent'[c] = silent[c]
        /\ ~silent'[b] => \E f \in Event : f \in rows
        /\ silent'[b] => book'[b].state = "EXISTS"
    BY DEF Written, Announce, Unannounced, TypeOK
  <1> HIDE DEF rows
  <1>10. TypeOK'
    <2>1. event' \in [Event -> Row]
      BY <1>1, <1>2, <1>3, <1>7
    <2>2. QED
      BY <1>6, <1>9, <2>1 DEF TypeOK, Row
  <1>11. BookOK' /\ ScanOK'
    BY <1>4, <1>6, <1>9 DEF BookOK, ScanOK
  <1>12. ASSUME NEW f \in Event, f \notin rows, event[f].kind # "ignored"
         PROVE  /\ event'[f] = event[f] /\ event[f].book \in Book /\ event[f].version \in Nat
                /\ event[f].version <= book[event[f].book].version
                /\ event[f].book = b => book[b].state = "EXISTS" /\ event[f].version < n
    <2>1. /\ event'[f] = event[f] /\ event[f].book \in Book /\ event[f].version \in Nat
          /\ event[f].version <= book[event[f].book].version /\ event[f].version # 0
      BY <1>2, <1>7, <1>12 DEF Row, Version, EventOK
    <2>2. ASSUME event[f].book = b
          PROVE  book[b].state = "EXISTS" /\ event[f].version < n
      <3>1. book[b].version >= 1 /\ event[f].version < n
        BY <1>4, <2>1, <2>2
      <3>2. book[b].state \in BookState
        BY DEF TypeOK
      <3>3. QED
        BY <3>1, <3>2 DEF BookOK, BookState
    <2>3. QED
      BY <2>1, <2>2
  <1>13. EventOK'
    <2>1. ASSUME NEW f \in Event, f \in rows
          PROVE  /\ event'[f].version <= book'[event'[f].book].version
                 /\ event'[f].kind # "ignored" /\ event'[f].version # 0
                 /\ event'[f].kind = "delete" => book'[event'[f].book].state = "GONE"
                 /\ event'[f].status # "ABSENT" /\ event'[f].attempts < MaxAttempts
      BY <1>3, <1>4, <2>1 DEF rows
    <2>2. ASSUME NEW f \in Event, f \notin rows
          PROVE  /\ event'[f] = event[f]
                 /\ event[f].version <= book'[event[f].book].version
                 /\ event[f].kind = "delete" => book'[event[f].book].state = "GONE"
      <3>1. event'[f] = event[f] /\ event[f].book \in Book /\ event[f].version \in Nat
        BY <1>2, <1>7, <2>2 DEF Row, Version
      <3>2. event[f].version <= book'[event[f].book].version
        BY <1>8, <3>1 DEF EventOK
      <3>3. event[f].kind = "delete" => book'[event[f].book].state = "GONE"
        BY <3>1 DEF EventOK
      <3>4. QED
        BY <3>1, <3>2, <3>3
    <2>3. QED
      BY <2>1, <2>2 DEF EventOK
  <1>14. LatestOK'
    <2>1. ASSUME NEW c \in Book, book'[c].state # "NONE", ~silent'[c]
          PROVE  \E g \in Event : Newest(g, c)'
      <3>1. CASE c = b
        <4>1. PICK g \in Event : g \in rows
          BY <1>9, <2>1, <3>1
        <4>2. event'[g].book = b /\ event'[g].version = book'[b].version /\ event'[g].kind # "ignored"
          BY <1>3, <4>1
        <4>3. QED
          BY <3>1, <4>2 DEF Newest
      <3>2. CASE c # b
        <4>1. book'[c] = book[c] /\ ~silent[c]
          BY <1>9, <2>1, <3>2
        <4>2. PICK g \in Event : Newest(g, c)
          BY <2>1, <4>1 DEF LatestOK
        <4>3. event'[g] = event[g]
          BY <1>2, <1>5, <4>2 DEF Newest
        <4>4. QED
          BY <4>1, <4>2, <4>3 DEF Newest
      <3>3. QED
        BY <3>1, <3>2
    <2>2. QED
      BY <2>1 DEF LatestOK
  <1>15. TaskOK'
    <2>1. ASSUME NEW v \in Worker, NEW f \in Event, task[v][f] # None
          PROVE  event'[f] = event[f] /\ event[f].book \in Book /\ task[v][f] \in Task
      BY <1>2, <1>5, <1>7, <2>1 DEF Row, TypeOK
    <2>2. ASSUME NEW v \in Worker, NEW f \in Event, task[v][f] # None,
                 At(v, f, "write"), event[f].kind = "sync"
          PROVE  /\ event[f].version <= task[v][f].version
                 /\ task[v][f].version <= book'[event[f].book].version
                 /\ task[v][f].version = book'[event[f].book].version
                      => task[v][f].doc = Content(event[f].book)'
                 /\ book'[event[f].book].state = "EXISTS" => task[v][f].doc = task[v][f].version
      <3>1. /\ event[f].version <= task[v][f].version
            /\ task[v][f].version <= book[event[f].book].version
            /\ task[v][f].version = book[event[f].book].version => task[v][f].doc = Content(event[f].book)
            /\ book[event[f].book].state = "EXISTS" => task[v][f].doc = task[v][f].version
        BY <2>2 DEF TaskOK
      <3>2. CASE event[f].book = b
        <4>1. f \notin rows /\ event[f].kind # "ignored"
          BY <1>5, <2>2
        <4>2. book[b].state = "EXISTS"
          BY <1>12, <3>2, <4>1
        <4>3. QED
          BY <1>4, <2>1, <2>2, <3>1, <3>2, <4>2 DEF Task, Version
      <3>3. CASE event[f].book # b
        BY <2>1, <2>2, <3>1, <3>3 DEF Content
      <3>4. QED
        BY <3>2, <3>3
    <2>3. QED
      BY <1>6, <2>1, <2>2 DEF TaskOK, At
  <1>16. AloneOK' /\ FreshOK'
    <2>1. ASSUME NEW c \in Book, NEW v \in Worker, NEW f \in Event, Reads(v, f, c)'
          PROVE  Reads(v, f, c) /\ task'[v][f].doc = task[v][f].doc
      BY <1>2, <1>5, <1>6, <2>1 DEF Reads, At
    <2>2. ASSUME NEW c \in Book, NEW v \in Worker, Scans(v, c)'
          PROVE  Scans(v, c) /\ scan'[v].docs[c] = scan[v].docs[c]
      BY <1>6, <2>2 DEF Scans
    <2>3. ASSUME NEW f \in Event, event'[f].kind # "ignored", Finished(f)'
          PROVE  /\ event'[f].book = event[f].book /\ event[f].kind # "ignored" /\ Finished(f)
                 /\ \A d : AsNew(f, d) => AsNew(f, d)'
      <3>1. f \notin rows
        BY <1>3, <1>5, <1>6, <2>3 DEF Finished, At
      <3>2. event'[f] = event[f] /\ event[f].kind # "ignored"
        BY <1>2, <2>3, <3>1
      <3>3. \A d : AsNew(f, d) => AsNew(f, d)'
        <4>1. CASE event[f].book = b
          BY <1>12, <3>1, <3>2, <4>1 DEF AsNew
        <4>2. CASE event[f].book # b
          BY <1>12, <3>1, <3>2, <4>2 DEF AsNew, Content
        <4>3. QED
          BY <4>1, <4>2
      <3>4. QED
        BY <1>6, <2>3, <3>2, <3>3 DEF Finished, At
    <2>4. QED
      BY <1>6, <2>1, <2>2, <2>3, ReadersKept
  <1>17. ProcessedIsApplied'
    BY <1>2, <1>3, <1>6 DEF ProcessedIsApplied
  <1>18. QED
    BY <1>10, <1>11, <1>13, <1>14, <1>15, <1>16, <1>17

\* A book is created.
LEMMA CreateBookIInv ==
  ASSUME IInv, NEW b \in Book, NEW published \in BOOLEAN, NEW rows \in SUBSET Event,
         CreateBook(b, published, rows)
  PROVE  IInv'
  <1> USE Constants DEF IInv
  <1>1. book[b].state = "NONE" /\ book[b].version = 0 /\ 1 \in Version
    BY DEF CreateBook, BookOK, Version
  <1>2. [state |-> "EXISTS", version |-> 1, published |-> published]
          \in [state : BookState, version : Version, published : BOOLEAN]
    BY <1>1 DEF BookState
  <1>3. /\ book' = [book EXCEPT ![b] = [state |-> "EXISTS", version |-> 1, published |-> published]]
        /\ UNCHANGED <<index, task, scan, applied, overlap, bounds>>
    BY DEF CreateBook
  <1>4. /\ book' \in [Book -> [state : BookState, version : Version, published : BOOLEAN]]
        /\ \A c \in Book : c # b => book'[c] = book[c]
        /\ book'[b].version = 1 /\ book'[b].state = "EXISTS"
    BY <1>2, <1>3 DEF TypeOK
  <1>5. /\ book'[b].state \in {"EXISTS", "GONE"} /\ book[b].state # "GONE"
        /\ {} # {} => book'[b].state = "GONE"
        /\ 1 = book[b].version + 1 /\ {} \in SUBSET Event
    BY <1>1, <1>4
  <1> HIDE DEF IInv
  <1>6. CASE published
    <2>1. rows # {}
      BY <1>6, FS_EmptySet DEF CreateBook
    <2>2. Written(b, 1, rows, {})
      BY <1>6, <2>1 DEF CreateBook, Written
    <2>3. QED
      BY <1>1, <1>3, <1>4, <1>5, <2>2, ChangeIInv
  <1>7. CASE ~published
    <2>1. Written(b, 1, {}, {})
      BY <1>4, <1>7 DEF CreateBook, Written
    <2>2. QED
      BY <1>1, <1>3, <1>4, <1>5, <2>1, ChangeIInv
  <1>8. QED
    BY <1>6, <1>7

\* An existing book is changed, with or without rows that announce it.
LEMMA ChangeOfBook ==
  ASSUME IInv, NEW b \in Book, NEW published \in BOOLEAN, NEW rows \in SUBSET Event,
         Change(b, published),
         \/ Announce(b, book[b].version + 1, rows, {}) /\ rows # {}
         \/ Unannounced(b) /\ rows = {}
  PROVE  IInv'
  <1> DEFINE n == book[b].version + 1
  <1> USE Constants DEF IInv
  <1>1. book[b].state = "EXISTS" /\ n \in Version /\ book[b] \in [state : BookState, version : Version, published : BOOLEAN]
    BY DEF Change, TypeOK, Version
  <1>2. /\ book' = [book EXCEPT ![b].version = n, ![b].published = published]
        /\ UNCHANGED <<index, task, scan, applied, overlap, bounds>>
    BY DEF Change, TypeOK
  <1>3. n = book[b].version + 1 /\ ((Announce(b, n, rows, {}) /\ rows # {}) \/ (Unannounced(b) /\ rows = {}))
    OBVIOUS
  <1> HIDE DEF n
  <1>4. /\ [book[b] EXCEPT !.version = n, !.published = published]
             \in [state : BookState, version : Version, published : BOOLEAN]
        /\ book' = [book EXCEPT ![b] = [book[b] EXCEPT !.version = n, !.published = published]]
    BY <1>1, <1>2, ZenonT(60) DEF TypeOK
  <1>5. /\ book' \in [Book -> [state : BookState, version : Version, published : BOOLEAN]]
        /\ \A c \in Book : c # b => book'[c] = book[c]
        /\ book'[b].version = n /\ book'[b].state = "EXISTS"
    BY <1>1, <1>4 DEF TypeOK
  <1>6. /\ book'[b].state \in {"EXISTS", "GONE"} /\ book[b].state # "GONE"
        /\ {} # {} => book'[b].state = "GONE"
        /\ {} \in SUBSET Event
    BY <1>1, <1>5
  <1>7. Written(b, n, rows, {})
    BY <1>3, <1>5 DEF Written
  <1> HIDE DEF IInv
  <1>8. QED
    BY <1>1, <1>2, <1>3, <1>5, <1>6, <1>7, ChangeIInv

\* The transactions that change an existing book.
LEMMA ChangesIInv ==
  ASSUME IInv, NEW b \in Book,
         \/ \E published \in BOOLEAN, rows \in SUBSET Event : UpdateBook(b, published, rows)
         \/ \E rows \in SUBSET Event : PublishTarget(b, rows)
         \/ MarkContentStatus(b)
         \/ TouchBook(b)
  PROVE  IInv'
  <1>1. ASSUME NEW published \in BOOLEAN, NEW rows \in SUBSET Event, UpdateBook(b, published, rows)
        PROVE  IInv'
    <2>1. rows # {}
      BY <1>1, FS_EmptySet DEF UpdateBook
    <2>2. QED
      BY <1>1, <2>1, ChangeOfBook DEF UpdateBook
  <1>2. ASSUME NEW rows \in SUBSET Event, PublishTarget(b, rows)
        PROVE  IInv'
    <2>1. CASE book[b].published
      <3>1. Change(b, TRUE) /\ Unannounced(b) /\ {} \in SUBSET Event
        BY <1>2, <2>1 DEF PublishTarget
      <3>2. QED
        BY <3>1, ChangeOfBook
    <2>2. CASE ~book[b].published
      <3>1. rows # {}
        BY <1>2, <2>2, FS_EmptySet DEF PublishTarget
      <3>2. Change(b, TRUE) /\ Announce(b, book[b].version + 1, rows, {})
        BY <1>2, <2>2 DEF PublishTarget
      <3>3. QED
        BY <3>1, <3>2, ChangeOfBook
    <2>3. QED
      BY <2>1, <2>2
  <1>3. ASSUME MarkContentStatus(b) \/ TouchBook(b)
        PROVE  IInv'
    <2>1. book[b].published \in BOOLEAN
      BY DEF IInv, TypeOK
    <2>2. PICK published \in BOOLEAN : Change(b, published) /\ Unannounced(b)
      BY <1>3, <2>1 DEF MarkContentStatus, TouchBook
    <2>3. {} \in SUBSET Event
      OBVIOUS
    <2>4. QED
      BY <2>2, <2>3, ChangeOfBook
  <1>4. QED
    BY <1>1, <1>2, <1>3

\* A book is deleted.
LEMMA DeleteBookIInv ==
  ASSUME IInv, NEW b \in Book, NEW e \in Event, DeleteBook(b, e)
  PROVE  IInv'
  <1> DEFINE n == book[b].version + 1
  <1> USE Constants DEF IInv
  <1>1. book[b].state = "EXISTS" /\ n \in Version
    BY DEF DeleteBook, TypeOK, Version
  <1>2. [state |-> "GONE", version |-> n, published |-> FALSE]
          \in [state : BookState, version : Version, published : BOOLEAN]
    BY <1>1 DEF BookState
  <1>3. /\ book' = [book EXCEPT ![b] = [state |-> "GONE", version |-> n, published |-> FALSE]]
        /\ Announce(b, n, {}, {e})
        /\ UNCHANGED <<index, task, scan, applied, overlap, bounds>>
    BY DEF DeleteBook
  <1>4. /\ book' \in [Book -> [state : BookState, version : Version, published : BOOLEAN]]
        /\ \A c \in Book : c # b => book'[c] = book[c]
        /\ book'[b].version = n /\ book'[b].state = "GONE"
    BY <1>2, <1>3 DEF TypeOK
  <1> HIDE DEF n
  <1>5. n = book[b].version + 1
    BY DEF n
  <1> HIDE DEF IInv
  <1>6. QED
    <2>1. /\ book'[b].state \in {"EXISTS", "GONE"} /\ book[b].state # "GONE"
          /\ {e} # {} => book'[b].state = "GONE"
          /\ Written(b, n, {}, {e})
      BY <1>1, <1>3, <1>4 DEF Written
    <2>2. {} \in SUBSET Event /\ {e} \in SUBSET Event
      OBVIOUS
    <2>3. QED
      BY <1>1, <1>3, <1>4, <1>5, <2>1, <2>2, ChangeIInv

\* The book as it is is as new as each of its events.
LEMMA ContentAsNew ==
  ASSUME IInv, NEW e \in Event
  PROVE  AsNew(e, Content(event[e].book))
  BY DEF IInv, EventOK, AsNew, Content

\* A step of a reader or of a writer: what it has to show of the documents.
LEMMA FreshFrom ==
  ASSUME book' = book, event' = event,
         \A b \in Book, e \in Event :
           event[e].book = b /\ event[e].kind # "ignored" /\ Finished(e)' /\ ~overlap'[b] =>
             /\ AsNew(e, index'[b])
             /\ \A w \in Worker, f \in Event : Reads(w, f, b)' => AsNew(e, task'[w][f].doc)
             /\ \A w \in Worker : Scans(w, b)' => AsNew(e, scan'[w].docs[b])
  PROVE  FreshOK'
  <1>1. ASSUME NEW b \in Book, NEW e \in Event,
               event'[e].book = b, event'[e].kind # "ignored", Finished(e)', ~overlap'[b]
        PROVE  /\ AsNew(e, index[b])'
               /\ \A w \in Worker, f \in Event : Reads(w, f, b)' => AsNew(e, task[w][f].doc)'
               /\ \A w \in Worker : Scans(w, b)' => AsNew(e, scan[w].docs[b])'
    <2>1. /\ AsNew(e, index'[b])
          /\ \A w \in Worker, f \in Event : Reads(w, f, b)' => AsNew(e, task'[w][f].doc)
          /\ \A w \in Worker : Scans(w, b)' => AsNew(e, scan'[w].docs[b])
      BY <1>1
    <2>2. QED
      BY <2>1 DEF AsNew, Content
  <1>2. QED
    BY <1>1 DEF FreshOK

\* ReadBook preserves the invariant: the reader is alone, or the overlap is noted.
LEMMA ReadBookIInv ==
  ASSUME IInv, NEW w \in Worker, NEW e \in Event, ReadBook(w, e),
         NEW b \in Book, b = event[e].book
  PROVE  IInv'
  <1> DEFINE read == [task[w][e] EXCEPT !.step = "write", !.version = book[b].version, !.doc = Content(b)]
  <1> USE Constants DEF IInv
  <1>1. /\ task[w][e] \in Task /\ task[w][e].step = "read" /\ task[w][e] # None
        /\ event[e].status # "ABSENT" /\ task[w][e].attempts < MaxAttempts
        /\ event[e].kind = "sync" /\ b \in Book /\ event[e].version <= book[b].version
    BY DEF ReadBook, At, TypeOK, TaskOK, EventOK
  <1>2. book[b].version \in Version /\ Content(b) \in Version /\ event[e].version \in Version
    BY <1>1 DEF TypeOK, Content
  <1>3. /\ task' = [task EXCEPT ![w][e] = read]
        /\ overlap' = [overlap EXCEPT ![b] = overlap[b] \/ AnotherReads(b, w, e) \/ ScansOf(b) # {}]
        /\ UNCHANGED <<book, event, index, scan, applied, silent, stalls, crashes, scans>>
    BY DEF ReadBook, bounds, TypeOK
  <1>4. /\ read \in Task /\ read.step = "write" /\ read.attempts = task[w][e].attempts
        /\ read.version = book[b].version /\ read.doc = Content(b)
    BY <1>1, <1>2 DEF Task
  <1>5. b = event[e].book
    OBVIOUS
  <1> HIDE DEF read
  <1>6. task'[w][e] = read /\ \A v \in Worker, f \in Event : v # w \/ f # e => task'[v][f] = task[v][f]
    BY <1>3 DEF TypeOK
  <1>7. /\ \A c \in Book : c # b => overlap'[c] = overlap[c]
        /\ ~overlap'[b] => ~overlap[b] /\ ~AnotherReads(b, w, e) /\ ScansOf(b) = {}
    BY <1>1, <1>3 DEF TypeOK
  <1>8. TypeOK'
    <2>1. task' \in [Worker -> [Event -> Task \cup {None}]]
      BY <1>3, <1>4 DEF TypeOK
    <2>2. overlap' \in [Book -> BOOLEAN]
      BY <1>1, <1>3 DEF TypeOK
    <2>3. QED
      BY <1>3, <2>1, <2>2 DEF TypeOK
  <1>9. BookOK' /\ EventOK' /\ LatestOK' /\ ScanOK' /\ ProcessedIsApplied'
    BY <1>3 DEF BookOK, EventOK, LatestOK, Newest, ScanOK, ProcessedIsApplied
  <1>10. TaskOK'
    <2>1. book[b].version <= book[b].version /\ (book[b].state = "EXISTS" => Content(b) = book[b].version)
      BY <1>2 DEF Version, Content
    <2>2. QED
      BY <1>1, <1>3, <1>4, <1>5, <1>6, <2>1 DEF TaskOK, At, Content
  <1>11. ASSUME NEW v \in Worker, NEW f \in Event, NEW c \in Book, Reads(v, f, c)'
         PROVE  (v = w /\ f = e /\ c = b) \/ (Reads(v, f, c) /\ task'[v][f] = task[v][f])
    BY <1>1, <1>3, <1>5, <1>6, <1>11 DEF Reads, At
  <1>12. \A v \in Worker, c \in Book : Scans(v, c)' <=> Scans(v, c)
    BY <1>3 DEF Scans
  <1>13. \A f \in Event : Finished(f)' => Finished(f)
    BY <1>3, <1>4, <1>6 DEF Finished, At
  <1>14. ASSUME ~overlap'[b]
         PROVE  /\ \A v \in Worker, f \in Event : Reads(v, f, b)' => v = w /\ f = e
                /\ \A v \in Worker : ~Scans(v, b)'
    <2>1. \A v \in Worker, f \in Event : v # w \/ f # e => ~Reads(v, f, b)
      BY <1>7, <1>14 DEF AnotherReads
    <2>2. \A v \in Worker : ~Scans(v, b)
      BY <1>1, <1>7, <1>14, NoScan
    <2>3. QED
      BY <1>1, <1>11, <1>12, <2>1, <2>2
  <1>15. AloneOK'
    <2>1. ASSUME NEW c \in Book, ~overlap'[c]
          PROVE  /\ \A v, x \in Worker, g, f \in Event : Reads(v, g, c)' /\ Reads(x, f, c)' => v = x /\ g = f
                 /\ \A v, x \in Worker, g \in Event : ~(Reads(v, g, c)' /\ Scans(x, c)')
                 /\ \A v, x \in Worker : Scans(v, c)' /\ Scans(x, c)' => v = x
      <3>1. CASE c = b
        BY <1>14, <2>1, <3>1
      <3>2. CASE c # b
        BY <1>7, <1>11, <1>12, <2>1, <3>2 DEF AloneOK
      <3>3. QED
        BY <3>1, <3>2
    <2>2. QED
      BY <2>1 DEF AloneOK
  <1>16. FreshOK'
    <2>1. ASSUME NEW c \in Book, NEW g \in Event,
                 event[g].book = c, event[g].kind # "ignored", Finished(g)', ~overlap'[c]
          PROVE  /\ AsNew(g, index'[c])
                 /\ \A v \in Worker, f \in Event : Reads(v, f, c)' => AsNew(g, task'[v][f].doc)
                 /\ \A v \in Worker : Scans(v, c)' => AsNew(g, scan'[v].docs[c])
      <3>1. Finished(g) /\ ~overlap[c]
        BY <1>7, <1>13, <2>1
      <3>2. CASE c = b
        <4>1. AsNew(g, Content(b))
          BY <2>1, <3>2, ContentAsNew
        <4>2. AsNew(g, index'[c])
          BY <1>3, <2>1, <3>1 DEF FreshOK
        <4>3. QED
          BY <1>4, <1>6, <1>14, <2>1, <3>2, <4>1, <4>2
      <3>3. CASE c # b
        BY <1>3, <1>11, <1>12, <2>1, <3>1, <3>3 DEF FreshOK
      <3>4. QED
        BY <3>2, <3>3
    <2>2. QED
      BY <1>3, <2>1, FreshFrom
  <1>17. QED
    BY <1>8, <1>9, <1>10, <1>15, <1>16

\* WriteIndex preserves the invariant: the newest change writes the content.
LEMMA WriteIndexIInv ==
  ASSUME IInv, NEW w \in Worker, NEW e \in Event, WriteIndex(w, e),
         NEW b \in Book, b = event[e].book
  PROVE  IInv'
  <1> DEFINE t == task[w][e]
             sync == event[e].kind = "sync"
             doc == IF sync THEN t.doc ELSE 0
             version == IF sync THEN t.version ELSE event[e].version
  <1> USE Constants DEF IInv
  <1>1. /\ t \in Task /\ t.step = "write" /\ t # None /\ event[e].kind \in {"sync", "delete"} /\ b \in Book
        /\ event[e].status # "ABSENT" /\ t.attempts < MaxAttempts /\ event[e].version \in Version
        /\ event[e].version <= book[b].version /\ book[b].version \in Version
    BY DEF WriteIndex, At, TypeOK, TaskOK, EventOK, Kind
  <1>2. sync => /\ event[e].version <= t.version /\ t.version <= book[b].version
                /\ t.version = book[b].version => t.doc = Content(b)
                /\ book[b].state = "EXISTS" => t.doc = t.version
    BY <1>1 DEF TaskOK, At
  <1>3. doc \in Version /\ version \in Version /\ version >= event[e].version
    BY <1>1, <1>2 DEF Task, Version
  <1>4. AsNew(e, doc)
    <2>1. CASE sync
      BY <1>1, <1>2, <2>1 DEF AsNew, Task, Version
    <2>2. CASE ~sync
      BY <1>1, <2>2 DEF EventOK, AsNew, Content
    <2>3. QED
      BY <2>1, <2>2
  <1>5. /\ task' = [task EXCEPT ![w][e].step = "mark"]
        /\ index' = [index EXCEPT ![b] = doc]
        /\ applied' = [applied EXCEPT ![b] = Max({applied[b], version})]
        /\ overlap' = [overlap EXCEPT ![b] = overlap[b] \/ AnotherReads(b, w, e) \/ ScansOf(b) # {}]
        /\ UNCHANGED <<book, event, scan, silent, stalls, crashes, scans>>
    BY DEF WriteIndex, GoTo, bounds, TypeOK
  <1>6. b = event[e].book /\ t = task[w][e]
    OBVIOUS
  <1> HIDE DEF t, sync, doc, version
  <1>7. Reads(w, e, b) <=> sync
    BY <1>1, <1>6 DEF Reads, At, sync
  <1>8. /\ task'[w][e] = [t EXCEPT !.step = "mark"]
        /\ \A v \in Worker, f \in Event : v # w \/ f # e => task'[v][f] = task[v][f]
    BY <1>5, <1>6 DEF TypeOK
  <1>9. [t EXCEPT !.step = "mark"] \in Task /\ task'[w][e].step = "mark" /\ task'[w][e].attempts = t.attempts
    BY <1>1, <1>8 DEF Task
  <1>10. /\ applied'[b] \in Version /\ applied'[b] >= applied[b] /\ applied'[b] >= version
         /\ applied[b] \in Version
    BY <1>1, <1>3, <1>5, MaxOfTwo DEF TypeOK
  <1>11. \A c \in Book : applied'[c] \in Version /\ applied[c] \in Version /\ applied'[c] >= applied[c]
    <2>1. \A c \in Book : c # b => applied'[c] = applied[c] /\ applied[c] \in Version
      BY <1>5 DEF TypeOK
    <2>2. QED
      BY <1>10, <2>1 DEF Version
  <1>12. applied'[b] >= event[e].version
    BY <1>1, <1>3, <1>10 DEF Version
  <1>13. TypeOK'
    <2>1. task' \in [Worker -> [Event -> Task \cup {None}]]
      BY <1>5, <1>6, <1>9 DEF TypeOK
    <2>2. overlap' \in [Book -> BOOLEAN] /\ index' \in [Book -> Version]
      BY <1>1, <1>3, <1>5 DEF TypeOK
    <2>3. applied' \in [Book -> Version]
      BY <1>5, <1>11 DEF TypeOK
    <2>4. QED
      BY <1>5, <2>1, <2>2, <2>3 DEF TypeOK
  <1>14. BookOK' /\ EventOK' /\ LatestOK' /\ ScanOK'
    BY <1>5 DEF BookOK, EventOK, LatestOK, Newest, ScanOK
  <1>15. \A f \in Event : applied[event[f].book] >= event[f].version => applied'[event[f].book] >= event[f].version
    <2>1. \A f \in Event : event[f].book \in Book /\ event[f].version \in Version
      BY DEF TypeOK
    <2>2. QED
      BY <1>11, <2>1 DEF Version
  <1>16. TaskOK'
    <2>1. \A v \in Worker, f \in Event : v # w \/ f # e => (task'[v][f] # None => task[v][f] # None)
      BY <1>8
    <2>2. ASSUME NEW v \in Worker, NEW f \in Event, v # w \/ f # e, task'[v][f] # None
          PROVE  /\ event'[f].status # "ABSENT" /\ task'[v][f].attempts < MaxAttempts
                 /\ At(v, f, "read")' => event'[f].kind = "sync"
                 /\ At(v, f, "write")' => event'[f].kind # "ignored"
                 /\ At(v, f, "mark")' => applied'[event'[f].book] >= event'[f].version
                 /\ At(v, f, "write")' /\ event'[f].kind = "sync" =>
                      /\ event'[f].version <= task'[v][f].version
                      /\ task'[v][f].version <= book'[event'[f].book].version
                      /\ task'[v][f].version = book'[event'[f].book].version
                           => task'[v][f].doc = Content(event[f].book)'
                      /\ book'[event'[f].book].state = "EXISTS" => task'[v][f].doc = task'[v][f].version
      <3>1. task'[v][f] = task[v][f] /\ task[v][f] # None
        BY <1>8, <2>1, <2>2
      <3>2. Content(event[f].book)' = Content(event[f].book)
        BY <1>5 DEF Content
      <3>3. QED
        BY <1>5, <1>15, <3>1, <3>2 DEF TaskOK, At
    <2>3. /\ event'[e].status # "ABSENT" /\ task'[w][e].attempts < MaxAttempts
          /\ applied'[event'[e].book] >= event'[e].version /\ task'[w][e].step = "mark"
      BY <1>1, <1>5, <1>6, <1>9, <1>12
    <2>4. QED
      BY <1>5, <2>2, <2>3, ZenonT(60) DEF TaskOK, At
  <1>17. ProcessedIsApplied'
    BY <1>5, <1>15 DEF ProcessedIsApplied
  <1>18. ASSUME NEW v \in Worker, NEW f \in Event, NEW c \in Book, Reads(v, f, c)'
         PROVE  (v # w \/ f # e) /\ Reads(v, f, c) /\ task'[v][f] = task[v][f]
    BY <1>5, <1>8, <1>9, <1>18 DEF Reads, At
  <1>19. \A v \in Worker, c \in Book : Scans(v, c)' <=> Scans(v, c)
    BY <1>5 DEF Scans
  <1>20. \A c \in Book : c # b => overlap'[c] = overlap[c] /\ index'[c] = index[c]
    BY <1>5 DEF TypeOK
  <1>21. ASSUME ~overlap'[b]
         PROVE  /\ \A v \in Worker, f \in Event : ~Reads(v, f, b)'
                /\ \A v \in Worker : ~Scans(v, b)'
                /\ ~overlap[b]
    <2>1. ~overlap[b] /\ ~AnotherReads(b, w, e) /\ ScansOf(b) = {}
      BY <1>1, <1>5, <1>21 DEF TypeOK
    <2>2. \A v \in Worker, f \in Event : v # w \/ f # e => ~Reads(v, f, b)
      BY <2>1 DEF AnotherReads
    <2>3. \A v \in Worker : ~Scans(v, b)
      BY <1>1, <2>1, NoScan
    <2>4. QED
      BY <1>1, <1>18, <1>19, <2>1, <2>2, <2>3
  <1>22. AloneOK'
    <2>1. ASSUME NEW c \in Book, ~overlap'[c]
          PROVE  /\ \A v, x \in Worker, g, f \in Event : Reads(v, g, c)' /\ Reads(x, f, c)' => v = x /\ g = f
                 /\ \A v, x \in Worker, g \in Event : ~(Reads(v, g, c)' /\ Scans(x, c)')
                 /\ \A v, x \in Worker : Scans(v, c)' /\ Scans(x, c)' => v = x
      <3>1. CASE c = b
        BY <1>21, <2>1, <3>1
      <3>2. CASE c # b
        BY <1>18, <1>19, <1>20, <2>1, <3>2 DEF AloneOK
      <3>3. QED
        BY <3>1, <3>2
    <2>2. QED
      BY <2>1 DEF AloneOK
  <1>23. FreshOK'
    <2>1. ASSUME NEW c \in Book, NEW g \in Event,
                 event[g].book = c, event[g].kind # "ignored", Finished(g)', ~overlap'[c]
          PROVE  /\ AsNew(g, index'[c])
                 /\ \A v \in Worker, f \in Event : Reads(v, f, c)' => AsNew(g, task'[v][f].doc)
                 /\ \A v \in Worker : Scans(v, c)' => AsNew(g, scan'[v].docs[c])
      <3>1. Finished(g) \/ g = e
        BY <1>5, <1>8, <2>1 DEF Finished, At
      <3>2. CASE c = b
        <4>1. index'[c] = doc /\ ~overlap[b]
          BY <1>1, <1>5, <1>21, <2>1, <3>2 DEF TypeOK
        <4>2. CASE g = e
          BY <1>4, <1>21, <2>1, <3>2, <4>1, <4>2
        <4>3. CASE g # e
          <5>1. sync => AsNew(g, doc)
            BY <1>1, <1>6, <1>7, <2>1, <3>1, <3>2, <4>1, <4>3 DEF FreshOK, doc
          <5>2. ~sync => doc = Content(b)
            BY <1>1, <1>6 DEF EventOK, Content, doc, sync
          <5>3. AsNew(g, Content(b))
            BY <2>1, <3>2, ContentAsNew
          <5>4. QED
            BY <1>21, <2>1, <3>2, <4>1, <5>1, <5>2, <5>3
        <4>4. QED
          BY <4>2, <4>3
      <3>3. CASE c # b
        <4>1. Finished(g) /\ ~overlap[c]
          BY <1>6, <1>20, <2>1, <3>1, <3>3
        <4>2. QED
          BY <1>5, <1>18, <1>19, <1>20, <2>1, <3>3, <4>1 DEF FreshOK
      <3>4. QED
        BY <3>2, <3>3
    <2>2. QED
      BY <1>5, <2>1, FreshFrom
  <1>24. QED
    BY <1>13, <1>14, <1>16, <1>17, <1>22, <1>23

\* Nobody is called None, so None leaves no reader out.
LEMMA AnyReader ==
  ASSUME NEW b \in Book
  PROVE  AnotherReads(b, None, None) <=> \E v \in Worker, f \in Event : Reads(v, f, b)
  BY Constants DEF AnotherReads

\* ReadPage preserves the invariant.
LEMMA ReadPageIInv ==
  ASSUME IInv, NEW w \in Worker, ReadPage(w)
  PROVE  IInv'
  <1> USE Constants DEF IInv
  <1> DEFINE page == PageOf(scan[w].cursor)
  <1>1. PICK last \in page :
          /\ scan' = [scan EXCEPT ![w].step = "write", ![w].cursor = last,
                        ![w].docs = [c \in Book |-> IF c \in page THEN Content(c) ELSE 0]]
          /\ overlap' = [c \in Book |->
               overlap[c] \/ (c \in page /\ (AnotherReads(c, None, None) \/ ScansOf(c) # {}))]
    BY DEF ReadPage
  <1>2. page \subseteq Book
    BY DEF PageOf, Existing
  <1> HIDE DEF page
  <1>3. /\ scan[w] \in Scan
        /\ UNCHANGED <<book, event, index, task, applied, silent, stalls, crashes, scans>>
    BY DEF ReadPage, bounds, TypeOK
  <1>4. \A c \in Book : Content(c) \in Version
    BY DEF Content, TypeOK
  <1>5. [c \in Book |-> IF c \in page THEN Content(c) ELSE 0] \in [Book -> Version]
    BY <1>4
  <1>6. last \in 0..NumBooks
    BY <1>2 DEF Book
  <1>7. /\ scan'[w] \in Scan
        /\ scan'[w].step = "write"
        /\ \A c \in Book : scan'[w].docs[c] = IF c \in page THEN Content(c) ELSE 0
        /\ \A v \in Worker : v # w => scan'[v] = scan[v]
    BY <1>1, <1>3, <1>5, <1>6 DEF TypeOK, Scan
  <1>8. TypeOK'
    <2>1. scan' \in [Worker -> Scan \cup {None}]
      BY <1>1, <1>7 DEF TypeOK
    <2>2. overlap' \in [Book -> BOOLEAN]
      BY <1>1 DEF TypeOK
    <2>3. QED
      BY <1>3, <2>1, <2>2 DEF TypeOK
  <1>9. BookOK' /\ EventOK' /\ LatestOK' /\ ProcessedIsApplied'
    BY <1>3 DEF BookOK, EventOK, LatestOK, Newest, ProcessedIsApplied
  <1>10. TaskOK'
    BY <1>3 DEF TaskOK, At, Content
  <1>11. ScanOK'
    BY <1>7 DEF ScanOK
  <1>12. ASSUME NEW c \in Book, ~overlap'[c]
         PROVE  /\ ~overlap[c]
                /\ \A v \in Worker, f \in Event : Reads(v, f, c)' <=> Reads(v, f, c)
                /\ \A v \in Worker : v # w => (Scans(v, c)' <=> Scans(v, c))
                /\ Scans(w, c)' => /\ \A v \in Worker : ~Scans(v, c)
                                   /\ \A v \in Worker, f \in Event : ~Reads(v, f, c)
                                   /\ scan'[w].docs[c] = Content(c)
    <2>1. ~overlap[c] /\ (c \in page => ~AnotherReads(c, None, None) /\ ScansOf(c) = {})
      BY <1>1, <1>12
    <2>2. \A v \in Worker, f \in Event : Reads(v, f, c)' <=> Reads(v, f, c)
      BY <1>3 DEF Reads, At
    <2>3. \A v \in Worker : v # w => (Scans(v, c)' <=> Scans(v, c))
      BY <1>7 DEF Scans
    <2>4. Scans(w, c)' => c \in page /\ scan'[w].docs[c] = Content(c)
      BY <1>7 DEF Scans
    <2>5. c \in page => \A v \in Worker : ~Scans(v, c)
      BY <2>1, NoScan
    <2>6. c \in page => \A v \in Worker, f \in Event : ~Reads(v, f, c)
      BY <2>1, AnyReader
    <2>7. QED
      BY <2>1, <2>2, <2>3, <2>4, <2>5, <2>6
  <1>13. AloneOK'
    <2>1. ASSUME NEW c \in Book, ~overlap'[c]
          PROVE  /\ \A v, x \in Worker, g, f \in Event : Reads(v, g, c)' /\ Reads(x, f, c)' => v = x /\ g = f
                 /\ \A v, x \in Worker, g \in Event : ~(Reads(v, g, c)' /\ Scans(x, c)')
                 /\ \A v, x \in Worker : Scans(v, c)' /\ Scans(x, c)' => v = x
      BY <1>12, <2>1 DEF AloneOK
    <2>2. QED
      BY <2>1 DEF AloneOK
  <1>14. FreshOK'
    <2>1. ASSUME NEW c \in Book, NEW g \in Event,
                 event[g].book = c, event[g].kind # "ignored", Finished(g)', ~overlap'[c]
          PROVE  /\ AsNew(g, index'[c])
                 /\ \A v \in Worker, f \in Event : Reads(v, f, c)' => AsNew(g, task'[v][f].doc)
                 /\ \A v \in Worker : Scans(v, c)' => AsNew(g, scan'[v].docs[c])
      <3>1. Finished(g) /\ ~overlap[c] /\ AsNew(g, Content(c))
        BY <1>3, <1>12, <2>1, ContentAsNew DEF Finished, At
      <3>2. QED
        BY <1>3, <1>7, <1>12, <2>1, <3>1 DEF FreshOK
    <2>2. QED
      BY <1>3, <2>1, FreshFrom
  <1>15. QED
    BY <1>8, <1>9, <1>10, <1>11, <1>13, <1>14

\* WritePage preserves the invariant.
LEMMA WritePageIInv ==
  ASSUME IInv, NEW w \in Worker, WritePage(w)
  PROVE  IInv'
  <1> DEFINE docs == scan[w].docs
             page == {c \in Book : docs[c] # 0}
  <1> USE Constants DEF IInv
  <1>1. /\ scan[w] \in Scan /\ scan[w] # None /\ scan[w].step = "write" /\ docs \in [Book -> Version]
        /\ \A c \in Book : c \in page <=> docs[c] # 0
    BY DEF WritePage, TypeOK, Scan
  <1>2. /\ index' = [c \in Book |-> IF c \in page THEN docs[c] ELSE index[c]]
        /\ applied' = [c \in Book |-> Max({applied[c], docs[c]})]
        /\ overlap' = [c \in Book |->
             overlap[c] \/ (c \in page /\ (AnotherReads(c, None, None) \/ ScansOf(c) # {w}))]
        /\ scan' = [scan EXCEPT ![w].step = "read", ![w].docs = [c \in Book |-> 0]]
        /\ UNCHANGED <<book, event, task, silent, stalls, crashes, scans>>
    BY DEF WritePage, bounds
  <1>3. docs = scan[w].docs
    OBVIOUS
  <1> HIDE DEF docs, page
  <1>4. \A c \in Book : applied'[c] \in Version /\ applied'[c] >= applied[c] /\ applied[c] \in Version
    BY <1>1, <1>2, MaxOfTwo DEF TypeOK
  <1>5. [c \in Book |-> 0] \in [Book -> Version]
    OBVIOUS
  <1>6. /\ scan'[w] \in Scan /\ scan'[w].step = "read" /\ \A c \in Book : scan'[w].docs[c] = 0
        /\ \A v \in Worker : v # w => scan'[v] = scan[v]
    BY <1>1, <1>2, <1>5 DEF TypeOK, Scan
  <1>7. TypeOK'
    <2>1. scan' \in [Worker -> Scan \cup {None}]
      BY <1>2, <1>6 DEF TypeOK
    <2>2. index' \in [Book -> Version] /\ overlap' \in [Book -> BOOLEAN]
      BY <1>1, <1>2 DEF TypeOK
    <2>3. applied' \in [Book -> Version]
      BY <1>2, <1>4
    <2>4. QED
      BY <1>2, <2>1, <2>2, <2>3 DEF TypeOK
  <1>8. BookOK' /\ EventOK' /\ LatestOK'
    BY <1>2 DEF BookOK, EventOK, LatestOK, Newest
  <1>9. \A f \in Event : applied[event[f].book] >= event[f].version => applied'[event[f].book] >= event[f].version
    <2>1. \A f \in Event : event[f].book \in Book /\ event[f].version \in Version
      BY DEF TypeOK
    <2>2. QED
      BY <1>4, <2>1 DEF Version
  <1>10. TaskOK'
    BY <1>2, <1>9, ZenonT(60) DEF TaskOK, At, Content
  <1>11. ScanOK'
    BY <1>6 DEF ScanOK
  <1>12. ProcessedIsApplied'
    BY <1>2, <1>9 DEF ProcessedIsApplied
  <1>13. \A v \in Worker, f \in Event, c \in Book : Reads(v, f, c)' <=> Reads(v, f, c)
    <2>1. event' = event /\ task' = task
      BY <1>2
    <2> HIDE DEF IInv
    <2>2. QED
      BY <2>1 DEF Reads, At
  <1>14. \A v \in Worker, c \in Book : Scans(v, c)' => v # w /\ Scans(v, c) /\ scan'[v] = scan[v]
    BY <1>6 DEF Scans
  <1>15. ASSUME NEW c \in Book, ~overlap'[c]
         PROVE  /\ ~overlap[c]
                /\ c \in page => /\ \A v \in Worker, f \in Event : ~Reads(v, f, c)
                                 /\ \A v \in Worker : Scans(v, c) => v = w
    <2>1. ~overlap[c] /\ (c \in page => ~AnotherReads(c, None, None) /\ ScansOf(c) = {w})
      BY <1>2, <1>15
    <2>2. QED
      BY <2>1, NoScan, AnyReader
  <1>16. AloneOK'
    BY <1>13, <1>14, <1>15 DEF AloneOK
  <1>17. FreshOK'
    <2>1. ASSUME NEW c \in Book, NEW g \in Event,
                 event[g].book = c, event[g].kind # "ignored", Finished(g)', ~overlap'[c]
          PROVE  /\ AsNew(g, index'[c])
                 /\ \A v \in Worker, f \in Event : Reads(v, f, c)' => AsNew(g, task'[v][f].doc)
                 /\ \A v \in Worker : Scans(v, c)' => AsNew(g, scan'[v].docs[c])
      <3>1. Finished(g) /\ ~overlap[c]
        BY <1>2, <1>15, <2>1 DEF Finished, At
      <3>2. AsNew(g, index'[c])
        <4>1. CASE c \in page
          BY <1>1, <1>2, <1>3, <2>1, <3>1, <4>1 DEF FreshOK, Scans
        <4>2. CASE c \notin page
          BY <1>2, <2>1, <3>1, <4>2 DEF FreshOK
        <4>3. QED
          BY <4>1, <4>2
      <3>3. QED
        BY <1>2, <1>13, <1>14, <2>1, <3>1, <3>2 DEF FreshOK
    <2>2. QED
      BY <1>2, <2>1, FreshFrom
  <1>18. QED
    BY <1>7, <1>8, <1>10, <1>11, <1>12, <1>16, <1>17

\* Every step preserves the invariant.
LEMMA NextIInv == IInv /\ [Next]_vars => IInv'
  <1> SUFFICES ASSUME IInv, [Next]_vars PROVE IInv'
    OBVIOUS
  <1>1. ASSUME NEW b \in Book, NEW published \in BOOLEAN, NEW rows \in SUBSET Event,
               \/ CreateBook(b, published, rows) \/ UpdateBook(b, published, rows)
               \/ PublishTarget(b, rows) \/ MarkContentStatus(b) \/ TouchBook(b)
        PROVE  IInv'
    BY <1>1, CreateBookIInv, ChangesIInv
  <1>2. ASSUME NEW b \in Book, NEW e \in Event, DeleteBook(b, e)
        PROVE  IInv'
    BY <1>2, DeleteBookIInv
  <1>3. ASSUME NEW e \in Event, CreateIgnored(e) \/ ExpireLease(e)
        PROVE  IInv'
    BY <1>3, CreateIgnoredIInv, ExpireLeaseIInv
  <1>4. ASSUME NEW w \in Worker, NEW batch \in SUBSET Event, Claim(w, batch)
        PROVE  IInv'
    BY <1>4, ClaimIInv
  <1>5. ASSUME NEW w \in Worker, NEW e \in Event, Process(w, e) \/ HandlerFails(w, e) \/ Heartbeat(w, e)
        PROVE  IInv'
    <2>1. event[e].book \in Book
      BY DEF IInv, TypeOK
    <2>2. CASE ReadBook(w, e)
      BY <2>1, <2>2, ReadBookIInv
    <2>3. CASE WriteIndex(w, e)
      BY <2>1, <2>3, WriteIndexIInv
    <2>4. QED
      BY <1>5, <2>2, <2>3, StartIInv, MarkProcessedIInv, RecordFailureIInv, HandlerFailsIInv,
         HeartbeatIInv DEF Process
  <1>6. ASSUME NEW w \in Worker, Synchronize(w) \/ Crash(w)
        PROVE  IInv'
    BY <1>6, StartScanIInv, ReadPageIInv, WritePageIInv, EndScanIInv, ScanFailsIInv, CrashIInv
       DEF Synchronize
  <1>7. CASE UNCHANGED vars
    BY <1>7 DEF vars, IInv, TypeOK, BookOK, EventOK, LatestOK, TaskOK, ScanOK, AloneOK, FreshOK,
                ProcessedIsApplied, Newest, Finished, AsNew, Reads, Scans, At, Content, bounds
  <1>8. QED
    BY <1>1, <1>2, <1>3, <1>4, <1>5, <1>6, <1>7 DEF Next, Write

\* The invariant holds in every reachable state.
LEMMA Invariance == Spec => []IInv
  <1>1. Init => IInv
    BY InitIInv
  <1>2. IInv /\ [Next]_vars => IInv'
    BY NextIInv
  <1>3. QED
    BY <1>1, <1>2, PTL DEF Spec

-----------------------------------------------------------------------------
\* The state of the index, of the outbox and of the readers keeps its types.
THEOREM SearchTyped == Spec => []TypeOK
  <1>1. IInv => TypeOK
    BY DEF IInv
  <1>2. QED
    BY <1>1, Invariance, PTL

\* processEvent settles an event only after the index was given a version at least
\* as new as the change, for any number of takeovers, failures and crashes.
THEOREM AppliedWhenProcessed == Spec => []ProcessedIsApplied
  <1>1. IInv => ProcessedIsApplied
    BY DEF IInv
  <1>2. QED
    BY <1>1, Invariance, PTL

\* Events that are claimed in any order, and read the book as it is, leave the
\* document of the last change, as long as two readers of the book never overlap; a
\* change that writes no event (markContentStatus) leaves it behind, though not
\* behind a change that was announced.
THEOREM IndexConverges == Spec => []ConvergesWithoutOverlap
  <1>1. IInv => ConvergesWithoutOverlap
    <2>1. ASSUME IInv, NEW b \in Book, Quiet(b), ~overlap[b], NEW e \in EventsOf(b)
          PROVE  AsNew(e, index[b])
      <3>1. e \in Event /\ event[e].book = b /\ event[e].kind # "ignored"
        BY <2>1 DEF EventsOf
      <3>2. event[e].status = "PROCESSED"
        BY <2>1 DEF Quiet
      <3>3. Finished(e)
        BY <3>2 DEF Finished
      <3>4. QED
        BY <2>1, <3>1, <3>3 DEF IInv, FreshOK
    <2>2. ASSUME IInv, NEW b \in Book, Quiet(b), ~overlap[b], ~silent[b]
          PROVE  index[b] = Content(b)
      <3>1. PICK e \in Event : event[e].book = b /\ event[e].kind # "ignored"
        BY <2>2 DEF Quiet, EventsOf
      <3>2. book[b].state # "NONE"
        <4>1. event[e].version \in Nat /\ event[e].version # 0 /\ event[e].version <= book[b].version
          BY <2>2, <3>1 DEF IInv, TypeOK, EventOK, Version
        <4>2. QED
          BY <2>2, <4>1 DEF IInv, BookOK
      <3>3. PICK f \in Event : Newest(f, b)
        BY <2>2, <3>2 DEF IInv, LatestOK
      <3>4. AsNew(f, index[b])
        BY <2>1, <2>2, <3>3 DEF Newest, EventsOf
      <3>5. QED
        BY <3>3, <3>4 DEF Newest, AsNew
    <2>3. ASSUME IInv, NEW b \in Book, Quiet(b), ~overlap[b], silent[b], NEW e \in EventsOf(b)
          PROVE  index[b] >= event[e].version
      <3>1. AsNew(e, index[b]) /\ book[b].state = "EXISTS" /\ event[e].book = b
        BY <2>1, <2>3 DEF IInv, BookOK, EventsOf
      <3>2. QED
        BY <3>1 DEF AsNew
    <2>4. QED
      BY <2>2, <2>3 DEF ConvergesWithoutOverlap
  <1>2. QED
    BY <1>1, Invariance, PTL

\* A step of a process that lost its lease does not reopen an event another process
\* settled: the final updates ask for the holder.
THEOREM SettledStaysSettled == Spec => SettledIsFinal
  <1> DEFINE Kept == \A e \in Event : event[e].status \in {"PROCESSED", "DEAD_LETTER"}
                                        => event'[e].status = event[e].status
  <1>1. ASSUME IInv, [Next]_vars
        PROVE  Kept
    <2>1. event \in [Event -> Row]
      BY <1>1 DEF IInv, TypeOK, Row
    <2>2. CASE UNCHANGED event
      BY <2>2
    <2>3. ASSUME NEW b \in Book, NEW n, NEW sync \in SUBSET Event, NEW other \in SUBSET Event,
                 Announce(b, n, sync, other)
          PROVE  Kept
      BY <2>3 DEF Announce
    <2>4. ASSUME NEW b \in Book, NEW published \in BOOLEAN, NEW rows \in SUBSET Event,
                 \/ CreateBook(b, published, rows) \/ UpdateBook(b, published, rows)
                 \/ PublishTarget(b, rows) \/ MarkContentStatus(b) \/ TouchBook(b)
          PROVE  Kept
      <3>1. Announce(b, 1, rows, {}) \/ Announce(b, book[b].version + 1, rows, {}) \/ Unannounced(b)
        BY <2>4 DEF CreateBook, UpdateBook, PublishTarget, MarkContentStatus, TouchBook
      <3>2. QED
        BY <2>2, <2>3, <3>1 DEF Unannounced
    <2>5. ASSUME NEW b \in Book, NEW e \in Event, DeleteBook(b, e)
          PROVE  Kept
      <3>1. Announce(b, book[b].version + 1, {}, {e})
        BY <2>5 DEF DeleteBook
      <3>2. QED
        BY <2>3, <3>1
    <2>6. ASSUME NEW e \in Event, CreateIgnored(e)
          PROVE  Kept
      BY <2>1, <2>6 DEF CreateIgnored, Row
    <2>7. ASSUME NEW w \in Worker, NEW batch \in SUBSET Event, Claim(w, batch)
          PROVE  Kept
      BY <2>1, <2>7 DEF Claim, Claimable
    <2>8. ASSUME NEW w \in Worker, NEW e \in Event,
                 MarkProcessed(w, e) \/ RecordFailure(w, e) \/ Heartbeat(w, e)
          PROVE  Kept
      BY <2>1, <2>8 DEF MarkProcessed, RecordFailure, Heartbeat, Holder, Row
    <2>9. ASSUME NEW e \in Event, ExpireLease(e)
          PROVE  Kept
      BY <2>1, <2>9 DEF ExpireLease, Row
    <2>10. ASSUME NEW w \in Worker, NEW e \in Event,
                  Start(w, e) \/ ReadBook(w, e) \/ WriteIndex(w, e) \/ HandlerFails(w, e)
           PROVE  UNCHANGED event
      BY <2>10 DEF Start, ReadBook, WriteIndex, HandlerFails
    <2>11. ASSUME NEW w \in Worker, Synchronize(w) \/ Crash(w)
           PROVE  UNCHANGED event
      BY <2>11 DEF Synchronize, StartScan, ReadPage, WritePage, EndScan, ScanFails, Crash
    <2>12. CASE UNCHANGED vars
      BY <2>2, <2>12 DEF vars
    <2> HIDE DEF Kept
    <2>13. QED
      BY <1>1, <2>2, <2>4, <2>7, <2>8, <2>9, <2>5, <2>6, <2>10, <2>11, <2>12 DEF Next, Write, Process
  <1>2. QED
    BY <1>1, Invariance, PTL DEF Spec, SettledIsFinal
=============================================================================
