------------------------------ MODULE SearchSync ------------------------------
(***************************************************************************)
(* The search index (search-sync.processor.ts, search.service.ts): most    *)
(* changes of a book write SearchOutboxEvent rows in their transaction; the *)
(* server processes claim them under a lease, read the book as it is now    *)
(* and send the document to Meilisearch, several events at a time.  An     *)
(* admin can also start a full synchronization, which walks over all books.*)
(* Schedules and chapters change indexed columns of a book and write no    *)
(* event of the book.                                                      *)
(***************************************************************************)
EXTENDS Naturals, FiniteSets, FiniteSetsExt

CONSTANTS Event,        \* rows of SearchOutboxEvent
          Worker,       \* server processes
          None,
          NumBooks,     \* books are numbered by their id
          PageSize,     \* batchSize of syncAllDatabaseBooks
          ClaimSize,    \* searchSyncConfig.workerBatchSize
          Concurrency,  \* searchSyncConfig.workerConcurrency
          MaxAttempts,  \* SearchOutboxEvent.maxAttempts
          MaxVersion,   \* model bound: changes of one book
          MaxStalls,    \* model bound: leases that expire under a live worker
          MaxCrashes,   \* model bound: processes that stop
          MaxScans      \* model bound: full synchronizations

ASSUME SearchAssumption ==
  /\ {NumBooks, PageSize, ClaimSize, Concurrency, MaxAttempts} \subseteq Nat \ {0}
  /\ {MaxVersion, MaxStalls, MaxCrashes, MaxScans} \subseteq Nat
  /\ None \notin Worker

Book == 1..NumBooks

VARIABLES
  book,   \* Book rows: state, the number of changes so far, published
  event,  \* SearchOutboxEvent rows
  index,  \* Meilisearch: the version of the document of each book, 0 for none
  task,   \* what each process is doing with each event of its batch
  scan,   \* the full synchronization of each process (fullSyncRunning)
  applied,\* history: the newest version of each book the index was given
  overlap,\* history: a book was read while an earlier read was not yet written
  silent, \* history: the newest change of the book wrote no event
  stalls, crashes, scans

bounds == <<stalls, crashes, scans>>
vars == <<book, event, index, task, scan, applied, overlap, silent, bounds>>

BookState == {"NONE", "EXISTS", "GONE"}
EventStatus == {"ABSENT", "PENDING", "PROCESSING", "PROCESSED", "DEAD_LETTER"}
\* BOOK_PUBLISHED and BOOK_UPDATED; BOOK_DELETED; everything else.
Kind == {"sync", "delete", "ignored"}
Version == 0..MaxVersion

NoRow == [book |-> 1, version |-> 0, kind |-> "ignored", status |-> "ABSENT",
          attempts |-> 0, lockedBy |-> None, stale |-> FALSE]
\* version and doc: the book as it was read, doc = 0 when there was none.
Task == [step : {"queued", "read", "write", "mark", "fail"}, attempts : 0..MaxAttempts,
         version : Version, doc : Version]
\* docs: the page that was read, 0 for the books that are not on it.
Scan == [step : {"read", "write"}, cursor : 0..NumBooks, docs : [Book -> Version]]

Init == /\ book = [b \in Book |-> [state |-> "NONE", version |-> 0, published |-> FALSE]]
        /\ event = [e \in Event |-> NoRow]
        /\ index = [b \in Book |-> 0]
        /\ task = [w \in Worker |-> [e \in Event |-> None]]
        /\ scan = [w \in Worker |-> None]
        /\ applied = [b \in Book |-> 0]
        /\ overlap = [b \in Book |-> FALSE]
        /\ silent = [b \in Book |-> FALSE]
        /\ stalls = 0 /\ crashes = 0 /\ scans = 0

Content(b) == IF book[b].state = "EXISTS" THEN book[b].version ELSE 0
Existing == {b \in Book : book[b].state = "EXISTS"}

At(w, e, step) == task[w][e] # None /\ task[w][e].step = step
GoTo(w, e, step) == task' = [task EXCEPT ![w][e].step = step]
Drop(w, e) == task' = [task EXCEPT ![w][e] = None]
Running(w, e) == task[w][e] # None /\ task[w][e].step # "queued"

\* w has read b for e and not written it yet; somebody else has.
Reads(w, e, b) == At(w, e, "write") /\ event[e].kind = "sync" /\ event[e].book = b
AnotherReads(b, w, e) == \E v \in Worker, f \in Event : (v # w \/ f # e) /\ Reads(v, f, b)
ScansOf(b) == {w \in Worker : scan[w] # None /\ scan[w].step = "write" /\ scan[w].docs[b] # 0}

\* OutboxService.create: rows that announce the change to version n of b.
Announce(b, n, sync, other) ==
  /\ \A e \in sync \cup other : event[e].status = "ABSENT"
  /\ event' = [e \in Event |->
       IF e \in sync \cup other
       THEN [NoRow EXCEPT !.book = b, !.version = n, !.status = "PENDING",
                          !.kind = IF e \in sync THEN "sync" ELSE "delete"]
       ELSE event[e]]
  /\ silent' = [silent EXCEPT ![b] = FALSE]

\* The transaction writes no row for the book.
Unannounced(b) == silent' = [silent EXCEPT ![b] = TRUE] /\ UNCHANGED event

(***************************************************************************)
(* Transactions on books                                                   *)
(***************************************************************************)
\* BooksService.create: a draft is not announced.
CreateBook(b, published, rows) ==
  /\ book[b].state = "NONE" /\ MaxVersion > 0
  /\ Cardinality(rows) = IF published THEN 1 ELSE 0
  /\ book' = [book EXCEPT ![b] = [state |-> "EXISTS", version |-> 1, published |-> published]]
  /\ IF published THEN Announce(b, 1, rows, {}) ELSE Unannounced(b)
  /\ UNCHANGED <<index, task, scan, applied, overlap, bounds>>

\* An update of the row of an existing book.
Change(b, published) ==
  /\ book[b].state = "EXISTS" /\ book[b].version < MaxVersion
  /\ book' = [book EXCEPT ![b].version = @ + 1, ![b].published = published]
  /\ UNCHANGED <<index, task, scan, applied, overlap, bounds>>

\* BooksService.update: BOOK_UPDATED, and BOOK_PUBLISHED when it becomes public.
UpdateBook(b, published, rows) ==
  /\ Change(b, published)
  /\ Cardinality(rows) = IF published /\ ~book[b].published THEN 2 ELSE 1
  /\ Announce(b, book[b].version + 1, rows, {})

\* markContentStatus: a schedule for the book is made or cancelled, its
\* publishStatus becomes SCHEDULED or DRAFT.
MarkContentStatus(b) == Change(b, FALSE) /\ Unannounced(b)

\* publishTarget: BOOK_PUBLISHED, unless the book was public already and only its
\* lastContentUpdate changes.
PublishTarget(b, rows) ==
  /\ Change(b, TRUE)
  /\ Cardinality(rows) = IF book[b].published THEN 0 ELSE 1
  /\ IF book[b].published THEN Unannounced(b) ELSE Announce(b, book[b].version + 1, rows, {})

\* A chapter is created, changed, published or deleted: lastContentUpdate of its
\* book is indexed too, and so are scores (recomputed by a job) and the slugs and state
\* of its type and genres, whose changes write no row either.
TouchBook(b) == Change(b, book[b].published) /\ Unannounced(b)

DeleteBook(b, e) ==
  LET n == book[b].version + 1 IN
  /\ book[b].state = "EXISTS" /\ n <= MaxVersion
  /\ book' = [book EXCEPT ![b] = [state |-> "GONE", version |-> n, published |-> FALSE]]
  /\ Announce(b, n, {}, {e})
  /\ UNCHANGED <<index, task, scan, applied, overlap, bounds>>

\* CHAPTER_PUBLISHED and ADMIN_BROADCAST_REQUESTED get a row here too.
CreateIgnored(e) ==
  /\ event[e].status = "ABSENT"
  /\ event' = [event EXCEPT ![e].status = "PENDING"]
  /\ UNCHANGED <<book, index, task, scan, applied, overlap, silent, bounds>>

(***************************************************************************)
(* tick: claimBatch, then the events of the batch, a few at a time         *)
(***************************************************************************)
Claimable(e) == \/ event[e].status = "PENDING"
                \/ event[e].status = "PROCESSING" /\ event[e].stale

Claim(w, batch) ==
  /\ \A e \in Event : task[w][e] = None
  /\ batch # {} /\ Cardinality(batch) <= ClaimSize
  /\ \A e \in batch : Claimable(e)
  /\ event' = [e \in Event |-> IF e \in batch
                 THEN [event[e] EXCEPT !.status = "PROCESSING", !.lockedBy = w, !.stale = FALSE]
                 ELSE event[e]]
  /\ task' = [task EXCEPT ![w] = [e \in Event |-> IF e \in batch
                THEN [step |-> "queued", attempts |-> event[e].attempts, version |-> 0, doc |-> 0]
                ELSE None]]
  /\ UNCHANGED <<book, index, scan, applied, overlap, silent, bounds>>

\* An event without a handler is ignored, and processed all the same.
Start(w, e) ==
  LET step == [sync |-> "read", delete |-> "write", ignored |-> "mark"] IN
  /\ At(w, e, "queued")
  /\ Cardinality({f \in Event : Running(w, f)}) < Concurrency
  /\ GoTo(w, e, step[event[e].kind])
  /\ UNCHANGED <<book, event, index, scan, applied, overlap, silent, bounds>>

\* Mutant: the document is made from the event, not from the book as it is now.
ReadBookFromEvent(w, e) ==
  LET b == event[e].book IN
  /\ At(w, e, "read")
  /\ task' = [task EXCEPT ![w][e].step = "write", ![w][e].version = event[e].version,
                          ![w][e].doc = event[e].version]
  /\ overlap' = [overlap EXCEPT ![b] = @ \/ AnotherReads(b, w, e) \/ ScansOf(b) # {}]
  /\ UNCHANGED <<book, event, index, scan, applied, silent, bounds>>

\* handleBookSync: the latest state of the book.
ReadBook(w, e) ==
  LET b == event[e].book IN
  /\ At(w, e, "read")
  /\ task' = [task EXCEPT ![w][e].step = "write", ![w][e].version = book[b].version,
                          ![w][e].doc = Content(b)]
  /\ overlap' = [overlap EXCEPT ![b] = @ \/ AnotherReads(b, w, e) \/ ScansOf(b) # {}]
  /\ UNCHANGED <<book, event, index, scan, applied, silent, bounds>>

\* syncBook, or deleteBook when the book is gone.  Meilisearch performs the
\* requests in the order it accepts them.
WriteIndex(w, e) ==
  LET b == event[e].book
      t == task[w][e]
      sync == event[e].kind = "sync"
  IN
  /\ At(w, e, "write")
  /\ index' = [index EXCEPT ![b] = IF sync THEN t.doc ELSE 0]
  /\ applied' = [applied EXCEPT ![b] = Max({@, IF sync THEN t.version ELSE event[e].version})]
  /\ overlap' = [overlap EXCEPT ![b] = @ \/ AnotherReads(b, w, e) \/ ScansOf(b) # {}]
  /\ GoTo(w, e, "mark")
  /\ UNCHANGED <<book, event, scan, silent, bounds>>

\* Mutant: an error of the handler is logged and the event processed.
HandlerFailsSilently(w, e) ==
  /\ Running(w, e) /\ task[w][e].step # "fail"
  /\ GoTo(w, e, "mark")
  /\ UNCHANGED <<book, event, index, scan, applied, overlap, silent, bounds>>

\* The read, the request or the final update throws.
HandlerFails(w, e) ==
  /\ Running(w, e) /\ task[w][e].step # "fail"
  /\ GoTo(w, e, "fail")
  /\ UNCHANGED <<book, event, index, scan, applied, overlap, silent, bounds>>

\* Mutant: the final updates are by id alone.
HolderUnchecked(w, e) == TRUE

\* The final updates only match a row this process still holds.
Holder(w, e) == event[e].status = "PROCESSING" /\ event[e].lockedBy = w

MarkProcessed(w, e) ==
  /\ At(w, e, "mark")
  /\ event' = IF Holder(w, e)
              THEN [event EXCEPT ![e].status = "PROCESSED", ![e].lockedBy = None,
                                 ![e].stale = FALSE]
              ELSE event
  /\ Drop(w, e)
  /\ UNCHANGED <<book, index, scan, applied, overlap, silent, bounds>>

Dead(attempts) == attempts >= MaxAttempts

RecordFailure(w, e) ==
  LET attempts == task[w][e].attempts + 1 IN
  /\ At(w, e, "fail")
  /\ event' = IF Holder(w, e)
              THEN [event EXCEPT ![e].status = IF Dead(attempts) THEN "DEAD_LETTER" ELSE "PENDING",
                                 ![e].attempts = attempts, ![e].lockedBy = None,
                                 ![e].stale = FALSE]
              ELSE event
  /\ Drop(w, e)
  /\ UNCHANGED <<book, index, scan, applied, overlap, silent, bounds>>

(***************************************************************************)
(* startFullSync and syncAllDatabaseBooks                                  *)
(***************************************************************************)
StartScan(w) ==
  /\ scan[w] = None /\ scans < MaxScans
  /\ scans' = scans + 1
  /\ scan' = [scan EXCEPT ![w] = [step |-> "read", cursor |-> 0, docs |-> [b \in Book |-> 0]]]
  /\ UNCHANGED <<book, event, index, task, applied, overlap, silent, stalls, crashes>>

\* findMany with a Prisma cursor: the page starts behind the cursor's row, and is
\* empty when that row is no longer there.
PageOf(cursor) ==
  LET after == {b \in Existing : b > cursor} IN
  IF cursor # 0 /\ cursor \notin Existing THEN {}
  ELSE {b \in after : Cardinality({c \in after : c <= b}) <= PageSize}

ReadPage(w) ==
  LET page == PageOf(scan[w].cursor) IN
  /\ scan[w] # None /\ scan[w].step = "read"
  /\ \E last \in page :
       /\ \A b \in page : b <= last
       /\ scan' = [scan EXCEPT ![w].step = "write", ![w].cursor = last,
                     ![w].docs = [b \in Book |-> IF b \in page THEN Content(b) ELSE 0]]
  /\ overlap' = [b \in Book |->
       overlap[b] \/ (b \in page /\ (AnotherReads(b, None, None) \/ ScansOf(b) # {}))]
  /\ UNCHANGED <<book, event, index, task, applied, silent, bounds>>

WritePage(w) ==
  LET docs == scan[w].docs
      page == {b \in Book : docs[b] # 0}
  IN
  /\ scan[w] # None /\ scan[w].step = "write"
  /\ index' = [b \in Book |-> IF b \in page THEN docs[b] ELSE index[b]]
  /\ applied' = [b \in Book |-> Max({applied[b], docs[b]})]
  /\ overlap' = [b \in Book |->
       overlap[b] \/ (b \in page /\ (AnotherReads(b, None, None) \/ ScansOf(b) # {w}))]
  /\ scan' = [scan EXCEPT ![w].step = "read", ![w].docs = [b \in Book |-> 0]]
  /\ UNCHANGED <<book, event, task, silent, bounds>>

\* An empty page: 'Database synchronization completed.'
EndScan(w) ==
  /\ scan[w] # None /\ scan[w].step = "read"
  /\ PageOf(scan[w].cursor) = {}
  /\ scan' = [scan EXCEPT ![w] = None]
  /\ UNCHANGED <<book, event, index, task, applied, overlap, silent, bounds>>

\* 'Full search synchronization failed': the pages already sent stay.
ScanFails(w) ==
  /\ scan[w] # None
  /\ scan' = [scan EXCEPT ![w] = None]
  /\ UNCHANGED <<book, event, index, task, applied, overlap, silent, bounds>>

(***************************************************************************)
(* Leases and crashes                                                      *)
(***************************************************************************)
\* The holder is gone, or it is stalled, or the event waits for its turn: the
\* heartbeat only starts with processEvent.
ExpireLease(e) ==
  LET abandoned == \A w \in Worker : task[w][e] = None IN
  /\ event[e].status = "PROCESSING" /\ ~event[e].stale
  /\ abandoned \/ stalls < MaxStalls
  /\ event' = [event EXCEPT ![e].stale = TRUE]
  /\ stalls' = IF abandoned THEN stalls ELSE stalls + 1
  /\ UNCHANGED <<book, index, task, scan, applied, overlap, silent, crashes, scans>>

Heartbeat(w, e) ==
  /\ Running(w, e) /\ Holder(w, e) /\ event[e].stale
  /\ event' = [event EXCEPT ![e].stale = FALSE]
  /\ UNCHANGED <<book, index, task, scan, applied, overlap, silent, bounds>>

\* The process stops; another takes its place with an empty batch.
Crash(w) ==
  /\ crashes < MaxCrashes
  /\ scan[w] # None \/ \E e \in Event : task[w][e] # None
  /\ crashes' = crashes + 1
  /\ task' = [task EXCEPT ![w] = [e \in Event |-> None]]
  /\ scan' = [scan EXCEPT ![w] = None]
  /\ UNCHANGED <<book, event, index, applied, overlap, silent, stalls, scans>>

-----------------------------------------------------------------------------
Write ==
  \/ \E b \in Book, published \in BOOLEAN, rows \in SUBSET Event :
       CreateBook(b, published, rows) \/ UpdateBook(b, published, rows)
  \/ \E b \in Book, rows \in SUBSET Event : PublishTarget(b, rows)
  \/ \E b \in Book : MarkContentStatus(b) \/ TouchBook(b)
  \/ \E b \in Book, e \in Event : DeleteBook(b, e)
  \/ \E e \in Event : CreateIgnored(e)

Process(w, e) == Start(w, e) \/ ReadBook(w, e) \/ WriteIndex(w, e)
                 \/ MarkProcessed(w, e) \/ RecordFailure(w, e)

Synchronize(w) == StartScan(w) \/ ReadPage(w) \/ WritePage(w) \/ EndScan(w) \/ ScanFails(w)

Next ==
  \/ Write
  \/ \E w \in Worker, batch \in SUBSET Event : Claim(w, batch)
  \/ \E w \in Worker, e \in Event : Process(w, e) \/ HandlerFails(w, e) \/ Heartbeat(w, e)
  \/ \E e \in Event : ExpireLease(e)
  \/ \E w \in Worker : Synchronize(w) \/ Crash(w)

Spec == Init /\ [][Next]_vars

-----------------------------------------------------------------------------
(***************************************************************************)
(* Properties                                                              *)
(***************************************************************************)
TypeOK ==
  /\ book \in [Book -> [state : BookState, version : Version, published : BOOLEAN]]
  /\ event \in [Event -> [book : Book, version : Version, kind : Kind, status : EventStatus,
                          attempts : 0..MaxAttempts, lockedBy : Worker \cup {None},
                          stale : BOOLEAN]]
  /\ index \in [Book -> Version] /\ applied \in [Book -> Version]
  /\ overlap \in [Book -> BOOLEAN] /\ silent \in [Book -> BOOLEAN]
  /\ task \in [Worker -> [Event -> Task \cup {None}]]
  /\ scan \in [Worker -> Scan \cup {None}]
  /\ stalls \in 0..MaxStalls /\ crashes \in 0..MaxCrashes /\ scans \in 0..MaxScans

\* A PROCESSED event reached the index: a version at least as new as the change it
\* announces was sent, whatever failed, crashed or was taken over before.
ProcessedIsApplied ==
  \A e \in Event : event[e].status = "PROCESSED" => applied[event[e].book] >= event[e].version

\* Nothing of the book is on its way, and every change of it that was announced
\* was processed.
EventsOf(b) == {e \in Event : event[e].book = b /\ event[e].kind # "ignored"}
Quiet(b) ==
  /\ EventsOf(b) # {} /\ \A e \in EventsOf(b) : event[e].status = "PROCESSED"
  /\ \A e \in EventsOf(b), w \in Worker : task[w][e] = None
  /\ ScansOf(b) = {}

\* When its events are processed the document is the book as it is, unless two
\* readers of the book overlapped: order, retries and crashes do no harm.  After a
\* change that writes no event the document may stay behind, though never behind a
\* change that an event announced.
ConvergesWithoutOverlap ==
  \A b \in Book : Quiet(b) /\ ~overlap[b] =>
    IF silent[b] THEN \A e \in EventsOf(b) : index[b] >= event[e].version
                 ELSE index[b] = Content(b)

\* A settled event is not opened again, not even by a process that lost its lease.
SettledIsFinal ==
  [][\A e \in Event : event[e].status \in {"PROCESSED", "DEAD_LETTER"}
                        => event'[e].status = event[e].status]_vars
=============================================================================
