------------------------------ MODULE BookCounters ------------------------------
(***************************************************************************)
(* The numbers kept beside the rows they count: Book.chapterCount, which   *)
(* the chapter handlers (chapters.service.ts) and publishTarget            *)
(* (scheduled-publishing.service.ts) adjust and a BullMQ job recounts once *)
(* a day (book-chapter-count-sync.service.ts), the rating of a book, and   *)
(* Contributor.bookCount (books.service.ts).  A handler reads a row,       *)
(* decides, and writes in a later transaction, which is one step: only     *)
(* rateBook holds a row lock over several statements.                      *)
(***************************************************************************)
EXTENDS Integers, FiniteSets, FiniteSetsExt

CONSTANTS NumBooks,    \* books are numbered by their id
          Chapter,
          BookOf,      \* the book of a chapter
          Rater,       \* users who rate
          MaxRating,
          Request,     \* requests, and schedules of a chapter, each made once
          Nothing,
          BatchSize,   \* BOOK_CHAPTER_COUNT_SYNC_BATCH_SIZE
          MaxAttempts, \* BOOK_CHAPTER_COUNT_SYNC_ATTEMPTS
          MaxStalls,   \* stalls BullMQ forgives a job (maxStalledCount)
          MaxDrift     \* model bound: how far counts are off to begin with

Book == 1..NumBooks
Rating == 0..MaxRating   \* 0: not rated
Shown == {"DRAFT", "SCHEDULED", "PUBLISHED"}

ASSUME CounterAssumption ==
  /\ {NumBooks, BatchSize, MaxAttempts, MaxRating} \subseteq Nat \ {0}
  /\ {MaxStalls, MaxDrift} \subseteq Nat
  /\ IsFiniteSet(Chapter) /\ IsFiniteSet(Rater)
  /\ BookOf \in [Chapter -> Book]
  /\ Nothing \notin Request \cup Shown

VARIABLES
  book,    \* Book rows: whether there is one, chapterCount, ratingCount, the sum rated
  made,    \* ids of books given out
  locked,  \* Book row -> the request that holds it FOR UPDATE
  status,  \* publishStatus of a chapter; ABSENT and DELETED without its row
  rated,   \* BookRating rows
  written, \* BookContributor: the books of one contributor
  credit,  \* Contributor.bookCount of that contributor
  op,      \* what each request is doing, and what it has read
  job,     \* the recount
  drift,   \* history: books whose chapterCount a known cause has put wrong
  miscredited, \* history: the same of credit
  covered, \* history: books the recount has recounted
  owed     \* history: books there were when the recount was requested

rows == <<book, made, locked, status, rated, written, credit>>
history == <<drift, miscredited>>
counterVars == <<rows, op, job, history, covered, owed>>

Live == {b \in Book : book[b].live}
ChaptersOf(b) == {c \in Chapter : BookOf[c] = b}
Published(b) == Cardinality({c \in ChaptersOf(b) : status[c] = "PUBLISHED"})
Free(b) == locked[b] = Nothing

\* What rateBook computes: _count, and _avg, kept as the sum: so many pairs of a
\* rating and a number it reaches.
NoRatings == [ratings |-> 0, sum |-> 0]
Total(ratings) ==
  [ratings |-> Cardinality({u \in Rater : ratings[u] > 0}),
   sum |-> Cardinality({p \in Rater \X (Rating \ {0}) : p[2] <= ratings[p[1]]})]

\* before: what the request has read; stale: history, that has changed since.
NewOp == [at |-> "new", chapter |-> Nothing, book |-> 0, before |-> Nothing, credited |-> FALSE,
          rater |-> Nothing, value |-> 0, total |-> NoRatings, stale |-> FALSE]
\* cursor: in the job's data; pos: cursorId; last: lastBookId; want: the right counts of
\* the books the statement found wrong; touched: history, books changed since it began.
NoWant == [b \in Book |-> Nothing]
NewJob == [at |-> "none", cursor |-> 0, pos |-> 0, last |-> 0, want |-> NoWant, touched |-> {},
           attempts |-> MaxAttempts, stalls |-> 0]

CountersInit ==
  /\ status \in [Chapter -> {"ABSENT", "DRAFT", "PUBLISHED"}]
  /\ drift \in SUBSET Book
  /\ made \in Book /\ drift \subseteq 1..made
  /\ \A c \in Chapter : status[c] = "ABSENT" \/ BookOf[c] <= made
  /\ \E off \in (-MaxDrift)..MaxDrift :
       book = [b \in Book |-> [live |-> b <= made, total |-> NoRatings,
                               count |-> Published(b) + (IF b \in drift THEN off ELSE 0)]]
  /\ locked = [b \in Book |-> Nothing]
  /\ rated = [b \in Book |-> [u \in Rater |-> 0]]
  /\ written \in {{}, {1}} /\ credit = Cardinality(written)
  /\ op = [r \in Request |-> NewOp]
  /\ job = NewJob
  /\ miscredited = FALSE /\ covered = {} /\ owed = {}

-----------------------------------------------------------------------------
At(r, at) == op[r].at = at
End(r) == op' = [op EXCEPT ![r] = [NewOp EXCEPT !.at = "done"]]
Begin(r, rec) == At(r, "new") /\ op' = [op EXCEPT ![r] = rec]
OpOnly == UNCHANGED <<rows, job, history, covered, owed>>

\* Requests that have read chapter c read something else by now.
Overtaking(c, r, mine) ==
  op' = [q \in Request |-> IF q = r THEN mine
                           ELSE IF op[q].chapter = c /\ op[q].before # Nothing
                                THEN [op[q] EXCEPT !.stale = TRUE] ELSE op[q]]
Done == [NewOp EXCEPT !.at = "done"]

\* A recount whose statement runs does not see this.
Touch(b) == job' = IF job.at = "write" THEN [job EXCEPT !.touched = @ \cup {b}] ELSE job
SetStatus(c, s) == status' = [status EXCEPT ![c] = s]
Count(b, change) == book' = [book EXCEPT ![b].count = @ + change]
Drifting(b, cause) == drift' = IF cause THEN drift \cup {b} ELSE drift

(***************************************************************************)
(* chapters.service.ts                                                     *)
(***************************************************************************)
CreateChapter(r, c, s) ==
  LET b == BookOf[c] IN
  /\ At(r, "new") /\ status[c] = "ABSENT" /\ book[b].live /\ Free(b)
  /\ SetStatus(c, s)
  /\ Count(b, IF s = "PUBLISHED" THEN 1 ELSE 0)
  /\ Overtaking(c, r, Done) /\ Touch(b)
  /\ UNCHANGED <<made, locked, rated, written, credit, history, covered, owed>>

\* updateChapter and deleteChapter read the chapter first.
ReadChapter(r, c, next) ==
  /\ status[c] \in Shown
  /\ Begin(r, [NewOp EXCEPT !.at = next, !.chapter = c, !.before = status[c]])
  /\ OpOnly

\* chapterCountChange and isPublished
CountChange(before, after) ==
  IF before # "PUBLISHED" /\ after = "PUBLISHED" THEN 1
  ELSE IF before = "PUBLISHED" /\ after # "PUBLISHED" THEN -1 ELSE 0

UpdateChapter(r, s) ==
  LET c == op[r].chapter
      b == BookOf[c]
      change == CountChange(op[r].before, s)
  IN
  /\ At(r, "update") /\ status[c] \in Shown /\ (change = 0 \/ Free(b))
  /\ SetStatus(c, s) /\ Count(b, change)
  /\ Drifting(b, op[r].stale)
  /\ Overtaking(c, r, Done) /\ Touch(b)
  /\ UNCHANGED <<made, locked, rated, written, credit, miscredited, covered, owed>>

DeleteChapter(r) ==
  LET c == op[r].chapter
      b == BookOf[c]
  IN
  /\ At(r, "delete") /\ status[c] \in Shown /\ Free(b)
  /\ SetStatus(c, "DELETED") /\ Count(b, CountChange(op[r].before, "DELETED"))
  /\ Drifting(b, op[r].stale)
  /\ Overtaking(c, r, Done) /\ Touch(b)
  /\ UNCHANGED <<made, locked, rated, written, credit, miscredited, covered, owed>>

(***************************************************************************)
(* scheduled-publishing.service.ts: a schedule of a chapter.  Its status   *)
(* is written without a look at the one it had, or at chapterCount.        *)
(***************************************************************************)
Mark(r, c, s, next) ==
  /\ status[c] \in Shown
  /\ SetStatus(c, s)
  /\ Drifting(BookOf[c], status[c] = "PUBLISHED")
  /\ Overtaking(c, r, next) /\ Touch(BookOf[c])
  /\ UNCHANGED <<book, made, locked, rated, written, credit, miscredited, covered, owed>>

ScheduleChapter(r, c) ==
  At(r, "new") /\ Mark(r, c, "SCHEDULED", [NewOp EXCEPT !.at = "scheduled", !.chapter = c])
CancelSchedule(r) == At(r, "scheduled") /\ Mark(r, op[r].chapter, "DRAFT", Done)

PublishTarget(r) ==
  LET c == op[r].chapter
      b == BookOf[c]
  IN
  /\ At(r, "scheduled") /\ status[c] \in Shown /\ Free(b)
  /\ SetStatus(c, "PUBLISHED") /\ Count(b, 1)
  /\ Drifting(b, status[c] = "PUBLISHED")
  /\ Overtaking(c, r, Done) /\ Touch(b)
  /\ UNCHANGED <<made, locked, rated, written, credit, miscredited, covered, owed>>

(***************************************************************************)
(* books.service.ts                                                        *)
(***************************************************************************)
Credit(before, after) ==
  credit' = credit + (IF after THEN 1 ELSE 0) - (IF before THEN 1 ELSE 0)

CreateBook(r, credited) ==
  LET b == made + 1 IN
  /\ At(r, "new") /\ b \in Book
  /\ made' = b
  /\ book' = [book EXCEPT ![b].live = TRUE]
  /\ written' = IF credited THEN written \cup {b} ELSE written
  /\ Credit(FALSE, credited)
  /\ End(r)
  /\ UNCHANGED <<locked, status, rated, job, history, covered, owed>>

\* update with a list of contributors, and deleteById, read the ones there are.
ReadContributors(r, b, next) ==
  /\ b \in Live
  /\ Begin(r, [NewOp EXCEPT !.at = next, !.book = b, !.credited = b \in written])
  /\ OpOnly

\* Requests that have read the contributors of b read something else by now.
Recrediting(b, r) ==
  op' = [q \in Request |-> IF q = r THEN Done
                           ELSE IF op[q].at \in {"edit", "drop"} /\ op[q].book = b
                                THEN [op[q] EXCEPT !.stale = TRUE] ELSE op[q]]
UpdateBook(r, credited) ==
  LET b == op[r].book IN
  /\ At(r, "edit") /\ b \in Live /\ Free(b)
  /\ written' = IF credited THEN written \cup {b} ELSE written \ {b}
  /\ Credit(op[r].credited, credited)
  /\ miscredited' = (miscredited \/ op[r].stale)
  /\ Recrediting(b, r)
  /\ UNCHANGED <<book, made, locked, status, rated, job, drift, covered, owed>>

\* Mutant: the contributors keep the book in their count.
DeleteBookCredited(r) ==
  LET b == op[r].book IN
  /\ At(r, "drop") /\ b \in Live /\ Free(b)
  /\ \A c \in Chapter : BookOf[c] = b => status[c] \notin Shown
  /\ book' = [book EXCEPT ![b] = [live |-> FALSE, count |-> 0, total |-> NoRatings]]
  /\ rated' = [rated EXCEPT ![b] = [u \in Rater |-> 0]]
  /\ written' = written \ {b}
  /\ miscredited' = (miscredited \/ op[r].stale)
  /\ drift' = drift \ {b}
  /\ Recrediting(b, r) /\ Touch(b)
  /\ UNCHANGED <<made, locked, status, credit, covered, owed>>

\* Ratings and contributions go with the book. Chapters do not (their foreign
\* key is RESTRICT): of a book that has any, the statement fails (Abort).
DeleteBook(r) ==
  LET b == op[r].book IN
  /\ At(r, "drop") /\ b \in Live /\ Free(b)
  /\ \A c \in Chapter : BookOf[c] = b => status[c] \notin Shown
  /\ book' = [book EXCEPT ![b] = [live |-> FALSE, count |-> 0, total |-> NoRatings]]
  /\ rated' = [rated EXCEPT ![b] = [u \in Rater |-> 0]]
  /\ written' = written \ {b}
  /\ Credit(op[r].credited, FALSE)
  /\ miscredited' = (miscredited \/ op[r].stale)
  /\ drift' = drift \ {b}
  /\ Recrediting(b, r) /\ Touch(b)
  /\ UNCHANGED <<made, locked, status, covered, owed>>

\* rateBook: the row is locked, the rating written, all ratings added up.
RateBook(r, b, u, n) ==
  /\ b \in Live /\ n \in Rating \ {0}
  /\ Begin(r, [NewOp EXCEPT !.at = "lock", !.book = b, !.rater = u, !.value = n])
  /\ OpOnly

\* Mutant: SELECT without FOR UPDATE.
LockBookUnlocked(r) ==
  LET b == op[r].book IN
  /\ At(r, "lock") /\ b \in Live
  /\ locked' = [locked EXCEPT ![b] = r]
  /\ op' = [op EXCEPT ![r].at = "aggregate"]
  /\ UNCHANGED <<book, made, status, rated, written, credit, job, history, covered, owed>>

LockBook(r) ==
  LET b == op[r].book IN
  /\ At(r, "lock") /\ b \in Live /\ Free(b)
  /\ locked' = [locked EXCEPT ![b] = r]
  /\ op' = [op EXCEPT ![r].at = "aggregate"]
  /\ UNCHANGED <<book, made, status, rated, written, credit, job, history, covered, owed>>

\* The transaction sees its own rating, and those of others that have committed.
Aggregate(r) ==
  /\ At(r, "aggregate")
  /\ op' = [op EXCEPT ![r].at = "rate",
                      ![r].total = Total([rated[op[r].book] EXCEPT ![op[r].rater] = op[r].value])]
  /\ OpOnly
CommitRating(r) ==
  LET b == op[r].book IN
  /\ At(r, "rate")
  /\ rated' = [rated EXCEPT ![b][op[r].rater] = op[r].value]
  /\ book' = [book EXCEPT ![b].total = op[r].total]
  /\ locked' = [locked EXCEPT ![b] = Nothing]
  /\ End(r)
  /\ UNCHANGED <<made, status, written, credit, job, history, covered, owed>>

\* A statement fails, its row is gone, or a deadlock is broken: nothing of the
\* transaction stays.
Abort(r) ==
  /\ op[r].at \notin {"new", "done"}
  /\ locked' = [b \in Book |-> IF locked[b] = r THEN Nothing ELSE locked[b]]
  /\ End(r)
  /\ UNCHANGED <<book, made, status, rated, written, credit, job, history, covered, owed>>

(***************************************************************************)
(* book-chapter-count-sync.service.ts                                      *)
(***************************************************************************)
JobAt(at) == job.at = at
JobOnly == UNCHANGED <<rows, op, history, covered>>

\* One job a day, by its id.
EnqueueDailySync ==
  /\ JobAt("none")
  /\ job' = [job EXCEPT !.at = "waiting"]
  /\ owed' = Live
  /\ JobOnly

StartSync ==
  /\ JobAt("waiting")
  /\ job' = [job EXCEPT !.at = "next", !.pos = job.cursor]
  /\ UNCHANGED owed /\ JobOnly

\* getNextBatchBookIds: the first ids after the cursor.
Batch == LET after == {b \in Live : b > job.pos}
         IN {b \in after : Cardinality({a \in after : a <= b}) <= BatchSize}

\* Mutant: the job's data is updated before the batch is written.
NextBatchSaving ==
  /\ JobAt("next")
  /\ job' = IF Batch = {} THEN [job EXCEPT !.at = "completed"]
            ELSE [job EXCEPT !.at = "count", !.last = Max(Batch), !.cursor = Max(Batch)]
  /\ UNCHANGED owed /\ JobOnly

NextBatch ==
  /\ JobAt("next")
  /\ job' = IF Batch = {} THEN [job EXCEPT !.at = "completed"]
            ELSE [job EXCEPT !.at = "count", !.last = Max(Batch)]
  /\ UNCHANGED owed /\ JobOnly

\* Mutant: the statement also writes counts that were right.
WrongOrRight == {b \in Live : job.pos < b /\ b <= job.last}

\* reconcileBatch is one statement.  Its snapshot says which counts are wrong and what they
\* should be; it then waits for each row to be free and writes that, whatever has been
\* committed since: PostgreSQL looks at the new row again, not at the chapters.
Wrong == {b \in Live : job.pos < b /\ b <= job.last /\ book[b].count # Published(b)}
CountChapters ==
  /\ JobAt("count")
  /\ job' = [job EXCEPT !.at = "write", !.touched = {},
                        !.want = [b \in Book |-> IF b \in Wrong THEN Published(b) ELSE Nothing]]
  /\ UNCHANGED owed /\ JobOnly
WriteCounts ==
  LET wrong == {b \in Live : job.want[b] # Nothing} IN
  /\ JobAt("write")
  /\ \A b \in wrong : Free(b)
  /\ book' = [b \in Book |-> IF b \in wrong THEN [book[b] EXCEPT !.count = job.want[b]] ELSE book[b]]
  /\ drift' = drift \ (wrong \ job.touched)
  /\ covered' = covered \cup {b \in Book : job.pos < b /\ b <= job.last}
  /\ job' = [job EXCEPT !.at = "save", !.pos = job.last, !.want = NoWant, !.touched = {}]
  /\ UNCHANGED <<made, locked, status, rated, written, credit, op, miscredited, owed>>

\* updateData
SaveCursor ==
  /\ JobAt("save")
  /\ job' = [job EXCEPT !.at = "next", !.cursor = job.pos]
  /\ UNCHANGED owed /\ JobOnly

Recounting == job.at \in {"next", "count", "write", "save"}
Retry(at) == [job EXCEPT !.at = at, !.pos = 0, !.last = 0, !.want = NoWant, !.touched = {}]

\* The database or Redis fails: BullMQ counts an attempt.
FailSync ==
  /\ Recounting
  /\ job' = [Retry(IF job.attempts > 1 THEN "waiting" ELSE "failed") EXCEPT !.attempts = @ - 1]
  /\ UNCHANGED owed /\ JobOnly
\* The server stops: BullMQ gives the job to another worker, so many times.
StallSync ==
  /\ Recounting
  /\ job' = [Retry(IF job.stalls < MaxStalls THEN "waiting" ELSE "failed") EXCEPT !.stalls = @ + 1]
  /\ UNCHANGED owed /\ JobOnly

-----------------------------------------------------------------------------
Start(r) ==
  \/ \E c \in Chapter, s \in Shown : CreateChapter(r, c, s)
  \/ \E c \in Chapter : ReadChapter(r, c, "update") \/ ReadChapter(r, c, "delete") \/ ScheduleChapter(r, c)
  \/ \E b \in Book : ReadContributors(r, b, "edit") \/ ReadContributors(r, b, "drop")
  \/ \E credited \in BOOLEAN : CreateBook(r, credited)
  \/ \E b \in Book, u \in Rater, n \in Rating : RateBook(r, b, u, n)
Continue(r) ==
  \/ (\E s \in Shown : UpdateChapter(r, s)) \/ DeleteChapter(r)
  \/ PublishTarget(r) \/ CancelSchedule(r)
  \/ (\E credited \in BOOLEAN : UpdateBook(r, credited)) \/ DeleteBook(r)
  \/ LockBook(r) \/ Aggregate(r) \/ CommitRating(r)
Recount == StartSync \/ NextBatch \/ CountChapters \/ WriteCounts \/ SaveCursor \/ FailSync

CountersNext ==
  \/ \E r \in Request : Start(r) \/ Continue(r) \/ Abort(r)
  \/ EnqueueDailySync \/ Recount \/ StallSync
CountersSpec == CountersInit /\ [][CountersNext]_counterVars

-----------------------------------------------------------------------------
(***************************************************************************)
(* Properties                                                              *)
(***************************************************************************)
CountersTypeOK ==
  /\ book \in [Book -> [live : BOOLEAN, count : Int, total : [ratings : Nat, sum : Nat]]]
  /\ made \in Book /\ Live \subseteq 1..made
  /\ locked \in [Book -> Request \cup {Nothing}]
  /\ status \in [Chapter -> Shown \cup {"ABSENT", "DELETED"}]
  /\ rated \in [Book -> [Rater -> Rating]]
  /\ written \subseteq Book /\ credit \in Int
  /\ \A b \in Book : locked[b] # Nothing => op[locked[b]].book = b /\ op[locked[b]].at \in {"aggregate", "rate"}
  /\ job.cursor \in 0..NumBooks /\ job.attempts \in 0..MaxAttempts /\ job.stalls \in 0..(MaxStalls + 1)
  /\ drift \subseteq Book /\ covered \subseteq Book /\ owed \subseteq Book

\* chapterCount is the number of published chapters, through all interleavings of the
\* handlers and of the recount, which may write late but only over a count that was
\* wrong.  What puts a count wrong: an update or a deletion of a chapter that changed
\* since it was read (chapters.service.ts:189), a schedule made, cancelled or carried
\* out for a published chapter; a recount of the book mends it, unless a chapter
\* changes while its statement waits.
ChapterCountExact == \A b \in Live \ drift : book[b].count = Published(b)

\* The rating shown is that of all ratings, however many users rate at once.
RatingsExact == \A b \in Live : book[b].total = Total(rated[b])

\* Contributor.bookCount counts its books, unless they changed between the read of
\* update or deleteById and its transaction (books.service.ts:976).
CreditsExact == ~miscredited => credit = Cardinality(written)

\* A recount that completes, after whatever failures and stalls, has recounted every
\* book there was when it was requested and still is: the cursor it resumes from never
\* passes a batch that was not written.
RecountCovers == JobAt("completed") => owed \cap Live \subseteq covered
=============================================================================
