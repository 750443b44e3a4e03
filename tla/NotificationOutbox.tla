-------------------------- MODULE NotificationOutbox --------------------------
(***************************************************************************)
(* The notification outbox (notification-outbox.processor.ts): server      *)
(* processes claim DomainOutboxEvent rows under a lease, write one         *)
(* notification per recipient page by page, and mark the event.  The final *)
(* updates are by id alone, so a worker whose lease another one has taken  *)
(* over still writes the outcome of its own attempt.                       *)
(***************************************************************************)
EXTENDS Naturals, FiniteSets, FiniteSetsExt

CONSTANTS Content,      \* CHAPTER_PUBLISHED and BOOK_PUBLISHED events
          Broadcast,    \* ADMIN_BROADCAST_REQUESTED events, with their broadcast
          Other,        \* events without a handler here (BOOK_UPDATED, ...)
          Worker,       \* server processes
          None,
          NumUsers,     \* users are numbered by their id
          PageSize,     \* notificationConfig.batchSize
          ClaimSize,    \* notificationConfig.workerBatchSize
          Concurrency,  \* notificationConfig.workerConcurrency
          MaxAttempts,  \* DomainOutboxEvent.maxAttempts
          MaxStalls,    \* model bound: leases that expire under a live worker
          MaxCrashes    \* model bound: processes that stop

ASSUME OutboxAssumption ==
  /\ Content \cap Broadcast = {} /\ Other \cap (Content \cup Broadcast) = {}
  /\ {NumUsers, PageSize, ClaimSize, Concurrency, MaxAttempts} \subseteq Nat \ {0}
  /\ {MaxStalls, MaxCrashes} \subseteq Nat
  /\ None \notin Worker

Event == Content \cup Broadcast \cup Other
User == 1..NumUsers

VARIABLES
  event,     \* the rows: status, attempts, lockedBy, and whether lockedAt is
             \* older than the lease
  eligible,  \* users the recipient query returns
  excused,   \* history: users not eligible at some time since the event
  notified,  \* users with a Notification row of the event
  broadcast, \* NotificationBroadcast: status and cursorUserId
  task,      \* what each worker is doing with each event of its batch
  stalls, crashes

vars == <<event, eligible, excused, notified, broadcast, task, stalls, crashes>>

EventStatus == {"ABSENT", "PENDING", "PROCESSING", "PROCESSED", "DEAD_LETTER"}
BroadcastStatus == {"PENDING", "PROCESSING", "COMPLETED", "PARTIALLY_FAILED", "FAILED"}
Step == {"queued", "begin", "read", "insert", "save", "finish", "mark", "fail"}

\* attempts: of the claimed row; page: the recipients read; total and processed:
\* the counts of a broadcast; failed: a page of it was not written.
Task == [step : Step, attempts : Nat, cursor : 0..NumUsers, page : SUBSET User,
         total : Nat, processed : Nat, failed : BOOLEAN]
NewTask(attempts) == [step |-> "queued", attempts |-> attempts, cursor |-> 0, page |-> {},
                      total |-> 0, processed |-> 0, failed |-> FALSE]

Init == /\ event = [e \in Event |-> [status |-> "ABSENT", attempts |-> 0,
                                     lockedBy |-> None, stale |-> FALSE]]
        /\ eligible \in SUBSET User
        /\ excused = [e \in Event |-> {}]
        /\ notified = [e \in Event |-> {}]
        /\ broadcast = [e \in Broadcast |-> [status |-> "PENDING", cursor |-> 0]]
        /\ task = [w \in Worker |-> [e \in Event |-> None]]
        /\ stalls = 0
        /\ crashes = 0

Running(w, e) == task[w][e] # None /\ task[w][e].step # "queued"

\* Mutant: the page skips the user right after the cursor.
PageOfSkipping(cursor) ==
  LET after == {u \in eligible : u > cursor + 1}
  IN {u \in after : Cardinality({v \in after : v <= u}) <= PageSize}

\* findMany: the first eligible users after the cursor.
PageOf(cursor) ==
  LET after == {u \in eligible : u > cursor}
  IN {u \in after : Cardinality({v \in after : v <= u}) <= PageSize}

At(w, e, step) == task[w][e] # None /\ task[w][e].step = step
GoTo(w, e, step) == task' = [task EXCEPT ![w][e].step = step]
Drop(w, e) == task' = [task EXCEPT ![w][e] = None]

(***************************************************************************)
(* The environment: events are written in the transaction of what they     *)
(* announce; users subscribe, unsubscribe, are banned and unbanned.        *)
(***************************************************************************)
CreateEvent(e) ==
  /\ event[e].status = "ABSENT"
  /\ event' = [event EXCEPT ![e].status = "PENDING"]
  /\ excused' = [excused EXCEPT ![e] = User \ eligible]
  /\ UNCHANGED <<eligible, notified, broadcast, task, stalls, crashes>>

ChangeEligibility(u) ==
  /\ eligible' = (eligible \ {u}) \cup ({u} \ eligible)
  /\ excused' = [e \in Event |-> IF event[e].status = "ABSENT" THEN {} ELSE excused[e] \cup {u}]
  /\ UNCHANGED <<event, notified, broadcast, task, stalls, crashes>>

(***************************************************************************)
(* tick: claimBatch, then the events of the batch, a few at a time         *)
(***************************************************************************)
\* Mutant: events of a crashed worker are not claimed again.
ClaimableWhenPending(e) == event[e].status = "PENDING"

Claimable(e) == \/ event[e].status = "PENDING"
                \/ event[e].status = "PROCESSING" /\ event[e].stale

\* The running flag lets a process claim only when its batch is finished; SKIP
\* LOCKED makes two concurrent claims disjoint.
Claim(w, batch) ==
  /\ \A e \in Event : task[w][e] = None
  /\ batch # {} /\ Cardinality(batch) <= ClaimSize
  /\ \A e \in batch : Claimable(e)
  /\ event' = [e \in Event |-> IF e \in batch
                 THEN [event[e] EXCEPT !.status = "PROCESSING", !.lockedBy = w, !.stale = FALSE]
                 ELSE event[e]]
  /\ task' = [task EXCEPT ![w] = [e \in Event |-> IF e \in batch
                                    THEN NewTask(event[e].attempts) ELSE None]]
  /\ UNCHANGED <<eligible, excused, notified, broadcast, stalls, crashes>>

\* processEvent finds the handler; without one the error is permanent.
Start(w, e) ==
  /\ At(w, e, "queued")
  /\ Cardinality({f \in Event : Running(w, f)}) < Concurrency
  /\ GoTo(w, e, CASE e \in Content -> "read" [] e \in Broadcast -> "begin" [] OTHER -> "fail")
  /\ UNCHANGED <<event, eligible, excused, notified, broadcast, stalls, crashes>>

\* handleBroadcast before its loop: resume at the saved cursor.
BeginBroadcast(w, e) ==
  /\ At(w, e, "begin")
  /\ broadcast' = [broadcast EXCEPT ![e].status = "PROCESSING"]
  /\ task' = [task EXCEPT ![w][e].step = "read",
                          ![w][e].cursor = broadcast[e].cursor,
                          ![w][e].total = Cardinality(eligible),
                          ![w][e].processed = Cardinality(notified[e])]
  /\ UNCHANGED <<event, eligible, excused, notified, stalls, crashes>>

ReadPage(w, e) ==
  LET page == PageOf(task[w][e].cursor) IN
  /\ At(w, e, "read")
  /\ task' = [task EXCEPT
       ![w][e].page = page,
       ![w][e].step = IF page # {} THEN "insert" ELSE IF e \in Broadcast THEN "finish" ELSE "mark"]
  /\ UNCHANGED <<event, eligible, excused, notified, broadcast, stalls, crashes>>

\* createMany with skipDuplicates on (recipient, deduplication key).
InsertPage(w, e) ==
  LET page == task[w][e].page IN
  /\ At(w, e, "insert")
  /\ notified' = [notified EXCEPT ![e] = @ \cup page]
  /\ task' = [task EXCEPT ![w][e].step = IF e \in Broadcast THEN "save" ELSE "read",
                          ![w][e].cursor = Max(page)]
  /\ UNCHANGED <<event, eligible, excused, broadcast, stalls, crashes>>

\* Mutant: the cursor moves on although the page was not written.
PageFailsAdvancing(w, e) ==
  /\ e \in Broadcast
  /\ At(w, e, "insert")
  /\ task' = [task EXCEPT ![w][e].step = "save", ![w][e].failed = TRUE,
                          ![w][e].cursor = Max(task[w][e].page)]
  /\ UNCHANGED <<event, eligible, excused, notified, broadcast, stalls, crashes>>

\* A broadcast catches the error of a page, saves its progress and stops.
PageFails(w, e) ==
  /\ e \in Broadcast
  /\ At(w, e, "insert")
  /\ task' = [task EXCEPT ![w][e].step = "save", ![w][e].failed = TRUE]
  /\ UNCHANGED <<event, eligible, excused, notified, broadcast, stalls, crashes>>

SaveProgress(w, e) ==
  /\ At(w, e, "save")
  /\ broadcast' = [broadcast EXCEPT ![e].cursor = task[w][e].cursor]
  /\ task' = [task EXCEPT ![w][e].processed = Cardinality(notified[e]),
                          ![w][e].step = IF task[w][e].failed THEN "finish" ELSE "read"]
  /\ UNCHANGED <<event, eligible, excused, notified, stalls, crashes>>

FinishBroadcast(w, e) ==
  LET t == task[w][e]
      status == IF t.processed >= t.total \/ ~t.failed THEN "COMPLETED"
                ELSE IF t.processed > 0 THEN "PARTIALLY_FAILED" ELSE "FAILED"
  IN
  /\ At(w, e, "finish")
  /\ broadcast' = [broadcast EXCEPT ![e].status = status]
  /\ GoTo(w, e, IF t.failed THEN "fail" ELSE "mark")
  /\ UNCHANGED <<event, eligible, excused, notified, stalls, crashes>>

MarkProcessed(w, e) ==
  /\ At(w, e, "mark")
  /\ event' = [event EXCEPT ![e].status = "PROCESSED", ![e].lockedBy = None, ![e].stale = FALSE]
  /\ Drop(w, e)
  /\ UNCHANGED <<eligible, excused, notified, broadcast, stalls, crashes>>

\* Any statement of the handler may throw; a broadcast catches the error of an
\* insert itself.
HandlerFails(w, e) ==
  /\ Running(w, e) /\ task[w][e].step # "fail"
  /\ ~(e \in Broadcast /\ At(w, e, "insert"))
  /\ GoTo(w, e, "fail")
  /\ UNCHANGED <<event, eligible, excused, notified, broadcast, stalls, crashes>>

\* fail: the number of attempts is the claimed row's plus one.  The backoff of
\* availableAt only delays the next claim.
RecordFailure(w, e) ==
  LET attempts == task[w][e].attempts + 1
      dead == e \in Other \/ attempts >= MaxAttempts
  IN
  /\ At(w, e, "fail")
  /\ event' = [event EXCEPT ![e] = [status |-> IF dead THEN "DEAD_LETTER" ELSE "PENDING",
                                    attempts |-> attempts, lockedBy |-> None, stale |-> FALSE]]
  /\ Drop(w, e)
  /\ UNCHANGED <<eligible, excused, notified, broadcast, stalls, crashes>>

(***************************************************************************)
(* Leases                                                                  *)
(***************************************************************************)
\* The holder is gone, or it is stalled, or the event still waits for its turn:
\* the heartbeat only starts with processEvent.
ExpireLease(e) ==
  LET abandoned == \A w \in Worker : task[w][e] = None IN
  /\ event[e].status = "PROCESSING" /\ ~event[e].stale
  /\ abandoned \/ stalls < MaxStalls
  /\ event' = [event EXCEPT ![e].stale = TRUE]
  /\ stalls' = IF abandoned THEN stalls ELSE stalls + 1
  /\ UNCHANGED <<eligible, excused, notified, broadcast, task, crashes>>

Heartbeat(w, e) ==
  /\ Running(w, e)
  /\ event[e].status = "PROCESSING" /\ event[e].lockedBy = w /\ event[e].stale
  /\ event' = [event EXCEPT ![e].stale = FALSE]
  /\ UNCHANGED <<eligible, excused, notified, broadcast, task, stalls, crashes>>

\* The process stops; a new one takes its place with an empty batch.
Crash(w) ==
  /\ crashes < MaxCrashes
  /\ \E e \in Event : task[w][e] # None
  /\ crashes' = crashes + 1
  /\ task' = [task EXCEPT ![w] = [e \in Event |-> None]]
  /\ UNCHANGED <<event, eligible, excused, notified, broadcast, stalls>>

-----------------------------------------------------------------------------
Process(w, e) ==
  \/ Start(w, e) \/ ReadPage(w, e) \/ InsertPage(w, e) \/ MarkProcessed(w, e)
  \/ RecordFailure(w, e)
  \/ e \in Broadcast /\ (BeginBroadcast(w, e) \/ SaveProgress(w, e) \/ FinishBroadcast(w, e))

Fail(w, e) == PageFails(w, e) \/ HandlerFails(w, e)

Next ==
  \/ \E e \in Event : CreateEvent(e) \/ ExpireLease(e)
  \/ \E u \in User : ChangeEligibility(u)
  \/ \E w \in Worker, batch \in SUBSET Event : Claim(w, batch)
  \/ \E w \in Worker, e \in Event : Process(w, e) \/ Fail(w, e) \/ Heartbeat(w, e)
  \/ \E w \in Worker : Crash(w)

Spec == Init /\ [][Next]_vars

\* The interval timer ticks, a handler with a free slot goes on or fails, and the
\* lease of an event nobody processes runs out.  A process that is busy now claims
\* at a later tick: strong fairness.  Failures, stalls and crashes are not fair.
FairSpec ==
  /\ Spec
  /\ \A e \in Event : WF_vars(ExpireLease(e) /\ \A w \in Worker : task[w][e] = None)
  /\ \A e \in Event : SF_vars(\E w \in Worker, b \in SUBSET Event : e \in b /\ Claim(w, b))
  /\ \A w \in Worker, e \in Event : WF_vars(Process(w, e))

-----------------------------------------------------------------------------
(***************************************************************************)
(* Properties                                                              *)
(***************************************************************************)
TypeOK ==
  /\ event \in [Event -> [status : EventStatus, attempts : 0..MaxAttempts,
                          lockedBy : Worker \cup {None}, stale : BOOLEAN]]
  /\ eligible \subseteq User
  /\ excused \in [Event -> SUBSET User]
  /\ notified \in [Event -> SUBSET User]
  /\ broadcast \in [Broadcast -> [status : BroadcastStatus, cursor : 0..NumUsers]]
  /\ task \in [Worker -> [Event -> Task \cup {None}]]
  /\ stalls \in 0..MaxStalls /\ crashes \in 0..MaxCrashes

\* An event is PROCESSED only after everybody who was eligible all the time has
\* been notified, across crashes, takeovers and pages.
ProcessedMeansNotified ==
  \A e \in Content \cup Broadcast :
    event[e].status = "PROCESSED" => User \ excused[e] \subseteq notified[e]

\* A broadcast resumes after the saved cursor, so nobody at or before it may
\* have been skipped.
CursorBehindDelivery ==
  \A e \in Broadcast, u \in User :
    u <= broadcast[e].cursor /\ u \notin excused[e] => u \in notified[e]

\* Every event is settled in the end and stays so: the work of a crashed worker
\* is taken over and no event is retried for ever.
EverySettles ==
  \A e \in Event :
    event[e].status # "ABSENT" ~> [](event[e].status \in {"PROCESSED", "DEAD_LETTER"})
=============================================================================
