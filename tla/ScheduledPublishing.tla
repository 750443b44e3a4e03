-------------------------- MODULE ScheduledPublishing --------------------------
(***************************************************************************)
(* Scheduled publication of books and chapters                             *)
(* (scheduled-publishing.service.ts): the schedule rows in PostgreSQL, the *)
(* delayed jobs in BullMQ, the workers that run them and the requests of   *)
(* the administrators.  A statement outside a transaction, a read and a    *)
(* commit inside one, and a call to the queue are steps of their own.      *)
(***************************************************************************)
EXTENDS Naturals, FiniteSets

CONSTANTS Schedule,     \* ids of schedule rows
          Book, Chapter,\* what a schedule may publish
          Worker,       \* BullMQ worker slots
          Admin,        \* requests of administrators in flight
          None,
          MaxRetries,   \* maxRetries of every schedule
          MaxTime,      \* model bound: the clock stops here
          MaxRestarts   \* model bound on process restarts

ASSUME ScheduleAssumption ==
  /\ Book \cap Chapter = {} /\ Worker \cap Admin = {}
  /\ MaxRetries \in Nat /\ MaxTime \in Nat /\ MaxRestarts \in Nat

Target == Book \cup Chapter
Actor == Worker \cup Admin
Time == 0..MaxTime
Later(t1, t2) == IF t1 > t2 THEN t1 ELSE t2

VARIABLES
  schedule,  \* ScheduledPublication rows
  target,    \* publishStatus of the content; DELETED once its row is gone
  counted,   \* what a chapter contributes to Book.chapterCount
  events,    \* publication events written to the outbox for the content
  job,       \* the BullMQ job of a schedule: "none", "waiting" or "active"
  due,       \* the time a waiting job becomes available
  pc,        \* where each actor is
  doing,     \* its arguments and what it has read
  now,
  claims,    \* history: how often a schedule went from Pending to Processing
  restarts,
  lost       \* history: schedules whose job a failed claim or a failed call to the queue lost

rows == <<schedule, target, counted, events, claims>>
queue == <<job, due>>
vars == <<rows, queue, pc, doing, now, restarts, lost>>

ScheduleStatus == {"ABSENT", "Pending", "Processing", "Published", "Canceled", "FAILED"}
TargetStatus == {"DRAFT", "SCHEDULED", "PUBLISHED", "DELETED"}
Active == {"Pending", "Processing"}
Pc == {"idle", "create", "update", "cancel", "claim", "read", "publish", "commit",
       "invalidate", "fail", "enqueue"}

\* before: the publishStatus read by publishTarget; retryCount: read with the
\* claimed row; at: the publishAt of the request or of the row to enqueue.
Task == [schedule : Schedule, target : Target \cup {None}, at : Time,
         before : TargetStatus, retryCount : Nat]
NewTask(s, t, at) ==
  [schedule |-> s, target |-> t, at |-> at, before |-> "DRAFT", retryCount |-> 0]

Init == /\ schedule = [s \in Schedule |-> [status |-> "ABSENT", target |-> None,
                                           publishAt |-> 0, retryCount |-> 0]]
        /\ target = [t \in Target |-> "DRAFT"]
        /\ counted = [t \in Target |-> 0]
        /\ events = [t \in Target |-> 0]
        /\ job = [s \in Schedule |-> "none"]
        /\ due = [s \in Schedule |-> 0]
        /\ pc = [a \in Actor |-> "idle"]
        /\ doing = [a \in Actor |-> None]
        /\ now = 0
        /\ claims = [s \in Schedule |-> 0]
        /\ restarts = 0 /\ lost = {}

Exists(t) == target[t] # "DELETED"

Begin(a, step, task) == /\ pc[a] = "idle"
                        /\ pc' = [pc EXCEPT ![a] = step]
                        /\ doing' = [doing EXCEPT ![a] = task]

GoTo(a, step) == pc' = [pc EXCEPT ![a] = step]

\* The handler ends; a worker's job is removed, completed or failed.
Finish(a) == /\ pc' = [pc EXCEPT ![a] = "idle"]
             /\ doing' = [doing EXCEPT ![a] = None]
             /\ job' = IF a \in Worker THEN [job EXCEPT ![doing[a].schedule] = "none"] ELSE job
             /\ due' = IF a \in Worker THEN [due EXCEPT ![doing[a].schedule] = 0] ELSE due

(***************************************************************************)
(* Requests of the administrators                                          *)
(***************************************************************************)
BeginCreate(a, s, t, at) ==
  /\ schedule[s].status = "ABSENT"
  /\ \A b \in Admin : pc[b] = "create" => doing[b].schedule # s
  /\ Exists(t)
  /\ \A r \in Schedule : schedule[r].target = t => schedule[r].status \notin Active
  /\ Begin(a, "create", NewTask(s, t, at))
  /\ UNCHANGED <<rows, queue, now, restarts, lost>>

\* The row and the status of the content are one transaction.
CreateSchedule(a) ==
  LET s == doing[a].schedule
      t == doing[a].target
  IN
  /\ pc[a] = "create"
  /\ IF Exists(t)
       THEN /\ schedule' = [schedule EXCEPT ![s] = [status |-> "Pending", target |-> t,
                                                    publishAt |-> doing[a].at, retryCount |-> 0]]
            /\ target' = [target EXCEPT ![t] = "SCHEDULED"]
            /\ GoTo(a, "enqueue")
            /\ UNCHANGED <<queue, doing>>
       ELSE /\ Finish(a)
            /\ UNCHANGED <<schedule, target>>
  /\ UNCHANGED <<counted, events, now, claims, restarts, lost>>

BeginUpdate(a, s, at) ==
  /\ schedule[s].status = "Pending"
  /\ Begin(a, "update", NewTask(s, None, at))
  /\ UNCHANGED <<rows, queue, now, restarts, lost>>

\* The update is by id alone, whatever has become of the schedule since.
UpdateSchedule(a) ==
  LET s == doing[a].schedule IN
  /\ pc[a] = "update"
  /\ schedule' = [schedule EXCEPT ![s].publishAt = doing[a].at]
  /\ IF schedule[s].status = "Pending"
       THEN GoTo(a, "enqueue") /\ UNCHANGED <<queue, doing>>
       ELSE Finish(a)
  /\ UNCHANGED <<target, counted, events, now, claims, restarts, lost>>

BeginCancel(a, s) ==
  /\ schedule[s].status \in {"Pending", "FAILED"}
  /\ Begin(a, "cancel", NewTask(s, schedule[s].target, 0))
  /\ UNCHANGED <<rows, queue, now, restarts, lost>>

\* By id alone too; the job stays in the queue.
CancelSchedule(a) ==
  LET t == doing[a].target IN
  /\ pc[a] = "cancel"
  /\ IF Exists(t)
       THEN /\ schedule' = [schedule EXCEPT ![doing[a].schedule].status = "Canceled"]
            /\ target' = [target EXCEPT ![t] = "DRAFT"]
       ELSE UNCHANGED <<schedule, target>>
  /\ Finish(a)
  /\ UNCHANGED <<counted, events, now, claims, restarts, lost>>

PublishNow(a, s) ==
  /\ schedule[s].status # "ABSENT"
  /\ Begin(a, "claim", NewTask(s, None, 0))
  /\ UNCHANGED <<rows, queue, now, restarts, lost>>

\* deleteChapter and deleteById, elsewhere in the server.
DeleteTarget(t) ==
  /\ Exists(t)
  /\ target' = [target EXCEPT ![t] = "DELETED"]
  /\ counted' = [counted EXCEPT ![t] = 0]
  /\ UNCHANGED <<schedule, events, claims, queue, pc, doing, now, restarts, lost>>

(***************************************************************************)
(* The queue                                                               *)
(***************************************************************************)
\* BullMQ ignores a job whose id it already holds, in whatever state.
Add(s, at) == IF job[s] = "none"
                THEN /\ job' = [job EXCEPT ![s] = "waiting"]
                     /\ due' = [due EXCEPT ![s] = Later(at, now)]
                ELSE UNCHANGED queue

\* enqueueSchedule is the last call of the handler.  A worker's own job is
\* still active, so the queue ignores the call, and then removes the job.
EnqueueSchedule(a) ==
  /\ pc[a] = "enqueue"
  /\ IF a \in Worker
       THEN Finish(a)
       ELSE /\ Add(doing[a].schedule, doing[a].at)
            /\ pc' = [pc EXCEPT ![a] = "idle"]
            /\ doing' = [doing EXCEPT ![a] = None]
  /\ lost' = IF a \in Worker THEN lost ELSE lost \ {doing[a].schedule}
  /\ UNCHANGED <<rows, now, restarts>>

TakeJob(w, s) ==
  /\ job[s] = "waiting" /\ due[s] <= now
  /\ job' = [job EXCEPT ![s] = "active"]
  /\ Begin(w, "claim", NewTask(s, None, 0))
  /\ UNCHANGED <<rows, due, now, restarts, lost>>

(***************************************************************************)
(* publishSchedule, by a worker or by publishNow                           *)
(***************************************************************************)
\* Mutant: the claim is an update by id.
ClaimUnguarded(a) ==
  LET s == doing[a].schedule IN
  /\ pc[a] = "claim"
  /\ schedule' = [schedule EXCEPT ![s].status = "Processing"]
  /\ claims' = [claims EXCEPT ![s] = @ + 1]
  /\ GoTo(a, "read")
  /\ UNCHANGED <<queue, doing, target, counted, events, now, restarts, lost>>

\* The guarded updateMany.
Claim(a) ==
  LET s == doing[a].schedule IN
  /\ pc[a] = "claim"
  /\ IF schedule[s].status = "Pending"
       THEN /\ schedule' = [schedule EXCEPT ![s].status = "Processing"]
            /\ claims' = [claims EXCEPT ![s] = @ + 1]
            /\ GoTo(a, "read")
            /\ UNCHANGED <<queue, doing>>
       ELSE Finish(a) /\ UNCHANGED <<schedule, claims>>
  /\ UNCHANGED <<target, counted, events, now, restarts, lost>>

\* findUniqueOrThrow of the claimed row.
ReadClaimed(a) ==
  LET s == doing[a].schedule IN
  /\ pc[a] = "read"
  /\ doing' = [doing EXCEPT ![a].target = schedule[s].target,
                            ![a].retryCount = schedule[s].retryCount]
  /\ GoTo(a, "publish")
  /\ UNCHANGED <<rows, queue, now, restarts, lost>>

\* publishTarget reads the status it compares with after its update.
ReadTarget(a) ==
  /\ pc[a] = "publish"
  /\ doing' = [doing EXCEPT ![a].before = target[doing[a].target]]
  /\ GoTo(a, "commit")
  /\ UNCHANGED <<rows, queue, now, restarts, lost>>

\* Mutant: only content that was a draft is announced and counted.
CommitPublishFromDraft(a) ==
  LET t == doing[a].target
      first == doing[a].before = "DRAFT"
  IN
  /\ pc[a] = "commit"
  /\ Exists(t)
  /\ target' = [target EXCEPT ![t] = "PUBLISHED"]
  /\ counted' = IF first /\ t \in Chapter THEN [counted EXCEPT ![t] = @ + 1] ELSE counted
  /\ events' = IF first THEN [events EXCEPT ![t] = @ + 1] ELSE events
  /\ schedule' = [schedule EXCEPT ![doing[a].schedule].status = "Published"]
  /\ GoTo(a, "invalidate")
  /\ UNCHANGED <<claims, queue, doing, now, restarts, lost>>

CommitPublish(a) ==
  LET s == doing[a].schedule
      t == doing[a].target
  IN
  /\ pc[a] = "commit"
  /\ Exists(t)
  /\ target' = [target EXCEPT ![t] = "PUBLISHED"]
  /\ counted' = IF t \in Chapter THEN [counted EXCEPT ![t] = @ + 1] ELSE counted
  /\ events' = IF doing[a].before # "PUBLISHED" THEN [events EXCEPT ![t] = @ + 1] ELSE events
  /\ schedule' = [schedule EXCEPT ![s].status = "Published"]
  /\ GoTo(a, "invalidate")
  /\ UNCHANGED <<claims, queue, doing, now, restarts, lost>>

Invalidate(a) ==
  /\ pc[a] = "invalidate"
  /\ Finish(a)
  /\ UNCHANGED <<rows, now, restarts, lost>>

\* A database error rolls the transaction back; for a chapter the invalidation
\* reads the database after the commit, inside the same try.
AttemptFails(a) ==
  /\ \/ pc[a] \in {"publish", "commit"}
     \/ pc[a] = "invalidate" /\ doing[a].target \in Chapter
  /\ GoTo(a, "fail")
  /\ UNCHANGED <<rows, queue, doing, now, restarts, lost>>

\* A statement outside the try, or the catch's own, fails: the handler ends there.  The
\* claim and the read are outside, and a job has one attempt: a failed claim leaves the
\* row Pending without a job, a failed read or a failed catch leaves it Processing.
StatementFails(a) ==
  /\ pc[a] \in {"create", "update", "cancel", "enqueue", "claim", "read", "fail"}
  /\ Finish(a)
  /\ lost' = IF \/ pc[a] = "claim" /\ a \in Worker
                \/ pc[a] = "enqueue" /\ a \in Admin /\ job[doing[a].schedule] = "none"
             THEN lost \cup {doing[a].schedule} ELSE lost
  /\ UNCHANGED <<rows, now, restarts>>

\* Mutant: one retry too many.
RecordFailureOffByOne(a) ==
  LET s == doing[a].schedule
      retryCount == doing[a].retryCount + 1
      retry == retryCount <= MaxRetries
  IN
  /\ pc[a] = "fail"
  /\ schedule' = [schedule EXCEPT ![s].status = IF retry THEN "Pending" ELSE "FAILED",
                                  ![s].retryCount = retryCount]
  /\ IF retry
       THEN /\ GoTo(a, "enqueue")
            /\ doing' = [doing EXCEPT ![a].at = schedule[s].publishAt]
            /\ UNCHANGED queue
       ELSE Finish(a)
  /\ UNCHANGED <<target, counted, events, now, claims, restarts, lost>>

\* The catch block writes the status by id alone.
RecordFailure(a) ==
  LET s == doing[a].schedule
      retryCount == doing[a].retryCount + 1
      retry == retryCount < MaxRetries
  IN
  /\ pc[a] = "fail"
  /\ schedule' = [schedule EXCEPT ![s].status = IF retry THEN "Pending" ELSE "FAILED",
                                  ![s].retryCount = retryCount]
  /\ IF retry
       THEN /\ GoTo(a, "enqueue")
            /\ doing' = [doing EXCEPT ![a].at = schedule[s].publishAt]
            /\ UNCHANGED queue
       ELSE Finish(a)
  /\ UNCHANGED <<target, counted, events, now, claims, restarts, lost>>

-----------------------------------------------------------------------------
\* Mutant: onModuleInit does not enqueue the Pending schedules.
RestartForgetful ==
  /\ restarts < MaxRestarts
  /\ restarts' = restarts + 1
  /\ pc' = [a \in Actor |-> "idle"]
  /\ doing' = [a \in Actor |-> None]
  /\ job' = [s \in Schedule |-> IF job[s] # "none" THEN "waiting" ELSE "none"]
  /\ lost' = {}
  /\ UNCHANGED <<rows, due, now>>

\* The process dies and onModuleInit runs: BullMQ gives the jobs that were
\* active to a worker again, and every Pending schedule is enqueued.
Restart ==
  /\ restarts < MaxRestarts
  /\ restarts' = restarts + 1
  /\ pc' = [a \in Actor |-> "idle"]
  /\ doing' = [a \in Actor |-> None]
  /\ job' = [s \in Schedule |-> IF job[s] # "none" \/ schedule[s].status = "Pending"
                                  THEN "waiting" ELSE "none"]
  /\ due' = [s \in Schedule |-> IF job[s] = "none" /\ schedule[s].status = "Pending"
                                  THEN Later(schedule[s].publishAt, now) ELSE due[s]]
  /\ lost' = {}
  /\ UNCHANGED <<rows, now>>

Tick == /\ now < MaxTime
        /\ now' = now + 1
        /\ UNCHANGED <<rows, queue, pc, doing, restarts, lost>>

Request(a) ==
  \/ \E s \in Schedule, t \in Target, at \in Time : BeginCreate(a, s, t, at)
  \/ \E s \in Schedule, at \in Time : BeginUpdate(a, s, at)
  \/ \E s \in Schedule : BeginCancel(a, s) \/ PublishNow(a, s)

Proceed(a) ==
  \/ CreateSchedule(a) \/ UpdateSchedule(a) \/ CancelSchedule(a)
  \/ EnqueueSchedule(a) \/ Claim(a) \/ ReadClaimed(a) \/ ReadTarget(a)
  \/ CommitPublish(a) \/ Invalidate(a) \/ RecordFailure(a)

Next ==
  \/ \E a \in Admin : Request(a)
  \/ \E w \in Worker, s \in Schedule : TakeJob(w, s)
  \/ \E a \in Actor : Proceed(a) \/ AttemptFails(a) \/ StatementFails(a)
  \/ \E t \in Target : DeleteTarget(t)
  \/ Tick \/ Restart

Spec == Init /\ [][Next]_vars

\* A handler that has begun runs on or fails, BullMQ hands out the jobs that
\* are due, and time passes.  Nothing forces a request, a failure or a restart.
FairSpec == /\ Spec
            /\ WF_vars(Tick)
            /\ \A a \in Actor : WF_vars(Proceed(a) \/ AttemptFails(a) \/ StatementFails(a))
            /\ \A s \in Schedule : SF_vars(\E w \in Worker : TakeJob(w, s))

-----------------------------------------------------------------------------
(***************************************************************************)
(* Properties                                                              *)
(***************************************************************************)
Attempts == Later(1, MaxRetries)

TypeOK ==
  /\ schedule \in [Schedule -> [status : ScheduleStatus, target : Target \cup {None},
                                publishAt : Time, retryCount : 0..Attempts]]
  /\ target \in [Target -> TargetStatus]
  /\ counted \in [Target -> Nat] /\ events \in [Target -> Nat]
  /\ job \in [Schedule -> {"none", "waiting", "active"}]
  /\ due \in [Schedule -> Time]
  /\ pc \in [Actor -> Pc]
  /\ doing \in [Actor -> Task \cup {None}]
  /\ now \in Time
  /\ claims \in [Schedule -> Nat]
  /\ restarts \in 0..MaxRestarts /\ lost \subseteq Schedule

\* a is between its claim of s and the end of the attempt.
Publishing(a, s) == /\ pc[a] \in {"read", "publish", "commit", "invalidate", "fail"}
                    /\ doing[a].schedule = s

\* Two workers, or a worker and publishNow, never publish one schedule at the
\* same time, whatever is updated or cancelled meanwhile (the guarded claim).
SingleClaimer ==
  \A s \in Schedule, a, b \in Actor : Publishing(a, s) /\ Publishing(b, s) => a = b

\* A schedule is attempted at most maxRetries times (once if that is zero), by
\* the queue, publishNow and restarts together.
AttemptsBounded == \A s \in Schedule : claims[s] <= Attempts

\* Content that is published was announced, and a published chapter is counted,
\* however many schedules publish it at once.
PublishedIsAnnounced ==
  \A t \in Target : target[t] = "PUBLISHED" => /\ events[t] > 0
                                               /\ t \in Chapter => counted[t] > 0

\* A schedule that is due gets its first attempt, unless it is cancelled; except when the
\* statement that claims it fails, or the call that should enqueue it: then nothing tries
\* again before a restart, an update or publishNow.  No more holds of a later attempt: the
\* retry is added under the id of the job that still runs, and BullMQ ignores it.
FirstAttemptHappens ==
  \A s \in Schedule :
    schedule[s].status = "Pending" /\ schedule[s].retryCount = 0
      ~> schedule[s].status # "Pending" \/ schedule[s].retryCount > 0 \/ s \in lost
=============================================================================
