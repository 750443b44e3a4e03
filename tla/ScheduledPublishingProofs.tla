------------------------ MODULE ScheduledPublishingProofs ------------------------
(***************************************************************************)
(* Proofs about ScheduledPublishing for every number of schedules, books,  *)
(* chapters, workers and requests, and every number of retries.            *)
(***************************************************************************)
EXTENDS ScheduledPublishing, TLAPS

(***************************************************************************)
(* The inductive invariant.  The row alone does not say who publishes it:  *)
(* an update or a cancellation by id may overwrite the claim.  What keeps  *)
(* a second claim out is that no handler but the publishing one makes the  *)
(* row Pending again, and its count of attempts is then what it had read.  *)
(***************************************************************************)
TaskOK ==
  \A a \in Actor :
    /\ pc[a] # "idle" => doing[a] \in Task
    /\ pc[a] \in {"create", "cancel", "publish", "commit", "invalidate", "fail"} => doing[a].target \in Target
    /\ pc[a] = "create" => a \in Admin /\ schedule[doing[a].schedule].status = "ABSENT"
    /\ pc[a] \in {"cancel", "read", "publish", "commit", "invalidate", "fail"} =>
         schedule[doing[a].schedule].status # "ABSENT"

OneCreator ==
  \A a, b \in Actor : pc[a] = "create" /\ pc[b] = "create" /\ doing[a].schedule = doing[b].schedule => a = b

\* A row that was never claimed, or is waiting for its next attempt.
CountOK ==
  \A s \in Schedule :
    /\ schedule[s].status = "ABSENT" => claims[s] = 0
    /\ schedule[s].status # "ABSENT" => schedule[s].target \in Target
    /\ schedule[s].status = "Pending" => claims[s] = schedule[s].retryCount /\ claims[s] < Attempts

PublisherOK ==
  \A a \in Actor :
    /\ pc[a] \in {"publish", "commit", "invalidate", "fail"} =>
         /\ schedule[doing[a].schedule].status # "Pending"
         /\ claims[doing[a].schedule] = doing[a].retryCount + 1
    /\ pc[a] = "read" =>
         /\ schedule[doing[a].schedule].status # "Pending"
         /\ claims[doing[a].schedule] = schedule[doing[a].schedule].retryCount + 1

\* The transaction of an attempt that read a published status writes no event.
AnnouncedOK ==
  \A a \in Actor : pc[a] = "commit" /\ doing[a].before = "PUBLISHED" => events[doing[a].target] > 0

IInv == TypeOK /\ TaskOK /\ OneCreator /\ CountOK /\ PublisherOK /\ SingleClaimer /\ AttemptsBounded
        /\ AnnouncedOK /\ PublishedIsAnnounced

-----------------------------------------------------------------------------
\* The invariant holds initially.
LEMMA InitIInv == Init => IInv
  <1> SUFFICES ASSUME Init PROVE IInv
    OBVIOUS
  <1> USE ScheduleAssumption DEF Init
  <1>1. Attempts \in Nat /\ Attempts >= 1 /\ 0 \in 0..Attempts /\ 0 \in Time /\ 0 \in 0..MaxRestarts
    BY DEF Attempts, Later, Time
  <1>2. TypeOK
    BY <1>1 DEF TypeOK, ScheduleStatus, TargetStatus, Pc
  <1>3. TaskOK /\ OneCreator /\ CountOK
    BY DEF TaskOK, OneCreator, CountOK
  <1>4. PublisherOK /\ SingleClaimer /\ AnnouncedOK
    BY DEF PublisherOK, SingleClaimer, Publishing, AnnouncedOK
  <1>5. AttemptsBounded /\ PublishedIsAnnounced
    BY <1>1 DEF AttemptsBounded, PublishedIsAnnounced
  <1>6. QED
    BY <1>2, <1>3, <1>4, <1>5 DEF IInv

\* The number of attempts allowed.
LEMMA AttemptsNat == Attempts \in Nat /\ Attempts >= 1 /\ (MaxRetries >= 1 => Attempts = MaxRetries)
  BY ScheduleAssumption DEF Attempts, Later

\* An update of one row.
Row == [status : ScheduleStatus, target : Target \cup {None}, publishAt : Time, retryCount : 0..Attempts]
LEMMA RowUpdate ==
  ASSUME TypeOK, NEW s \in Schedule, NEW row \in Row, schedule' = [schedule EXCEPT ![s] = row]
  PROVE  /\ schedule' \in [Schedule -> Row] /\ schedule'[s] = row
         /\ \A r \in Schedule : r # s => schedule'[r] = schedule[r]
  BY DEF TypeOK, Row

\* An update of what one handler is doing.
LEMMA DoingUpdate ==
  ASSUME TypeOK, NEW a \in Actor, NEW rec \in Task \cup {None}, doing' = [doing EXCEPT ![a] = rec]
  PROVE  /\ doing' \in [Actor -> Task \cup {None}] /\ doing'[a] = rec
         /\ \A b \in Actor : b # a => doing'[b] = doing[b]
  BY DEF TypeOK

\* A handler that ends leaves the queue well-formed.
LEMMA FinishTyped ==
  ASSUME TypeOK, NEW a \in Actor, doing[a].schedule \in Schedule, Finish(a)
  PROVE  job' \in [Schedule -> {"none", "waiting", "active"}] /\ due' \in [Schedule -> Time]
  <1>1. 0 \in Time
    BY ScheduleAssumption DEF Time
  <1>2. CASE a \in Worker
    BY <1>1, <1>2 DEF TypeOK, Finish
  <1>3. CASE a \notin Worker
    BY <1>3 DEF TypeOK, Finish
  <1>4. QED
    BY <1>2, <1>3

\* BeginCreate preserves the invariant.
LEMMA BeginCreateIInv ==
  ASSUME IInv, NEW a \in Admin, NEW s \in Schedule, NEW t \in Target, NEW at \in Time, BeginCreate(a, s, t, at)
  PROVE  IInv'
  <1> USE ScheduleAssumption, AttemptsNat DEF BeginCreate, Begin, NewTask, Exists, queue, rows, IInv
  <1>1. a \in Actor
    BY DEF Actor, TypeOK, TaskOK, Task
  <1>2. TypeOK'
    <2>1. schedule' \in [Schedule -> [status : ScheduleStatus, target : Target \cup {None},
                                     publishAt : Time, retryCount : 0..Attempts]]
      BY <1>1 DEF TypeOK, TaskOK, CountOK, PublisherOK, AttemptsBounded, ScheduleStatus, Task, Time
    <2>2. doing' \in [Actor -> Task \cup {None}]
      BY <1>1 DEF TypeOK, TaskOK, CountOK, Task, Time, TargetStatus
    <2>3. pc' \in [Actor -> Pc]
      BY <1>1 DEF TypeOK, Pc
    <2>4. /\ job' \in [Schedule -> {"none", "waiting", "active"}] /\ due' \in [Schedule -> Time]
          /\ claims' \in [Schedule -> Nat] /\ now' \in Time /\ restarts' \in 0..MaxRestarts
          /\ lost' \subseteq Schedule
      BY <1>1 DEF TypeOK, Time, Task
    <2>5. /\ target' \in [Target -> TargetStatus]
          /\ counted' \in [Target -> Nat] /\ events' \in [Target -> Nat]
      BY <1>1 DEF TypeOK, TaskOK, TargetStatus
    <2>6. QED
      BY <2>1, <2>2, <2>3, <2>4, <2>5 DEF TypeOK
  <1>3. TaskOK'
    <2>1. ASSUME NEW b \in Actor
          PROVE  /\ pc'[b] # "idle" => doing'[b] \in Task
                 /\ pc'[b] \in {"create", "cancel", "publish", "commit", "invalidate", "fail"} =>
                      doing'[b].target \in Target
      BY <1>1 DEF TypeOK, TaskOK, CountOK, Task, Time, TargetStatus
    <2>2. ASSUME NEW b \in Actor
          PROVE  /\ pc'[b] = "create" => b \in Admin /\ schedule'[doing'[b].schedule].status = "ABSENT"
                 /\ pc'[b] \in {"cancel", "read", "publish", "commit", "invalidate", "fail"} =>
                      schedule'[doing'[b].schedule].status # "ABSENT"
      BY <1>1 DEF TypeOK, TaskOK, OneCreator, Task
    <2>3. QED
      BY <2>1, <2>2 DEF TaskOK
  <1>4. OneCreator'
    BY <1>1 DEF TypeOK, TaskOK, OneCreator, Task, Actor
  <1>5. CountOK'
    BY <1>1 DEF TypeOK, TaskOK, CountOK, PublisherOK, AttemptsBounded, Task
  <1>6. PublisherOK'
    BY <1>1 DEF TypeOK, TaskOK, CountOK, PublisherOK, SingleClaimer, Publishing, Task
  <1>7. SingleClaimer'
    BY <1>1 DEF TypeOK, TaskOK, PublisherOK, SingleClaimer, Publishing, Task
  <1>8. AttemptsBounded'
    BY <1>1 DEF TypeOK, TaskOK, CountOK, AttemptsBounded, Task
  <1>9. AnnouncedOK'
    BY <1>1 DEF TypeOK, TaskOK, AnnouncedOK, PublishedIsAnnounced, Task
  <1>10. PublishedIsAnnounced'
    BY <1>1 DEF TypeOK, TaskOK, AnnouncedOK, PublishedIsAnnounced, Task
  <1>11. QED
    BY <1>2, <1>3, <1>4, <1>5, <1>6, <1>7, <1>8, <1>9, <1>10

\* CreateSchedule preserves the invariant.
LEMMA CreateScheduleIInv ==
  ASSUME IInv, NEW a \in Actor, CreateSchedule(a), Exists(doing[a].target)
  PROVE  IInv'
  <1> USE ScheduleAssumption, AttemptsNat DEF CreateSchedule, GoTo, queue, rows, IInv
  <1>1. /\ doing[a] \in Task /\ doing[a].schedule \in Schedule
        /\ pc[a] = "create" /\ schedule[doing[a].schedule].status = "ABSENT" /\ doing[a].at \in Time
    BY DEF Actor, TypeOK, TaskOK, Task
  <1>2. TypeOK'
    <2>1. schedule' \in [Schedule -> [status : ScheduleStatus, target : Target \cup {None},
                                     publishAt : Time, retryCount : 0..Attempts]]
      BY <1>1 DEF TypeOK, TaskOK, CountOK, PublisherOK, AttemptsBounded, ScheduleStatus, Task, Time
    <2>2. doing' \in [Actor -> Task \cup {None}]
      BY <1>1 DEF TypeOK, TaskOK, CountOK, Task, Time, TargetStatus
    <2>3. pc' \in [Actor -> Pc]
      BY <1>1 DEF TypeOK, Pc
    <2>4. /\ job' \in [Schedule -> {"none", "waiting", "active"}] /\ due' \in [Schedule -> Time]
          /\ claims' \in [Schedule -> Nat] /\ now' \in Time /\ restarts' \in 0..MaxRestarts
          /\ lost' \subseteq Schedule
      BY <1>1 DEF TypeOK, Time, Task
    <2>5. /\ target' \in [Target -> TargetStatus]
          /\ counted' \in [Target -> Nat] /\ events' \in [Target -> Nat]
      BY <1>1 DEF TypeOK, TaskOK, TargetStatus
    <2>6. QED
      BY <2>1, <2>2, <2>3, <2>4, <2>5 DEF TypeOK
  <1>3. TaskOK'
    <2>1. ASSUME NEW b \in Actor
          PROVE  /\ pc'[b] # "idle" => doing'[b] \in Task
                 /\ pc'[b] \in {"create", "cancel", "publish", "commit", "invalidate", "fail"} =>
                      doing'[b].target \in Target
      BY <1>1 DEF TypeOK, TaskOK, CountOK, Task, Time, TargetStatus
    <2>2. ASSUME NEW b \in Actor
          PROVE  /\ pc'[b] = "create" => b \in Admin /\ schedule'[doing'[b].schedule].status = "ABSENT"
                 /\ pc'[b] \in {"cancel", "read", "publish", "commit", "invalidate", "fail"} =>
                      schedule'[doing'[b].schedule].status # "ABSENT"
      BY <1>1 DEF TypeOK, TaskOK, OneCreator, Task
    <2>3. QED
      BY <2>1, <2>2 DEF TaskOK
  <1>4. OneCreator'
    BY <1>1 DEF TypeOK, TaskOK, OneCreator, Task, Actor
  <1>5. CountOK'
    <2>1. schedule[doing[a].schedule].status = "ABSENT" /\ doing[a].target \in Target
      BY <1>1 DEF TaskOK
    <2>2. \A s \in Schedule : s # doing[a].schedule => schedule'[s] = schedule[s]
      BY DEF TypeOK
    <2>3. claims' = claims /\ schedule'[doing[a].schedule] =
             [status |-> "Pending", target |-> doing[a].target, publishAt |-> doing[a].at, retryCount |-> 0]
      BY <1>1 DEF TypeOK
    <2>4. CountOK
      OBVIOUS
    <2> HIDE DEF CreateSchedule, IInv
    <2>5. QED
      BY <2>1, <2>2, <2>3, <2>4, AttemptsNat DEF CountOK
  <1>6. PublisherOK'
    BY <1>1 DEF TypeOK, TaskOK, CountOK, PublisherOK, SingleClaimer, Publishing, Task
  <1>7. SingleClaimer'
    BY <1>1 DEF TypeOK, TaskOK, PublisherOK, SingleClaimer, Publishing, Task
  <1>8. AttemptsBounded'
    BY <1>1 DEF TypeOK, TaskOK, CountOK, AttemptsBounded, Task
  <1>9. AnnouncedOK'
    BY <1>1 DEF TypeOK, TaskOK, AnnouncedOK, PublishedIsAnnounced, Task
  <1>10. PublishedIsAnnounced'
    BY <1>1 DEF TypeOK, TaskOK, AnnouncedOK, PublishedIsAnnounced, Task
  <1>11. QED
    BY <1>2, <1>3, <1>4, <1>5, <1>6, <1>7, <1>8, <1>9, <1>10

\* FinishOnly preserves the invariant.
LEMMA FinishOnlyIInv ==
  ASSUME IInv, NEW a \in Actor, pc[a] # "idle", Finish(a), UNCHANGED <<rows, now, restarts>>,
         lost' \subseteq Schedule
  PROVE  IInv'
  <1> USE ScheduleAssumption, AttemptsNat DEF Finish, queue, rows, IInv
  <1>1. doing[a] \in Task /\ doing[a].schedule \in Schedule
    BY DEF Actor, TypeOK, TaskOK, Task
  <1>2. TypeOK'
    <2>1. schedule' \in [Schedule -> [status : ScheduleStatus, target : Target \cup {None},
                                     publishAt : Time, retryCount : 0..Attempts]]
      BY <1>1 DEF TypeOK, TaskOK, CountOK, PublisherOK, AttemptsBounded, ScheduleStatus, Task, Time
    <2>2. doing' \in [Actor -> Task \cup {None}]
      BY <1>1 DEF TypeOK, TaskOK, CountOK, Task, Time, TargetStatus
    <2>3. pc' \in [Actor -> Pc]
      BY <1>1 DEF TypeOK, Pc
    <2>4. /\ job' \in [Schedule -> {"none", "waiting", "active"}] /\ due' \in [Schedule -> Time]
          /\ claims' \in [Schedule -> Nat] /\ now' \in Time /\ restarts' \in 0..MaxRestarts
          /\ lost' \subseteq Schedule
      BY <1>1, FinishTyped DEF TypeOK, Time, Task
    <2>5. /\ target' \in [Target -> TargetStatus]
          /\ counted' \in [Target -> Nat] /\ events' \in [Target -> Nat]
      BY <1>1 DEF TypeOK, TaskOK, TargetStatus
    <2>6. QED
      BY <2>1, <2>2, <2>3, <2>4, <2>5 DEF TypeOK
  <1>3. TaskOK'
    <2>1. ASSUME NEW b \in Actor
          PROVE  /\ pc'[b] # "idle" => doing'[b] \in Task
                 /\ pc'[b] \in {"create", "cancel", "publish", "commit", "invalidate", "fail"} =>
                      doing'[b].target \in Target
      BY <1>1 DEF TypeOK, TaskOK, CountOK, Task, Time, TargetStatus
    <2>2. ASSUME NEW b \in Actor
          PROVE  /\ pc'[b] = "create" => b \in Admin /\ schedule'[doing'[b].schedule].status = "ABSENT"
                 /\ pc'[b] \in {"cancel", "read", "publish", "commit", "invalidate", "fail"} =>
                      schedule'[doing'[b].schedule].status # "ABSENT"
      BY <1>1 DEF TypeOK, TaskOK, OneCreator, Task
    <2>3. QED
      BY <2>1, <2>2 DEF TaskOK
  <1>4. OneCreator'
    BY <1>1 DEF TypeOK, TaskOK, OneCreator, Task, Actor
  <1>5. CountOK'
    BY <1>1 DEF TypeOK, TaskOK, CountOK, PublisherOK, AttemptsBounded, Task
  <1>6. PublisherOK'
    BY <1>1 DEF TypeOK, TaskOK, CountOK, PublisherOK, SingleClaimer, Publishing, Task
  <1>7. SingleClaimer'
    BY <1>1 DEF TypeOK, TaskOK, PublisherOK, SingleClaimer, Publishing, Task
  <1>8. AttemptsBounded'
    BY <1>1 DEF TypeOK, TaskOK, CountOK, AttemptsBounded, Task
  <1>9. AnnouncedOK'
    BY <1>1 DEF TypeOK, TaskOK, AnnouncedOK, PublishedIsAnnounced, Task
  <1>10. PublishedIsAnnounced'
    BY <1>1 DEF TypeOK, TaskOK, AnnouncedOK, PublishedIsAnnounced, Task
  <1>11. QED
    BY <1>2, <1>3, <1>4, <1>5, <1>6, <1>7, <1>8, <1>9, <1>10

\* BeginUpdate preserves the invariant.
LEMMA BeginUpdateIInv ==
  ASSUME IInv, NEW a \in Admin, NEW s \in Schedule, NEW at \in Time, BeginUpdate(a, s, at)
  PROVE  IInv'
  <1> USE ScheduleAssumption, AttemptsNat DEF BeginUpdate, Begin, NewTask, queue, rows, IInv
  <1>1. a \in Actor
    BY DEF Actor, TypeOK, TaskOK, Task
  <1>2. TypeOK'
    <2>1. schedule' \in [Schedule -> [status : ScheduleStatus, target : Target \cup {None},
                                     publishAt : Time, retryCount : 0..Attempts]]
      BY <1>1 DEF TypeOK, TaskOK, CountOK, PublisherOK, AttemptsBounded, ScheduleStatus, Task, Time
    <2>2. doing' \in [Actor -> Task \cup {None}]
      BY <1>1 DEF TypeOK, TaskOK, CountOK, Task, Time, TargetStatus
    <2>3. pc' \in [Actor -> Pc]
      BY <1>1 DEF TypeOK, Pc
    <2>4. /\ job' \in [Schedule -> {"none", "waiting", "active"}] /\ due' \in [Schedule -> Time]
          /\ claims' \in [Schedule -> Nat] /\ now' \in Time /\ restarts' \in 0..MaxRestarts
          /\ lost' \subseteq Schedule
      BY <1>1 DEF TypeOK, Time, Task
    <2>5. /\ target' \in [Target -> TargetStatus]
          /\ counted' \in [Target -> Nat] /\ events' \in [Target -> Nat]
      BY <1>1 DEF TypeOK, TaskOK, TargetStatus
    <2>6. QED
      BY <2>1, <2>2, <2>3, <2>4, <2>5 DEF TypeOK
  <1>3. TaskOK'
    <2>1. ASSUME NEW b \in Actor
          PROVE  /\ pc'[b] # "idle" => doing'[b] \in Task
                 /\ pc'[b] \in {"create", "cancel", "publish", "commit", "invalidate", "fail"} =>
                      doing'[b].target \in Target
      BY <1>1 DEF TypeOK, TaskOK, CountOK, Task, Time, TargetStatus
    <2>2. ASSUME NEW b \in Actor
          PROVE  /\ pc'[b] = "create" => b \in Admin /\ schedule'[doing'[b].schedule].status = "ABSENT"
                 /\ pc'[b] \in {"cancel", "read", "publish", "commit", "invalidate", "fail"} =>
                      schedule'[doing'[b].schedule].status # "ABSENT"
      BY <1>1 DEF TypeOK, TaskOK, OneCreator, Task
    <2>3. QED
      BY <2>1, <2>2 DEF TaskOK
  <1>4. OneCreator'
    BY <1>1 DEF TypeOK, TaskOK, OneCreator, Task, Actor
  <1>5. CountOK'
    BY <1>1 DEF TypeOK, TaskOK, CountOK, PublisherOK, AttemptsBounded, Task
  <1>6. PublisherOK'
    BY <1>1 DEF TypeOK, TaskOK, CountOK, PublisherOK, SingleClaimer, Publishing, Task
  <1>7. SingleClaimer'
    BY <1>1 DEF TypeOK, TaskOK, PublisherOK, SingleClaimer, Publishing, Task
  <1>8. AttemptsBounded'
    BY <1>1 DEF TypeOK, TaskOK, CountOK, AttemptsBounded, Task
  <1>9. AnnouncedOK'
    BY <1>1 DEF TypeOK, TaskOK, AnnouncedOK, PublishedIsAnnounced, Task
  <1>10. PublishedIsAnnounced'
    BY <1>1 DEF TypeOK, TaskOK, AnnouncedOK, PublishedIsAnnounced, Task
  <1>11. QED
    BY <1>2, <1>3, <1>4, <1>5, <1>6, <1>7, <1>8, <1>9, <1>10

\* UpdateSchedule preserves the invariant.
LEMMA UpdateScheduleIInv ==
  ASSUME IInv, NEW a \in Actor, UpdateSchedule(a)
  PROVE  IInv'
  <1> USE ScheduleAssumption, AttemptsNat DEF UpdateSchedule, Finish, GoTo, queue, rows, IInv
  <1>1. doing[a] \in Task /\ doing[a].schedule \in Schedule
    BY DEF Actor, TypeOK, TaskOK, Task
  <1>2. TypeOK'
    <2>1. schedule' \in [Schedule -> [status : ScheduleStatus, target : Target \cup {None},
                                     publishAt : Time, retryCount : 0..Attempts]]
      <3>1. doing[a].at \in Time
        BY <1>1 DEF Task
      <3>2. schedule' = [schedule EXCEPT ![doing[a].schedule].publishAt = doing[a].at]
        OBVIOUS
      <3>3. schedule[doing[a].schedule] \in Row /\ TypeOK
        BY <1>1 DEF TypeOK, Row
      <3> HIDE DEF UpdateSchedule, IInv
      <3>4. [schedule[doing[a].schedule] EXCEPT !.publishAt = doing[a].at] \in Row
        BY <3>1, <3>3 DEF Row
      <3>5. QED
        BY <1>1, <3>2, <3>3, <3>4, RowUpdate DEF Row
    <2>2. doing' \in [Actor -> Task \cup {None}]
      BY <1>1 DEF TypeOK, TaskOK, CountOK, Task, Time, TargetStatus
    <2>3. pc' \in [Actor -> Pc]
      BY <1>1 DEF TypeOK, Pc
    <2>4. /\ job' \in [Schedule -> {"none", "waiting", "active"}] /\ due' \in [Schedule -> Time]
          /\ claims' \in [Schedule -> Nat] /\ now' \in Time /\ restarts' \in 0..MaxRestarts
          /\ lost' \subseteq Schedule
      BY <1>1, FinishTyped DEF TypeOK, Time, Task
    <2>5. /\ target' \in [Target -> TargetStatus]
          /\ counted' \in [Target -> Nat] /\ events' \in [Target -> Nat]
      BY <1>1 DEF TypeOK, TaskOK, TargetStatus
    <2>6. QED
      BY <2>1, <2>2, <2>3, <2>4, <2>5 DEF TypeOK
  <1>3. TaskOK'
    <2>1. ASSUME NEW b \in Actor
          PROVE  /\ pc'[b] # "idle" => doing'[b] \in Task
                 /\ pc'[b] \in {"create", "cancel", "publish", "commit", "invalidate", "fail"} =>
                      doing'[b].target \in Target
      BY <1>1 DEF TypeOK, TaskOK, CountOK, Task, Time, TargetStatus
    <2>2. ASSUME NEW b \in Actor
          PROVE  /\ pc'[b] = "create" => b \in Admin /\ schedule'[doing'[b].schedule].status = "ABSENT"
                 /\ pc'[b] \in {"cancel", "read", "publish", "commit", "invalidate", "fail"} =>
                      schedule'[doing'[b].schedule].status # "ABSENT"
      BY <1>1 DEF TypeOK, TaskOK, OneCreator, Task
    <2>3. QED
      BY <2>1, <2>2 DEF TaskOK
  <1>4. OneCreator'
    <2>1. ASSUME NEW b \in Actor, pc'[b] = "create"
          PROVE  pc[b] = "create" /\ doing'[b] = doing[b]
      BY <1>1, <2>1 DEF TypeOK, TaskOK, Task, Actor
    <2>2. OneCreator
      OBVIOUS
    <2> HIDE DEF UpdateSchedule, IInv
    <2>3. QED
      BY <2>1, <2>2 DEF OneCreator
  <1>5. CountOK'
    BY <1>1 DEF TypeOK, TaskOK, CountOK, PublisherOK, AttemptsBounded, Task
  <1>6. PublisherOK'
    BY <1>1 DEF TypeOK, TaskOK, CountOK, PublisherOK, SingleClaimer, Publishing, Task
  <1>7. SingleClaimer'
    BY <1>1 DEF TypeOK, TaskOK, PublisherOK, SingleClaimer, Publishing, Task
  <1>8. AttemptsBounded'
    BY <1>1 DEF TypeOK, TaskOK, CountOK, AttemptsBounded, Task
  <1>9. AnnouncedOK'
    BY <1>1 DEF TypeOK, TaskOK, AnnouncedOK, PublishedIsAnnounced, Task
  <1>10. PublishedIsAnnounced'
    BY <1>1 DEF TypeOK, TaskOK, AnnouncedOK, PublishedIsAnnounced, Task
  <1>11. QED
    BY <1>2, <1>3, <1>4, <1>5, <1>6, <1>7, <1>8, <1>9, <1>10

\* BeginCancel preserves the invariant.
LEMMA BeginCancelIInv ==
  ASSUME IInv, NEW a \in Admin, NEW s \in Schedule, BeginCancel(a, s)
  PROVE  IInv'
  <1> USE ScheduleAssumption, AttemptsNat DEF BeginCancel, Begin, NewTask, queue, rows, IInv
  <1>1. a \in Actor
    BY DEF Actor, TypeOK, TaskOK, Task
  <1>2. TypeOK'
    <2>1. schedule' \in [Schedule -> [status : ScheduleStatus, target : Target \cup {None},
                                     publishAt : Time, retryCount : 0..Attempts]]
      BY <1>1 DEF TypeOK, TaskOK, CountOK, PublisherOK, AttemptsBounded, ScheduleStatus, Task, Time
    <2>2. doing' \in [Actor -> Task \cup {None}]
      BY <1>1 DEF TypeOK, TaskOK, CountOK, Task, Time, TargetStatus
    <2>3. pc' \in [Actor -> Pc]
      BY <1>1 DEF TypeOK, Pc
    <2>4. /\ job' \in [Schedule -> {"none", "waiting", "active"}] /\ due' \in [Schedule -> Time]
          /\ claims' \in [Schedule -> Nat] /\ now' \in Time /\ restarts' \in 0..MaxRestarts
          /\ lost' \subseteq Schedule
      BY <1>1 DEF TypeOK, Time, Task
    <2>5. /\ target' \in [Target -> TargetStatus]
          /\ counted' \in [Target -> Nat] /\ events' \in [Target -> Nat]
      BY <1>1 DEF TypeOK, TaskOK, TargetStatus
    <2>6. QED
      BY <2>1, <2>2, <2>3, <2>4, <2>5 DEF TypeOK
  <1>3. TaskOK'
    <2>1. ASSUME NEW b \in Actor
          PROVE  /\ pc'[b] # "idle" => doing'[b] \in Task
                 /\ pc'[b] \in {"create", "cancel", "publish", "commit", "invalidate", "fail"} =>
                      doing'[b].target \in Target
      BY <1>1 DEF TypeOK, TaskOK, CountOK, Task, Time, TargetStatus
    <2>2. ASSUME NEW b \in Actor
          PROVE  /\ pc'[b] = "create" => b \in Admin /\ schedule'[doing'[b].schedule].status = "ABSENT"
                 /\ pc'[b] \in {"cancel", "read", "publish", "commit", "invalidate", "fail"} =>
                      schedule'[doing'[b].schedule].status # "ABSENT"
      BY <1>1 DEF TypeOK, TaskOK, OneCreator, Task
    <2>3. QED
      BY <2>1, <2>2 DEF TaskOK
  <1>4. OneCreator'
    BY <1>1 DEF TypeOK, TaskOK, OneCreator, Task, Actor
  <1>5. CountOK'
    BY <1>1 DEF TypeOK, TaskOK, CountOK, PublisherOK, AttemptsBounded, Task
  <1>6. PublisherOK'
    BY <1>1 DEF TypeOK, TaskOK, CountOK, PublisherOK, SingleClaimer, Publishing, Task
  <1>7. SingleClaimer'
    BY <1>1 DEF TypeOK, TaskOK, PublisherOK, SingleClaimer, Publishing, Task
  <1>8. AttemptsBounded'
    BY <1>1 DEF TypeOK, TaskOK, CountOK, AttemptsBounded, Task
  <1>9. AnnouncedOK'
    BY <1>1 DEF TypeOK, TaskOK, AnnouncedOK, PublishedIsAnnounced, Task
  <1>10. PublishedIsAnnounced'
    BY <1>1 DEF TypeOK, TaskOK, AnnouncedOK, PublishedIsAnnounced, Task
  <1>11. QED
    BY <1>2, <1>3, <1>4, <1>5, <1>6, <1>7, <1>8, <1>9, <1>10

\* CancelSchedule preserves the invariant.
LEMMA CancelScheduleIInv ==
  ASSUME IInv, NEW a \in Actor, CancelSchedule(a), Exists(doing[a].target)
  PROVE  IInv'
  <1> USE ScheduleAssumption, AttemptsNat DEF CancelSchedule, Finish, queue, rows, IInv
  <1>1. /\ doing[a] \in Task /\ doing[a].schedule \in Schedule
        /\ pc[a] = "cancel" /\ doing[a].target \in Target
    BY DEF Actor, TypeOK, TaskOK, Task
  <1>2. /\ schedule'[doing[a].schedule].status = "Canceled"
        /\ \A s \in Schedule \ {doing[a].schedule} : schedule'[s] = schedule[s]
        /\ pc'[a] = "idle" /\ \A b \in Actor \ {a} : pc'[b] = pc[b] /\ doing'[b] = doing[b]
    BY <1>1 DEF TypeOK
  <1>3. TypeOK'
    <2>1. schedule' \in [Schedule -> [status : ScheduleStatus, target : Target \cup {None},
                                     publishAt : Time, retryCount : 0..Attempts]]
      BY <1>1 DEF TypeOK, TaskOK, CountOK, PublisherOK, AttemptsBounded, ScheduleStatus, Task, Time
    <2>2. doing' \in [Actor -> Task \cup {None}]
      BY <1>1 DEF TypeOK, TaskOK, CountOK, Task, Time, TargetStatus
    <2>3. pc' \in [Actor -> Pc]
      BY <1>1 DEF TypeOK, Pc
    <2>4. /\ job' \in [Schedule -> {"none", "waiting", "active"}] /\ due' \in [Schedule -> Time]
          /\ claims' \in [Schedule -> Nat] /\ now' \in Time /\ restarts' \in 0..MaxRestarts
          /\ lost' \subseteq Schedule
      BY <1>1, FinishTyped DEF TypeOK, Time, Task
    <2>5. /\ target' \in [Target -> TargetStatus]
          /\ counted' \in [Target -> Nat] /\ events' \in [Target -> Nat]
      BY <1>1 DEF TypeOK, TaskOK, TargetStatus
    <2>6. QED
      BY <2>1, <2>2, <2>3, <2>4, <2>5 DEF TypeOK
  <1>4. TaskOK'
    <2>1. ASSUME NEW b \in Actor
          PROVE  /\ pc'[b] # "idle" => doing'[b] \in Task
                 /\ pc'[b] \in {"create", "cancel", "publish", "commit", "invalidate", "fail"} =>
                      doing'[b].target \in Target
      BY <1>1 DEF TypeOK, TaskOK, CountOK, Task, Time, TargetStatus
    <2>2. ASSUME NEW b \in Actor
          PROVE  /\ pc'[b] = "create" => b \in Admin /\ schedule'[doing'[b].schedule].status = "ABSENT"
                 /\ pc'[b] \in {"cancel", "read", "publish", "commit", "invalidate", "fail"} =>
                      schedule'[doing'[b].schedule].status # "ABSENT"
      <3>1. CASE b = a
        BY <1>2, <3>1
      <3>2. CASE b # a
        <4>1. pc[b] # "idle" => doing[b].schedule \in Schedule
          BY DEF TaskOK, Task
        <4>2. /\ pc'[b] = pc[b] /\ doing'[b] = doing[b]
              /\ schedule[doing[a].schedule].status # "ABSENT"
          BY <1>1, <1>2, <3>2 DEF TaskOK
        <4>3. QED
          BY <1>2, <4>1, <4>2 DEF TaskOK
      <3>3. QED
        BY <3>1, <3>2
    <2>3. QED
      BY <2>1, <2>2 DEF TaskOK
  <1>5. OneCreator'
    BY <1>1 DEF TypeOK, TaskOK, OneCreator, Task, Actor
  <1>6. CountOK'
    <2>1. \A s \in Schedule :
            /\ schedule'[s].target = schedule[s].target /\ schedule'[s].retryCount = schedule[s].retryCount
            /\ schedule'[s].status = schedule[s].status
               \/ (schedule'[s].status = "Canceled" /\ schedule[s].status # "ABSENT")
      BY <1>1 DEF TypeOK, TaskOK
    <2>2. CountOK /\ claims' = claims
      OBVIOUS
    <2> HIDE DEF CancelSchedule, IInv
    <2>3. QED
      BY <2>1, <2>2 DEF CountOK
  <1>7. PublisherOK'
    <2>1. ASSUME NEW b \in Actor, pc'[b] \in {"read", "publish", "commit", "invalidate", "fail"}
          PROVE  /\ pc'[b] = pc[b] /\ doing'[b] = doing[b] /\ doing[b].schedule \in Schedule
                 /\ schedule[doing[b].schedule].status # "Pending" =>
                      schedule'[doing[b].schedule].status # "Pending"
                 /\ schedule'[doing[b].schedule].retryCount = schedule[doing[b].schedule].retryCount
      <3>1. pc'[b] = pc[b] /\ doing'[b] = doing[b] /\ doing[b].schedule \in Schedule
        BY <1>2, <2>1 DEF TaskOK, Task
      <3>2. QED
        BY <1>1, <1>2, <3>1 DEF TypeOK
    <2>2. claims' = claims /\ PublisherOK
      OBVIOUS
    <2> HIDE DEF CancelSchedule, IInv
    <2>3. QED
      BY <2>1, <2>2 DEF PublisherOK
  <1>8. SingleClaimer'
    BY <1>1 DEF TypeOK, TaskOK, PublisherOK, SingleClaimer, Publishing, Task
  <1>9. AttemptsBounded'
    BY <1>1 DEF TypeOK, TaskOK, CountOK, AttemptsBounded, Task
  <1>10. AnnouncedOK'
    BY <1>1 DEF TypeOK, TaskOK, AnnouncedOK, PublishedIsAnnounced, Task
  <1>11. PublishedIsAnnounced'
    BY <1>1 DEF TypeOK, TaskOK, AnnouncedOK, PublishedIsAnnounced, Task
  <1>12. QED
    BY <1>3, <1>4, <1>5, <1>6, <1>7, <1>8, <1>9, <1>10, <1>11

\* PublishNow preserves the invariant.
LEMMA PublishNowIInv ==
  ASSUME IInv, NEW a \in Admin, NEW s \in Schedule, PublishNow(a, s)
  PROVE  IInv'
  <1> USE ScheduleAssumption, AttemptsNat DEF PublishNow, Begin, NewTask, queue, rows, IInv
  <1>1. a \in Actor
    BY DEF Actor, TypeOK, TaskOK, Task
  <1>2. TypeOK'
    <2>1. schedule' \in [Schedule -> [status : ScheduleStatus, target : Target \cup {None},
                                     publishAt : Time, retryCount : 0..Attempts]]
      BY <1>1 DEF TypeOK, TaskOK, CountOK, PublisherOK, AttemptsBounded, ScheduleStatus, Task, Time
    <2>2. doing' \in [Actor -> Task \cup {None}]
      BY <1>1 DEF TypeOK, TaskOK, CountOK, Task, Time, TargetStatus
    <2>3. pc' \in [Actor -> Pc]
      BY <1>1 DEF TypeOK, Pc
    <2>4. /\ job' \in [Schedule -> {"none", "waiting", "active"}] /\ due' \in [Schedule -> Time]
          /\ claims' \in [Schedule -> Nat] /\ now' \in Time /\ restarts' \in 0..MaxRestarts
          /\ lost' \subseteq Schedule
      BY <1>1 DEF TypeOK, Time, Task
    <2>5. /\ target' \in [Target -> TargetStatus]
          /\ counted' \in [Target -> Nat] /\ events' \in [Target -> Nat]
      BY <1>1 DEF TypeOK, TaskOK, TargetStatus
    <2>6. QED
      BY <2>1, <2>2, <2>3, <2>4, <2>5 DEF TypeOK
  <1>3. TaskOK'
    <2>1. ASSUME NEW b \in Actor
          PROVE  /\ pc'[b] # "idle" => doing'[b] \in Task
                 /\ pc'[b] \in {"create", "cancel", "publish", "commit", "invalidate", "fail"} =>
                      doing'[b].target \in Target
      BY <1>1 DEF TypeOK, TaskOK, CountOK, Task, Time, TargetStatus
    <2>2. ASSUME NEW b \in Actor
          PROVE  /\ pc'[b] = "create" => b \in Admin /\ schedule'[doing'[b].schedule].status = "ABSENT"
                 /\ pc'[b] \in {"cancel", "read", "publish", "commit", "invalidate", "fail"} =>
                      schedule'[doing'[b].schedule].status # "ABSENT"
      BY <1>1 DEF TypeOK, TaskOK, OneCreator, Task
    <2>3. QED
      BY <2>1, <2>2 DEF TaskOK
  <1>4. OneCreator'
    BY <1>1 DEF TypeOK, TaskOK, OneCreator, Task, Actor
  <1>5. CountOK'
    BY <1>1 DEF TypeOK, TaskOK, CountOK, PublisherOK, AttemptsBounded, Task
  <1>6. PublisherOK'
    BY <1>1 DEF TypeOK, TaskOK, CountOK, PublisherOK, SingleClaimer, Publishing, Task
  <1>7. SingleClaimer'
    BY <1>1 DEF TypeOK, TaskOK, PublisherOK, SingleClaimer, Publishing, Task
  <1>8. AttemptsBounded'
    BY <1>1 DEF TypeOK, TaskOK, CountOK, AttemptsBounded, Task
  <1>9. AnnouncedOK'
    BY <1>1 DEF TypeOK, TaskOK, AnnouncedOK, PublishedIsAnnounced, Task
  <1>10. PublishedIsAnnounced'
    BY <1>1 DEF TypeOK, TaskOK, AnnouncedOK, PublishedIsAnnounced, Task
  <1>11. QED
    BY <1>2, <1>3, <1>4, <1>5, <1>6, <1>7, <1>8, <1>9, <1>10

\* EnqueueSchedule preserves the invariant.
LEMMA EnqueueScheduleIInv ==
  ASSUME IInv, NEW a \in Actor, EnqueueSchedule(a)
  PROVE  IInv'
  <1> USE ScheduleAssumption, AttemptsNat DEF EnqueueSchedule, Finish, Add, Later, queue, rows, IInv
  <1>1. doing[a] \in Task /\ doing[a].schedule \in Schedule
    BY DEF Actor, TypeOK, TaskOK, Task
  <1>2. TypeOK'
    <2>1. schedule' \in [Schedule -> [status : ScheduleStatus, target : Target \cup {None},
                                     publishAt : Time, retryCount : 0..Attempts]]
      BY <1>1 DEF TypeOK, TaskOK, CountOK, PublisherOK, AttemptsBounded, ScheduleStatus, Task, Time
    <2>2. doing' \in [Actor -> Task \cup {None}]
      BY <1>1 DEF TypeOK, TaskOK, CountOK, Task, Time, TargetStatus
    <2>3. pc' \in [Actor -> Pc]
      BY <1>1 DEF TypeOK, Pc
    <2>4. /\ job' \in [Schedule -> {"none", "waiting", "active"}] /\ due' \in [Schedule -> Time]
          /\ claims' \in [Schedule -> Nat] /\ now' \in Time /\ restarts' \in 0..MaxRestarts
          /\ lost' \subseteq Schedule
      <3>1. job' \in [Schedule -> {"none", "waiting", "active"}] /\ due' \in [Schedule -> Time]
        <4>1. CASE a \in Worker
          BY <1>1, <4>1, FinishTyped
        <4>2. doing[a].at \in Time /\ now \in Time /\ TypeOK
          BY <1>1 DEF TypeOK, Task
        <4>3. CASE a \notin Worker
          <5>1. /\ job' = IF job[doing[a].schedule] = "none"
                           THEN [job EXCEPT ![doing[a].schedule] = "waiting"] ELSE job
                /\ due' = IF job[doing[a].schedule] = "none"
                           THEN [due EXCEPT ![doing[a].schedule] = Later(doing[a].at, now)] ELSE due
            BY <4>3 DEF Add
          <5>2. job \in [Schedule -> {"none", "waiting", "active"}] /\ due \in [Schedule -> Time]
            BY <4>2 DEF TypeOK
          <5>3. Later(doing[a].at, now) \in Time
            BY <4>2
          <5> HIDE DEF EnqueueSchedule, IInv, Later
          <5>4. QED
            BY <1>1, <5>1, <5>2, <5>3
        <4>4. QED
          BY <4>1, <4>3
      <3>2. claims' \in [Schedule -> Nat] /\ now' \in Time /\ restarts' \in 0..MaxRestarts
          /\ lost' \subseteq Schedule
        BY DEF TypeOK
      <3>3. QED
        BY <3>1, <3>2
    <2>5. /\ target' \in [Target -> TargetStatus]
          /\ counted' \in [Target -> Nat] /\ events' \in [Target -> Nat]
      BY <1>1 DEF TypeOK, TaskOK, TargetStatus
    <2>6. QED
      BY <2>1, <2>2, <2>3, <2>4, <2>5 DEF TypeOK
  <1>3. TaskOK'
    <2>1. ASSUME NEW b \in Actor
          PROVE  /\ pc'[b] # "idle" => doing'[b] \in Task
                 /\ pc'[b] \in {"create", "cancel", "publish", "commit", "invalidate", "fail"} =>
                      doing'[b].target \in Target
      BY <1>1 DEF TypeOK, TaskOK, CountOK, Task, Time, TargetStatus
    <2>2. ASSUME NEW b \in Actor
          PROVE  /\ pc'[b] = "create" => b \in Admin /\ schedule'[doing'[b].schedule].status = "ABSENT"
                 /\ pc'[b] \in {"cancel", "read", "publish", "commit", "invalidate", "fail"} =>
                      schedule'[doing'[b].schedule].status # "ABSENT"
      BY <1>1 DEF TypeOK, TaskOK, OneCreator, Task
    <2>3. QED
      BY <2>1, <2>2 DEF TaskOK
  <1>4. OneCreator'
    BY <1>1 DEF TypeOK, TaskOK, OneCreator, Task, Actor
  <1>5. CountOK'
    BY <1>1 DEF TypeOK, TaskOK, CountOK, PublisherOK, AttemptsBounded, Task
  <1>6. PublisherOK'
    <2>1. ASSUME NEW b \in Actor, pc'[b] \in {"read", "publish", "commit", "invalidate", "fail"}
          PROVE  pc'[b] = pc[b] /\ doing'[b] = doing[b]
      BY <1>1, <2>1 DEF TypeOK
    <2>2. PublisherOK /\ schedule' = schedule /\ claims' = claims
      OBVIOUS
    <2> HIDE DEF EnqueueSchedule, IInv
    <2>3. QED
      BY <2>1, <2>2 DEF PublisherOK
  <1>7. SingleClaimer'
    BY <1>1 DEF TypeOK, TaskOK, PublisherOK, SingleClaimer, Publishing, Task
  <1>8. AttemptsBounded'
    BY <1>1 DEF TypeOK, TaskOK, CountOK, AttemptsBounded, Task
  <1>9. AnnouncedOK'
    BY <1>1 DEF TypeOK, TaskOK, AnnouncedOK, PublishedIsAnnounced, Task
  <1>10. PublishedIsAnnounced'
    BY <1>1 DEF TypeOK, TaskOK, AnnouncedOK, PublishedIsAnnounced, Task
  <1>11. QED
    BY <1>2, <1>3, <1>4, <1>5, <1>6, <1>7, <1>8, <1>9, <1>10

\* TakeJob preserves the invariant.
LEMMA TakeJobIInv ==
  ASSUME IInv, NEW a \in Worker, NEW s \in Schedule, TakeJob(a, s)
  PROVE  IInv'
  <1> USE ScheduleAssumption, AttemptsNat DEF TakeJob, Begin, NewTask, queue, rows, IInv
  <1>1. a \in Actor
    BY DEF Actor, TypeOK, TaskOK, Task
  <1>2. TypeOK'
    <2>1. schedule' \in [Schedule -> [status : ScheduleStatus, target : Target \cup {None},
                                     publishAt : Time, retryCount : 0..Attempts]]
      BY <1>1 DEF TypeOK, TaskOK, CountOK, PublisherOK, AttemptsBounded, ScheduleStatus, Task, Time
    <2>2. doing' \in [Actor -> Task \cup {None}]
      BY <1>1 DEF TypeOK, TaskOK, CountOK, Task, Time, TargetStatus
    <2>3. pc' \in [Actor -> Pc]
      BY <1>1 DEF TypeOK, Pc
    <2>4. /\ job' \in [Schedule -> {"none", "waiting", "active"}] /\ due' \in [Schedule -> Time]
          /\ claims' \in [Schedule -> Nat] /\ now' \in Time /\ restarts' \in 0..MaxRestarts
          /\ lost' \subseteq Schedule
      BY <1>1 DEF TypeOK, Time, Task
    <2>5. /\ target' \in [Target -> TargetStatus]
          /\ counted' \in [Target -> Nat] /\ events' \in [Target -> Nat]
      BY <1>1 DEF TypeOK, TaskOK, TargetStatus
    <2>6. QED
      BY <2>1, <2>2, <2>3, <2>4, <2>5 DEF TypeOK
  <1>3. TaskOK'
    <2>1. ASSUME NEW b \in Actor
          PROVE  /\ pc'[b] # "idle" => doing'[b] \in Task
                 /\ pc'[b] \in {"create", "cancel", "publish", "commit", "invalidate", "fail"} =>
                      doing'[b].target \in Target
      BY <1>1 DEF TypeOK, TaskOK, CountOK, Task, Time, TargetStatus
    <2>2. ASSUME NEW b \in Actor
          PROVE  /\ pc'[b] = "create" => b \in Admin /\ schedule'[doing'[b].schedule].status = "ABSENT"
                 /\ pc'[b] \in {"cancel", "read", "publish", "commit", "invalidate", "fail"} =>
                      schedule'[doing'[b].schedule].status # "ABSENT"
      BY <1>1 DEF TypeOK, TaskOK, OneCreator, Task
    <2>3. QED
      BY <2>1, <2>2 DEF TaskOK
  <1>4. OneCreator'
    BY <1>1 DEF TypeOK, TaskOK, OneCreator, Task, Actor
  <1>5. CountOK'
    BY <1>1 DEF TypeOK, TaskOK, CountOK, PublisherOK, AttemptsBounded, Task
  <1>6. PublisherOK'
    BY <1>1 DEF TypeOK, TaskOK, CountOK, PublisherOK, SingleClaimer, Publishing, Task
  <1>7. SingleClaimer'
    BY <1>1 DEF TypeOK, TaskOK, PublisherOK, SingleClaimer, Publishing, Task
  <1>8. AttemptsBounded'
    BY <1>1 DEF TypeOK, TaskOK, CountOK, AttemptsBounded, Task
  <1>9. AnnouncedOK'
    BY <1>1 DEF TypeOK, TaskOK, AnnouncedOK, PublishedIsAnnounced, Task
  <1>10. PublishedIsAnnounced'
    BY <1>1 DEF TypeOK, TaskOK, AnnouncedOK, PublishedIsAnnounced, Task
  <1>11. QED
    BY <1>2, <1>3, <1>4, <1>5, <1>6, <1>7, <1>8, <1>9, <1>10

\* Claim preserves the invariant.
LEMMA ClaimIInv ==
  ASSUME IInv, NEW a \in Actor, Claim(a), schedule[doing[a].schedule].status = "Pending"
  PROVE  IInv'
  <1> USE ScheduleAssumption, AttemptsNat DEF Claim, GoTo, queue, rows, IInv
  <1>1. /\ doing[a] \in Task /\ doing[a].schedule \in Schedule
        /\ claims[doing[a].schedule] + 1 \in Nat
    BY DEF Actor, TypeOK, TaskOK, Task
  <1>2. /\ schedule'[doing[a].schedule].status = "Processing"
        /\ \A s \in Schedule \ {doing[a].schedule} : schedule'[s] = schedule[s] /\ claims'[s] = claims[s]
        /\ claims'[doing[a].schedule] = claims[doing[a].schedule] + 1
        /\ schedule'[doing[a].schedule].retryCount = claims[doing[a].schedule]
        /\ pc'[a] = "read" /\ doing' = doing /\ \A b \in Actor \ {a} : pc'[b] = pc[b]
    BY <1>1 DEF TypeOK, TaskOK, CountOK, Task
  <1>3. \A b \in Actor : Publishing(b, doing[a].schedule) => FALSE
    BY <1>1 DEF PublisherOK, Publishing
  <1>4. doing' \in [Actor -> Task \cup {None}]
    BY <1>2 DEF TypeOK
  <1>5. TypeOK'
    <2>1. schedule' \in [Schedule -> [status : ScheduleStatus, target : Target \cup {None},
                                     publishAt : Time, retryCount : 0..Attempts]]
      <3>1. schedule[doing[a].schedule] \in Row /\ TypeOK /\ doing[a].schedule \in Schedule
        BY <1>1 DEF TypeOK, Row, Task
      <3>2. schedule' = [schedule EXCEPT ![doing[a].schedule].status = "Processing"] \/ schedule' = schedule
        OBVIOUS
      <3> HIDE DEF Claim, IInv
      <3>3. [schedule[doing[a].schedule] EXCEPT !.status = "Processing"] \in Row
        BY <3>1 DEF Row, ScheduleStatus
      <3>4. QED
        BY <3>1, <3>2, <3>3, RowUpdate DEF Row, TypeOK
    <2>2. doing' \in [Actor -> Task \cup {None}]
      BY <1>4
    <2>3. pc' \in [Actor -> Pc]
      BY <1>1 DEF TypeOK, Pc
    <2>4. /\ job' \in [Schedule -> {"none", "waiting", "active"}] /\ due' \in [Schedule -> Time]
          /\ claims' \in [Schedule -> Nat] /\ now' \in Time /\ restarts' \in 0..MaxRestarts
          /\ lost' \subseteq Schedule
      BY <1>1 DEF TypeOK, Time, Task
    <2>5. /\ target' \in [Target -> TargetStatus]
          /\ counted' \in [Target -> Nat] /\ events' \in [Target -> Nat]
      BY <1>1 DEF TypeOK, TaskOK, TargetStatus
    <2>6. QED
      BY <2>1, <2>2, <2>3, <2>4, <2>5 DEF TypeOK
  <1>6. TaskOK'
    <2>1. ASSUME NEW b \in Actor
          PROVE  /\ pc'[b] # "idle" => doing'[b] \in Task
                 /\ pc'[b] \in {"create", "cancel", "publish", "commit", "invalidate", "fail"} =>
                      doing'[b].target \in Target
      <3>1. CASE b = a
        BY <1>1, <1>2, <3>1
      <3>2. CASE b # a
        <4>1. pc'[b] = pc[b] /\ doing'[b] = doing[b]
          BY <1>2, <3>2
        <4>2. TaskOK
          OBVIOUS
        <4> HIDE DEF Claim, IInv
        <4>3. QED
          BY <4>1, <4>2 DEF TaskOK
      <3>3. QED
        BY <3>1, <3>2
    <2>2. ASSUME NEW b \in Actor
          PROVE  /\ pc'[b] = "create" => b \in Admin /\ schedule'[doing'[b].schedule].status = "ABSENT"
                 /\ pc'[b] \in {"cancel", "read", "publish", "commit", "invalidate", "fail"} =>
                      schedule'[doing'[b].schedule].status # "ABSENT"
      <3>1. CASE b = a
        BY <1>1, <1>2, <3>1
      <3>2. CASE b # a
        <4>1. pc[b] # "idle" => doing[b].schedule \in Schedule
          BY DEF TaskOK, Task
        <4>2. schedule[doing[a].schedule].status = "Pending" /\ pc'[b] = pc[b] /\ doing'[b] = doing[b]
          BY <1>2, <3>2
        <4>3. QED
          BY <1>2, <4>1, <4>2 DEF TaskOK
      <3>3. QED
        BY <3>1, <3>2
    <2>3. QED
      BY <2>1, <2>2 DEF TaskOK
  <1>7. OneCreator'
    BY <1>1 DEF TypeOK, TaskOK, OneCreator, Task, Actor
  <1>8. CountOK'
    BY <1>1 DEF TypeOK, TaskOK, CountOK, PublisherOK, AttemptsBounded, Task
  <1>9. PublisherOK'
    <2>1. ASSUME NEW b \in Actor, pc'[b] \in {"read", "publish", "commit", "invalidate", "fail"}
          PROVE  /\ schedule'[doing'[b].schedule].status # "Pending"
                 /\ claims'[doing'[b].schedule] =
                      IF pc'[b] = "read" THEN schedule'[doing'[b].schedule].retryCount + 1
                      ELSE doing'[b].retryCount + 1
      <3>1. CASE b = a
        BY <1>1, <1>2, <3>1
      <3>2. CASE b # a
        <4>1. /\ pc'[b] = pc[b] /\ doing'[b] = doing[b]
              /\ doing[b].schedule \in Schedule /\ doing[b].schedule # doing[a].schedule
              /\ schedule'[doing[b].schedule] = schedule[doing[b].schedule]
          BY <1>2, <1>3, <2>1, <3>2 DEF TaskOK, Task, Publishing
        <4>2. QED
          BY <1>2, <2>1, <4>1 DEF PublisherOK
      <3>3. QED
        BY <3>1, <3>2
    <2>2. QED
      BY <2>1 DEF PublisherOK
  <1>10. SingleClaimer'
    <2>1. ASSUME NEW s \in Schedule, NEW b \in Actor, NEW c \in Actor, Publishing(b, s)', Publishing(c, s)'
          PROVE  b = c
      <3>1. ASSUME NEW d \in Actor \ {a}, Publishing(d, s)' PROVE Publishing(d, s) /\ s # doing[a].schedule
        BY <1>2, <1>3, <3>1 DEF Publishing
      <3>2. Publishing(a, s)' => s = doing[a].schedule
        BY <1>2 DEF Publishing
      <3>3. QED
        BY <2>1, <3>1, <3>2 DEF SingleClaimer
    <2>2. QED
      BY <2>1 DEF SingleClaimer
  <1>11. AttemptsBounded'
    BY <1>1 DEF TypeOK, TaskOK, CountOK, AttemptsBounded, Task
  <1>12. AnnouncedOK'
    BY <1>1 DEF TypeOK, TaskOK, AnnouncedOK, PublishedIsAnnounced, Task
  <1>13. PublishedIsAnnounced'
    BY <1>1 DEF TypeOK, TaskOK, AnnouncedOK, PublishedIsAnnounced, Task
  <1>14. QED
    BY <1>5, <1>6, <1>7, <1>8, <1>9, <1>10, <1>11, <1>12, <1>13

\* ReadClaimed preserves the invariant: what it reads is the row as it was claimed.
LEMMA ReadClaimedIInv ==
  ASSUME IInv, NEW a \in Actor, ReadClaimed(a)
  PROVE  IInv'
  <1> DEFINE row == schedule[doing[a].schedule]
             rec == [doing[a] EXCEPT !.target = row.target, !.retryCount = row.retryCount]
  <1>1. /\ pc[a] = "read" /\ doing' = [doing EXCEPT ![a] = rec] /\ pc' = [pc EXCEPT ![a] = "publish"]
        /\ UNCHANGED <<schedule, target, counted, events, claims, job, due, now, restarts, lost>>
    BY DEF ReadClaimed, GoTo, rows, queue
  <1>2. /\ doing[a] \in Task /\ doing[a].schedule \in Schedule
        /\ row.status \notin {"ABSENT", "Pending"} /\ claims[doing[a].schedule] = row.retryCount + 1
    BY <1>1 DEF IInv, TaskOK, Task, PublisherOK
  <1>3. row.target \in Target /\ row.retryCount \in Nat
    BY <1>2, AttemptsNat DEF IInv, CountOK, TypeOK
  <1> HIDE DEF row
  <1>4. /\ rec \in Task /\ rec.schedule = doing[a].schedule /\ rec.target \in Target
        /\ rec.retryCount = row.retryCount
    BY <1>2, <1>3 DEF Task
  <1> HIDE DEF rec
  <1>5. /\ doing' \in [Actor -> Task \cup {None}] /\ doing'[a] = rec
        /\ \A b \in Actor : b # a => doing'[b] = doing[b]
    BY <1>1, <1>4, DoingUpdate DEF IInv
  <1>6. /\ pc' \in [Actor -> Pc] /\ pc'[a] = "publish"
        /\ \A b \in Actor : b # a => pc'[b] = pc[b]
    BY <1>1 DEF IInv, TypeOK, Pc
  <1>7. TypeOK'
    BY <1>1, <1>5, <1>6 DEF IInv, TypeOK
  <1>8. TaskOK' /\ OneCreator'
    <2>1. TaskOK'
      BY <1>1, <1>2, <1>4, <1>5, <1>6 DEF IInv, TaskOK, row
    <2>2. OneCreator'
      BY <1>5, <1>6 DEF IInv, OneCreator
    <2>3. QED
      BY <2>1, <2>2
  <1>9. CountOK'
    BY <1>1 DEF IInv, CountOK
  <1>10. PublisherOK'
    BY <1>1, <1>2, <1>4, <1>5, <1>6 DEF IInv, PublisherOK, row
  <1>11. SingleClaimer'
    <2>1. \A b \in Actor, s \in Schedule : Publishing(b, s)' => Publishing(b, s)
      BY <1>1, <1>4, <1>5, <1>6 DEF Publishing
    <2>2. QED
      BY <2>1 DEF IInv, SingleClaimer
  <1>12. AttemptsBounded' /\ PublishedIsAnnounced'
    BY <1>1 DEF IInv, AttemptsBounded, PublishedIsAnnounced
  <1>13. AnnouncedOK'
    BY <1>1, <1>5, <1>6 DEF IInv, AnnouncedOK
  <1>14. QED
    BY <1>7, <1>8, <1>9, <1>10, <1>11, <1>12, <1>13 DEF IInv

\* ReadTarget preserves the invariant.
LEMMA ReadTargetIInv ==
  ASSUME IInv, NEW a \in Actor, ReadTarget(a)
  PROVE  IInv'
  <1> USE ScheduleAssumption, AttemptsNat DEF ReadTarget, GoTo, queue, rows, IInv
  <1>1. doing[a] \in Task /\ doing[a].schedule \in Schedule
    BY DEF Actor, TypeOK, TaskOK, Task
  <1>2. TypeOK'
    <2>1. schedule' \in [Schedule -> [status : ScheduleStatus, target : Target \cup {None},
                                     publishAt : Time, retryCount : 0..Attempts]]
      BY <1>1 DEF TypeOK, TaskOK, CountOK, PublisherOK, AttemptsBounded, ScheduleStatus, Task, Time
    <2>2. doing' \in [Actor -> Task \cup {None}]
      BY <1>1 DEF TypeOK, TaskOK, CountOK, Task, Time, TargetStatus
    <2>3. pc' \in [Actor -> Pc]
      BY <1>1 DEF TypeOK, Pc
    <2>4. /\ job' \in [Schedule -> {"none", "waiting", "active"}] /\ due' \in [Schedule -> Time]
          /\ claims' \in [Schedule -> Nat] /\ now' \in Time /\ restarts' \in 0..MaxRestarts
          /\ lost' \subseteq Schedule
      BY <1>1 DEF TypeOK, Time, Task
    <2>5. /\ target' \in [Target -> TargetStatus]
          /\ counted' \in [Target -> Nat] /\ events' \in [Target -> Nat]
      BY <1>1 DEF TypeOK, TaskOK, TargetStatus
    <2>6. QED
      BY <2>1, <2>2, <2>3, <2>4, <2>5 DEF TypeOK
  <1>3. TaskOK'
    <2>1. ASSUME NEW b \in Actor
          PROVE  /\ pc'[b] # "idle" => doing'[b] \in Task
                 /\ pc'[b] \in {"create", "cancel", "publish", "commit", "invalidate", "fail"} =>
                      doing'[b].target \in Target
      BY <1>1 DEF TypeOK, TaskOK, CountOK, Task, Time, TargetStatus
    <2>2. ASSUME NEW b \in Actor
          PROVE  /\ pc'[b] = "create" => b \in Admin /\ schedule'[doing'[b].schedule].status = "ABSENT"
                 /\ pc'[b] \in {"cancel", "read", "publish", "commit", "invalidate", "fail"} =>
                      schedule'[doing'[b].schedule].status # "ABSENT"
      BY <1>1 DEF TypeOK, TaskOK, OneCreator, Task
    <2>3. QED
      BY <2>1, <2>2 DEF TaskOK
  <1>4. OneCreator'
    BY <1>1 DEF TypeOK, TaskOK, OneCreator, Task, Actor
  <1>5. CountOK'
    BY <1>1 DEF TypeOK, TaskOK, CountOK, PublisherOK, AttemptsBounded, Task
  <1>6. PublisherOK'
    BY <1>1 DEF TypeOK, TaskOK, CountOK, PublisherOK, SingleClaimer, Publishing, Task
  <1>7. SingleClaimer'
    BY <1>1 DEF TypeOK, TaskOK, PublisherOK, SingleClaimer, Publishing, Task
  <1>8. AttemptsBounded'
    BY <1>1 DEF TypeOK, TaskOK, CountOK, AttemptsBounded, Task
  <1>9. AnnouncedOK'
    BY <1>1 DEF TypeOK, TaskOK, AnnouncedOK, PublishedIsAnnounced, Task
  <1>10. PublishedIsAnnounced'
    BY <1>1 DEF TypeOK, TaskOK, AnnouncedOK, PublishedIsAnnounced, Task
  <1>11. QED
    BY <1>2, <1>3, <1>4, <1>5, <1>6, <1>7, <1>8, <1>9, <1>10

\* CommitPublish preserves the invariant.
LEMMA CommitPublishIInv ==
  ASSUME IInv, NEW a \in Actor, CommitPublish(a)
  PROVE  IInv'
  <1> USE ScheduleAssumption, AttemptsNat DEF CommitPublish, GoTo, Exists, queue, rows, IInv
  <1>1. doing[a] \in Task /\ doing[a].schedule \in Schedule
    BY DEF Actor, TypeOK, TaskOK, Task
  <1>2. TypeOK'
    <2>1. schedule' \in [Schedule -> [status : ScheduleStatus, target : Target \cup {None},
                                     publishAt : Time, retryCount : 0..Attempts]]
      <3>1. schedule[doing[a].schedule] \in Row /\ TypeOK /\ doing[a].schedule \in Schedule
        BY <1>1 DEF TypeOK, Row, Task
      <3>2. schedule' = [schedule EXCEPT ![doing[a].schedule].status = "Published"] \/ schedule' = schedule
        OBVIOUS
      <3> HIDE DEF CommitPublish, IInv
      <3>3. [schedule[doing[a].schedule] EXCEPT !.status = "Published"] \in Row
        BY <3>1 DEF Row, ScheduleStatus
      <3>4. QED
        BY <3>1, <3>2, <3>3, RowUpdate DEF Row, TypeOK
    <2>2. doing' \in [Actor -> Task \cup {None}]
      BY <1>1 DEF TypeOK, TaskOK, CountOK, Task, Time, TargetStatus
    <2>3. pc' \in [Actor -> Pc]
      BY <1>1 DEF TypeOK, Pc
    <2>4. /\ job' \in [Schedule -> {"none", "waiting", "active"}] /\ due' \in [Schedule -> Time]
          /\ claims' \in [Schedule -> Nat] /\ now' \in Time /\ restarts' \in 0..MaxRestarts
          /\ lost' \subseteq Schedule
      BY <1>1 DEF TypeOK, Time, Task
    <2>5. /\ target' \in [Target -> TargetStatus]
          /\ counted' \in [Target -> Nat] /\ events' \in [Target -> Nat]
      BY <1>1 DEF TypeOK, TaskOK, TargetStatus
    <2>6. QED
      BY <2>1, <2>2, <2>3, <2>4, <2>5 DEF TypeOK
  <1>3. TaskOK'
    <2>1. ASSUME NEW b \in Actor
          PROVE  /\ pc'[b] # "idle" => doing'[b] \in Task
                 /\ pc'[b] \in {"create", "cancel", "publish", "commit", "invalidate", "fail"} =>
                      doing'[b].target \in Target
      BY <1>1 DEF TypeOK, TaskOK, CountOK, Task, Time, TargetStatus
    <2>2. ASSUME NEW b \in Actor
          PROVE  /\ pc'[b] = "create" => b \in Admin /\ schedule'[doing'[b].schedule].status = "ABSENT"
                 /\ pc'[b] \in {"cancel", "read", "publish", "commit", "invalidate", "fail"} =>
                      schedule'[doing'[b].schedule].status # "ABSENT"
      BY <1>1 DEF TypeOK, TaskOK, OneCreator, Task
    <2>3. QED
      BY <2>1, <2>2 DEF TaskOK
  <1>4. OneCreator'
    BY <1>1 DEF TypeOK, TaskOK, OneCreator, Task, Actor
  <1>5. CountOK'
    BY <1>1 DEF TypeOK, TaskOK, CountOK, PublisherOK, AttemptsBounded, Task
  <1>6. PublisherOK'
    BY <1>1 DEF TypeOK, TaskOK, CountOK, PublisherOK, SingleClaimer, Publishing, Task
  <1>7. SingleClaimer'
    BY <1>1 DEF TypeOK, TaskOK, PublisherOK, SingleClaimer, Publishing, Task
  <1>8. AttemptsBounded'
    BY <1>1 DEF TypeOK, TaskOK, CountOK, AttemptsBounded, Task
  <1>9. AnnouncedOK'
    BY <1>1 DEF TypeOK, TaskOK, AnnouncedOK, PublishedIsAnnounced, Task
  <1>10. PublishedIsAnnounced'
    BY <1>1 DEF TypeOK, TaskOK, AnnouncedOK, PublishedIsAnnounced, Task
  <1>11. QED
    BY <1>2, <1>3, <1>4, <1>5, <1>6, <1>7, <1>8, <1>9, <1>10

\* AttemptFails preserves the invariant.
LEMMA AttemptFailsIInv ==
  ASSUME IInv, NEW a \in Actor, AttemptFails(a)
  PROVE  IInv'
  <1> USE ScheduleAssumption, AttemptsNat DEF AttemptFails, GoTo, queue, rows, IInv
  <1>1. doing[a] \in Task /\ doing[a].schedule \in Schedule
    BY DEF Actor, TypeOK, TaskOK, Task
  <1>2. TypeOK'
    <2>1. schedule' \in [Schedule -> [status : ScheduleStatus, target : Target \cup {None},
                                     publishAt : Time, retryCount : 0..Attempts]]
      BY <1>1 DEF TypeOK, TaskOK, CountOK, PublisherOK, AttemptsBounded, ScheduleStatus, Task, Time
    <2>2. doing' \in [Actor -> Task \cup {None}]
      BY <1>1 DEF TypeOK, TaskOK, CountOK, Task, Time, TargetStatus
    <2>3. pc' \in [Actor -> Pc]
      BY <1>1 DEF TypeOK, Pc
    <2>4. /\ job' \in [Schedule -> {"none", "waiting", "active"}] /\ due' \in [Schedule -> Time]
          /\ claims' \in [Schedule -> Nat] /\ now' \in Time /\ restarts' \in 0..MaxRestarts
          /\ lost' \subseteq Schedule
      BY <1>1 DEF TypeOK, Time, Task
    <2>5. /\ target' \in [Target -> TargetStatus]
          /\ counted' \in [Target -> Nat] /\ events' \in [Target -> Nat]
      BY <1>1 DEF TypeOK, TaskOK, TargetStatus
    <2>6. QED
      BY <2>1, <2>2, <2>3, <2>4, <2>5 DEF TypeOK
  <1>3. TaskOK'
    <2>1. ASSUME NEW b \in Actor
          PROVE  /\ pc'[b] # "idle" => doing'[b] \in Task
                 /\ pc'[b] \in {"create", "cancel", "publish", "commit", "invalidate", "fail"} =>
                      doing'[b].target \in Target
      BY <1>1 DEF TypeOK, TaskOK, CountOK, Task, Time, TargetStatus
    <2>2. ASSUME NEW b \in Actor
          PROVE  /\ pc'[b] = "create" => b \in Admin /\ schedule'[doing'[b].schedule].status = "ABSENT"
                 /\ pc'[b] \in {"cancel", "read", "publish", "commit", "invalidate", "fail"} =>
                      schedule'[doing'[b].schedule].status # "ABSENT"
      BY <1>1 DEF TypeOK, TaskOK, OneCreator, Task
    <2>3. QED
      BY <2>1, <2>2 DEF TaskOK
  <1>4. OneCreator'
    BY <1>1 DEF TypeOK, TaskOK, OneCreator, Task, Actor
  <1>5. CountOK'
    BY <1>1 DEF TypeOK, TaskOK, CountOK, PublisherOK, AttemptsBounded, Task
  <1>6. PublisherOK'
    BY <1>1 DEF TypeOK, TaskOK, CountOK, PublisherOK, SingleClaimer, Publishing, Task
  <1>7. SingleClaimer'
    BY <1>1 DEF TypeOK, TaskOK, PublisherOK, SingleClaimer, Publishing, Task
  <1>8. AttemptsBounded'
    BY <1>1 DEF TypeOK, TaskOK, CountOK, AttemptsBounded, Task
  <1>9. AnnouncedOK'
    BY <1>1 DEF TypeOK, TaskOK, AnnouncedOK, PublishedIsAnnounced, Task
  <1>10. PublishedIsAnnounced'
    BY <1>1 DEF TypeOK, TaskOK, AnnouncedOK, PublishedIsAnnounced, Task
  <1>11. QED
    BY <1>2, <1>3, <1>4, <1>5, <1>6, <1>7, <1>8, <1>9, <1>10

\* GiveUp preserves the invariant.
LEMMA GiveUpIInv ==
  ASSUME IInv, NEW a \in Actor, RecordFailure(a), doing[a].retryCount + 1 >= MaxRetries
  PROVE  IInv'
  <1> USE ScheduleAssumption, AttemptsNat DEF RecordFailure, Finish, queue, rows, IInv
  <1>1. /\ doing[a] \in Task /\ doing[a].schedule \in Schedule
        /\ pc[a] = "fail"
    BY DEF Actor, TypeOK, TaskOK, Task
  <1>2. TypeOK'
    <2>1. schedule' \in [Schedule -> [status : ScheduleStatus, target : Target \cup {None},
                                     publishAt : Time, retryCount : 0..Attempts]]
      <3>1. schedule[doing[a].schedule] \in Row /\ TypeOK
        BY <1>1 DEF TypeOK, Row
      <3>2. doing[a].retryCount + 1 \in 0..Attempts
        BY <1>1 DEF Task, PublisherOK, AttemptsBounded
      <3>3. schedule' = [schedule EXCEPT ![doing[a].schedule].status = "FAILED",
                                         ![doing[a].schedule].retryCount = doing[a].retryCount + 1]
        <4>1. ~(doing[a].retryCount + 1 < MaxRetries)
          BY <1>1 DEF Task
        <4> HIDE DEF IInv, Finish, queue, rows
        <4>2. QED
          BY <4>1
      <3> HIDE DEF RecordFailure, Finish, queue, rows, IInv
      <3>4. [schedule[doing[a].schedule] EXCEPT !.status = "FAILED", !.retryCount = doing[a].retryCount + 1] \in Row
        BY <3>1, <3>2 DEF Row, ScheduleStatus
      <3>5. schedule' = [schedule EXCEPT ![doing[a].schedule] =
                          [schedule[doing[a].schedule] EXCEPT !.status = "FAILED",
                                                              !.retryCount = doing[a].retryCount + 1]]
        BY <3>1, <3>3, <1>1 DEF TypeOK
      <3>6. QED
        BY <3>1, <3>4, <3>5, <1>1, RowUpdate DEF Row
    <2>2. doing' \in [Actor -> Task \cup {None}]
      BY <1>1 DEF TypeOK, TaskOK, CountOK, Task, Time, TargetStatus
    <2>3. pc' \in [Actor -> Pc]
      <3>1. ~(doing[a].retryCount + 1 < MaxRetries)
        BY <1>1 DEF Task
      <3>2. pc' = [pc EXCEPT ![a] = "idle"]
        BY <3>1
      <3>3. QED
        BY <3>2 DEF TypeOK, Pc
    <2>4. /\ job' \in [Schedule -> {"none", "waiting", "active"}] /\ due' \in [Schedule -> Time]
          /\ claims' \in [Schedule -> Nat] /\ now' \in Time /\ restarts' \in 0..MaxRestarts
          /\ lost' \subseteq Schedule
      BY <1>1, FinishTyped DEF TypeOK, Time, Task
    <2>5. /\ target' \in [Target -> TargetStatus]
          /\ counted' \in [Target -> Nat] /\ events' \in [Target -> Nat]
      BY <1>1 DEF TypeOK, TaskOK, TargetStatus
    <2>6. QED
      BY <2>1, <2>2, <2>3, <2>4, <2>5 DEF TypeOK
  <1>3. TaskOK'
    <2>1. ASSUME NEW b \in Actor
          PROVE  /\ pc'[b] # "idle" => doing'[b] \in Task
                 /\ pc'[b] \in {"create", "cancel", "publish", "commit", "invalidate", "fail"} =>
                      doing'[b].target \in Target
      BY <1>1 DEF TypeOK, TaskOK, CountOK, Task, Time, TargetStatus
    <2>2. ASSUME NEW b \in Actor
          PROVE  /\ pc'[b] = "create" => b \in Admin /\ schedule'[doing'[b].schedule].status = "ABSENT"
                 /\ pc'[b] \in {"cancel", "read", "publish", "commit", "invalidate", "fail"} =>
                      schedule'[doing'[b].schedule].status # "ABSENT"
      BY <1>1 DEF TypeOK, TaskOK, OneCreator, Task
    <2>3. QED
      BY <2>1, <2>2 DEF TaskOK
  <1>4. OneCreator'
    BY <1>1 DEF TypeOK, TaskOK, OneCreator, Task, Actor
  <1>5. CountOK'
    BY <1>1 DEF TypeOK, TaskOK, CountOK, PublisherOK, AttemptsBounded, Task
  <1>6. PublisherOK'
    <2>1. ASSUME NEW b \in Actor, pc'[b] \in {"read", "publish", "commit", "invalidate", "fail"}
          PROVE  /\ pc'[b] = pc[b] /\ doing'[b] = doing[b] /\ doing[b].schedule \in Schedule
                 /\ doing[b].schedule # doing[a].schedule
                 /\ schedule'[doing[b].schedule] = schedule[doing[b].schedule]
      <3>1. b # a /\ pc'[b] = pc[b] /\ doing'[b] = doing[b]
        BY <1>1, <2>1 DEF TypeOK
      <3>2. doing[b].schedule \in Schedule /\ doing[b].schedule # doing[a].schedule
        BY <1>1, <2>1, <3>1 DEF TaskOK, Task, SingleClaimer, Publishing
      <3>3. QED
        BY <3>1, <3>2 DEF TypeOK
    <2>2. claims' = claims /\ PublisherOK
      OBVIOUS
    <2> HIDE DEF RecordFailure, IInv
    <2>3. QED
      BY <2>1, <2>2 DEF PublisherOK
  <1>7. SingleClaimer'
    BY <1>1 DEF TypeOK, TaskOK, PublisherOK, SingleClaimer, Publishing, Task
  <1>8. AttemptsBounded'
    BY <1>1 DEF TypeOK, TaskOK, CountOK, AttemptsBounded, Task
  <1>9. AnnouncedOK'
    BY <1>1 DEF TypeOK, TaskOK, AnnouncedOK, PublishedIsAnnounced, Task
  <1>10. PublishedIsAnnounced'
    BY <1>1 DEF TypeOK, TaskOK, AnnouncedOK, PublishedIsAnnounced, Task
  <1>11. QED
    BY <1>2, <1>3, <1>4, <1>5, <1>6, <1>7, <1>8, <1>9, <1>10

\* RecordFailure preserves the invariant.
LEMMA RecordFailureIInv ==
  ASSUME IInv, NEW a \in Actor, RecordFailure(a), doing[a].retryCount + 1 < MaxRetries
  PROVE  IInv'
  <1> USE ScheduleAssumption, AttemptsNat DEF RecordFailure, GoTo, queue, rows, IInv
  <1>1. /\ doing[a] \in Task /\ doing[a].schedule \in Schedule
        /\ pc[a] = "fail" /\ schedule[doing[a].schedule].publishAt \in Time
    BY DEF Actor, TypeOK, TaskOK, Task
  <1>2. TypeOK'
    <2>1. schedule' \in [Schedule -> [status : ScheduleStatus, target : Target \cup {None},
                                     publishAt : Time, retryCount : 0..Attempts]]
      <3>1. schedule[doing[a].schedule] \in Row /\ TypeOK
        BY <1>1 DEF TypeOK, Row
      <3>2. doing[a].retryCount + 1 \in 0..Attempts
        BY <1>1 DEF Task
      <3>3. schedule' = [schedule EXCEPT ![doing[a].schedule].status = "Pending",
                                         ![doing[a].schedule].retryCount = doing[a].retryCount + 1]
        OBVIOUS
      <3> HIDE DEF RecordFailure, IInv
      <3>4. [schedule[doing[a].schedule] EXCEPT !.status = "Pending", !.retryCount = doing[a].retryCount + 1] \in Row
        BY <3>1, <3>2 DEF Row, ScheduleStatus
      <3>5. schedule' = [schedule EXCEPT ![doing[a].schedule] =
                          [schedule[doing[a].schedule] EXCEPT !.status = "Pending",
                                                              !.retryCount = doing[a].retryCount + 1]]
        BY <3>1, <3>3, <1>1 DEF TypeOK
      <3>6. QED
        BY <3>1, <3>4, <3>5, <1>1, RowUpdate DEF Row
    <2>2. doing' \in [Actor -> Task \cup {None}]
      BY <1>1 DEF TypeOK, TaskOK, CountOK, Task, Time, TargetStatus
    <2>3. pc' \in [Actor -> Pc]
      BY <1>1 DEF TypeOK, Pc
    <2>4. /\ job' \in [Schedule -> {"none", "waiting", "active"}] /\ due' \in [Schedule -> Time]
          /\ claims' \in [Schedule -> Nat] /\ now' \in Time /\ restarts' \in 0..MaxRestarts
          /\ lost' \subseteq Schedule
      BY <1>1 DEF TypeOK, Time, Task
    <2>5. /\ target' \in [Target -> TargetStatus]
          /\ counted' \in [Target -> Nat] /\ events' \in [Target -> Nat]
      BY <1>1 DEF TypeOK, TaskOK, TargetStatus
    <2>6. QED
      BY <2>1, <2>2, <2>3, <2>4, <2>5 DEF TypeOK
  <1>3. TaskOK'
    <2>1. ASSUME NEW b \in Actor
          PROVE  /\ pc'[b] # "idle" => doing'[b] \in Task
                 /\ pc'[b] \in {"create", "cancel", "publish", "commit", "invalidate", "fail"} =>
                      doing'[b].target \in Target
      <3>1. [doing[a] EXCEPT !.at = schedule[doing[a].schedule].publishAt] \in Task
        BY <1>1 DEF Task
      <3>2. /\ pc' = [pc EXCEPT ![a] = "enqueue"] /\ pc \in [Actor -> Pc]
            /\ doing' = [doing EXCEPT ![a] = [doing[a] EXCEPT !.at = schedule[doing[a].schedule].publishAt]]
            /\ doing \in [Actor -> Task \cup {None}] /\ TaskOK
        BY DEF TypeOK
      <3> HIDE DEF RecordFailure, IInv
      <3>3. CASE b = a
        BY <1>1, <3>1, <3>2, <3>3
      <3>4. CASE b # a
        BY <1>1, <3>2, <3>4 DEF TaskOK
      <3>5. QED
        BY <3>3, <3>4
    <2>2. ASSUME NEW b \in Actor
          PROVE  /\ pc'[b] = "create" => b \in Admin /\ schedule'[doing'[b].schedule].status = "ABSENT"
                 /\ pc'[b] \in {"cancel", "read", "publish", "commit", "invalidate", "fail"} =>
                      schedule'[doing'[b].schedule].status # "ABSENT"
      BY <1>1 DEF TypeOK, TaskOK, OneCreator, Task
    <2>3. QED
      BY <2>1, <2>2 DEF TaskOK
  <1>4. OneCreator'
    BY <1>1 DEF TypeOK, TaskOK, OneCreator, Task, Actor
  <1>5. CountOK'
    BY <1>1 DEF TypeOK, TaskOK, CountOK, PublisherOK, AttemptsBounded, Task
  <1>6. PublisherOK'
    <2>1. ASSUME NEW b \in Actor, pc'[b] \in {"read", "publish", "commit", "invalidate", "fail"}
          PROVE  /\ pc'[b] = pc[b] /\ doing'[b] = doing[b] /\ doing[b].schedule \in Schedule
                 /\ doing[b].schedule # doing[a].schedule
                 /\ schedule'[doing[b].schedule] = schedule[doing[b].schedule]
      <3>1. b # a /\ pc'[b] = pc[b] /\ doing'[b] = doing[b]
        BY <1>1, <2>1 DEF TypeOK
      <3>2. doing[b].schedule \in Schedule /\ doing[b].schedule # doing[a].schedule
        BY <1>1, <2>1, <3>1 DEF TaskOK, Task, SingleClaimer, Publishing
      <3>3. QED
        BY <3>1, <3>2 DEF TypeOK
    <2>2. claims' = claims /\ PublisherOK
      OBVIOUS
    <2> HIDE DEF RecordFailure, IInv
    <2>3. QED
      BY <2>1, <2>2 DEF PublisherOK
  <1>7. SingleClaimer'
    BY <1>1 DEF TypeOK, TaskOK, PublisherOK, SingleClaimer, Publishing, Task
  <1>8. AttemptsBounded'
    BY <1>1 DEF TypeOK, TaskOK, CountOK, AttemptsBounded, Task
  <1>9. AnnouncedOK'
    BY <1>1 DEF TypeOK, TaskOK, AnnouncedOK, PublishedIsAnnounced, Task
  <1>10. PublishedIsAnnounced'
    BY <1>1 DEF TypeOK, TaskOK, AnnouncedOK, PublishedIsAnnounced, Task
  <1>11. QED
    BY <1>2, <1>3, <1>4, <1>5, <1>6, <1>7, <1>8, <1>9, <1>10

\* DeleteTarget, Tick and Restart preserve the invariant.
LEMMA OthersIInv ==
  ASSUME IInv, (\E t \in Target : DeleteTarget(t)) \/ Tick \/ Restart \/ UNCHANGED vars
  PROVE  IInv'
  <1> USE ScheduleAssumption, AttemptsNat DEF queue, rows, IInv
  <1>1. CASE \E t \in Target : DeleteTarget(t)
    <2> USE <1>1 DEF DeleteTarget, Exists
    <2>1. TypeOK'
      BY DEF TypeOK, TargetStatus
    <2>2. TaskOK' /\ OneCreator' /\ CountOK' /\ PublisherOK' /\ SingleClaimer' /\ AttemptsBounded'
      BY DEF TaskOK, OneCreator, CountOK, PublisherOK, SingleClaimer, Publishing, AttemptsBounded
    <2>3. AnnouncedOK'
      BY DEF AnnouncedOK
    <2>4. PublishedIsAnnounced'
      BY DEF TypeOK, PublishedIsAnnounced
    <2>5. QED
      BY <2>1, <2>2, <2>3, <2>4
  <1>2. CASE Tick \/ UNCHANGED vars
    <2> USE <1>2 DEF Tick, vars
    <2>1. TypeOK'
      BY DEF TypeOK, Time
    <2>2. TaskOK' /\ OneCreator' /\ CountOK' /\ PublisherOK' /\ SingleClaimer' /\ AttemptsBounded'
      BY DEF TaskOK, OneCreator, CountOK, PublisherOK, SingleClaimer, Publishing, AttemptsBounded
    <2>3. AnnouncedOK' /\ PublishedIsAnnounced'
      BY DEF AnnouncedOK, PublishedIsAnnounced
    <2>4. QED
      BY <2>1, <2>2, <2>3
  <1>3. CASE Restart
    <2> USE <1>3 DEF Restart
    <2>1. TypeOK'
      <3>1. \A s \in Schedule : Later(schedule[s].publishAt, now) \in Time
        BY DEF TypeOK, Later
      <3>2. due' \in [Schedule -> Time] /\ job' \in [Schedule -> {"none", "waiting", "active"}]
        BY <3>1 DEF TypeOK
      <3>3. restarts' \in 0..MaxRestarts
        BY DEF TypeOK
      <3>4. QED
        BY <3>2, <3>3 DEF TypeOK, Pc
    <2>2. TaskOK' /\ OneCreator' /\ CountOK' /\ PublisherOK' /\ SingleClaimer' /\ AttemptsBounded'
      BY DEF TaskOK, OneCreator, CountOK, PublisherOK, SingleClaimer, Publishing, AttemptsBounded
    <2>3. AnnouncedOK' /\ PublishedIsAnnounced'
      BY DEF AnnouncedOK, PublishedIsAnnounced
    <2>4. QED
      BY <2>1, <2>2, <2>3
  <1>4. QED
    BY <1>1, <1>2, <1>3

-----------------------------------------------------------------------------
\* Every step preserves the invariant.
LEMMA NextIInv == IInv /\ [Next]_vars => IInv'
  <1> SUFFICES ASSUME IInv, [Next]_vars PROVE IInv'
    OBVIOUS
  <1>1. ASSUME NEW a \in Admin, Request(a) PROVE IInv'
    BY <1>1, BeginCreateIInv, BeginUpdateIInv, BeginCancelIInv, PublishNowIInv DEF Request
  <1>2. ASSUME NEW w \in Worker, NEW s \in Schedule, TakeJob(w, s) PROVE IInv'
    BY <1>2, TakeJobIInv
  <1>0. lost \subseteq Schedule
    BY DEF IInv, TypeOK
  <1>3. ASSUME NEW a \in Actor, Proceed(a) PROVE IInv'
    <2>1. CASE CreateSchedule(a)
      <3>1. CASE Exists(doing[a].target)
        BY <2>1, <3>1, CreateScheduleIInv
      <3>2. CASE ~Exists(doing[a].target)
        BY <1>0, <2>1, <3>2, FinishOnlyIInv DEF CreateSchedule, rows
      <3>3. QED
        BY <3>1, <3>2
    <2>2. CASE CancelSchedule(a)
      <3>1. CASE Exists(doing[a].target)
        BY <2>2, <3>1, CancelScheduleIInv
      <3>2. CASE ~Exists(doing[a].target)
        BY <1>0, <2>2, <3>2, FinishOnlyIInv DEF CancelSchedule, rows
      <3>3. QED
        BY <3>1, <3>2
    <2>3. CASE Claim(a)
      <3>1. CASE schedule[doing[a].schedule].status = "Pending"
        BY <2>3, <3>1, ClaimIInv
      <3>2. CASE schedule[doing[a].schedule].status # "Pending"
        BY <1>0, <2>3, <3>2, FinishOnlyIInv DEF Claim, rows
      <3>3. QED
        BY <3>1, <3>2
    <2>4. CASE Invalidate(a)
      BY <1>0, <2>4, FinishOnlyIInv DEF Invalidate
    <2>5. CASE RecordFailure(a)
      <3>1. MaxRetries \in Nat /\ doing[a].retryCount \in Nat
        BY <2>5, ScheduleAssumption DEF RecordFailure, IInv, TaskOK, Task
      <3>2. CASE doing[a].retryCount + 1 < MaxRetries
        BY <2>5, <3>2, RecordFailureIInv
      <3>3. CASE doing[a].retryCount + 1 >= MaxRetries
        BY <2>5, <3>3, GiveUpIInv
      <3>4. QED
        BY <3>1, <3>2, <3>3
    <2>6. QED
      BY <1>3, <2>1, <2>2, <2>3, <2>4, <2>5, UpdateScheduleIInv, EnqueueScheduleIInv, ReadClaimedIInv,
         ReadTargetIInv, CommitPublishIInv DEF Proceed
  <1>4. ASSUME NEW a \in Actor, AttemptFails(a) PROVE IInv'
    BY <1>4, AttemptFailsIInv
  <1>5. ASSUME NEW a \in Actor, StatementFails(a) PROVE IInv'
    <2>1. pc[a] # "idle" /\ Finish(a) /\ UNCHANGED <<rows, now, restarts>>
      BY <1>5 DEF StatementFails
    <2>2. lost' \subseteq Schedule
      BY <1>0, <1>5, <2>1 DEF StatementFails, IInv, TaskOK, Task
    <2>3. QED
      BY <2>1, <2>2, FinishOnlyIInv
  <1>6. QED
    BY <1>1, <1>2, <1>3, <1>4, <1>5, OthersIInv DEF Next

\* The inductive invariant holds in every reachable state.
LEMMA Invariance == Spec => []IInv
  <1>1. Init => IInv
    BY InitIInv
  <1>2. IInv /\ [Next]_vars => IInv'
    BY NextIInv
  <1>3. QED
    BY <1>1, <1>2, PTL DEF Spec

\* The state has the declared types; in particular the retry counter of a row stays within
\* its maximum (scheduled-publishing.service.ts:242).
THEOREM SchedulesTyped == Spec => []TypeOK
  <1>1. IInv => TypeOK
    BY DEF IInv
  <1>2. QED
    BY <1>1, Invariance, PTL

\* Two workers, or a worker and publishNow, are never between the claim and the end of an
\* attempt of the same schedule, whatever is updated or cancelled by id meanwhile
\* (scheduled-publishing.service.ts:197).
THEOREM OnePublisher == Spec => []SingleClaimer
  <1>1. IInv => SingleClaimer
    BY DEF IInv
  <1>2. QED
    BY <1>1, Invariance, PTL

\* A schedule is claimed at most max(1, maxRetries) times, by the queue, publishNow and
\* restarts together (scheduled-publishing.service.ts:232).
THEOREM BoundedAttempts == Spec => []AttemptsBounded
  <1>1. IInv => AttemptsBounded
    BY DEF IInv
  <1>2. QED
    BY <1>1, Invariance, PTL

\* Content is never public without its event, nor a public chapter uncounted, however the
\* attempts of its schedules overlap (scheduled-publishing.service.ts:306, :333).
THEOREM PublishedWasAnnounced == Spec => []PublishedIsAnnounced
  <1>1. IInv => PublishedIsAnnounced
    BY DEF IInv
  <1>2. QED
    BY <1>1, Invariance, PTL

=============================================================================
