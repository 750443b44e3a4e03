------------------------ MODULE NotificationOutboxProofs ------------------------
(***************************************************************************)
(* Proofs about NotificationOutbox for every number of users, events and   *)
(* server processes, every page, batch and concurrency limit, and every    *)
(* number of attempts, stalls and crashes.                                 *)
(***************************************************************************)
EXTENDS NotificationOutbox, FiniteSetTheorems, WellFoundedInduction, TLAPS

(***************************************************************************)
(* The inductive invariant.  The unit of progress is a cursor: whoever is  *)
(* entitled and comes at or before it was notified.  It holds of the saved *)
(* cursor and of the cursor of every handler, however many handlers a lost *)
(* lease leaves with one event; a page contains everybody entitled between *)
(* the cursor and its last user.                                           *)
(***************************************************************************)
Covered(cursor, done, out) == \A u \in User : u <= cursor /\ u \notin out => u \in done
Everybody(done, out) == \A u \in User : u \notin out => u \in done

EventOK ==
  \A e \in Event :
    /\ event[e].status \in {"ABSENT", "PENDING", "PROCESSING"} => event[e].attempts < MaxAttempts
    /\ event[e].status = "ABSENT" => \A w \in Worker : task[w][e] = None
    /\ event[e].status = "ABSENT" /\ e \in Broadcast => broadcast[e].cursor = 0
    /\ event[e].status # "ABSENT" => \A u \in User : u \notin excused[e] => u \in eligible

\* What a handler may rely on at its step, when done are notified and out are excused.
Knows(e, t, done, out) ==
  /\ t.attempts < MaxAttempts
  /\ t.step = "queued" => t.cursor = 0
  /\ t.step \in {"begin", "save", "finish"} => e \in Broadcast
  /\ t.step \in {"read", "insert", "save", "finish", "mark"} => Covered(t.cursor, done, out)
  /\ t.step = "insert" =>
       /\ t.page # {}
       /\ \A u \in User, v \in t.page : u > t.cursor /\ u <= v /\ u \notin out => u \in t.page
  /\ t.step = "mark" => Everybody(done, out)
  /\ t.step = "finish" /\ ~t.failed => Everybody(done, out)
TaskOK == \A w \in Worker, e \in Event :
            task[w][e] # None => Knows(e, task[w][e], notified[e], excused[e])

IInv == TypeOK /\ EventOK /\ TaskOK /\ ProcessedMeansNotified /\ CursorBehindDelivery

-----------------------------------------------------------------------------
\* The constants are numbers.
LEMMA Constants ==
  /\ NumUsers \in Nat /\ PageSize \in Nat /\ PageSize >= 1
  /\ MaxAttempts \in Nat /\ MaxAttempts >= 1 /\ MaxStalls \in Nat /\ MaxCrashes \in Nat
  /\ 0 \in 0..MaxAttempts /\ 0 \in 0..NumUsers /\ 0 \in 0..MaxStalls /\ 0 \in 0..MaxCrashes
  /\ \A u \in User : u \in 0..NumUsers /\ u \in Nat /\ u > 0
  BY OutboxAssumption DEF User

\* A set of numbers that is not empty has a least one.
LEMMA LeastExists ==
  ASSUME NEW S \in SUBSET Nat, S # {}
  PROVE  \E x \in S : \A y \in S : x <= y
  <1>1. PICK x \in S : \A y \in S : ~(<<y, x>> \in OpToRel(<, Nat))
    BY NatLessThanWellFounded, WFMin
  <1>2. \A y \in S : <<y, x>> \in OpToRel(<, Nat) <=> y < x
    BY DEF OpToRel
  <1>3. \A y \in S : ~(y < x) /\ y \in Nat /\ x \in Nat
    BY <1>1, <1>2
  <1>4. QED
    BY <1>3

\* A set of users that is not empty has a last one, and Max is it.
LEMMA MaxOfUsers ==
  ASSUME NEW S \in SUBSET User, S # {}
  PROVE  Max(S) \in S /\ \A u \in S : u <= Max(S)
  <1> DEFINE T == {NumUsers - u : u \in S}
  <1>1. T \in SUBSET Nat /\ T # {}
    <2>1. \A u \in S : NumUsers - u \in Nat
      BY Constants
    <2>2. QED
      BY <2>1
  <1>2. \A u \in S : NumUsers - u \in T
    OBVIOUS
  <1>3. \A t \in T : \E u \in S : t = NumUsers - u
    OBVIOUS
  <1> HIDE DEF T
  <1>4. PICK t \in T : \A y \in T : t <= y
    BY <1>1, LeastExists
  <1>5. PICK last \in S : t = NumUsers - last
    BY <1>3
  <1>6. \A u \in S : last >= u
    BY <1>2, <1>4, <1>5, Constants
  <1>7. Max(S) \in S /\ \A u \in S : Max(S) >= u
    BY <1>6 DEF Max
  <1>8. QED
    BY <1>7, Constants

\* Sets of users are finite, and smaller sets count less.
LEMMA UsersFinite ==
  ASSUME NEW S \in SUBSET User, NEW T \in SUBSET S
  PROVE  /\ IsFiniteSet(S) /\ Cardinality(S) \in Nat /\ Cardinality(T) \in Nat
         /\ Cardinality(T) <= Cardinality(S)
  <1>1. IsFiniteSet(User)
    BY Constants, FS_Interval DEF User
  <1>2. QED
    BY <1>1, FS_Subset, FS_CardinalityType

\* A page holds everybody who is eligible between the cursor and its last user, and
\* only the page after the last eligible user is empty.
LEMMA Pages ==
  ASSUME eligible \subseteq User, NEW cursor \in 0..NumUsers
  PROVE  /\ PageOf(cursor) \subseteq User
         /\ \A u \in eligible, v \in PageOf(cursor) : u > cursor /\ u <= v => u \in PageOf(cursor)
         /\ PageOf(cursor) = {} => \A u \in eligible : u <= cursor
  <1> DEFINE after == {u \in eligible : u > cursor}
             upTo(u) == {v \in after : v <= u}
  <1>1. PageOf(cursor) = {u \in after : Cardinality(upTo(u)) <= PageSize}
    BY DEF PageOf
  <1>2. after \subseteq User /\ \A u \in after : u \in Nat
    BY Constants
  <1>3. \A u \in User : upTo(u) \in SUBSET User
    BY <1>2
  <1>4. ASSUME NEW u \in eligible, NEW v \in PageOf(cursor), u > cursor, u <= v
        PROVE  u \in PageOf(cursor)
    <2>1. u \in after /\ v \in after /\ u \in Nat /\ v \in Nat /\ Cardinality(upTo(v)) <= PageSize
      BY <1>1, <1>2, <1>4
    <2>2. upTo(u) \subseteq upTo(v)
      <3>1. \A x \in after : x <= u => x <= v
        BY <1>2, <1>4, <2>1
      <3>2. QED
        BY <3>1
    <2>3. upTo(v) \in SUBSET User
      BY <1>2, <1>3, <2>1
    <2> HIDE DEF upTo
    <2>4. /\ Cardinality(upTo(u)) \in Nat /\ Cardinality(upTo(v)) \in Nat
          /\ Cardinality(upTo(u)) <= Cardinality(upTo(v))
      BY <2>2, <2>3, UsersFinite
    <2>5. Cardinality(upTo(u)) <= PageSize
      BY <2>1, <2>4, Constants
    <2>6. QED
      BY <1>1, <2>1, <2>5
  <1>5. ASSUME after # {}
        PROVE  PageOf(cursor) # {}
    <2>1. PICK u \in after : \A v \in after : u <= v
      <3> HIDE DEF after
      <3>1. QED
        BY <1>2, <1>5, LeastExists
    <2>2. upTo(u) = {u}
      <3>1. \A v \in after : v <= u <=> v = u
        BY <1>2, <2>1
      <3>2. QED
        BY <2>1, <3>1
    <2>3. Cardinality(upTo(u)) = 1
      <3> HIDE DEF upTo
      <3>1. QED
        BY <2>2, FS_Singleton
    <2>4. QED
      <3> HIDE DEF upTo
      <3>1. QED
        BY <1>1, <2>1, <2>3, Constants
  <1>6. ASSUME PageOf(cursor) = {}
        PROVE  \A u \in eligible : u <= cursor
    BY <1>2, <1>5, <1>6, Constants
  <1>7. PageOf(cursor) \subseteq User
    BY <1>1, <1>2
  <1>8. QED
    BY <1>4, <1>6, <1>7

\* A row of DomainOutboxEvent.
Row == [status : EventStatus, attempts : 0..MaxAttempts, lockedBy : Worker \cup {None}, stale : BOOLEAN]

\* The invariant holds initially.
LEMMA InitIInv == Init => IInv
  <1> SUFFICES ASSUME Init PROVE IInv
    OBVIOUS
  <1> USE Constants DEF Init
  <1>1. TypeOK
    BY DEF TypeOK, EventStatus, BroadcastStatus
  <1>2. EventOK /\ TaskOK
    BY DEF EventOK, TaskOK
  <1>3. ProcessedMeansNotified /\ CursorBehindDelivery
    <2>1. \A e \in Content \cup Broadcast : e \in Event
      BY DEF Event
    <2>2. \A e \in Broadcast : broadcast[e].cursor = 0
      OBVIOUS
    <2>3. \A u \in User : ~(u <= 0)
      OBVIOUS
    <2>4. QED
      BY <2>1, <2>2, <2>3 DEF ProcessedMeansNotified, CursorBehindDelivery
  <1>4. QED
    BY <1>1, <1>2, <1>3 DEF IInv

-----------------------------------------------------------------------------
\* Users once notified stay so: what a handler relies on survives the work of others.
LEMMA KnowsGrows ==
  ASSUME NEW e, NEW t, NEW done, NEW more, NEW out, NEW out2,
         Knows(e, t, done, out), done \subseteq more, out \subseteq out2
  PROVE  Knows(e, t, more, out2)
  BY DEF Knows, Covered, Everybody

\* The parts of the type invariant, and that None is no task.
LEMMA Typed ==
  ASSUME TypeOK
  PROVE  /\ \A e \in Event : event[e] \in Row /\ excused[e] \subseteq User /\ notified[e] \subseteq User
         /\ \A e \in Broadcast : broadcast[e] \in [status : BroadcastStatus, cursor : 0..NumUsers]
         /\ \A w \in Worker, e \in Event : task[w][e] \in Task \cup {None}
         /\ eligible \subseteq User
  BY DEF TypeOK, Row

\* A step of a handler: it changes the handler's record, the event and the broadcast it
\* works on, and notifies users.
LEMMA HandlerStep ==
  ASSUME IInv, NEW w \in Worker, NEW e \in Event, NEW t \in Task \cup {None},
         task[w][e] # None, task' = [task EXCEPT ![w][e] = t],
         event' \in [Event -> Row], \A f \in Event : f # e => event'[f] = event[f],
         event'[e].status # "ABSENT",
         event'[e].status \in {"PENDING", "PROCESSING"} => event'[e].attempts < MaxAttempts,
         notified' \in [Event -> SUBSET User], \A f \in Event : notified[f] \subseteq notified'[f],
         broadcast' \in [Broadcast -> [status : BroadcastStatus, cursor : 0..NumUsers]],
         \A f \in Broadcast : f # e => broadcast'[f] = broadcast[f],
         e \in Broadcast => Covered(broadcast'[e].cursor, notified'[e], excused[e]),
         e \in Content \cup Broadcast /\ event'[e].status = "PROCESSED"
           => Everybody(notified'[e], excused[e]),
         t # None => Knows(e, t, notified'[e], excused[e]),
         eligible' = eligible, excused' = excused, stalls' = stalls, crashes' = crashes
  PROVE  IInv'
  <1> USE DEF IInv
  <1>1. TypeOK'
    <2>1. task' \in [Worker -> [Event -> Task \cup {None}]]
      BY DEF TypeOK
    <2>2. QED
      BY <2>1 DEF TypeOK, Row
  <1>2. \A x \in Worker, f \in Event : task'[x][f] = IF x = w /\ f = e THEN t ELSE task[x][f]
    BY DEF TypeOK
  <1>3. EventOK'
    <2>1. event[e].status # "ABSENT"
      BY DEF EventOK
    <2>2. \A u \in User : u \notin excused[e] => u \in eligible
      BY <2>1 DEF EventOK
    <2>3. ASSUME NEW f \in Event
          PROVE  /\ event'[f].status \in {"ABSENT", "PENDING", "PROCESSING"}
                      => event'[f].attempts < MaxAttempts
                 /\ event'[f].status = "ABSENT" => \A x \in Worker : task'[x][f] = None
                 /\ event'[f].status = "ABSENT" /\ f \in Broadcast => broadcast'[f].cursor = 0
                 /\ event'[f].status # "ABSENT" => \A u \in User : u \notin excused'[f] => u \in eligible'
      <3>1. CASE f = e
        BY <2>2, <3>1
      <3>2. CASE f # e
        BY <1>2, <3>2 DEF EventOK
      <3>3. QED
        BY <3>1, <3>2
    <2>4. QED
      BY <2>3 DEF EventOK
  <1>4. TaskOK'
    <2>1. ASSUME NEW x \in Worker, NEW f \in Event, task'[x][f] # None
          PROVE  Knows(f, task'[x][f], notified'[f], excused'[f])
      <3>1. CASE x = w /\ f = e
        BY <1>2, <2>1, <3>1
      <3>2. CASE ~(x = w /\ f = e)
        <4>1. task'[x][f] = task[x][f] /\ task[x][f] # None
          BY <1>2, <2>1, <3>2
        <4>2. Knows(f, task[x][f], notified[f], excused[f])
          BY <4>1 DEF TaskOK
        <4>3. QED
          BY <4>1, <4>2, KnowsGrows
      <3>3. QED
        BY <3>1, <3>2
    <2>2. QED
      BY <2>1 DEF TaskOK
  <1>5. ProcessedMeansNotified'
    <2>1. ASSUME NEW f \in Content \cup Broadcast, event'[f].status = "PROCESSED"
          PROVE  User \ excused'[f] \subseteq notified'[f]
      <3>1. f \in Event
        BY DEF Event
      <3>2. CASE f = e
        BY <2>1, <3>2 DEF Everybody
      <3>3. CASE f # e
        BY <2>1, <3>1, <3>3 DEF ProcessedMeansNotified
      <3>4. QED
        BY <3>2, <3>3
    <2>2. QED
      BY <2>1 DEF ProcessedMeansNotified
  <1>6. CursorBehindDelivery'
    <2>1. ASSUME NEW f \in Broadcast, NEW u \in User, u <= broadcast'[f].cursor, u \notin excused'[f]
          PROVE  u \in notified'[f]
      <3>1. f \in Event
        BY DEF Event
      <3>2. CASE f = e
        BY <2>1, <3>2 DEF Covered
      <3>3. CASE f # e
        BY <2>1, <3>1, <3>3 DEF CursorBehindDelivery
      <3>4. QED
        BY <3>2, <3>3
    <2>2. QED
      BY <2>1 DEF CursorBehindDelivery
  <1>7. QED
    BY <1>1, <1>3, <1>4, <1>5, <1>6

\* The common case: the event's row stays as it is.
LEMMA HandlerGoesOn ==
  ASSUME IInv, NEW w \in Worker, NEW e \in Event, NEW t \in Task,
         task[w][e] # None, task' = [task EXCEPT ![w][e] = t],
         notified' \in [Event -> SUBSET User], \A f \in Event : notified[f] \subseteq notified'[f],
         broadcast' \in [Broadcast -> [status : BroadcastStatus, cursor : 0..NumUsers]],
         \A f \in Broadcast : f # e => broadcast'[f] = broadcast[f],
         e \in Broadcast => Covered(broadcast'[e].cursor, notified'[e], excused[e]),
         Knows(e, t, notified'[e], excused[e]),
         event' = event, eligible' = eligible, excused' = excused, stalls' = stalls, crashes' = crashes
  PROVE  IInv'
  <1>1. event' \in [Event -> Row]
    BY DEF IInv, TypeOK, Row
  <1>2. event'[e].status # "ABSENT" /\ (event'[e].status \in {"PENDING", "PROCESSING"} => event'[e].attempts < MaxAttempts)
    BY DEF IInv, EventOK
  <1>3. e \in Content \cup Broadcast /\ event'[e].status = "PROCESSED" => Everybody(notified'[e], excused[e])
    BY DEF IInv, ProcessedMeansNotified, Everybody
  <1>4. QED
    BY <1>1, <1>2, <1>3, HandlerStep

\* The still more common case: only the handler's record changes.
LEMMA HandlerThinks ==
  ASSUME IInv, NEW w \in Worker, NEW e \in Event, NEW t \in Task,
         task[w][e] # None, task' = [task EXCEPT ![w][e] = t],
         Knows(e, t, notified[e], excused[e]),
         UNCHANGED <<event, eligible, excused, notified, broadcast, stalls, crashes>>
  PROVE  IInv'
  <1>1. notified' \in [Event -> SUBSET User]
    BY DEF IInv, TypeOK
  <1>2. broadcast' \in [Broadcast -> [status : BroadcastStatus, cursor : 0..NumUsers]]
    BY DEF IInv, TypeOK
  <1>3. e \in Broadcast => Covered(broadcast'[e].cursor, notified'[e], excused[e])
    BY DEF IInv, CursorBehindDelivery, Covered
  <1>4. QED
    BY <1>1, <1>2, <1>3, HandlerGoesOn

-----------------------------------------------------------------------------
(***************************************************************************)
(* The steps of a handler, one lemma each.                                 *)
(***************************************************************************)
\* A handler that is at work has a record, and knows what its step allows.
LEMMA AtWork ==
  ASSUME IInv, NEW w \in Worker, NEW e \in Event, task[w][e] # None
  PROVE  /\ task[w][e] \in Task
         /\ Knows(e, task[w][e], notified[e], excused[e])
         /\ \A s \in Step : [task[w][e] EXCEPT !.step = s] \in Task
         /\ excused[e] \subseteq User /\ notified[e] \subseteq User
  <1>1. task[w][e] \in Task
    BY Typed DEF IInv
  <1>2. \A s \in Step : [task[w][e] EXCEPT !.step = s] \in Task
    BY <1>1 DEF Task
  <1>3. QED
    BY <1>1, <1>2, Typed DEF IInv, TaskOK

\* A handler starts: nobody comes at or before the cursor 0.
LEMMA StartOK ==
  ASSUME IInv, NEW w \in Worker, NEW e \in Event, Start(w, e)
  PROVE  IInv'
  <1> DEFINE s == CASE e \in Content -> "read" [] e \in Broadcast -> "begin" [] OTHER -> "fail"
             t == [task[w][e] EXCEPT !.step = s]
  <1>1. task[w][e] # None /\ task[w][e].step = "queued"
    BY DEF Start, At
  <1>2. /\ s \in Step /\ (s = "begin" => e \in Broadcast)
        /\ s \in {"read", "begin", "fail"}
    BY DEF Step
  <1>3. task' = [task EXCEPT ![w][e] = t]
    BY DEF Start, GoTo
  <1> HIDE DEF s
  <1>4. t \in Task /\ t.step = s /\ t.cursor = task[w][e].cursor /\ t.attempts = task[w][e].attempts
    BY <1>1, <1>2, AtWork DEF Task
  <1> HIDE DEF t
  <1>5. Covered(0, notified[e], excused[e])
    BY Constants DEF Covered
  <1>6. Knows(e, t, notified[e], excused[e])
    BY <1>1, <1>2, <1>4, <1>5, AtWork DEF Knows
  <1>7. UNCHANGED <<event, eligible, excused, notified, broadcast, stalls, crashes>>
    BY DEF Start
  <1>8. QED
    BY <1>1, <1>3, <1>4, <1>6, <1>7, HandlerThinks

\* A broadcast resumes at the saved cursor, behind which everybody entitled was notified.
LEMMA BeginBroadcastOK ==
  ASSUME IInv, NEW w \in Worker, NEW e \in Broadcast, BeginBroadcast(w, e)
  PROVE  IInv'
  <1> DEFINE t == [task[w][e] EXCEPT !.step = "read", !.cursor = broadcast[e].cursor,
                     !.total = Cardinality(eligible), !.processed = Cardinality(notified[e])]
  <1>1. e \in Event /\ task[w][e] # None
    BY DEF Event, BeginBroadcast, At
  <1>2. task' = [task EXCEPT ![w][e] = t]
    BY DEF BeginBroadcast
  <1>3. /\ broadcast[e] \in [status : BroadcastStatus, cursor : 0..NumUsers]
        /\ Cardinality(eligible) \in Nat /\ Cardinality(notified[e]) \in Nat
        /\ task[w][e] \in Task
    BY <1>1, Typed, UsersFinite DEF IInv
  <1>4. t \in Task /\ t.step = "read" /\ t.cursor = broadcast[e].cursor /\ t.attempts = task[w][e].attempts
    BY <1>3 DEF Task, Step
  <1> HIDE DEF t
  <1>5. Covered(broadcast[e].cursor, notified[e], excused[e])
    BY DEF IInv, CursorBehindDelivery, Covered
  <1>6. Knows(e, t, notified[e], excused[e])
    BY <1>1, <1>4, <1>5, AtWork DEF Knows
  <1>7. /\ broadcast' \in [Broadcast -> [status : BroadcastStatus, cursor : 0..NumUsers]]
        /\ broadcast'[e].cursor = broadcast[e].cursor
        /\ \A f \in Broadcast : f # e => broadcast'[f] = broadcast[f]
    BY DEF BeginBroadcast, IInv, TypeOK, BroadcastStatus
  <1>8. UNCHANGED <<event, eligible, excused, notified, stalls, crashes>>
    BY DEF BeginBroadcast
  <1>9. notified' \in [Event -> SUBSET User]
    BY <1>8 DEF IInv, TypeOK
  <1>10. QED
    BY <1>1, <1>2, <1>4, <1>5, <1>6, <1>7, <1>8, <1>9, HandlerGoesOn

\* Reading a page: an empty one means that nobody entitled is left.
LEMMA ReadPageOK ==
  ASSUME IInv, NEW w \in Worker, NEW e \in Event, ReadPage(w, e)
  PROVE  IInv'
  <1> DEFINE page == PageOf(task[w][e].cursor)
             s == IF page # {} THEN "insert" ELSE IF e \in Broadcast THEN "finish" ELSE "mark"
             t == [task[w][e] EXCEPT !.page = page, !.step = s]
  <1>1. task[w][e] # None /\ task[w][e].step = "read"
    BY DEF ReadPage, At
  <1>2. task' = [task EXCEPT ![w][e] = t]
    BY DEF ReadPage
  <1>3. UNCHANGED <<event, eligible, excused, notified, broadcast, stalls, crashes>>
    BY DEF ReadPage
  <1>4. task[w][e] \in Task /\ task[w][e].cursor \in 0..NumUsers /\ eligible \subseteq User
    BY <1>1, AtWork, Typed DEF Task, IInv
  <1>5. /\ page \subseteq User
        /\ \A u \in eligible, v \in page : u > task[w][e].cursor /\ u <= v => u \in page
        /\ page = {} => \A u \in eligible : u <= task[w][e].cursor
    BY <1>4, Pages
  <1>6. /\ s \in {"insert", "finish", "mark"} /\ (s = "finish" => e \in Broadcast)
        /\ s = "insert" <=> page # {}
    OBVIOUS
  <1> HIDE DEF page, s
  <1>7. t \in Task /\ t.step = s /\ t.page = page /\ t.cursor = task[w][e].cursor /\ t.attempts = task[w][e].attempts
    BY <1>4, <1>5, <1>6 DEF Task, Step
  <1> HIDE DEF t
  <1>8. \A u \in User : u \notin excused[e] => u \in eligible
    BY <1>1 DEF IInv, EventOK
  <1>9. Covered(task[w][e].cursor, notified[e], excused[e]) /\ task[w][e].attempts < MaxAttempts
    BY <1>1, AtWork DEF Knows
  <1>10. page = {} => Everybody(notified[e], excused[e])
    BY <1>5, <1>8, <1>9 DEF Covered, Everybody
  <1>11. Knows(e, t, notified[e], excused[e])
    BY <1>5, <1>6, <1>7, <1>8, <1>9, <1>10 DEF Knows
  <1>12. QED
    BY <1>1, <1>2, <1>3, <1>7, <1>11, HandlerThinks

\* Writing a page: the cursor moves to its last user, and everybody up to it who is
\* entitled was behind the old cursor or is in the page.
LEMMA InsertPageOK ==
  ASSUME IInv, NEW w \in Worker, NEW e \in Event, InsertPage(w, e)
  PROVE  IInv'
  <1> DEFINE page == task[w][e].page
             s == IF e \in Broadcast THEN "save" ELSE "read"
             t == [task[w][e] EXCEPT !.step = s, !.cursor = Max(page)]
  <1>1. task[w][e] # None /\ task[w][e].step = "insert"
    BY DEF InsertPage, At
  <1>2. task' = [task EXCEPT ![w][e] = t]
    BY DEF InsertPage
  <1>3. UNCHANGED <<event, eligible, excused, broadcast, stalls, crashes>>
    BY DEF InsertPage
  <1>4. task[w][e] \in Task /\ task[w][e].cursor \in 0..NumUsers /\ page \subseteq User
    BY <1>1, AtWork DEF Task
  <1>5. /\ Covered(task[w][e].cursor, notified[e], excused[e]) /\ page # {}
        /\ task[w][e].attempts < MaxAttempts
        /\ \A u \in User, v \in page : u > task[w][e].cursor /\ u <= v /\ u \notin excused[e] => u \in page
    BY <1>1, AtWork DEF Knows
  <1>6. s \in {"save", "read"} /\ (s = "save" => e \in Broadcast)
    OBVIOUS
  <1>7. /\ notified' \in [Event -> SUBSET User] /\ notified'[e] = notified[e] \cup page
        /\ \A f \in Event : notified[f] \subseteq notified'[f]
    <2>1. notified \in [Event -> SUBSET User] /\ notified' = [notified EXCEPT ![e] = @ \cup page]
      BY DEF InsertPage, IInv, TypeOK
    <2> HIDE DEF page
    <2>2. QED
      BY <1>4, <2>1
  <1> HIDE DEF page, s
  <1>8. Max(page) \in page /\ Max(page) \in 0..NumUsers
    BY <1>4, <1>5, MaxOfUsers, Constants
  <1>9. t \in Task /\ t.step = s /\ t.cursor = Max(page) /\ t.attempts = task[w][e].attempts
    BY <1>4, <1>6, <1>8 DEF Task, Step
  <1> HIDE DEF t
  <1>10. Covered(Max(page), notified'[e], excused[e])
    <2>1. ASSUME NEW u \in User, u <= Max(page), u \notin excused[e]
          PROVE  u \in notified'[e]
      <3>1. CASE u <= task[w][e].cursor
        BY <1>5, <1>7, <2>1, <3>1 DEF Covered
      <3>2. CASE ~(u <= task[w][e].cursor)
        <4>1. u > task[w][e].cursor
          BY <1>4, <3>2, Constants
        <4>2. QED
          BY <1>5, <1>7, <1>8, <2>1, <4>1
      <3>3. QED
        BY <3>1, <3>2
    <2>2. QED
      BY <2>1 DEF Covered
  <1>11. Knows(e, t, notified'[e], excused[e])
    BY <1>5, <1>6, <1>9, <1>10 DEF Knows
  <1>12. broadcast' \in [Broadcast -> [status : BroadcastStatus, cursor : 0..NumUsers]]
    BY <1>3 DEF IInv, TypeOK
  <1>13. e \in Broadcast => Covered(broadcast'[e].cursor, notified'[e], excused[e])
    BY <1>3, <1>7 DEF IInv, CursorBehindDelivery, Covered
  <1>14. QED
    BY <1>1, <1>2, <1>3, <1>7, <1>9, <1>11, <1>12, <1>13, HandlerGoesOn

\* A page that could not be written leaves the cursor where it is.
LEMMA PageFailsOK ==
  ASSUME IInv, NEW w \in Worker, NEW e \in Event, PageFails(w, e)
  PROVE  IInv'
  <1> DEFINE t == [task[w][e] EXCEPT !.step = "save", !.failed = TRUE]
  <1>1. task[w][e] # None /\ task[w][e].step = "insert" /\ e \in Broadcast
    BY DEF PageFails, At
  <1>2. task' = [task EXCEPT ![w][e] = t]
    BY DEF PageFails
  <1>3. UNCHANGED <<event, eligible, excused, notified, broadcast, stalls, crashes>>
    BY DEF PageFails
  <1>4. task[w][e] \in Task
    BY <1>1, AtWork
  <1>5. t \in Task /\ t.step = "save" /\ t.cursor = task[w][e].cursor /\ t.attempts = task[w][e].attempts
    BY <1>4 DEF Task, Step
  <1> HIDE DEF t
  <1>6. Knows(e, t, notified[e], excused[e])
    BY <1>1, <1>5, AtWork DEF Knows
  <1>7. QED
    BY <1>1, <1>2, <1>3, <1>5, <1>6, HandlerThinks

\* Saving the progress: the saved cursor becomes the handler's.
LEMMA SaveProgressOK ==
  ASSUME IInv, NEW w \in Worker, NEW e \in Broadcast, SaveProgress(w, e)
  PROVE  IInv'
  <1> DEFINE s == IF task[w][e].failed THEN "finish" ELSE "read"
             t == [task[w][e] EXCEPT !.processed = Cardinality(notified[e]), !.step = s]
  <1>1. e \in Event /\ task[w][e] # None /\ task[w][e].step = "save"
    BY DEF Event, SaveProgress, At
  <1>2. task' = [task EXCEPT ![w][e] = t]
    BY DEF SaveProgress
  <1>3. UNCHANGED <<event, eligible, excused, notified, stalls, crashes>>
    BY DEF SaveProgress
  <1>4. task[w][e] \in Task /\ task[w][e].cursor \in 0..NumUsers
    BY <1>1, AtWork DEF Task
  <1>5. s \in {"finish", "read"} /\ (s = "finish" => task[w][e].failed)
    OBVIOUS
  <1>6. Cardinality(notified[e]) \in Nat
    BY <1>1, AtWork, UsersFinite
  <1> HIDE DEF s
  <1>7. /\ t \in Task /\ t.step = s /\ t.cursor = task[w][e].cursor
        /\ t.attempts = task[w][e].attempts /\ t.failed = task[w][e].failed
    BY <1>4, <1>5, <1>6 DEF Task, Step
  <1> HIDE DEF t
  <1>8. Covered(task[w][e].cursor, notified[e], excused[e]) /\ task[w][e].attempts < MaxAttempts
    BY <1>1, AtWork DEF Knows
  <1>9. Knows(e, t, notified[e], excused[e])
    BY <1>5, <1>7, <1>8 DEF Knows
  <1>10. /\ broadcast' \in [Broadcast -> [status : BroadcastStatus, cursor : 0..NumUsers]]
         /\ broadcast'[e].cursor = task[w][e].cursor
         /\ \A f \in Broadcast : f # e => broadcast'[f] = broadcast[f]
    BY <1>4 DEF SaveProgress, IInv, TypeOK
  <1>11. notified' \in [Event -> SUBSET User]
    BY <1>3 DEF IInv, TypeOK
  <1>12. QED
    BY <1>1, <1>2, <1>3, <1>7, <1>8, <1>9, <1>10, <1>11, HandlerGoesOn

\* The outcome of a broadcast: without a failed page everybody was notified.
LEMMA FinishBroadcastOK ==
  ASSUME IInv, NEW w \in Worker, NEW e \in Broadcast, FinishBroadcast(w, e)
  PROVE  IInv'
  <1> DEFINE s == IF task[w][e].failed THEN "fail" ELSE "mark"
             t == [task[w][e] EXCEPT !.step = s]
  <1>1. e \in Event /\ task[w][e] # None /\ task[w][e].step = "finish"
    BY DEF Event, FinishBroadcast, At
  <1>2. task' = [task EXCEPT ![w][e] = t]
    BY DEF FinishBroadcast, GoTo
  <1>3. UNCHANGED <<event, eligible, excused, notified, stalls, crashes>>
    BY DEF FinishBroadcast
  <1>4. s \in {"fail", "mark"} /\ (s = "mark" => ~task[w][e].failed)
    OBVIOUS
  <1> HIDE DEF s
  <1>5. task[w][e] \in Task
    BY <1>1, AtWork
  <1>6. t \in Task /\ t.step = s /\ t.cursor = task[w][e].cursor /\ t.attempts = task[w][e].attempts
    BY <1>4, <1>5 DEF Task, Step
  <1> HIDE DEF t
  <1>7. Knows(e, t, notified[e], excused[e])
    BY <1>1, <1>4, <1>6, AtWork DEF Knows
  <1>8. /\ broadcast' \in [Broadcast -> [status : BroadcastStatus, cursor : 0..NumUsers]]
        /\ broadcast'[e].cursor = broadcast[e].cursor
        /\ \A f \in Broadcast : f # e => broadcast'[f] = broadcast[f]
    BY DEF FinishBroadcast, IInv, TypeOK, BroadcastStatus
  <1>9. Covered(broadcast'[e].cursor, notified[e], excused[e])
    BY <1>8 DEF IInv, CursorBehindDelivery, Covered
  <1>10. notified' \in [Event -> SUBSET User]
    BY <1>3 DEF IInv, TypeOK
  <1>11. QED
    BY <1>1, <1>2, <1>3, <1>6, <1>7, <1>8, <1>9, <1>10, HandlerGoesOn

\* Any other error ends the attempt.
LEMMA HandlerFailsOK ==
  ASSUME IInv, NEW w \in Worker, NEW e \in Event, HandlerFails(w, e)
  PROVE  IInv'
  <1> DEFINE t == [task[w][e] EXCEPT !.step = "fail"]
  <1>1. task[w][e] # None
    BY DEF HandlerFails, Running
  <1>2. task' = [task EXCEPT ![w][e] = t]
    BY DEF HandlerFails, GoTo
  <1>3. UNCHANGED <<event, eligible, excused, notified, broadcast, stalls, crashes>>
    BY DEF HandlerFails
  <1>4. task[w][e] \in Task
    BY <1>1, AtWork
  <1>5. t \in Task /\ t.step = "fail" /\ t.attempts = task[w][e].attempts
    BY <1>4 DEF Task, Step
  <1> HIDE DEF t
  <1>6. Knows(e, t, notified[e], excused[e])
    BY <1>1, <1>5, AtWork DEF Knows
  <1>7. QED
    BY <1>1, <1>2, <1>3, <1>5, <1>6, HandlerThinks

\* The two steps that end an attempt: they change the event alone.
LEMMA HandlerEnds ==
  ASSUME IInv, NEW w \in Worker, NEW e \in Event, task[w][e] # None, Drop(w, e), NEW row \in Row,
         event' = [event EXCEPT ![e] = row],
         row.status # "ABSENT", row.status \in {"PENDING", "PROCESSING"} => row.attempts < MaxAttempts,
         row.status = "PROCESSED" => Everybody(notified[e], excused[e]),
         UNCHANGED <<eligible, excused, notified, broadcast, stalls, crashes>>
  PROVE  IInv'
  <1>1. /\ event' \in [Event -> Row] /\ event'[e] = row
        /\ \A f \in Event : f # e => event'[f] = event[f]
    BY DEF IInv, TypeOK, Row
  <1>2. notified' \in [Event -> SUBSET User]
    BY DEF IInv, TypeOK
  <1>3. broadcast' \in [Broadcast -> [status : BroadcastStatus, cursor : 0..NumUsers]]
    BY DEF IInv, TypeOK
  <1>4. e \in Broadcast => Covered(broadcast'[e].cursor, notified'[e], excused[e])
    BY DEF IInv, CursorBehindDelivery, Covered
  <1>5. task' = [task EXCEPT ![w][e] = None]
    BY DEF Drop
  <1>6. QED
    BY <1>1, <1>2, <1>3, <1>4, <1>5, HandlerStep

\* Marking the event: the handler has seen that nobody is left.
LEMMA MarkProcessedOK ==
  ASSUME IInv, NEW w \in Worker, NEW e \in Event, MarkProcessed(w, e)
  PROVE  IInv'
  <1> DEFINE row == [event[e] EXCEPT !.status = "PROCESSED", !.lockedBy = None, !.stale = FALSE]
  <1>1. task[w][e] # None /\ task[w][e].step = "mark" /\ Drop(w, e)
    BY DEF MarkProcessed, At
  <1>2. event' = [event EXCEPT ![e] = row]
    BY DEF MarkProcessed
  <1>3. row \in Row /\ row.status = "PROCESSED"
    BY Typed DEF IInv, Row, EventStatus
  <1> HIDE DEF row
  <1>4. Everybody(notified[e], excused[e])
    BY <1>1, AtWork DEF Knows
  <1>5. UNCHANGED <<eligible, excused, notified, broadcast, stalls, crashes>>
    BY DEF MarkProcessed
  <1>6. QED
    BY <1>1, <1>2, <1>3, <1>4, <1>5, HandlerEnds

\* Recording a failure: the last attempt is never left pending.
LEMMA RecordFailureOK ==
  ASSUME IInv, NEW w \in Worker, NEW e \in Event, RecordFailure(w, e)
  PROVE  IInv'
  <1> DEFINE attempts == task[w][e].attempts + 1
             dead == e \in Other \/ attempts >= MaxAttempts
             row == [status |-> IF dead THEN "DEAD_LETTER" ELSE "PENDING",
                     attempts |-> attempts, lockedBy |-> None, stale |-> FALSE]
  <1>1. task[w][e] # None /\ task[w][e].step = "fail" /\ Drop(w, e)
    BY DEF RecordFailure, At
  <1>2. event' = [event EXCEPT ![e] = row]
    BY DEF RecordFailure
  <1>3. task[w][e].attempts \in Nat /\ task[w][e].attempts < MaxAttempts
    BY <1>1, AtWork DEF Knows, Task
  <1>4. /\ row \in Row /\ row.status \in {"DEAD_LETTER", "PENDING"}
        /\ row.status = "PENDING" => row.attempts < MaxAttempts
    BY <1>3, Constants DEF Row, EventStatus
  <1> HIDE DEF row
  <1>5. UNCHANGED <<eligible, excused, notified, broadcast, stalls, crashes>>
    BY DEF RecordFailure
  <1>6. QED
    BY <1>1, <1>2, <1>4, <1>5, HandlerEnds

-----------------------------------------------------------------------------
(***************************************************************************)
(* The environment, the claims, the leases and the crashes.                *)
(***************************************************************************)
\* An event is written: whoever is not eligible at that moment is excused.
LEMMA CreateEventOK ==
  ASSUME IInv, NEW e \in Event, CreateEvent(e)
  PROVE  IInv'
  <1> USE DEF IInv
  <1>1. /\ event[e].status = "ABSENT" /\ event[e] \in Row
        /\ UNCHANGED <<eligible, notified, broadcast, task, stalls, crashes>>
    BY Typed DEF CreateEvent
  <1>2. /\ event' \in [Event -> Row] /\ event'[e] = [event[e] EXCEPT !.status = "PENDING"]
        /\ \A f \in Event : f # e => event'[f] = event[f]
    BY <1>1 DEF CreateEvent, TypeOK, Row, EventStatus
  <1>3. event'[e].status = "PENDING" /\ event'[e].attempts = event[e].attempts
    BY <1>1, <1>2 DEF Row
  <1>4. /\ excused' \in [Event -> SUBSET User] /\ excused'[e] = User \ eligible
        /\ \A f \in Event : f # e => excused'[f] = excused[f]
    BY DEF CreateEvent, TypeOK
  <1>5. \A w \in Worker : task[w][e] = None
    BY <1>1 DEF EventOK
  <1>6. TypeOK'
    BY <1>1, <1>2, <1>4 DEF TypeOK, Row
  <1>7. EventOK'
    <2>1. ASSUME NEW f \in Event
          PROVE  /\ event'[f].status \in {"ABSENT", "PENDING", "PROCESSING"}
                      => event'[f].attempts < MaxAttempts
                 /\ event'[f].status = "ABSENT" => \A x \in Worker : task'[x][f] = None
                 /\ event'[f].status = "ABSENT" /\ f \in Broadcast => broadcast'[f].cursor = 0
                 /\ event'[f].status # "ABSENT" => \A u \in User : u \notin excused'[f] => u \in eligible'
      <3>1. CASE f = e
        BY <1>1, <1>3, <1>4, <3>1 DEF EventOK
      <3>2. CASE f # e
        BY <1>1, <1>2, <1>4, <3>2 DEF EventOK
      <3>3. QED
        BY <3>1, <3>2
    <2>2. QED
      BY <2>1 DEF EventOK
  <1>8. TaskOK'
    <2>1. ASSUME NEW x \in Worker, NEW f \in Event, task'[x][f] # None
          PROVE  Knows(f, task'[x][f], notified'[f], excused'[f])
      BY <1>1, <1>4, <1>5, <2>1 DEF TaskOK
    <2>2. QED
      BY <2>1 DEF TaskOK
  <1>9. ProcessedMeansNotified'
    <2>1. \A f \in Content \cup Broadcast : f \in Event
      BY DEF Event
    <2>2. QED
      BY <1>1, <1>2, <1>3, <1>4, <2>1 DEF ProcessedMeansNotified
  <1>10. CursorBehindDelivery'
    <2>1. ASSUME NEW f \in Broadcast, NEW u \in User, u <= broadcast'[f].cursor, u \notin excused'[f]
          PROVE  u \in notified'[f]
      <3>1. f \in Event
        BY DEF Event
      <3>2. CASE f = e
        <4>1. broadcast[f].cursor = 0
          BY <1>1, <3>1, <3>2 DEF EventOK
        <4>2. QED
          BY <1>1, <2>1, <4>1, Constants
      <3>3. CASE f # e
        BY <1>1, <1>4, <2>1, <3>1, <3>3 DEF CursorBehindDelivery
      <3>4. QED
        BY <3>2, <3>3
    <2>2. QED
      BY <2>1 DEF CursorBehindDelivery
  <1>11. QED
    BY <1>6, <1>7, <1>8, <1>9, <1>10

\* The user who changes is excused from every event that is on its way.
LEMMA ChangeEligibilityOK ==
  ASSUME IInv, NEW u \in User, ChangeEligibility(u)
  PROVE  IInv'
  <1> USE DEF IInv
  <1>1. /\ UNCHANGED <<event, notified, broadcast, task, stalls, crashes>>
        /\ eligible' = (eligible \ {u}) \cup ({u} \ eligible)
        /\ excused' = [e \in Event |-> IF event[e].status = "ABSENT" THEN {} ELSE excused[e] \cup {u}]
    BY DEF ChangeEligibility
  <1>2. \A e \in Event : /\ excused[e] \subseteq User /\ excused'[e] \subseteq User
                         /\ event[e].status # "ABSENT" => excused'[e] = excused[e] \cup {u}
    BY <1>1, Typed
  <1>3. TypeOK'
    <2>1. eligible' \subseteq User
      BY <1>1 DEF TypeOK
    <2>2. excused' \in [Event -> SUBSET User]
      BY <1>1, <1>2
    <2>3. QED
      BY <1>1, <2>1, <2>2 DEF TypeOK
  <1>4. EventOK'
    BY <1>1, <1>2 DEF EventOK
  <1>5. TaskOK'
    <2>1. ASSUME NEW w \in Worker, NEW e \in Event, task'[w][e] # None
          PROVE  Knows(e, task'[w][e], notified'[e], excused'[e])
      <3>1. event[e].status # "ABSENT"
        BY <1>1, <2>1 DEF EventOK
      <3>2. Knows(e, task[w][e], notified[e], excused[e])
        BY <1>1, <2>1 DEF TaskOK
      <3>3. excused[e] \subseteq excused'[e]
        BY <1>2, <3>1
      <3>4. QED
        BY <1>1, <3>2, <3>3, KnowsGrows
    <2>2. QED
      BY <2>1 DEF TaskOK
  <1>6. ProcessedMeansNotified'
    <2>1. \A e \in Content \cup Broadcast : e \in Event
      BY DEF Event
    <2>2. QED
      BY <1>1, <1>2, <2>1 DEF ProcessedMeansNotified
  <1>7. CursorBehindDelivery'
    <2>1. ASSUME NEW e \in Broadcast, NEW v \in User, v <= broadcast'[e].cursor, v \notin excused'[e]
          PROVE  v \in notified'[e]
      <3>1. e \in Event
        BY DEF Event
      <3>2. CASE event[e].status = "ABSENT"
        <4>1. broadcast[e].cursor = 0
          BY <3>1, <3>2 DEF EventOK
        <4>2. QED
          BY <1>1, <2>1, <4>1, Constants
      <3>3. CASE event[e].status # "ABSENT"
        BY <1>1, <1>2, <2>1, <3>1, <3>3 DEF CursorBehindDelivery
      <3>4. QED
        BY <3>2, <3>3
    <2>2. QED
      BY <2>1 DEF CursorBehindDelivery
  <1>8. QED
    BY <1>3, <1>4, <1>5, <1>6, <1>7

\* A claim: the claimed events are neither absent nor out of attempts.
LEMMA ClaimOK ==
  ASSUME IInv, NEW w \in Worker, NEW batch \in SUBSET Event, Claim(w, batch)
  PROVE  IInv'
  <1> USE DEF IInv
  <1>1. UNCHANGED <<eligible, excused, notified, broadcast, stalls, crashes>>
    BY DEF Claim
  <1>2. \A e \in batch : event[e].status \in {"PENDING", "PROCESSING"} /\ event[e].attempts < MaxAttempts
    BY DEF Claim, Claimable, EventOK
  <1>3. \A e \in Event :
          event'[e] = IF e \in batch
                        THEN [event[e] EXCEPT !.status = "PROCESSING", !.lockedBy = w, !.stale = FALSE]
                        ELSE event[e]
    BY DEF Claim
  <1>4. \A e \in Event : event'[e] \in Row
    <2>1. \A e \in Event : [event[e] EXCEPT !.status = "PROCESSING", !.lockedBy = w, !.stale = FALSE] \in Row
      BY Typed DEF Row, EventStatus
    <2>2. \A e \in Event : event[e] \in Row
      BY Typed
    <2>3. QED
      BY <1>3, <2>1, <2>2
  <1>5. event' \in [Event -> Row]
    <2>1. event' = [e \in Event |-> event'[e]]
      BY <1>3 DEF Claim
    <2>2. QED
      BY <1>4, <2>1
  <1>6. \A e \in batch : event'[e].status = "PROCESSING" /\ event'[e].attempts = event[e].attempts
    BY <1>3, Typed DEF Row
  <1>7. \A e \in Event : e \notin batch => event'[e] = event[e]
    BY <1>3
  <1>8. \A x \in Worker, e \in Event :
          task'[x][e] = IF x = w THEN IF e \in batch THEN NewTask(event[e].attempts) ELSE None
                        ELSE task[x][e]
    BY DEF Claim, TypeOK
  <1>9. \A e \in Event : /\ NewTask(event[e].attempts) \in Task
                         /\ NewTask(event[e].attempts).step = "queued"
                         /\ NewTask(event[e].attempts).cursor = 0
                         /\ NewTask(event[e].attempts).attempts = event[e].attempts
    <2>1. \A e \in Event : event[e].attempts \in Nat
      BY Typed, Constants DEF Row
    <2>2. QED
      BY <2>1, Constants DEF NewTask, Task, Step
  <1>10. TypeOK'
    <2>1. \A x \in Worker, e \in Event : task'[x][e] \in Task \cup {None}
      BY <1>8, <1>9, Typed
    <2>2. task' \in [Worker -> [Event -> Task \cup {None}]]
      <3>1. [e \in Event |-> IF e \in batch THEN NewTask(event[e].attempts) ELSE None]
              \in [Event -> Task \cup {None}]
        BY <1>9
      <3>2. QED
        BY <3>1 DEF Claim, TypeOK
    <2>3. QED
      BY <1>1, <1>5, <2>2 DEF TypeOK, Row
  <1>11. EventOK'
    <2>1. ASSUME NEW e \in Event
          PROVE  /\ event'[e].status \in {"ABSENT", "PENDING", "PROCESSING"}
                      => event'[e].attempts < MaxAttempts
                 /\ event'[e].status = "ABSENT" => \A x \in Worker : task'[x][e] = None
                 /\ event'[e].status = "ABSENT" /\ e \in Broadcast => broadcast'[e].cursor = 0
                 /\ event'[e].status # "ABSENT" => \A u \in User : u \notin excused'[e] => u \in eligible'
      <3>1. CASE e \in batch
        BY <1>1, <1>2, <1>6, <3>1 DEF EventOK
      <3>2. CASE e \notin batch
        BY <1>1, <1>7, <1>8, <3>2 DEF EventOK
      <3>3. QED
        BY <3>1, <3>2
    <2>2. QED
      BY <2>1 DEF EventOK
  <1>12. TaskOK'
    <2>1. ASSUME NEW x \in Worker, NEW e \in Event, task'[x][e] # None
          PROVE  Knows(e, task'[x][e], notified'[e], excused'[e])
      <3>1. CASE x = w
        <4>1. e \in batch /\ task'[x][e] = NewTask(event[e].attempts)
          BY <1>8, <2>1, <3>1
        <4>2. QED
          BY <1>2, <1>9, <4>1 DEF Knows
      <3>2. CASE x # w
        BY <1>1, <1>8, <2>1, <3>2 DEF TaskOK
      <3>3. QED
        BY <3>1, <3>2
    <2>2. QED
      BY <2>1 DEF TaskOK
  <1>13. ProcessedMeansNotified'
    <2>1. \A e \in Content \cup Broadcast : e \in Event
      BY DEF Event
    <2>2. \A e \in Event : event'[e].status = "PROCESSED" => event[e].status = "PROCESSED"
      BY <1>6, <1>7
    <2>3. QED
      BY <1>1, <2>1, <2>2 DEF ProcessedMeansNotified
  <1>14. CursorBehindDelivery'
    BY <1>1 DEF CursorBehindDelivery
  <1>15. QED
    BY <1>10, <1>11, <1>12, <1>13, <1>14

\* The lease of an event runs out, or its holder renews it: only stale changes.
LEMMA LeaseOK ==
  ASSUME IInv, NEW e \in Event, NEW b \in BOOLEAN, event' = [event EXCEPT ![e].stale = b],
         UNCHANGED <<eligible, excused, notified, broadcast, task, crashes>>,
         stalls' \in 0..MaxStalls
  PROVE  IInv'
  <1> USE DEF IInv
  <1>1. \A f \in Event : event'[f] = IF f = e THEN [event[f] EXCEPT !.stale = b] ELSE event[f]
    BY DEF TypeOK
  <1>2. \A f \in Event : /\ event'[f] \in Row /\ event'[f].status = event[f].status
                         /\ event'[f].attempts = event[f].attempts
    BY <1>1, Typed DEF Row
  <1>3. TypeOK'
    <2>1. event' = [f \in Event |-> event'[f]]
      BY DEF TypeOK
    <2>2. event' \in [Event -> Row]
      BY <1>2, <2>1
    <2>3. QED
      BY <2>2 DEF TypeOK, Row
  <1>4. EventOK'
    BY <1>2 DEF EventOK
  <1>5. TaskOK' /\ CursorBehindDelivery'
    BY DEF TaskOK, CursorBehindDelivery
  <1>6. ProcessedMeansNotified'
    <2>1. \A f \in Content \cup Broadcast : f \in Event
      BY DEF Event
    <2>2. QED
      BY <1>2, <2>1 DEF ProcessedMeansNotified
  <1>7. QED
    BY <1>3, <1>4, <1>5, <1>6

\* The lease runs out.
LEMMA ExpireLeaseOK ==
  ASSUME IInv, NEW e \in Event, ExpireLease(e)
  PROVE  IInv'
  <1>1. /\ event' = [event EXCEPT ![e].stale = TRUE]
        /\ UNCHANGED <<eligible, excused, notified, broadcast, task, crashes>>
    BY DEF ExpireLease
  <1>2. stalls \in 0..MaxStalls
    BY DEF IInv, TypeOK
  <1>3. stalls' = stalls \/ (stalls < MaxStalls /\ stalls' = stalls + 1)
    BY DEF ExpireLease
  <1>4. stalls' \in 0..MaxStalls
    BY <1>2, <1>3, Constants
  <1>5. QED
    BY <1>1, <1>4, LeaseOK

\* The holder renews it.
LEMMA HeartbeatOK ==
  ASSUME IInv, NEW w \in Worker, NEW e \in Event, Heartbeat(w, e)
  PROVE  IInv'
  <1>1. /\ event' = [event EXCEPT ![e].stale = FALSE]
        /\ UNCHANGED <<eligible, excused, notified, broadcast, task, crashes>> /\ stalls' = stalls
    BY DEF Heartbeat
  <1>2. stalls' \in 0..MaxStalls
    BY <1>1 DEF IInv, TypeOK
  <1>3. QED
    BY <1>1, <1>2, LeaseOK

\* A crash forgets what the process was doing.
LEMMA CrashOK ==
  ASSUME IInv, NEW w \in Worker, Crash(w)
  PROVE  IInv'
  <1> USE DEF IInv
  <1>1. /\ UNCHANGED <<event, eligible, excused, notified, broadcast, stalls>>
        /\ crashes < MaxCrashes /\ crashes' = crashes + 1
        /\ task' = [task EXCEPT ![w] = [e \in Event |-> None]]
    BY DEF Crash
  <1>2. \A x \in Worker, e \in Event : task'[x][e] = IF x = w THEN None ELSE task[x][e]
    BY <1>1 DEF TypeOK
  <1>3. crashes' \in 0..MaxCrashes
    BY <1>1, Constants DEF TypeOK
  <1>4. TypeOK'
    BY <1>1, <1>3 DEF TypeOK
  <1>5. EventOK'
    BY <1>1, <1>2 DEF EventOK
  <1>6. TaskOK'
    BY <1>1, <1>2 DEF TaskOK
  <1>7. ProcessedMeansNotified' /\ CursorBehindDelivery'
    BY <1>1 DEF ProcessedMeansNotified, CursorBehindDelivery
  <1>8. QED
    BY <1>4, <1>5, <1>6, <1>7

-----------------------------------------------------------------------------
\* Every step preserves the invariant.
LEMMA NextIInv == IInv /\ [Next]_vars => IInv'
  <1> SUFFICES ASSUME IInv, [Next]_vars PROVE IInv'
    OBVIOUS
  <1>1. ASSUME NEW e \in Event, CreateEvent(e) PROVE IInv'
    BY <1>1, CreateEventOK
  <1>2. ASSUME NEW e \in Event, ExpireLease(e) PROVE IInv'
    BY <1>2, ExpireLeaseOK
  <1>3. ASSUME NEW u \in User, ChangeEligibility(u) PROVE IInv'
    BY <1>3, ChangeEligibilityOK
  <1>4. ASSUME NEW w \in Worker, NEW batch \in SUBSET Event, Claim(w, batch) PROVE IInv'
    BY <1>4, ClaimOK
  <1>5. ASSUME NEW w \in Worker, NEW e \in Event, Process(w, e) PROVE IInv'
    <2>1. CASE Start(w, e)
      BY <2>1, StartOK
    <2>2. CASE ReadPage(w, e)
      BY <2>2, ReadPageOK
    <2>3. CASE InsertPage(w, e)
      BY <2>3, InsertPageOK
    <2>4. CASE MarkProcessed(w, e)
      BY <2>4, MarkProcessedOK
    <2>5. CASE RecordFailure(w, e)
      BY <2>5, RecordFailureOK
    <2>6. CASE e \in Broadcast /\ BeginBroadcast(w, e)
      BY <2>6, BeginBroadcastOK
    <2>7. CASE e \in Broadcast /\ SaveProgress(w, e)
      BY <2>7, SaveProgressOK
    <2>8. CASE e \in Broadcast /\ FinishBroadcast(w, e)
      BY <2>8, FinishBroadcastOK
    <2>9. QED
      BY <1>5, <2>1, <2>2, <2>3, <2>4, <2>5, <2>6, <2>7, <2>8 DEF Process
  <1>6. ASSUME NEW w \in Worker, NEW e \in Event, Fail(w, e) PROVE IInv'
    BY <1>6, PageFailsOK, HandlerFailsOK DEF Fail
  <1>7. ASSUME NEW w \in Worker, NEW e \in Event, Heartbeat(w, e) PROVE IInv'
    BY <1>7, HeartbeatOK
  <1>8. ASSUME NEW w \in Worker, Crash(w) PROVE IInv'
    BY <1>8, CrashOK
  <1>9. CASE UNCHANGED vars
    BY <1>9 DEF vars, IInv, TypeOK, EventOK, TaskOK, ProcessedMeansNotified, CursorBehindDelivery
  <1>10. QED
    BY <1>1, <1>2, <1>3, <1>4, <1>5, <1>6, <1>7, <1>8, <1>9 DEF Next

\* The invariant holds in every reachable state.
LEMMA Invariance == Spec => []IInv
  <1>1. QED
    BY InitIInv, NextIInv, PTL DEF Spec

-----------------------------------------------------------------------------
(***************************************************************************)
(* What the outbox promises                                                *)
(***************************************************************************)
\* Every reachable state of notification-outbox.processor.ts has the documented shape:
\* attempts never exceed maxAttempts, and a cursor is a user's id or 0.
THEOREM OutboxTyped == Spec => []TypeOK
  <1>1. IInv => TypeOK
    BY DEF IInv
  <1>2. QED
    BY <1>1, Invariance, PTL

\* An event marked PROCESSED has notified everybody who was eligible all the time, for
\* every number of users, page size and number of workers: the pages of processEvent
\* miss nobody, across retries, crashes and takeovers by a second worker.
THEOREM NotifiedWhenProcessed == Spec => []ProcessedMeansNotified
  <1>1. IInv => ProcessedMeansNotified
    BY DEF IInv
  <1>2. QED
    BY <1>1, Invariance, PTL

\* The cursorUserId saved with a broadcast never passes a user who is still to be
\* notified, although two workers may save theirs in any order.
THEOREM CursorStaysBehind == Spec => []CursorBehindDelivery
  <1>1. IInv => CursorBehindDelivery
    BY DEF IInv
  <1>2. QED
    BY <1>1, Invariance, PTL
=============================================================================
