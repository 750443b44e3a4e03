-------------------------- MODULE ChapterContentProofs --------------------------
(***************************************************************************)
(* Proofs about ChapterContent for every number of requests and readers,   *)
(* every number of attempts and stalls of a job, whatever stops, and       *)
(* whatever paths are typed.                                               *)
(***************************************************************************)
EXTENDS ChapterContent, FiniteSetTheorems, TLAPS

\* They only group variables, so that UNCHANGED reads well.
USE DEF row, bounds

OpRec == [kind : InPlace \cup {"file", None},
          at : {"new", "done", "stopped", "put", "manifest", "update", "clear", "cleanup",
                "read", "prefix", "wipe", "mark", "enqueue"},
          path : Request \cup {None}, pages : SUBSET Request]
JobRec == [at : {"none", "waiting", "check", "pages", "manifest", "ready", "source", "clear",
                 "done", "skipped", "failed", "stalled", "unrecorded"},
           attempts : 0..MaxAttempts, stalls : Nat]
ReaderRec == [at : {"idle", "path", "load", "store"}, version : Version,
              path : Request \cup {None}, manifest : Manifest \cup {None}]
TypesOK == /\ TypeOK
           /\ op \in [Request -> OpRec] /\ job \in [Request -> JobRec]
           /\ reader \in [Reader -> ReaderRec]

(***************************************************************************)
(* What each request and each job may be doing                             *)
(***************************************************************************)
Fresh(u) == op[u].at = "new"
StepOK(u) ==
  /\ Fresh(u) => /\ u \notin met /\ job[u].at = "none" /\ object[u] = Empty
                 /\ op[u].path = None /\ chapter.key # u
  /\ Running(u) => \/ op[u].kind = "images" /\ op[u].at \in {"put", "manifest", "update", "clear", "cleanup"}
                   \/ op[u].kind = "append" /\ op[u].at \in {"read", "put", "manifest", "update", "clear"}
                   \/ op[u].kind = "deletePages" /\ op[u].at \in {"read", "manifest", "prefix", "update", "clear"}
                   \/ op[u].kind = "delete" /\ op[u].at \in {"wipe", "update", "clear"}
                   \/ op[u].kind = "file" /\ op[u].at \in {"put", "mark", "enqueue"}
  /\ op[u].at \in {"done", "stopped"} => op[u].path = None
  /\ op[u].kind \in {"append", "deletePages"} /\ op[u].at \in {"read", "put", "manifest", "prefix"}
       => op[u].path # None
  /\ job[u].at # "none" => op[u].kind = "file" /\ op[u].at = "done"
  /\ Converting(u) => job[u].attempts > 0
  /\ chapter.key = u => op[u].kind = "file" /\ op[u].at \in {"enqueue", "done", "stopped"}
StepsOK == \A u \in Request : StepOK(u)

\* Who has not met another is alone.
AloneOK == \A u, v \in Request : u \notin met /\ Alive(u) /\ v # u => ~Alive(v)

\* The chapter that is PROCESSING has a job that will say how it ended.
KeyOK == \A u \in Request : chapter.key = u =>
           \/ op[u].at \in {"enqueue", "stopped"}
           \/ job[u].at \in {"waiting", "check", "pages", "manifest", "ready", "stalled", "unrecorded"}

\* A request nobody met still has its key.
OwnKeyOK ==
  \A u \in Request : u \notin met =>
    /\ Do(u, "file", "enqueue") => chapter.key = u
    /\ job[u].at \in {"waiting", "check"} /\ job[u].attempts = MaxAttempts /\ job[u].stalls = 0
         => chapter.key = u

\* A request or job that will not make its prefix the active one any more.
Settled(u) ==
  IF op[u].kind = "file"
  THEN op[u].at \in {"done", "stopped"} /\ chapter.key # u /\ job[u].at \notin {"pages", "manifest", "ready"}
  ELSE op[u].at \in {"clear", "cleanup", "done", "stopped"}
SettledSet == {u \in Request : Settled(u)}

\* The prefix of the chapter, and those the requests have read, are settled.
PathOK ==
  /\ chapter.path # None => Settled(chapter.path)
  /\ \A u \in Request : op[u].path # None =>
       Settled(op[u].path) \/ (op[u].kind = "append" /\ op[u].path = u)
CountOK == chapter.version <= Cardinality(SettledSet)

(***************************************************************************)
(* The content                                                             *)
(***************************************************************************)
\* An old prefix is removed only when it is not the active one any more.
CleanOK == \A u \in Request : op[u].kind = "images" /\ op[u].at \in {"clear", "cleanup"} /\ op[u].path # None
                                => typed \/ chapter.path # op[u].path

\* What a request or a job has stored before it makes its prefix the active one.
StoredOK ==
  \A u \in Request :
    /\ op[u].kind = "images" /\ op[u].at = "put" => object[u].manifest = None
    /\ op[u].kind = "images" /\ op[u].at \in {"manifest", "update"} => object[u].pages = {u}
    /\ op[u].kind = "images" /\ op[u].at = "update" => object[u].manifest = {u}
    /\ job[u].at \in {"manifest", "ready"} => u \in object[u].pages
    /\ job[u].at = "ready" => object[u].manifest = {u}

\* A manifest lists pages that are there, except while a deletion has removed some.
Removing(u) == op[u].kind = "deletePages" /\ op[u].at \in {"manifest", "prefix"}
Tidy(p) == object[p].manifest # None => object[p].manifest \subseteq object[p].pages
TidyOK == \A p \in Request : Tidy(p) \/ \E u \in Request : Removing(u) /\ op[u].path = p

\* An append or a deletion at each of its steps.
Changing(u) == op[u].kind \in Visible /\ op[u].at \in {"put", "manifest", "prefix", "wipe", "update"}
ChangeOK(u) ==
  /\ op[u].kind \in Visible /\ op[u].at \in {"put", "manifest"} =>
       op[u].path # None /\ op[u].pages \subseteq object[op[u].path].pages
  /\ op[u].kind \in Visible /\ op[u].at \in {"prefix", "wipe"} => op[u].pages = {}
  /\ op[u].kind = "delete" /\ op[u].at = "wipe" => op[u].path = None
  /\ op[u].kind \in Visible /\ op[u].at = "update" =>
       IF op[u].path = None THEN op[u].pages = {}
       ELSE /\ object[op[u].path].manifest = op[u].pages
            /\ op[u].pages \subseteq object[op[u].path].pages
ChangesOK == \A u \in Request : ChangeOK(u)

Readable ==
  ~typed /\ chapter.path # None =>
    LET o == object[chapter.path] IN
    o.manifest # None /\ o.manifest \subseteq o.pages /\ chapter.pageCount = Cardinality(o.manifest)
Current ==
  ~typed /\ chapter.path # None =>
    /\ cached[chapter.version] # None => cached[chapter.version] = object[chapter.path].manifest
    /\ \A r \in Reader : reader[r].at = "store" /\ reader[r].version = chapter.version
                           => reader[r].manifest = object[chapter.path].manifest
ViewOK == (\A u \in Request : ~Changing(u)) => Readable /\ Current

\* Nothing is cached for a version to come, and a reader of the present one has its path,
\* unless another was typed since.
ReaderOK ==
  /\ \A v \in Version : cached[v] # None => v <= chapter.version
  /\ \A r \in Reader : reader[r].at # "idle" =>
       /\ reader[r].version <= chapter.version
       /\ reader[r].at = "load" => reader[r].path # None
       /\ reader[r].at \in {"load", "store"} /\ reader[r].version = chapter.version
            => typed \/ reader[r].path = chapter.path
       /\ reader[r].at = "store" => reader[r].manifest # None

ContentOK == CleanOK /\ StoredOK /\ TidyOK /\ ChangesOK /\ ViewOK
WorkOK == /\ TypesOK /\ StepsOK /\ AloneOK /\ KeyOK /\ OwnKeyOK /\ PathOK /\ CountOK /\ ReaderOK
          /\ OnlyOvertakenIsSkipped
IInv == WorkOK /\ (~Mixed => ContentOK)


-----------------------------------------------------------------------------
(***************************************************************************)
(* What follows from the invariant about the types                         *)
(***************************************************************************)
ObjectRec == [source : BOOLEAN, pages : SUBSET Request, manifest : Manifest \cup {None}]
Status == {"EMPTY", "READY", "PROCESSING", "FAILED"}

\* The parts of the type invariant.
LEMMA Typed ==
  ASSUME TypesOK
  PROVE  /\ chapter.path \in Request \cup {None} /\ chapter.key \in Request \cup {None}
         /\ chapter.version \in Version
         /\ \A u \in Request : op[u] \in OpRec /\ job[u] \in JobRec /\ object[u] \in ObjectRec
         /\ \A v \in Version : cached[v] \in Manifest \cup {None}
         /\ \A r \in Reader : reader[r] \in ReaderRec
         /\ met \subseteq Request
  BY DEF TypesOK, TypeOK, ObjectRec

\* There are finitely many requests, and None is neither a request nor a manifest.
LEMMA Constants ==
  /\ IsFiniteSet(Request) /\ Cardinality(Request) \in Nat
  /\ None \notin Request /\ None \notin Manifest /\ MaxAttempts \in Nat /\ MaxAttempts > 0
  /\ Empty \in ObjectRec /\ {} \in Manifest /\ 0 \in Version
  <1>1. IsFiniteSet(Request) /\ None \notin Request /\ MaxAttempts \in Nat /\ MaxAttempts > 0
    BY ContentAssumption
  <1>2. None \notin Manifest
    BY ContentAssumption DEF Manifest
  <1>3. Cardinality(Request) \in Nat
    BY <1>1, FS_CardinalityType
  <1>4. Empty \in ObjectRec /\ {} \in Manifest
    BY DEF Empty, ObjectRec, Manifest
  <1>5. 0 \in Version
    BY <1>3 DEF Version
  <1>6. QED
    BY <1>1, <1>2, <1>3, <1>4, <1>5

\* A set of pages has no more elements than there are requests.
LEMMA PageCount ==
  ASSUME NEW S \in SUBSET Request
  PROVE  Cardinality(S) \in 0..Cardinality(Request)
  <1>1. IsFiniteSet(S) /\ Cardinality(S) <= Cardinality(Request)
    BY Constants, FS_Subset
  <1>2. Cardinality(S) \in Nat
    BY <1>1, FS_CardinalityType
  <1>3. QED
    BY <1>1, <1>2, Constants

\* One page is a legal count.
LEMMA OnePage ==
  ASSUME NEW u \in Request
  PROVE  Cardinality({u}) = 1 /\ 1 \in 0..Cardinality(Request) /\ {u} \in Manifest
  <1>1. Cardinality({u}) = 1
    BY FS_Singleton
  <1>2. {u} \in SUBSET Request
    OBVIOUS
  <1>3. QED
    BY <1>1, <1>2, PageCount DEF Manifest

-----------------------------------------------------------------------------
(***************************************************************************)
(* The version never passes the number of requests that are settled        *)
(***************************************************************************)
\* Requests stay settled and the version is the one there was.
LEMMA CountKept ==
  ASSUME TypesOK, CountOK, chapter'.version = chapter.version,
         \A v \in Request : Settled(v) => Settled(v)'
  PROVE  CountOK' /\ chapter'.version \in Version
  <1>1. SettledSet \subseteq SettledSet' /\ SettledSet' \subseteq Request
    BY DEF SettledSet
  <1>2. IsFiniteSet(SettledSet') /\ IsFiniteSet(SettledSet)
    BY <1>1, Constants, FS_Subset
  <1>3. Cardinality(SettledSet) <= Cardinality(SettledSet')
    BY <1>1, <1>2, FS_Subset
  <1>4. Cardinality(SettledSet) \in Nat /\ Cardinality(SettledSet') \in Nat
    BY <1>2, FS_CardinalityType
  <1>5. chapter.version \in Nat /\ chapter.version \in Version
    BY Typed, Constants DEF Version
  <1>6. QED
    BY <1>3, <1>4, <1>5 DEF CountOK

\* One more request is settled, and the version is the next one.
LEMMA CountGrows ==
  ASSUME TypesOK, CountOK, chapter'.version = chapter.version + 1,
         \A v \in Request : Settled(v) => Settled(v)',
         NEW u \in Request, ~Settled(u), Settled(u)'
  PROVE  CountOK' /\ chapter'.version \in Version
  <1>1. SettledSet \cup {u} \subseteq SettledSet' /\ SettledSet' \subseteq Request
        /\ u \notin SettledSet
    BY DEF SettledSet
  <1>2. IsFiniteSet(SettledSet') /\ IsFiniteSet(SettledSet)
    BY <1>1, Constants, FS_Subset
  <1>3. Cardinality(SettledSet \cup {u}) = Cardinality(SettledSet) + 1
    BY <1>1, <1>2, FS_AddElement
  <1>4. Cardinality(SettledSet \cup {u}) <= Cardinality(SettledSet')
    BY <1>1, <1>2, FS_Subset
  <1>5. Cardinality(SettledSet') <= Cardinality(Request)
    BY <1>1, Constants, FS_Subset
  <1>6. Cardinality(SettledSet) \in Nat /\ Cardinality(SettledSet') \in Nat
    BY <1>2, FS_CardinalityType
  <1>7. chapter.version \in Nat
    BY Typed, Constants DEF Version
  <1>8. CountOK'
    BY <1>3, <1>4, <1>6, <1>7 DEF CountOK
  <1>9. QED
    BY <1>3, <1>4, <1>5, <1>6, <1>7, <1>8, Constants DEF CountOK, Version

-----------------------------------------------------------------------------
(***************************************************************************)
(* Most actions of a request change its own record and at most storage.    *)
(***************************************************************************)
Edge(kind, from, to) ==
  \/ to = "stopped"
  \/ kind = "images" /\ <<from, to>> \in {<<"put", "manifest">>, <<"manifest", "update">>, <<"cleanup", "done">>}
  \/ kind = "append" /\ <<from, to>> \in {<<"read", "put">>, <<"put", "manifest">>, <<"manifest", "update">>}
  \/ kind = "deletePages" /\ <<from, to>> \in {<<"read", "done">>, <<"read", "prefix">>, <<"read", "manifest">>,
                                              <<"prefix", "update">>, <<"manifest", "update">>}
  \/ kind = "delete" /\ <<from, to>> \in {<<"wipe", "update">>}
  \/ kind = "file" /\ <<from, to>> \in {<<"put", "mark">>}

Storage == /\ object' \in [Request -> ObjectRec]
           /\ \A v \in Request : Fresh(v) => object'[v] = Empty

OpStep(u, rec) ==
  /\ Running(u) /\ rec \in OpRec
  /\ op' = [op EXCEPT ![u] = rec]
  /\ rec.kind = op[u].kind /\ Edge(op[u].kind, op[u].at, rec.at)
  /\ rec.path \in {op[u].path, None}
  /\ rec.at \in {"done", "stopped"} => rec.path = None
  /\ rec.at \in {"put", "manifest", "prefix"} => rec.path = op[u].path
  /\ Storage
  /\ UNCHANGED <<chapter, typed, job, reader, cached, met>>

\* An update of one function value.
LEMMA OpUpdate ==
  ASSUME TypesOK, NEW u \in Request, NEW rec \in OpRec, op' = [op EXCEPT ![u] = rec]
  PROVE  /\ op' \in [Request -> OpRec] /\ op'[u] = rec
         /\ \A v \in Request : v # u => op'[v] = op[v]
  BY DEF TypesOK

\* The same of a job.
LEMMA JobUpdate ==
  ASSUME TypesOK, NEW u \in Request, NEW rec \in JobRec, job' = [job EXCEPT ![u] = rec]
  PROVE  /\ job' \in [Request -> JobRec] /\ job'[u] = rec
         /\ \A v \in Request : v # u => job'[v] = job[v]
  BY DEF TypesOK

\* Such a step preserves everything but what it says about the content.
LEMMA OpStepWork ==
  ASSUME WorkOK, NEW u \in Request, NEW rec \in OpRec, OpStep(u, rec)
  PROVE  WorkOK'
  <1>1. /\ TypesOK /\ StepsOK /\ AloneOK /\ KeyOK /\ OwnKeyOK /\ PathOK /\ CountOK /\ ReaderOK
        /\ OnlyOvertakenIsSkipped
    BY DEF WorkOK
  <1>2. op' \in [Request -> OpRec] /\ op'[u] = rec /\ \A v \in Request : v # u => op'[v] = op[v]
    BY <1>1, OpUpdate DEF OpStep
  <1>3. UNCHANGED <<chapter, typed, job, reader, cached, met>>
    BY DEF OpStep
  <1>4. object' \in [Request -> ObjectRec] /\ \A v \in Request : Fresh(v) => object'[v] = Empty
    BY DEF OpStep, Storage
  <1>5. StepOK(u) /\ Running(u) /\ rec.kind = op[u].kind /\ Edge(op[u].kind, op[u].at, rec.at)
        /\ rec.path \in {op[u].path, None} /\ (rec.at \in {"done", "stopped"} => rec.path = None)
        /\ (rec.at \in {"put", "manifest", "prefix"} => rec.path = op[u].path)
    BY <1>1 DEF OpStep, StepsOK
  <1>6. TypesOK'
    BY <1>1, <1>2, <1>3, <1>4 DEF TypesOK, TypeOK, ObjectRec, Version
  <1>7. StepsOK'
    <2>1. ASSUME NEW v \in Request, v # u PROVE StepOK(v)'
      BY <2>1, <1>1, <1>2, <1>3, <1>4 DEF StepsOK, StepOK, Fresh, Running, Converting
    <2>2. StepOK(u)'
      BY <1>1, <1>2, <1>3, <1>4, <1>5 DEF StepOK, Fresh, Running, Converting, Edge
    <2>3. QED
      BY <2>1, <2>2 DEF StepsOK
  <1>8. AloneOK'
    <2>1. \A v \in Request : Alive(v)' => Alive(v)
      BY <1>2, <1>3, <1>5 DEF Alive, Running, Converting
    <2>2. QED
      BY <2>1, <1>1, <1>3 DEF AloneOK
  <1>9. KeyOK'
    BY <1>1, <1>2, <1>3, <1>5 DEF KeyOK, StepOK, Edge, Running
  <1>10. OwnKeyOK'
    BY <1>1, <1>2, <1>3, <1>5 DEF OwnKeyOK, Do, Edge
  <1>11. \A v \in Request : Settled(v) => Settled(v)'
    <2>1. ASSUME NEW v \in Request, v # u, Settled(v) PROVE Settled(v)'
      BY <2>1, <1>2, <1>3 DEF Settled
    <2>2. ASSUME Settled(u) PROVE Settled(u)'
      BY <2>2, <1>2, <1>3, <1>5 DEF Settled, Edge, Running
    <2>3. QED
      BY <2>1, <2>2
  <1>12. PathOK'
    <2>1. chapter'.path # None => Settled(chapter.path)'
      BY <1>1, <1>3, <1>11, Typed, Constants DEF PathOK
    <2>2. ASSUME NEW v \in Request, op'[v].path # None
          PROVE  Settled(op[v].path)' \/ (op'[v].kind = "append" /\ op'[v].path = v)
      <3>1. op'[v].path = op[v].path /\ op'[v].kind = op[v].kind
        BY <2>2, <1>2, <1>5
      <3>2. op[v].path \in Request
        BY <3>1, <2>2, <1>1, Typed DEF OpRec
      <3>3. CASE Settled(op[v].path)
        <4>1. PICK q \in Request : q = op[v].path
          BY <3>2
        <4>2. Settled(q)'
          BY <4>1, <3>3, <1>11
        <4>3. QED
          BY <4>1, <4>2, <3>1
      <3>4. QED
        BY <3>3, <3>1, <2>2, <1>1 DEF PathOK
    <2>3. QED
      BY <2>1, <2>2, <1>3 DEF PathOK
  <1>13. CountOK'
    BY <1>1, <1>3, <1>11, CountKept
  <1>14. ReaderOK'
    BY <1>1, <1>3 DEF ReaderOK
  <1>15. OnlyOvertakenIsSkipped'
    BY <1>1, <1>3 DEF OnlyOvertakenIsSkipped
  <1>16. QED
    BY <1>6, <1>7, <1>8, <1>9, <1>10, <1>12, <1>13, <1>14, <1>15 DEF WorkOK

-----------------------------------------------------------------------------
(***************************************************************************)
(* A request begins.  Those that are under way have met it from now on.    *)
(***************************************************************************)
Others(u) == {v \in Request \ {u} : Alive(v)}
FirstSteps == {<<"images", "put">>, <<"append", "read">>, <<"deletePages", "read">>, <<"delete", "wipe">>,
               <<"file", "put">>}
Begins(u, kind, at, path) ==
  /\ Begin(u, kind, at, path)
  /\ <<kind, at>> \in FirstSteps /\ path \in Request \cup {None}
  /\ path \in {None, chapter.path} \/ (kind = "append" /\ path = u)
  /\ kind \in {"append", "deletePages"} => path # None
  /\ kind = "delete" => path = None

\* What a request is when it has begun.
LEMMA BeginFacts ==
  ASSUME TypesOK, NEW u \in Request, NEW kind, NEW at, NEW path, Begins(u, kind, at, path)
  PROVE  /\ op' \in [Request -> OpRec] /\ op'[u] = [kind |-> kind, at |-> at, path |-> path, pages |-> {}]
         /\ \A v \in Request : v # u => op'[v] = op[v]
         /\ Fresh(u) /\ at \notin {"new", "done", "stopped"}
         /\ met' = IF Others(u) = {} THEN met ELSE met \cup Others(u) \cup {u}
         /\ met \subseteq met' /\ met' \subseteq Request
         /\ UNCHANGED <<chapter, typed, object, job, reader, cached>>
  <1> DEFINE rec == [kind |-> kind, at |-> at, path |-> path, pages |-> {}]
  <1>1. rec \in OpRec
    BY DEF Begins, FirstSteps, OpRec, InPlace
  <1>2. op' = [op EXCEPT ![u] = rec]
    BY DEF Begins, Begin, Become
  <1>3. op' \in [Request -> OpRec] /\ op'[u] = rec /\ \A v \in Request : v # u => op'[v] = op[v]
    BY <1>1, <1>2, OpUpdate
  <1>4. met' = IF Others(u) = {} THEN met ELSE met \cup Others(u) \cup {u}
    BY DEF Begins, Begin, Others
  <1>5. Fresh(u) /\ UNCHANGED <<chapter, typed, object, job, reader, cached>>
    BY DEF Begins, Begin, Fresh, At
  <1>6. met \subseteq Request
    BY Typed
  <1>7. QED
    BY <1>3, <1>4, <1>5, <1>6 DEF Begins, FirstSteps, Others

\* A request that begins leaves the work of the others as it is, and notes whom it meets.
LEMMA BeginWork ==
  ASSUME WorkOK, NEW u \in Request, NEW kind, NEW at, NEW path, Begins(u, kind, at, path)
  PROVE  WorkOK'
  <1>1. /\ TypesOK /\ StepsOK /\ AloneOK /\ KeyOK /\ OwnKeyOK /\ PathOK /\ CountOK /\ ReaderOK
        /\ OnlyOvertakenIsSkipped
    BY DEF WorkOK
  <1>2. op' \in [Request -> OpRec] /\ op'[u] = [kind |-> kind, at |-> at, path |-> path, pages |-> {}]
        /\ \A v \in Request : v # u => op'[v] = op[v]
    BY <1>1, BeginFacts
  <1>3. UNCHANGED <<chapter, typed, object, job, reader, cached>> /\ met \subseteq met' /\ met' \subseteq Request
    BY <1>1, BeginFacts
  <1>4. met' = IF Others(u) = {} THEN met ELSE met \cup Others(u) \cup {u}
    BY <1>1, BeginFacts
  <1>5. Fresh(u) /\ StepOK(u) /\ at \notin {"new", "done", "stopped"}
    BY <1>1, BeginFacts DEF StepsOK
  <1>6. <<kind, at>> \in FirstSteps /\ path \in Request \cup {None}
        /\ (path \in {None, chapter.path} \/ (kind = "append" /\ path = u))
        /\ (kind \in {"append", "deletePages"} => path # None)
    BY DEF Begins
  <1>7. TypesOK'
    BY <1>1, <1>2, <1>3 DEF TypesOK, TypeOK, Version
  <1>8. StepsOK'
    <2>1. ASSUME NEW v \in Request, v # u PROVE StepOK(v)'
      <3>1. Fresh(v) => v \notin met'
        <4>1. Fresh(v) => ~Alive(v)
          BY <1>1 DEF Alive, Fresh, Running, Converting, StepsOK, StepOK
        <4>2. QED
          BY <4>1, <2>1, <1>4, <1>1 DEF Others, StepsOK, StepOK
      <3>2. QED
        BY <3>1, <2>1, <1>1, <1>2, <1>3 DEF StepsOK, StepOK, Fresh, Running, Converting
    <2>2. StepOK(u)'
      BY <1>1, <1>2, <1>3, <1>5, <1>6 DEF StepOK, Fresh, Running, Converting, FirstSteps
    <2>3. QED
      BY <2>1, <2>2 DEF StepsOK
  <1>9. AloneOK'
    <2>1. \A v \in Request : v # u => (Alive(v)' <=> Alive(v))
      BY <1>2, <1>3 DEF Alive, Running, Converting
    <2>2. ASSUME NEW v \in Request, NEW w \in Request, v \notin met', Alive(v)', w # v, Alive(w)'
          PROVE  FALSE
      <3>1. CASE v = u
        BY <3>1, <2>1, <2>2, <1>4 DEF Others
      <3>2. CASE w = u
        BY <3>2, <2>1, <2>2, <1>4 DEF Others
      <3>3. CASE v # u /\ w # u
        BY <3>3, <2>1, <2>2, <1>1, <1>3 DEF AloneOK
      <3>4. QED
        BY <3>1, <3>2, <3>3
    <2>3. QED
      BY <2>2 DEF AloneOK
  <1>10. KeyOK'
    BY <1>1, <1>2, <1>3, <1>5 DEF KeyOK, StepOK, Fresh
  <1>11. OwnKeyOK'
    BY <1>1, <1>2, <1>3, <1>5, <1>6 DEF OwnKeyOK, Do, StepOK, Fresh, FirstSteps
  <1>12. \A v \in Request : Settled(v) => Settled(v)'
    <2>1. ASSUME NEW v \in Request, v # u, Settled(v) PROVE Settled(v)'
      BY <2>1, <1>2, <1>3 DEF Settled
    <2>2. ~Settled(u)
      BY <1>5 DEF Settled, Fresh
    <2>3. QED
      BY <2>1, <2>2
  <1>13. PathOK'
    <2>1. chapter.path \in Request => Settled(chapter.path)'
      <3>1. ASSUME NEW q \in Request, q = chapter.path PROVE Settled(q)'
        BY <3>1, <1>1, <1>12, Constants DEF PathOK
      <3>2. QED
        BY <3>1, <1>3
    <2>2. chapter'.path # None => Settled(chapter.path)'
      BY <2>1, <1>1, <1>3, Typed
    <2>3. ASSUME NEW v \in Request, op'[v].path # None, v # u
          PROVE  Settled(op[v].path)' \/ (op'[v].kind = "append" /\ op'[v].path = v)
      <3>1. op'[v] = op[v] /\ op[v].path \in Request
        BY <2>3, <1>1, <1>2, Typed DEF OpRec
      <3>2. PICK q \in Request : q = op[v].path
        BY <3>1
      <3>3. Settled(q) => Settled(q)'
        BY <1>12
      <3>4. QED
        BY <3>1, <3>2, <3>3, <2>3, <1>1 DEF PathOK
    <2>4. op'[u].path # None => Settled(op[u].path)' \/ (op'[u].kind = "append" /\ op'[u].path = u)
      <3>1. op'[u].path = path /\ op'[u].kind = kind
        BY <1>2
      <3>2. CASE path = chapter.path /\ path # None
        <4>1. Settled(path)'
          BY <3>2, <2>2, <1>3
        <4>2. QED
          BY <4>1, <3>1
      <3>3. QED
        BY <3>1, <3>2, <1>6
    <2>5. QED
      BY <2>2, <2>3, <2>4 DEF PathOK
  <1>14. CountOK'
    BY <1>1, <1>3, <1>12, CountKept
  <1>15. ReaderOK'
    BY <1>1, <1>3 DEF ReaderOK
  <1>16. OnlyOvertakenIsSkipped'
    BY <1>1, <1>3 DEF OnlyOvertakenIsSkipped
  <1>17. QED
    BY <1>7, <1>8, <1>9, <1>10, <1>11, <1>13, <1>14, <1>15, <1>16 DEF WorkOK

-----------------------------------------------------------------------------
(***************************************************************************)
(* The other actions of a request                                          *)
(***************************************************************************)
\* Paths stay settled as long as requests do.
LEMMA PathsKept ==
  ASSUME TypesOK, PathOK, \A v \in Request : Settled(v) => Settled(v)',
         \A v \in Request : op'[v].path # None => op'[v].path = op[v].path /\ op'[v].kind = op[v].kind,
         chapter'.path \in Request \cup {None},
         chapter'.path \in {None, chapter.path} \/ Settled(chapter.path)'
  PROVE  PathOK'
  <1>1. chapter'.path # None => Settled(chapter.path)'
    <2>1. ASSUME chapter'.path = chapter.path, chapter.path # None PROVE Settled(chapter.path)'
      <3>1. PICK q \in Request : q = chapter.path
        BY <2>1, Typed
      <3>2. Settled(q)'
        BY <3>1, <2>1 DEF PathOK
      <3>3. QED
        BY <3>1, <3>2, <2>1
    <2>2. QED
      BY <2>1
  <1>2. ASSUME NEW v \in Request, op'[v].path # None
        PROVE  Settled(op[v].path)' \/ (op'[v].kind = "append" /\ op'[v].path = v)
    <2>1. op'[v].path = op[v].path /\ op'[v].kind = op[v].kind /\ op[v].path \in Request
      BY <1>2, Typed DEF OpRec
    <2>2. PICK q \in Request : q = op[v].path
      BY <2>1
    <2>3. Settled(q) => Settled(q)'
      OBVIOUS
    <2>4. QED
      BY <2>1, <2>2, <2>3, <1>2 DEF PathOK
  <1>3. QED
    BY <1>1, <1>2 DEF PathOK

\* Nothing is cached for the next version, and no reader has it.
LEMMA ReaderNextVersion ==
  ASSUME TypesOK, ReaderOK, UNCHANGED <<reader, cached>>, chapter'.version = chapter.version + 1
  PROVE  ReaderOK'
  <1>1. chapter.version \in Nat /\ Version \subseteq Nat
    BY Typed, Constants DEF Version
  <1>2. \A v \in Version : cached'[v] # None => v <= chapter'.version
    <2>1. \A v \in Version : cached[v] # None => v <= chapter.version
      BY DEF ReaderOK
    <2>2. QED
      BY <1>1, <2>1
  <1>3. \A r \in Reader : reader[r].version \in Nat
    BY <1>1, Typed DEF ReaderRec
  <1>4. QED
    BY <1>1, <1>2, <1>3 DEF ReaderOK

\* The update of the row: the prefix is settled from now on, and the version is the next.
LEMMA UpdateChapterWork ==
  ASSUME WorkOK, NEW u \in Request, UpdateChapter(u)
  PROVE  WorkOK'
  <1> DEFINE path == IF op[u].kind = "images" THEN u ELSE op[u].path
             pages == IF op[u].kind = "images" THEN {u} ELSE op[u].pages
  <1>1. /\ TypesOK /\ StepsOK /\ AloneOK /\ KeyOK /\ OwnKeyOK /\ PathOK /\ CountOK /\ ReaderOK
        /\ OnlyOvertakenIsSkipped
    BY DEF WorkOK
  <1>2. op[u] \in OpRec /\ StepOK(u) /\ op[u].kind \in InPlace /\ op[u].at = "update"
    BY <1>1, Typed DEF UpdateChapter, At, StepsOK
  <1> DEFINE rec == [op[u] EXCEPT !.at = "clear"]
  <1>3. rec \in OpRec /\ op' = [op EXCEPT ![u] = rec]
    BY <1>2 DEF UpdateChapter, GoTo, OpRec
  <1>4. op' \in [Request -> OpRec] /\ op'[u] = rec /\ \A v \in Request : v # u => op'[v] = op[v]
    BY <1>1, <1>3, OpUpdate
  <1>5. UNCHANGED <<object, job, reader, cached, met>> /\ typed' = FALSE
    BY DEF UpdateChapter, RowOnly
  <1>6. chapter' = [status |-> IF pages = {} THEN "EMPTY" ELSE "READY", path |-> path, key |-> None,
                    version |-> chapter.version + 1, pageCount |-> Cardinality(pages)]
    BY DEF UpdateChapter
  <1>7. path \in Request \cup {None} /\ pages \in SUBSET Request
    BY <1>2 DEF OpRec
  <1> HIDE DEF path, pages
  <1>8. chapter'.path = path /\ chapter'.key = None /\ chapter'.version = chapter.version + 1
    BY <1>6
  <1>9. \A v \in Request : chapter'.key # v
    BY <1>8, Constants
  <1>10. \A v \in Request : Settled(v) => Settled(v)'
    <2>1. ASSUME NEW v \in Request, v # u, Settled(v) PROVE Settled(v)'
      BY <2>1, <1>4, <1>5, <1>9 DEF Settled
    <2>2. ~Settled(u)
      BY <1>2 DEF Settled, InPlace
    <2>3. QED
      BY <2>1, <2>2
  <1>11. ~Settled(u) /\ Settled(u)'
    BY <1>2, <1>4, <1>5 DEF Settled, InPlace
  <1>12. CountOK' /\ chapter'.version \in Version
    BY <1>1, <1>8, <1>10, <1>11, CountGrows
  <1>13. TypesOK'
    <2>1. Cardinality(pages) \in 0..Cardinality(Request)
      BY <1>7, PageCount
    <2>2. chapter' \in [status : Status, path : Request \cup {None}, key : Request \cup {None},
                        version : Version, pageCount : 0..Cardinality(Request)]
      BY <1>6, <1>7, <2>1, <1>12, <1>8 DEF Status
    <2>3. chapter'.status # "PROCESSING"
      BY <1>6
    <2>4. QED
      BY <2>2, <2>3, <1>8, <1>1, <1>4, <1>5 DEF TypesOK, TypeOK, Status, Version
  <1>14. StepsOK'
    <2>1. ASSUME NEW v \in Request, v # u PROVE StepOK(v)'
      BY <2>1, <1>1, <1>4, <1>5, <1>9 DEF StepsOK, StepOK, Fresh, Running, Converting
    <2>2. StepOK(u)'
      BY <1>2, <1>4, <1>5, <1>9 DEF StepOK, Fresh, Running, Converting, InPlace
    <2>3. QED
      BY <2>1, <2>2 DEF StepsOK
  <1>15. \A v \in Request : Alive(v)' => Alive(v)
    BY <1>2, <1>4, <1>5 DEF Alive, Running, Converting
  <1>16. AloneOK'
    BY <1>15, <1>1, <1>5 DEF AloneOK
  <1>17. KeyOK'
    BY <1>9 DEF KeyOK
  <1>18. OwnKeyOK'
    <2>1. ASSUME NEW v \in Request, v \notin met PROVE ~Do(v, "file", "enqueue")' /\ ~Converting(v)'
      <3>1. CASE v = u
        BY <3>1, <1>2, <1>4, <1>5 DEF Do, InPlace, Converting, StepOK
      <3>2. CASE v # u
        <4>1. Alive(u)
          BY <1>2 DEF Alive, Running
        <4>2. ~Alive(v)
          BY <4>1, <3>2, <2>1, <1>1 DEF AloneOK
        <4>3. QED
          BY <4>2, <3>2, <1>4, <1>5 DEF Alive, Running, Converting, Do
      <3>3. QED
        BY <3>1, <3>2
    <2>2. QED
      BY <2>1, <1>5 DEF OwnKeyOK, Converting
  <1>19. PathOK'
    <2>1. chapter'.path # None => chapter'.path = u \/ Settled(chapter.path)'
      <3>1. ASSUME op[u].kind # "images", op[u].path # None, op[u].path # u PROVE Settled(chapter.path)'
        <4>1. PICK q \in Request : q = op[u].path
          BY <3>1, <1>2 DEF OpRec
        <4>2. Settled(q)'
          BY <4>1, <3>1, <1>1, <1>10 DEF PathOK
        <4>3. QED
          BY <4>1, <4>2, <3>1, <1>8 DEF path
      <3>2. QED
        BY <3>1, <1>8 DEF path
    <2>2. chapter'.path \in {None, chapter.path} \/ Settled(chapter.path)'
      BY <2>1, <1>11
    <2>3. \A v \in Request : op'[v].path = op[v].path /\ op'[v].kind = op[v].kind
      BY <1>4, <1>2 DEF OpRec
    <2>4. QED
      BY <2>2, <2>3, <1>1, <1>10, <1>7, <1>8, PathsKept
  <1>20. ReaderOK'
    BY <1>1, <1>5, <1>8, ReaderNextVersion
  <1>21. OnlyOvertakenIsSkipped'
    BY <1>1, <1>5 DEF OnlyOvertakenIsSkipped
  <1>22. QED
    BY <1>13, <1>14, <1>16, <1>17, <1>18, <1>19, <1>12, <1>20, <1>21 DEF WorkOK

\* The end of a request, or its last step before the old prefix is removed.
LEMMA ClearCacheWork ==
  ASSUME WorkOK, NEW u \in Request, ClearCache(u)
  PROVE  WorkOK'
  <1>1. /\ TypesOK /\ StepsOK /\ AloneOK /\ KeyOK /\ OwnKeyOK /\ PathOK /\ CountOK /\ ReaderOK
        /\ OnlyOvertakenIsSkipped
    BY DEF WorkOK
  <1>2. op[u] \in OpRec /\ StepOK(u) /\ op[u].kind \in InPlace /\ op[u].at = "clear"
    BY <1>1, Typed DEF ClearCache, At, StepsOK
  <1>3. UNCHANGED <<chapter, typed, object, job, reader, met>>
    BY DEF ClearCache
  <1>4. PICK rec \in OpRec : op' = [op EXCEPT ![u] = rec] /\ rec.kind = op[u].kind
                             /\ \/ rec.at = "cleanup" /\ rec.path = op[u].path /\ op[u].kind = "images"
                                \/ rec.at = "done" /\ rec.path = None
    <2>1. CASE op[u].kind = "images" /\ op[u].path # None
      <3>1. op' = [op EXCEPT ![u] = [op[u] EXCEPT !.at = "cleanup"]]
        BY <2>1 DEF ClearCache, GoTo
      <3>2. [op[u] EXCEPT !.at = "cleanup"] \in OpRec
        BY <1>2 DEF OpRec
      <3>3. QED
        BY <3>1, <3>2, <2>1, <1>2 DEF OpRec
    <2>2. CASE ~(op[u].kind = "images" /\ op[u].path # None)
      <3>1. op' = [op EXCEPT ![u] = [op[u] EXCEPT !.at = "done", !.path = None, !.pages = {}]]
        BY <2>2 DEF ClearCache, End, Become
      <3>2. [op[u] EXCEPT !.at = "done", !.path = None, !.pages = {}] \in OpRec
        BY <1>2 DEF OpRec
      <3>3. QED
        BY <3>1, <3>2, <1>2 DEF OpRec
    <2>3. QED
      BY <2>1, <2>2
  <1>5. op' \in [Request -> OpRec] /\ op'[u] = rec /\ \A v \in Request : v # u => op'[v] = op[v]
    BY <1>1, <1>4, OpUpdate
  <1>6. cached' = [cached EXCEPT ![chapter.version] = None] /\ chapter.version \in Version
    BY <1>1, Typed DEF ClearCache, ClearCurrent
  <1>7. \A v \in Version : cached'[v] # None => cached'[v] = cached[v]
    BY <1>6, <1>1 DEF TypesOK, TypeOK
  <1>8. TypesOK'
    BY <1>1, <1>3, <1>5, <1>6 DEF TypesOK, TypeOK, Version
  <1>9. StepsOK'
    <2>1. ASSUME NEW v \in Request, v # u PROVE StepOK(v)'
      BY <2>1, <1>1, <1>3, <1>5 DEF StepsOK, StepOK, Fresh, Running, Converting
    <2>2. StepOK(u)'
      BY <1>2, <1>3, <1>4, <1>5 DEF StepOK, Fresh, Running, Converting, InPlace
    <2>3. QED
      BY <2>1, <2>2 DEF StepsOK
  <1>10. \A v \in Request : Alive(v)' => Alive(v)
    BY <1>2, <1>3, <1>5 DEF Alive, Running, Converting
  <1>11. AloneOK'
    BY <1>10, <1>1, <1>3 DEF AloneOK
  <1>12. KeyOK'
    BY <1>1, <1>2, <1>3, <1>5 DEF KeyOK, StepOK, InPlace
  <1>13. OwnKeyOK'
    BY <1>1, <1>2, <1>3, <1>4, <1>5 DEF OwnKeyOK, Do
  <1>14. \A v \in Request : Settled(v) => Settled(v)'
    BY <1>2, <1>3, <1>4, <1>5 DEF Settled, InPlace
  <1>15. PathOK'
    <2>1. \A v \in Request : op'[v].path # None => op'[v].path = op[v].path /\ op'[v].kind = op[v].kind
      BY <1>4, <1>5
    <2>2. chapter'.path = chapter.path /\ chapter'.path \in Request \cup {None}
      BY <1>1, <1>3, Typed
    <2>3. QED
      BY <2>1, <2>2, <1>1, <1>14, PathsKept
  <1>16. CountOK'
    BY <1>1, <1>3, <1>14, CountKept
  <1>17. ReaderOK'
    BY <1>1, <1>3, <1>7 DEF ReaderOK
  <1>18. OnlyOvertakenIsSkipped'
    BY <1>1, <1>3 DEF OnlyOvertakenIsSkipped
  <1>19. QED
    BY <1>8, <1>9, <1>11, <1>12, <1>13, <1>15, <1>16, <1>17, <1>18 DEF WorkOK

\* contentKey names the file of a request that is about to queue its job.
LEMMA MarkProcessingWork ==
  ASSUME WorkOK, NEW u \in Request, MarkProcessing(u)
  PROVE  WorkOK'
  <1>1. /\ TypesOK /\ StepsOK /\ AloneOK /\ KeyOK /\ OwnKeyOK /\ PathOK /\ CountOK /\ ReaderOK
        /\ OnlyOvertakenIsSkipped
    BY DEF WorkOK
  <1>2. op[u] \in OpRec /\ StepOK(u) /\ op[u].kind = "file" /\ op[u].at = "mark"
    BY <1>1, Typed DEF MarkProcessing, Do, StepsOK
  <1> DEFINE rec == [op[u] EXCEPT !.at = "enqueue"]
  <1>3. rec \in OpRec /\ op' = [op EXCEPT ![u] = rec]
    BY <1>2 DEF MarkProcessing, GoTo, OpRec
  <1>4. op' \in [Request -> OpRec] /\ op'[u] = rec /\ \A v \in Request : v # u => op'[v] = op[v]
    BY <1>1, <1>3, OpUpdate
  <1>5. UNCHANGED <<typed, object, job, reader, cached, met>>
    BY DEF MarkProcessing, RowOnly
  <1>6. chapter' = [chapter EXCEPT !.status = "PROCESSING", !.key = u]
    BY DEF MarkProcessing
  <1>7. /\ chapter'.path = chapter.path /\ chapter'.key = u /\ chapter'.version = chapter.version
        /\ chapter'.status = "PROCESSING"
        /\ chapter' \in [status : Status, path : Request \cup {None}, key : Request \cup {None},
                         version : Version, pageCount : 0..Cardinality(Request)]
    <2>1. chapter \in [status : Status, path : Request \cup {None}, key : Request \cup {None},
                       version : Version, pageCount : 0..Cardinality(Request)]
      BY <1>1 DEF TypesOK, TypeOK, Status
    <2>2. QED
      BY <2>1, <1>6 DEF Status
  <1>8. \A v \in Request : Settled(v) => Settled(v)'
    <2>1. ASSUME NEW v \in Request, v # u, Settled(v) PROVE Settled(v)'
      BY <2>1, <1>4, <1>5, <1>7 DEF Settled
    <2>2. ~Settled(u)
      BY <1>2 DEF Settled
    <2>3. QED
      BY <2>1, <2>2
  <1>9. TypesOK'
    BY <1>1, <1>4, <1>5, <1>7, Constants DEF TypesOK, TypeOK, Status, Version
  <1>10. StepsOK'
    <2>1. ASSUME NEW v \in Request, v # u PROVE StepOK(v)'
      BY <2>1, <1>1, <1>4, <1>5, <1>7 DEF StepsOK, StepOK, Fresh, Running, Converting
    <2>2. StepOK(u)'
      BY <1>2, <1>4, <1>5, <1>7 DEF StepOK, Fresh, Running, Converting
    <2>3. QED
      BY <2>1, <2>2 DEF StepsOK
  <1>11. \A v \in Request : Alive(v)' => Alive(v)
    BY <1>2, <1>4, <1>5 DEF Alive, Running, Converting
  <1>12. AloneOK'
    BY <1>11, <1>1, <1>5 DEF AloneOK
  <1>13. KeyOK'
    <2>1. op'[u].at = "enqueue"
      BY <1>2, <1>4 DEF OpRec
    <2>2. QED
      BY <2>1, <1>7 DEF KeyOK
  <1>14. OwnKeyOK'
    <2>1. ASSUME NEW v \in Request, v \notin met, v # u PROVE ~Do(v, "file", "enqueue")' /\ ~Converting(v)'
      <3>1. Alive(u)
        BY <1>2 DEF Alive, Running
      <3>2. ~Alive(v)
        BY <3>1, <2>1, <1>1 DEF AloneOK
      <3>3. QED
        BY <3>2, <2>1, <1>4, <1>5 DEF Alive, Running, Converting, Do
    <2>2. QED
      BY <2>1, <1>5, <1>7 DEF OwnKeyOK, Converting
  <1>15. PathOK'
    <2>1. \A v \in Request : op'[v].path = op[v].path /\ op'[v].kind = op[v].kind
      BY <1>4, <1>2 DEF OpRec
    <2>2. chapter'.path = chapter.path /\ chapter'.path \in Request \cup {None}
      BY <1>1, <1>7, Typed
    <2>3. QED
      BY <2>1, <2>2, <1>1, <1>8, PathsKept
  <1>16. CountOK'
    BY <1>1, <1>7, <1>8, CountKept
  <1>17. ReaderOK'
    BY <1>1, <1>5, <1>7 DEF ReaderOK
  <1>18. OnlyOvertakenIsSkipped'
    BY <1>1, <1>5 DEF OnlyOvertakenIsSkipped
  <1>19. QED
    BY <1>9, <1>10, <1>12, <1>13, <1>14, <1>15, <1>16, <1>17, <1>18 DEF WorkOK

\* The key has passed from the request to its job.
LEMMA EnqueueWork ==
  ASSUME WorkOK, NEW u \in Request, Enqueue(u)
  PROVE  WorkOK'
  <1>1. /\ TypesOK /\ StepsOK /\ AloneOK /\ KeyOK /\ OwnKeyOK /\ PathOK /\ CountOK /\ ReaderOK
        /\ OnlyOvertakenIsSkipped
    BY DEF WorkOK
  <1>2. op[u] \in OpRec /\ StepOK(u) /\ op[u].kind = "file" /\ op[u].at = "enqueue"
    BY <1>1, Typed DEF Enqueue, Do, StepsOK
  <1> DEFINE rec == [op[u] EXCEPT !.at = "done", !.path = None, !.pages = {}]
             new == [at |-> "waiting", attempts |-> MaxAttempts, stalls |-> 0]
  <1>3. rec \in OpRec /\ op' = [op EXCEPT ![u] = rec]
    BY <1>2 DEF Enqueue, End, Become, OpRec
  <1>4. op' \in [Request -> OpRec] /\ op'[u] = rec /\ \A v \in Request : v # u => op'[v] = op[v]
    BY <1>1, <1>3, OpUpdate
  <1>5. UNCHANGED <<chapter, typed, object, reader, cached, met>>
    BY DEF Enqueue
  <1>6. new \in JobRec /\ job' = [job EXCEPT ![u] = new]
    BY Constants DEF Enqueue, JobRec
  <1>7. job' \in [Request -> JobRec] /\ job'[u] = new /\ \A v \in Request : v # u => job'[v] = job[v]
    BY <1>1, <1>6, JobUpdate
  <1>8. \A v \in Request : Settled(v) => Settled(v)'
    <2>1. ASSUME NEW v \in Request, v # u, Settled(v) PROVE Settled(v)'
      BY <2>1, <1>4, <1>5, <1>7 DEF Settled
    <2>2. ~Settled(u)
      BY <1>2 DEF Settled
    <2>3. QED
      BY <2>1, <2>2
  <1>9. TypesOK'
    BY <1>1, <1>4, <1>5, <1>7 DEF TypesOK, TypeOK, Version
  <1>10. StepsOK'
    <2>1. ASSUME NEW v \in Request, v # u PROVE StepOK(v)'
      BY <2>1, <1>1, <1>4, <1>5, <1>7 DEF StepsOK, StepOK, Fresh, Running, Converting
    <2>2. StepOK(u)'
      BY <1>2, <1>4, <1>5, <1>7, Constants DEF StepOK, Fresh, Running, Converting
    <2>3. QED
      BY <2>1, <2>2 DEF StepsOK
  <1>11. \A v \in Request : Alive(v)' => Alive(v)
    BY <1>2, <1>4, <1>7 DEF Alive, Running, Converting
  <1>12. AloneOK'
    BY <1>11, <1>1, <1>5 DEF AloneOK
  <1>13. KeyOK'
    BY <1>1, <1>4, <1>5, <1>7 DEF KeyOK
  <1>14. OwnKeyOK'
    BY <1>1, <1>2, <1>4, <1>5, <1>7 DEF OwnKeyOK, Do
  <1>15. PathOK'
    <2>1. \A v \in Request : op'[v].path # None => op'[v].path = op[v].path /\ op'[v].kind = op[v].kind
      BY <1>4, <1>2 DEF OpRec
    <2>2. chapter'.path = chapter.path /\ chapter'.path \in Request \cup {None}
      BY <1>1, <1>5, Typed
    <2>3. QED
      BY <2>1, <2>2, <1>1, <1>8, PathsKept
  <1>16. CountOK'
    BY <1>1, <1>5, <1>8, CountKept
  <1>17. ReaderOK'
    BY <1>1, <1>5 DEF ReaderOK
  <1>18. OnlyOvertakenIsSkipped'
    BY <1>1, <1>5, <1>7 DEF OnlyOvertakenIsSkipped
  <1>19. QED
    BY <1>9, <1>10, <1>12, <1>13, <1>14, <1>15, <1>16, <1>17, <1>18 DEF WorkOK

-----------------------------------------------------------------------------
(***************************************************************************)
(* The actions of a job                                                    *)
(***************************************************************************)
\* Most change the job's own record, and at most storage and the cache.
JobEdge(u, from, to) ==
  \/ <<from, to>> \in {<<"waiting", "check">>, <<"pages", "manifest">>, <<"manifest", "ready">>,
                       <<"source", "clear">>}
  \/ from = "check" /\ to = IF chapter.key = u THEN "pages" ELSE "skipped"
JobAgain(u, rec) ==
  /\ rec.at = "waiting" /\ rec.attempts > 0 /\ rec.attempts <= job[u].attempts
  /\ rec.attempts < job[u].attempts \/ rec.stalls > 0
JobStep(u, rec) ==
  /\ Converting(u) /\ rec \in JobRec
  /\ job' = [job EXCEPT ![u] = rec]
  /\ \/ JobEdge(u, job[u].at, rec.at) /\ rec.attempts = job[u].attempts /\ rec.stalls = job[u].stalls
     \/ JobAgain(u, rec)
     \/ rec.at \in {"stalled", "unrecorded"} \/ (job[u].at = "clear" /\ rec.at = "done")
  /\ Storage
  /\ cached' \in [Version -> Manifest \cup {None}]
  /\ \A v \in Version : cached'[v] # None => cached'[v] = cached[v]
  /\ UNCHANGED <<chapter, typed, op, reader, met>>

\* Such a step of a job preserves everything but what it says about the content.
LEMMA JobStepWork ==
  ASSUME WorkOK, NEW u \in Request, NEW rec \in JobRec, JobStep(u, rec)
  PROVE  WorkOK'
  <1>1. /\ TypesOK /\ StepsOK /\ AloneOK /\ KeyOK /\ OwnKeyOK /\ PathOK /\ CountOK /\ ReaderOK
        /\ OnlyOvertakenIsSkipped
    BY DEF WorkOK
  <1>2. job' \in [Request -> JobRec] /\ job'[u] = rec /\ \A v \in Request : v # u => job'[v] = job[v]
    BY <1>1, JobUpdate DEF JobStep
  <1>3. UNCHANGED <<chapter, typed, op, reader, met>>
    BY DEF JobStep
  <1>4. object' \in [Request -> ObjectRec] /\ \A v \in Request : Fresh(v) => object'[v] = Empty
    BY DEF JobStep, Storage
  <1>5. /\ cached' \in [Version -> Manifest \cup {None}]
        /\ \A v \in Version : cached'[v] # None => cached'[v] = cached[v]
    BY DEF JobStep
  <1>6. /\ StepOK(u) /\ Converting(u)
        /\ \/ JobEdge(u, job[u].at, rec.at) /\ rec.attempts = job[u].attempts /\ rec.stalls = job[u].stalls
           \/ JobAgain(u, rec)
           \/ rec.at \in {"stalled", "unrecorded"} \/ (job[u].at = "clear" /\ rec.at = "done")
    BY <1>1 DEF JobStep, StepsOK
  <1>7. job[u].stalls \in Nat /\ job[u].attempts \in 0..MaxAttempts /\ rec.stalls \in Nat /\ rec.attempts \in 0..MaxAttempts
    BY <1>1, Typed, Constants DEF JobRec
  <1>8. TypesOK'
    BY <1>1, <1>2, <1>3, <1>4, <1>5 DEF TypesOK, TypeOK, ObjectRec, Version
  <1>9. StepsOK'
    <2>1. ASSUME NEW v \in Request, v # u PROVE StepOK(v)'
      BY <2>1, <1>1, <1>2, <1>3, <1>4 DEF StepsOK, StepOK, Fresh, Running, Converting
    <2>2. StepOK(u)'
      <3>1. job[u].at # "none" /\ job[u].attempts > 0
        BY <1>6 DEF StepOK, Converting
      <3>2. Converting(u)' => job'[u].attempts > 0
        BY <3>1, <1>2, <1>6 DEF Converting, JobEdge, JobAgain
      <3>3. QED
        BY <3>1, <3>2, <1>2, <1>3, <1>4, <1>6 DEF StepOK, Fresh, Running
    <2>3. QED
      BY <2>1, <2>2 DEF StepsOK
  <1>10. \A v \in Request : Alive(v)' => Alive(v)
    <2>1. Alive(u)
      BY <1>6 DEF Alive
    <2>2. ASSUME NEW v \in Request, v # u PROVE Alive(v)' => Alive(v)
      BY <2>2, <1>2, <1>3, <1>6 DEF Alive, Running, Converting
    <2>3. QED
      BY <2>1, <2>2
  <1>11. AloneOK'
    BY <1>10, <1>1, <1>3 DEF AloneOK
  <1>12. KeyOK'
    BY <1>1, <1>2, <1>3, <1>6 DEF KeyOK, StepOK, Converting, JobEdge, JobAgain
  <1>13. OwnKeyOK'
    <2>1. ASSUME NEW v \in Request, v \notin met PROVE Do(v, "file", "enqueue")' => chapter'.key = v
      BY <2>1, <1>1, <1>3 DEF OwnKeyOK, Do
    <2>2. ASSUME NEW v \in Request, v \notin met, job'[v].at \in {"waiting", "check"},
                 job'[v].attempts = MaxAttempts, job'[v].stalls = 0
          PROVE  chapter'.key = v
      <3>1. job[v].at \in {"waiting", "check"} /\ job[v].attempts = MaxAttempts /\ job[v].stalls = 0
        <4>1. CASE v = u
          BY <4>1, <2>2, <1>2, <1>6, <1>7, Constants DEF JobEdge, JobAgain
        <4>2. CASE v # u
          BY <4>2, <2>2, <1>2
        <4>3. QED
          BY <4>1, <4>2
      <3>2. QED
        BY <3>1, <2>2, <1>1, <1>3 DEF OwnKeyOK
    <2>3. QED
      BY <2>1, <2>2, <1>3 DEF OwnKeyOK
  <1>14. \A v \in Request : Settled(v) => Settled(v)'
    <2>1. ASSUME NEW v \in Request, v # u, Settled(v) PROVE Settled(v)'
      BY <2>1, <1>2, <1>3 DEF Settled
    <2>2. ASSUME Settled(u) PROVE Settled(u)'
      BY <2>2, <1>2, <1>3, <1>6 DEF Settled, JobEdge, JobAgain
    <2>3. QED
      BY <2>1, <2>2
  <1>15. PathOK'
    <2>1. \A v \in Request : op'[v].path = op[v].path /\ op'[v].kind = op[v].kind
      BY <1>3
    <2>2. chapter'.path = chapter.path /\ chapter'.path \in Request \cup {None}
      BY <1>1, <1>3, Typed
    <2>3. QED
      BY <2>1, <2>2, <1>1, <1>14, PathsKept
  <1>16. CountOK'
    BY <1>1, <1>3, <1>14, CountKept
  <1>17. ReaderOK'
    BY <1>1, <1>3, <1>5 DEF ReaderOK
  <1>18. OnlyOvertakenIsSkipped'
    <2>1. ASSUME NEW v \in Request, job'[v].at = "skipped"
          PROVE  v \in met \/ job'[v].attempts < MaxAttempts \/ job'[v].stalls > 0
      <3>1. CASE v = u
        <4>1. job[u].at = "check" /\ chapter.key # u /\ rec.attempts = job[u].attempts /\ rec.stalls = job[u].stalls
          BY <3>1, <2>1, <1>2, <1>6 DEF JobEdge, JobAgain
        <4>2. u \in met \/ job[u].attempts # MaxAttempts \/ job[u].stalls # 0
          BY <4>1, <1>1 DEF OwnKeyOK
        <4>3. job[u].attempts <= MaxAttempts
          BY <1>7, Constants
        <4>4. QED
          BY <3>1, <4>1, <4>2, <4>3, <1>2, <1>6, <1>7, Constants
      <3>2. CASE v # u
        BY <3>2, <2>1, <1>1, <1>2 DEF OnlyOvertakenIsSkipped
      <3>3. QED
        BY <3>1, <3>2
    <2>2. QED
      BY <2>1, <1>3 DEF OnlyOvertakenIsSkipped
  <1>19. QED
    BY <1>8, <1>9, <1>11, <1>12, <1>13, <1>15, <1>16, <1>17, <1>18 DEF WorkOK

\* The job makes its prefix the active one.
LEMMA MakeReadyWork ==
  ASSUME WorkOK, NEW u \in Request, MakeReady(u)
  PROVE  WorkOK'
  <1> DEFINE rec == [job[u] EXCEPT !.at = "source"]
  <1>1. /\ TypesOK /\ StepsOK /\ AloneOK /\ KeyOK /\ OwnKeyOK /\ PathOK /\ CountOK /\ ReaderOK
        /\ OnlyOvertakenIsSkipped
    BY DEF WorkOK
  <1>2. job[u] \in JobRec /\ StepOK(u) /\ job[u].at = "ready"
    BY <1>1, Typed DEF MakeReady, JobAt, StepsOK
  <1>3. rec \in JobRec /\ job' = [job EXCEPT ![u] = rec]
    BY <1>2 DEF MakeReady, JobGoTo, JobRec
  <1>4. job' \in [Request -> JobRec] /\ job'[u] = rec /\ \A v \in Request : v # u => job'[v] = job[v]
    BY <1>1, <1>3, JobUpdate
  <1>5. UNCHANGED <<object, op, reader, cached, met>> /\ typed' = FALSE
    BY DEF MakeReady
  <1>6. chapter' = [status |-> "READY", path |-> u, key |-> None,
                    version |-> chapter.version + 1, pageCount |-> 1]
    BY DEF MakeReady
  <1>7. \A v \in Request : chapter'.key # v
    BY <1>6, Constants
  <1>8. job'[u].at = "source" /\ job'[u].attempts = job[u].attempts /\ job'[u].stalls = job[u].stalls
    BY <1>2, <1>4 DEF JobRec
  <1>9. \A v \in Request : Settled(v) => Settled(v)'
    <2>1. ASSUME NEW v \in Request, v # u, Settled(v) PROVE Settled(v)'
      BY <2>1, <1>4, <1>5, <1>7 DEF Settled
    <2>2. ASSUME Settled(u) PROVE Settled(u)'
      BY <2>2, <1>5, <1>7, <1>8 DEF Settled
    <2>3. QED
      BY <2>1, <2>2
  <1>10. ~Settled(u) /\ Settled(u)'
    BY <1>2, <1>5, <1>7, <1>8 DEF Settled, StepOK
  <1>11. CountOK' /\ chapter'.version \in Version
    BY <1>1, <1>6, <1>9, <1>10, CountGrows
  <1>12. TypesOK'
    <2>1. chapter' \in [status : Status, path : Request \cup {None}, key : Request \cup {None},
                        version : Version, pageCount : 0..Cardinality(Request)]
      BY <1>6, <1>11, OnePage DEF Status
    <2>2. chapter'.status # "PROCESSING" /\ chapter'.key = None
      BY <1>6
    <2>3. QED
      BY <2>1, <2>2, <1>1, <1>4, <1>5 DEF TypesOK, TypeOK, Status, Version
  <1>13. StepsOK'
    <2>1. ASSUME NEW v \in Request, v # u PROVE StepOK(v)'
      BY <2>1, <1>1, <1>4, <1>5, <1>7 DEF StepsOK, StepOK, Fresh, Running, Converting
    <2>2. StepOK(u)'
      BY <1>2, <1>5, <1>7, <1>8 DEF StepOK, Fresh, Running, Converting
    <2>3. QED
      BY <2>1, <2>2 DEF StepsOK
  <1>14. \A v \in Request : Alive(v)' => Alive(v)
    BY <1>2, <1>4, <1>5 DEF Alive, Running, Converting
  <1>15. AloneOK'
    BY <1>14, <1>1, <1>5 DEF AloneOK
  <1>16. KeyOK'
    BY <1>7 DEF KeyOK
  <1>17. OwnKeyOK'
    <2>1. ASSUME NEW v \in Request, v \notin met
          PROVE  ~Do(v, "file", "enqueue")' /\ job'[v].at \notin {"waiting", "check"}
      <3>1. CASE v = u
        BY <3>1, <1>2, <1>5, <1>8 DEF Do, StepOK
      <3>2. CASE v # u
        <4>1. Alive(u)
          BY <1>2 DEF Alive, Converting
        <4>2. ~Alive(v)
          BY <4>1, <3>2, <2>1, <1>1 DEF AloneOK
        <4>3. QED
          BY <4>2, <3>2, <1>4, <1>5 DEF Alive, Running, Converting, Do
      <3>3. QED
        BY <3>1, <3>2
    <2>2. QED
      BY <2>1, <1>5 DEF OwnKeyOK
  <1>18. PathOK'
    <2>1. \A v \in Request : op'[v].path = op[v].path /\ op'[v].kind = op[v].kind
      BY <1>5
    <2>2. chapter'.path = u
      BY <1>6
    <2>3. QED
      BY <2>1, <2>2, <1>1, <1>9, <1>10, PathsKept
  <1>19. ReaderOK'
    BY <1>1, <1>5, <1>6, ReaderNextVersion
  <1>20. OnlyOvertakenIsSkipped'
    BY <1>1, <1>4, <1>5, <1>8 DEF OnlyOvertakenIsSkipped
  <1>21. QED
    BY <1>12, <1>13, <1>15, <1>16, <1>17, <1>18, <1>11, <1>19, <1>20 DEF WorkOK

\* What is left of a job whose attempt threw.
LEMMA AttemptFacts ==
  ASSUME TypesOK, NEW u \in Request, NEW end \in {"failed", "unrecorded"}, CountAttempt(u, end)
  PROVE  \E rec \in JobRec :
           /\ job' = [job EXCEPT ![u] = rec]
           /\ \/ JobAgain(u, rec) /\ rec.attempts < job[u].attempts
              \/ rec.at = end /\ rec.attempts = 0
  <1>1. job[u] \in JobRec /\ MaxAttempts \in Nat
    BY Typed, Constants
  <1>2. CASE job[u].attempts > 1
    <2> DEFINE rec == [job[u] EXCEPT !.attempts = job[u].attempts - 1, !.at = "waiting"]
    <2>1. rec.attempts = job[u].attempts - 1 /\ rec.at = "waiting" /\ rec \in JobRec
      <3>1. job[u].attempts - 1 \in 0..MaxAttempts
        BY <1>1, <1>2 DEF JobRec
      <3>2. QED
        BY <3>1, <1>1 DEF JobRec
    <2>2. job' = [job EXCEPT ![u] = rec]
      BY <1>1, <1>2 DEF CountAttempt, TypesOK, JobRec
    <2>3. job[u].attempts \in Nat
      BY <1>1 DEF JobRec
    <2> HIDE DEF rec
    <2>4. JobAgain(u, rec) /\ rec.attempts < job[u].attempts
      BY <2>1, <2>3, <1>2 DEF JobAgain
    <2>5. QED
      BY <2>1, <2>2, <2>4
  <1>3. CASE ~(job[u].attempts > 1)
    <2> DEFINE rec == [at |-> end, attempts |-> 0, stalls |-> 0]
    <2>1. rec \in JobRec /\ rec.at = end /\ rec.attempts = 0
      BY <1>1 DEF JobRec
    <2>2. job' = [job EXCEPT ![u] = rec]
      BY <1>3 DEF CountAttempt, JobEnds
    <2> HIDE DEF rec
    <2>3. QED
      BY <2>1, <2>2
  <1>4. QED
    BY <1>2, <1>3

\* An attempt of the job fails.
LEMMA FailJobWork ==
  ASSUME WorkOK, NEW u \in Request, FailJob(u)
  PROVE  WorkOK'
  <1>1. /\ TypesOK /\ StepsOK /\ AloneOK /\ KeyOK /\ OwnKeyOK /\ PathOK /\ CountOK /\ ReaderOK
        /\ OnlyOvertakenIsSkipped
    BY DEF WorkOK
  <1>2. job[u] \in JobRec /\ StepOK(u) /\ Converting(u)
    BY <1>1, Typed DEF FailJob, StepsOK
  <1>3. job[u].attempts \in 1..MaxAttempts
    BY <1>2, Constants DEF StepOK, JobRec
  <1>4. PICK rec \in JobRec :
          /\ job' = [job EXCEPT ![u] = rec]
          /\ \/ JobAgain(u, rec) /\ rec.attempts < job[u].attempts
             \/ rec.at = "failed" /\ rec.attempts = 0
    BY <1>1, AttemptFacts DEF FailJob
  <1>5. /\ rec.at \in {"waiting", "failed"} /\ (rec.at = "waiting" => rec.attempts > 0)
        /\ rec.attempts \in 0..MaxAttempts /\ rec.attempts < MaxAttempts
    BY <1>3, <1>4, Constants DEF JobAgain, JobRec
  <1>6. job' \in [Request -> JobRec] /\ job'[u] = rec /\ \A v \in Request : v # u => job'[v] = job[v]
    BY <1>1, <1>4, JobUpdate
  <1>7. UNCHANGED <<typed, object, op, reader, cached, met>> /\ chapter' = [chapter EXCEPT !.status = "FAILED", !.key = None]
    BY DEF FailJob
  <1>8. /\ chapter'.path = chapter.path /\ chapter'.key = None /\ chapter'.version = chapter.version
        /\ chapter'.status = "FAILED"
        /\ chapter' \in [status : Status, path : Request \cup {None}, key : Request \cup {None},
                         version : Version, pageCount : 0..Cardinality(Request)]
    <2>1. chapter \in [status : Status, path : Request \cup {None}, key : Request \cup {None},
                       version : Version, pageCount : 0..Cardinality(Request)]
      BY <1>1 DEF TypesOK, TypeOK, Status
    <2>2. QED
      BY <2>1, <1>7 DEF Status
  <1>9. \A v \in Request : chapter'.key # v
    BY <1>8, Constants
  <1>10. \A v \in Request : Settled(v) => Settled(v)'
    <2>1. ASSUME NEW v \in Request, v # u, Settled(v) PROVE Settled(v)'
      BY <2>1, <1>6, <1>7, <1>9 DEF Settled
    <2>2. ASSUME Settled(u) PROVE Settled(u)'
      BY <2>2, <1>5, <1>6, <1>7, <1>9 DEF Settled
    <2>3. QED
      BY <2>1, <2>2
  <1>11. TypesOK'
    BY <1>1, <1>6, <1>7, <1>8 DEF TypesOK, TypeOK, Status, Version
  <1>12. StepsOK'
    <2>1. ASSUME NEW v \in Request, v # u PROVE StepOK(v)'
      BY <2>1, <1>1, <1>6, <1>7, <1>9 DEF StepsOK, StepOK, Fresh, Running, Converting
    <2>2. StepOK(u)'
      <3>1. Converting(u)' => job'[u].attempts > 0
        BY <1>5, <1>6 DEF Converting
      <3>2. job[u].at # "none"
        BY <1>2 DEF Converting
      <3>3. QED
        BY <3>1, <3>2, <1>2, <1>6, <1>7, <1>9 DEF StepOK, Fresh, Running
    <2>3. QED
      BY <2>1, <2>2 DEF StepsOK
  <1>13. \A v \in Request : Alive(v)' => Alive(v)
    <2>1. Alive(u)
      BY <1>2 DEF Alive
    <2>2. ASSUME NEW v \in Request, v # u PROVE Alive(v)' => Alive(v)
      BY <2>2, <1>2, <1>7, <1>6 DEF Alive, Running, Converting
    <2>3. QED
      BY <2>1, <2>2
  <1>14. AloneOK'
    BY <1>13, <1>1, <1>7 DEF AloneOK
  <1>15. KeyOK'
    BY <1>9 DEF KeyOK
  <1>16. OwnKeyOK'
    <2>1. ASSUME NEW v \in Request, v \notin met
          PROVE  ~Do(v, "file", "enqueue")' /\ ~(job'[v].at \in {"waiting", "check"} /\ job'[v].attempts = MaxAttempts)
      <3>1. CASE v = u
        <4>1. job[u].at # "none" /\ op'[u] = op[u]
          BY <1>2, <1>7 DEF Converting
        <4>2. ~Do(u, "file", "enqueue")'
          BY <4>1, <1>2 DEF Do, StepOK
        <4>3. job'[u].attempts # MaxAttempts
          BY <1>5, <1>6, Constants
        <4>4. QED
          BY <3>1, <4>2, <4>3
      <3>2. CASE v # u
        <4>1. Alive(u)
          BY <1>2 DEF Alive
        <4>2. ~Alive(v)
          BY <4>1, <3>2, <2>1, <1>1 DEF AloneOK
        <4>3. QED
          BY <4>2, <3>2, <1>6, <1>7 DEF Alive, Running, Converting, Do
      <3>3. QED
        BY <3>1, <3>2
    <2>2. QED
      BY <2>1, <1>7 DEF OwnKeyOK
  <1>17. PathOK'
    <2>1. \A v \in Request : op'[v].path = op[v].path /\ op'[v].kind = op[v].kind
      BY <1>7
    <2>2. chapter'.path = chapter.path /\ chapter'.path \in Request \cup {None}
      BY <1>1, <1>8, Typed
    <2>3. QED
      BY <2>1, <2>2, <1>1, <1>10, PathsKept
  <1>18. CountOK'
    BY <1>1, <1>8, <1>10, CountKept
  <1>19. ReaderOK'
    BY <1>1, <1>7, <1>8 DEF ReaderOK
  <1>20. OnlyOvertakenIsSkipped'
    <2>1. job'[u].at # "skipped"
      BY <1>5, <1>6
    <2>2. QED
      BY <2>1, <1>1, <1>6, <1>7 DEF OnlyOvertakenIsSkipped
  <1>21. QED
    BY <1>11, <1>12, <1>14, <1>15, <1>16, <1>17, <1>18, <1>19, <1>20 DEF WorkOK

-----------------------------------------------------------------------------
(***************************************************************************)
(* Readers change nothing of the requests' and the jobs' work.             *)
(***************************************************************************)
ReadStep(r, rec) ==
  /\ rec \in ReaderRec
  /\ reader' = [reader EXCEPT ![r] = rec]
  /\ UNCHANGED <<chapter, typed, object, op, job, met>>

\* A reader disturbs nothing but what is said of readers and of the cache.
LEMMA ReadStepWork ==
  ASSUME WorkOK, NEW r \in Reader, NEW rec \in ReaderRec, ReadStep(r, rec),
         cached' \in [Version -> Manifest \cup {None}], ReaderOK'
  PROVE  WorkOK'
  <1>1. UNCHANGED <<chapter, typed, object, op, job, met>> /\ reader' \in [Reader -> ReaderRec]
    BY DEF ReadStep, WorkOK, TypesOK
  <1>2. TypesOK'
    BY <1>1 DEF WorkOK, TypesOK, TypeOK, Version
  <1>3. /\ \A u \in Request : /\ (StepOK(u)' <=> StepOK(u)) /\ (Alive(u)' <=> Alive(u))
                              /\ (Settled(u)' <=> Settled(u))
    BY <1>1 DEF StepOK, Fresh, Running, Converting, Alive, Settled
  <1>4. StepsOK' /\ AloneOK'
    BY <1>1, <1>3 DEF WorkOK, StepsOK, AloneOK
  <1>5. KeyOK' /\ OwnKeyOK'
    BY <1>1 DEF WorkOK, KeyOK, OwnKeyOK, Do
  <1>6. PathOK'
    <2>1. chapter.path \in Request \cup {None} /\ TypesOK /\ PathOK
      BY Typed DEF WorkOK
    <2>2. QED
      BY <2>1, <1>1, <1>3, PathsKept
  <1>7. CountOK'
    BY <1>1, <1>3, CountKept DEF WorkOK
  <1>8. OnlyOvertakenIsSkipped'
    BY <1>1 DEF WorkOK, OnlyOvertakenIsSkipped
  <1>9. QED
    BY <1>2, <1>4, <1>5, <1>6, <1>7, <1>8 DEF WorkOK

\* What each of a reader's actions is.
LEMMA ReadFacts ==
  ASSUME WorkOK, NEW r \in Reader, Read(r)
  PROVE  \E rec \in ReaderRec :
           /\ ReadStep(r, rec)
           /\ \/ rec.at = "idle" /\ cached' = cached
              \/ /\ rec.at = "path" /\ rec.version = chapter.version /\ cached' = cached
              \/ /\ rec.at = "load" /\ rec.version = reader[r].version /\ reader[r].at # "idle"
                 /\ rec.path = chapter.path /\ chapter.path # None /\ cached' = cached
              \/ /\ rec.at = "store" /\ reader[r].at = "load" /\ rec.version = reader[r].version
                 /\ rec.path = reader[r].path /\ rec.manifest # None
                 /\ rec.manifest = object[reader[r].path].manifest /\ cached' = cached
              \/ /\ rec.at = "idle" /\ reader[r].at = "store"
                 /\ cached' = [cached EXCEPT ![reader[r].version] = reader[r].manifest]
  <1>1. TypesOK /\ reader[r] \in ReaderRec /\ chapter.version \in Version /\ chapter.path \in Request \cup {None}
    BY Typed DEF WorkOK
  <1>2. NoManifest \in ReaderRec /\ NoManifest.at = "idle"
    BY Constants DEF NoManifest, ReaderRec
  <1>3. CASE VerifyToken(r)
    <2> DEFINE rec == [NoManifest EXCEPT !.at = "path", !.version = chapter.version]
    <2>1. rec \in ReaderRec /\ rec.at = "path" /\ rec.version = chapter.version
      BY <1>1, Constants DEF NoManifest, ReaderRec
    <2>2. ReadStep(r, rec) /\ cached' = cached
      BY <1>3, <2>1 DEF VerifyToken, ReaderGoes, ReaderOnly, ReadStep
    <2> HIDE DEF rec
    <2>3. QED
      BY <2>1, <2>2
  <1>4. CASE FindManifest(r)
    <2>1. CASE chapter.path = None \/ cached[reader[r].version] # None
      <3>1. ReadStep(r, NoManifest) /\ cached' = cached
        BY <1>2, <1>4, <2>1 DEF FindManifest, ReaderGoes, ReaderOnly, ReadStep
      <3>2. QED
        BY <3>1, <1>2
    <2>2. CASE ~(chapter.path = None \/ cached[reader[r].version] # None)
      <3> DEFINE rec == [reader[r] EXCEPT !.at = "load", !.path = chapter.path]
      <3>1. rec \in ReaderRec /\ rec.at = "load" /\ rec.version = reader[r].version /\ rec.path = chapter.path
        BY <1>1 DEF ReaderRec
      <3>2. ReadStep(r, rec) /\ cached' = cached /\ chapter.path # None /\ reader[r].at # "idle"
        BY <1>4, <2>2, <3>1 DEF FindManifest, ReaderGoes, ReaderOnly, ReadStep
      <3> HIDE DEF rec
      <3>3. QED
        BY <3>1, <3>2
    <2>3. QED
      BY <2>1, <2>2
  <1>5. CASE LoadManifest(r)
    <2>1. reader[r].at = "load" /\ reader[r].path \in Request
      BY <1>1, <1>5 DEF LoadManifest, WorkOK, ReaderOK, ReaderRec
    <2>2. object[reader[r].path].manifest \in Manifest \cup {None}
      BY <1>1, <2>1, Typed DEF ObjectRec
    <2>3. CASE object[reader[r].path].manifest = None
      <3>1. ReadStep(r, NoManifest) /\ cached' = cached
        BY <1>2, <1>5, <2>3 DEF LoadManifest, ReaderGoes, ReaderOnly, ReadStep
      <3>2. QED
        BY <3>1, <1>2
    <2>4. CASE object[reader[r].path].manifest # None
      <3> DEFINE m == object[reader[r].path].manifest
                 rec == [reader[r] EXCEPT !.at = "store", !.manifest = m]
      <3>1. rec \in ReaderRec /\ rec.at = "store" /\ rec.version = reader[r].version
            /\ rec.path = reader[r].path /\ rec.manifest = m
        BY <1>1, <2>2 DEF ReaderRec
      <3>2. ReadStep(r, rec) /\ cached' = cached
        BY <1>5, <2>4, <3>1 DEF LoadManifest, ReaderGoes, ReaderOnly, ReadStep
      <3> HIDE DEF rec
      <3>3. QED
        BY <3>1, <3>2, <2>1, <2>4
    <2>5. QED
      BY <2>3, <2>4
  <1>6. CASE StoreManifest(r)
    <2>1. ReadStep(r, NoManifest) /\ reader[r].at = "store"
          /\ cached' = [cached EXCEPT ![reader[r].version] = reader[r].manifest]
      BY <1>2, <1>6 DEF StoreManifest, ReaderGoes, ReadStep
    <2>2. QED
      BY <2>1, <1>2
  <1>7. QED
    BY <1>3, <1>4, <1>5, <1>6 DEF Read

\* Every step of a reader stores a manifest under a version the chapter has, or had.
LEMMA ReadWork ==
  ASSUME WorkOK, NEW r \in Reader, Read(r)
  PROVE  WorkOK'
  <1>1. PICK rec \in ReaderRec :
           /\ ReadStep(r, rec)
           /\ \/ rec.at = "idle" /\ cached' = cached
              \/ /\ rec.at = "path" /\ rec.version = chapter.version /\ cached' = cached
              \/ /\ rec.at = "load" /\ rec.version = reader[r].version /\ reader[r].at # "idle"
                 /\ rec.path = chapter.path /\ chapter.path # None /\ cached' = cached
              \/ /\ rec.at = "store" /\ reader[r].at = "load" /\ rec.version = reader[r].version
                 /\ rec.path = reader[r].path /\ rec.manifest # None
                 /\ rec.manifest = object[reader[r].path].manifest /\ cached' = cached
              \/ /\ rec.at = "idle" /\ reader[r].at = "store"
                 /\ cached' = [cached EXCEPT ![reader[r].version] = reader[r].manifest]
    BY ReadFacts
  <1>2. TypesOK /\ ReaderOK /\ reader[r] \in ReaderRec /\ chapter.version \in Version
        /\ cached \in [Version -> Manifest \cup {None}] /\ chapter.version \in Nat /\ Version \subseteq Nat
    BY Typed, Constants DEF WorkOK, TypesOK, TypeOK, Version
  <1>3. chapter' = chapter /\ typed' = typed /\ reader'[r] = rec /\ \A q \in Reader : q # r => reader'[q] = reader[q]
    BY <1>1, <1>2 DEF ReadStep, TypesOK
  <1>4. cached' \in [Version -> Manifest \cup {None}] /\ \A v \in Version : cached'[v] # None => v <= chapter.version
    <2>1. CASE cached' = cached
      BY <2>1, <1>2 DEF ReaderOK
    <2>2. CASE reader[r].at = "store" /\ cached' = [cached EXCEPT ![reader[r].version] = reader[r].manifest]
      <3>1. reader[r].version <= chapter.version /\ reader[r].manifest \in Manifest \cup {None}
            /\ reader[r].version \in Version
        BY <2>2, <1>2 DEF ReaderOK, ReaderRec
      <3>2. QED
        BY <2>2, <3>1, <1>2 DEF ReaderOK
    <2>3. QED
      BY <1>1, <2>1, <2>2
  <1>5. rec.at # "idle" =>
          /\ rec.version <= chapter.version
          /\ rec.at = "load" => rec.path # None
          /\ rec.at \in {"load", "store"} /\ rec.version = chapter.version => typed \/ rec.path = chapter.path
          /\ rec.at = "store" => rec.manifest # None
    BY <1>1, <1>2 DEF ReaderOK
  <1>6. ReaderOK'
    BY <1>2, <1>3, <1>4, <1>5 DEF ReaderOK
  <1>7. QED
    BY <1>1, <1>4, <1>6, ReadStepWork

-----------------------------------------------------------------------------
(***************************************************************************)
(* The content.  While a request runs that changes what readers see, and   *)
(* met no other, nobody else works on the chapter.                         *)
(***************************************************************************)
Quiet == \A v \in Request : op[v].kind \in Visible => ~Running(v)

\* A request that changes what readers see, and has met nobody, is the only one that runs.
LEMMA VisibleIsAlone ==
  ASSUME WorkOK, ~Mixed, NEW u \in Request, op[u].kind \in Visible, Running(u)
  PROVE  \A v \in Request : v # u => ~Alive(v)
  BY DEF WorkOK, AloneOK, Mixed, Alive

\* So there is no such request while another one or a job makes a step.
LEMMA OthersAreQuiet ==
  ASSUME WorkOK, ~Mixed, NEW u \in Request, Alive(u), op[u].kind \notin Visible
  PROVE  Quiet
  BY VisibleIsAlone DEF Quiet

\* A chapter nobody changes shows its content.
LEMMA QuietView ==
  ASSUME ContentOK, Quiet
  PROVE  Readable /\ Current
  BY DEF ContentOK, ViewOK, Quiet, Changing, Running

\* While no such request runs, nothing is said of one.
LEMMA QuietContent ==
  ASSUME Quiet', CleanOK', StoredOK', TidyOK', Readable', Current'
  PROVE  ContentOK'
  <1>1. ChangesOK'
    <2>1. ASSUME NEW v \in Request PROVE ChangeOK(v)'
      <3>1. op'[v].kind \in Visible => op'[v].at \in {"new", "done", "stopped"}
        BY DEF Quiet, Running
      <3>2. QED
        BY <3>1 DEF ChangeOK, Visible
    <2>2. QED
      BY <2>1 DEF ChangesOK
  <1>2. QED
    BY <1>1 DEF ContentOK, ViewOK

\* A request that is alone.
LEMMA LoneContent ==
  ASSUME WorkOK, NEW u \in Request, \A v \in Request : v # u => ~Alive(v) /\ op'[v] = op[v],
         UNCHANGED job, op'[u].kind \in Visible, job[u].at = "none",
         ChangeOK(u)', ViewOK', TidyOK'
  PROVE  ContentOK'
  <1>1. \A v \in Request : v # u => op'[v].at \in {"new", "done", "stopped"}
    BY DEF Alive, Running
  <1>2. \A v \in Request : job'[v].at \notin {"manifest", "ready"}
    BY DEF Alive, Converting
  <1>3. CleanOK'
    BY <1>1 DEF CleanOK, Visible
  <1>4. StoredOK'
    BY <1>1, <1>2 DEF StoredOK, Visible
  <1>5. \A v \in Request : v # u => ChangeOK(v)'
    BY <1>1 DEF ChangeOK
  <1>6. QED
    BY <1>3, <1>4, <1>5 DEF ContentOK, ChangesOK

\* What was mixed up stays so.
LEMMA MixedStays ==
  ASSUME WorkOK, met \subseteq met',
         \A v \in Request : ~Fresh(v) => /\ op'[v].kind = op[v].kind
                                         /\ op[v].at = "stopped" => op'[v].at = "stopped"
  PROVE  Mixed => Mixed'
  BY DEF Mixed, WorkOK, StepsOK, StepOK, Fresh, At

\* The view of the chapter and its manifest depends on little.
LEMMA ViewKept ==
  ASSUME WorkOK, Readable, Current, chapter'.path = chapter.path, chapter'.version = chapter.version,
         chapter'.pageCount = chapter.pageCount, UNCHANGED <<reader, typed>>,
         \A p \in Request : p = chapter.path /\ ~typed => /\ object'[p].pages = object[p].pages
                                                           /\ object'[p].manifest = object[p].manifest,
         \A v \in Version : cached'[v] # None => cached'[v] = cached[v]
  PROVE  Readable' /\ Current'
  <1>1. chapter.path \in Request \cup {None} /\ chapter.version \in Version
    BY Typed DEF WorkOK
  <1>2. CASE chapter.path = None \/ typed
    BY <1>2 DEF Readable, Current
  <1>3. CASE chapter.path \in Request /\ ~typed
    <2>1. /\ object'[chapter.path].pages = object[chapter.path].pages
          /\ object'[chapter.path].manifest = object[chapter.path].manifest
      BY <1>3
    <2>2. QED
      BY <1>1, <2>1 DEF Readable, Current
  <1>4. QED
    BY <1>1, <1>2, <1>3

\* While nothing is removed, every manifest lists pages that are there.
LEMMA QuietTidy ==
  ASSUME TidyOK, Quiet, \A p \in Request : Tidy(p) => Tidy(p)'
  PROVE  TidyOK'
  <1>1. \A u \in Request : ~Removing(u)
    BY DEF Quiet, Removing, Running, Visible
  <1>2. \A p \in Request : Tidy(p)
    BY <1>1 DEF TidyOK
  <1>3. \A p \in Request : Tidy(p)'
    BY <1>2 DEF Tidy
  <1>4. QED
    BY <1>3 DEF TidyOK

\* Nor does a step disturb that which removes nothing.
LEMMA TidyKept ==
  ASSUME TidyOK, \A v \in Request : Removing(v) => Removing(v)' /\ op'[v].path = op[v].path,
         \A p \in Request : Tidy(p) => Tidy(p)'
  PROVE  TidyOK'
  <1>1. ASSUME NEW p \in Request PROVE Tidy(p)' \/ \E v \in Request : Removing(v)' /\ op'[v].path = p
    BY DEF TidyOK
  <1>2. QED
    BY <1>1 DEF TidyOK

\* Steps of uploads of images and files that write under no active prefix.
LEMMA UploadContent ==
  ASSUME WorkOK, ContentOK, ~Mixed, NEW u \in Request, NEW rec \in OpRec, OpStep(u, rec),
         op[u].kind \in {"images", "file"},
         \A p \in Request : p = chapter.path /\ ~typed => /\ object'[p].pages = object[p].pages
                                                           /\ object'[p].manifest = object[p].manifest,
         \A v \in Request : v # u /\ ~Settled(v) => object'[v] = object[v],
         rec.at # "put", rec.at \in {"manifest", "update"} => object'[u].pages = {u},
         rec.at = "update" => object'[u].manifest = {u},
         \A p \in Request : Tidy(p) => Tidy(p)'
  PROVE  ContentOK'
  <1>1. TypesOK /\ StepsOK /\ CleanOK /\ StoredOK
    BY DEF WorkOK, ContentOK
  <1>2. op'[u] = rec /\ \A v \in Request : v # u => op'[v] = op[v]
    BY <1>1, OpUpdate DEF OpStep
  <1>3. UNCHANGED <<chapter, typed, job, reader, cached, met>>
    BY DEF OpStep
  <1>4. Running(u) /\ StepOK(u) /\ rec.kind = op[u].kind /\ Edge(op[u].kind, op[u].at, rec.at)
    BY <1>1 DEF OpStep, StepsOK
  <1>5. Quiet
    BY <1>4, OthersAreQuiet DEF Alive, Visible
  <1>6. Quiet'
    BY <1>2, <1>4, <1>5 DEF Quiet, Running, Visible
  <1>7. Readable' /\ Current'
    BY <1>3, <1>5, QuietView, ViewKept
  <1>8. CleanOK'
    <2>1. rec.at \notin {"clear", "cleanup"}
      BY <1>4 DEF Edge
    <2>2. QED
      BY <2>1, <1>1, <1>2, <1>3 DEF CleanOK
  <1>9. StoredOK'
    <2>1. ASSUME NEW v \in Request, v # u
          PROVE  /\ op'[v].kind = "images" /\ op'[v].at = "put" => object'[v].manifest = None
                 /\ op'[v].kind = "images" /\ op'[v].at \in {"manifest", "update"} => object'[v].pages = {v}
                 /\ op'[v].kind = "images" /\ op'[v].at = "update" => object'[v].manifest = {v}
                 /\ job'[v].at \in {"manifest", "ready"} => v \in object'[v].pages
                 /\ job'[v].at = "ready" => object'[v].manifest = {v}
      <3>1. /\ op[v].kind = "images" /\ op[v].at \in {"put", "manifest", "update"} => ~Settled(v)
            /\ job[v].at \in {"manifest", "ready"} => ~Settled(v)
        BY <1>1 DEF Settled, StepsOK, StepOK
      <3>2. QED
        BY <2>1, <3>1, <1>1, <1>2, <1>3 DEF StoredOK
    <2>2. job'[u].at = "none"
      BY <1>3, <1>4 DEF StepOK, Running
    <2>3. QED
      BY <2>1, <2>2, <1>2 DEF StoredOK
  <1>10. TidyOK'
    BY <1>5, QuietTidy DEF ContentOK
  <1>11. QED
    BY <1>6, <1>7, <1>8, <1>9, <1>10, QuietContent

\* Steps of jobs that write under their own prefix.
LEMMA JobContent ==
  ASSUME WorkOK, ContentOK, ~Mixed, NEW u \in Request, NEW rec \in JobRec, JobStep(u, rec),
         \A v \in Request : v # u => object'[v] = object[v],
         ~Settled(u) \/ (object'[u].pages = object[u].pages /\ object'[u].manifest = object[u].manifest),
         rec.at \in {"manifest", "ready"} => u \in object'[u].pages,
         rec.at = "ready" => object'[u].manifest = {u},
         \A p \in Request : Tidy(p) => Tidy(p)'
  PROVE  ContentOK'
  <1>1. TypesOK /\ StepsOK /\ CleanOK /\ StoredOK /\ PathOK
    BY DEF WorkOK, ContentOK
  <1>2. job'[u] = rec /\ \A v \in Request : v # u => job'[v] = job[v]
    BY <1>1, JobUpdate DEF JobStep
  <1>3. UNCHANGED <<chapter, typed, op, reader, met>>
        /\ \A v \in Version : cached'[v] # None => cached'[v] = cached[v]
    BY DEF JobStep
  <1>4. Alive(u) /\ op[u].kind = "file"
    BY <1>1 DEF JobStep, Alive, Converting, StepsOK, StepOK
  <1>5. Quiet /\ Quiet'
    BY <1>3, <1>4, OthersAreQuiet DEF Quiet, Running, Visible
  <1>6. \A p \in Request : p = chapter.path => /\ object'[p].pages = object[p].pages
                                               /\ object'[p].manifest = object[p].manifest
    BY <1>1, Constants DEF PathOK
  <1>7. Readable' /\ Current'
    BY <1>3, <1>5, <1>6, QuietView, ViewKept
  <1>8. CleanOK'
    BY <1>1, <1>3 DEF CleanOK
  <1>9. StoredOK'
    BY <1>1, <1>2, <1>3, <1>4 DEF StoredOK
  <1>10. TidyOK'
    BY <1>5, QuietTidy DEF ContentOK
  <1>11. QED
    BY <1>5, <1>7, <1>8, <1>9, <1>10, QuietContent

-----------------------------------------------------------------------------
(***************************************************************************)
(* The actions of requests that upload images or a file                    *)
(***************************************************************************)
\* An OpStep that does not mix things up preserves the invariant.
LEMMA OpStepMixed ==
  ASSUME WorkOK, NEW u \in Request, NEW rec \in OpRec, OpStep(u, rec), ~Mixed'
  PROVE  ~Mixed
  <1>1. op'[u] = rec /\ \A v \in Request : v # u => op'[v] = op[v]
    BY OpUpdate DEF OpStep, WorkOK
  <1>2. Running(u) /\ rec.kind = op[u].kind /\ met' = met
    BY DEF OpStep
  <1>3. QED
    BY <1>1, <1>2, MixedStays DEF Running

\* A step that is not a request's does not change who has met whom.
LEMMA JobStepMixed ==
  ASSUME WorkOK, UNCHANGED <<op, met>>, ~Mixed'
  PROVE  ~Mixed
  BY DEF Mixed, At

\* An object with another part is an object.
LEMMA StorageUpdate ==
  ASSUME TypesOK, StepsOK, NEW u \in Request, ~Fresh(u), NEW o \in ObjectRec, object' = [object EXCEPT ![u] = o]
  PROVE  Storage /\ object'[u] = o /\ \A v \in Request : v # u => object'[v] = object[v]
  BY DEF TypesOK, TypeOK, ObjectRec, Storage, StepsOK, StepOK

\* The pages of a new prefix: no reader looks there yet.
LEMMA PutImagesIInv ==
  ASSUME IInv, NEW u \in Request, PutImages(u)
  PROVE  IInv'
  <1> DEFINE rec == [op[u] EXCEPT !.at = "manifest"]
             o == [object[u] EXCEPT !.pages = {u}]
  <1>1. WorkOK /\ TypesOK /\ StepsOK /\ op[u] \in OpRec /\ object[u] \in ObjectRec
    BY Typed DEF IInv, WorkOK
  <1>2. op[u].kind = "images" /\ op[u].at = "put" /\ ~Settled(u)
    BY DEF PutImages, Do, Settled
  <1>3. /\ rec \in OpRec /\ rec.kind = op[u].kind /\ rec.at = "manifest" /\ rec.path = op[u].path
        /\ op' = [op EXCEPT ![u] = rec]
    BY <1>1 DEF PutImages, GoTo, OpRec
  <1>4. o \in ObjectRec /\ object' = [object EXCEPT ![u] = o]
    BY <1>1, OnePage DEF PutImages, ObjectRec
  <1>5. Storage /\ object'[u] = o /\ \A v \in Request : v # u => object'[v] = object[v]
    BY <1>1, <1>2, <1>4, StorageUpdate DEF Fresh
  <1>6. UNCHANGED <<chapter, typed, job, reader, cached, met>>
    BY DEF PutImages, StorageOnly
  <1>7. OpStep(u, rec)
    BY <1>2, <1>3, <1>5, <1>6 DEF OpStep, Edge, Running
  <1> HIDE DEF rec
  <1>8. WorkOK'
    BY <1>1, <1>3, <1>7, OpStepWork
  <1>9. ASSUME ~Mixed' PROVE ContentOK'
    <2>1. ~Mixed /\ ContentOK
      BY <1>1, <1>3, <1>7, <1>9, OpStepMixed DEF IInv
    <2>2. chapter.path # u
      BY <1>1, <1>2, Constants DEF WorkOK, PathOK
    <2>3. /\ rec.at \in {"manifest", "update"} => object'[u].pages = {u}
          /\ rec.at = "update" => object'[u].manifest = {u}
      BY <1>1, <1>2, <1>3, <1>5, <2>1 DEF ContentOK, StoredOK, ObjectRec
    <2>4. \A p \in Request : Tidy(p) => Tidy(p)'
      BY <1>1, <1>2, <1>5, <2>1, Constants DEF Tidy, ObjectRec, ContentOK, StoredOK
    <2>5. QED
      BY <1>1, <1>2, <1>3, <1>5, <1>7, <2>1, <2>2, <2>3, <2>4, UploadContent
  <1>10. QED
    BY <1>8, <1>9 DEF IInv

\* Its manifest.
LEMMA PutImagesManifestIInv ==
  ASSUME IInv, NEW u \in Request, PutImagesManifest(u)
  PROVE  IInv'
  <1> DEFINE rec == [op[u] EXCEPT !.at = "update"]
             o == [object[u] EXCEPT !.manifest = {u}]
  <1>1. WorkOK /\ TypesOK /\ StepsOK /\ op[u] \in OpRec /\ object[u] \in ObjectRec
    BY Typed DEF IInv, WorkOK
  <1>2. op[u].kind = "images" /\ op[u].at = "manifest" /\ ~Settled(u)
    BY DEF PutImagesManifest, Do, Settled
  <1>3. /\ rec \in OpRec /\ rec.kind = op[u].kind /\ rec.at = "update" /\ rec.path = op[u].path
        /\ op' = [op EXCEPT ![u] = rec]
    BY <1>1 DEF PutImagesManifest, GoTo, OpRec
  <1>4. o \in ObjectRec /\ object' = [object EXCEPT ![u] = o]
    BY <1>1, OnePage DEF PutImagesManifest, ObjectRec
  <1>5. Storage /\ object'[u] = o /\ \A v \in Request : v # u => object'[v] = object[v]
    BY <1>1, <1>2, <1>4, StorageUpdate DEF Fresh
  <1>6. UNCHANGED <<chapter, typed, job, reader, cached, met>>
    BY DEF PutImagesManifest, StorageOnly
  <1>7. OpStep(u, rec)
    BY <1>2, <1>3, <1>5, <1>6 DEF OpStep, Edge, Running
  <1> HIDE DEF rec
  <1>8. WorkOK'
    BY <1>1, <1>3, <1>7, OpStepWork
  <1>9. ASSUME ~Mixed' PROVE ContentOK'
    <2>1. ~Mixed /\ ContentOK
      BY <1>1, <1>3, <1>7, <1>9, OpStepMixed DEF IInv
    <2>2. chapter.path # u
      BY <1>1, <1>2, Constants DEF WorkOK, PathOK
    <2>3. /\ rec.at \in {"manifest", "update"} => object'[u].pages = {u}
          /\ rec.at = "update" => object'[u].manifest = {u}
      BY <1>1, <1>2, <1>3, <1>5, <2>1 DEF ContentOK, StoredOK, ObjectRec
    <2>4. \A p \in Request : Tidy(p) => Tidy(p)'
      BY <1>1, <1>2, <1>5, <2>1, Constants DEF Tidy, ObjectRec, ContentOK, StoredOK
    <2>5. QED
      BY <1>1, <1>2, <1>3, <1>5, <1>7, <2>1, <2>2, <2>3, <2>4, UploadContent
  <1>10. QED
    BY <1>8, <1>9 DEF IInv

\* The source file is no page.
LEMMA PutSourceIInv ==
  ASSUME IInv, NEW u \in Request, PutSource(u)
  PROVE  IInv'
  <1> DEFINE rec == [op[u] EXCEPT !.at = "mark"]
             o == [object[u] EXCEPT !.source = TRUE]
  <1>1. WorkOK /\ TypesOK /\ StepsOK /\ op[u] \in OpRec /\ object[u] \in ObjectRec
    BY Typed DEF IInv, WorkOK
  <1>2. op[u].kind = "file" /\ op[u].at = "put" /\ ~Settled(u)
    BY DEF PutSource, Do, Settled
  <1>3. /\ rec \in OpRec /\ rec.kind = op[u].kind /\ rec.at = "mark" /\ rec.path = op[u].path
        /\ op' = [op EXCEPT ![u] = rec]
    BY <1>1 DEF PutSource, GoTo, OpRec
  <1>4. o \in ObjectRec /\ object' = [object EXCEPT ![u] = o]
    BY <1>1, OnePage DEF PutSource, ObjectRec
  <1>5. Storage /\ object'[u] = o /\ \A v \in Request : v # u => object'[v] = object[v]
    BY <1>1, <1>2, <1>4, StorageUpdate DEF Fresh
  <1>6. UNCHANGED <<chapter, typed, job, reader, cached, met>>
    BY DEF PutSource, StorageOnly
  <1>7. OpStep(u, rec)
    BY <1>2, <1>3, <1>5, <1>6 DEF OpStep, Edge, Running
  <1> HIDE DEF rec
  <1>8. WorkOK'
    BY <1>1, <1>3, <1>7, OpStepWork
  <1>9. ASSUME ~Mixed' PROVE ContentOK'
    <2>1. ~Mixed /\ ContentOK
      BY <1>1, <1>3, <1>7, <1>9, OpStepMixed DEF IInv
    <2>2. chapter.path # u
      BY <1>1, <1>2, Constants DEF WorkOK, PathOK
    <2>3. /\ rec.at \in {"manifest", "update"} => object'[u].pages = {u}
          /\ rec.at = "update" => object'[u].manifest = {u}
      BY <1>1, <1>2, <1>3, <1>5, <2>1 DEF ContentOK, StoredOK, ObjectRec
    <2>4. \A p \in Request : Tidy(p) => Tidy(p)'
      BY <1>1, <1>2, <1>5, <2>1, Constants DEF Tidy, ObjectRec, ContentOK, StoredOK
    <2>5. QED
      BY <1>1, <1>2, <1>3, <1>5, <1>7, <2>1, <2>2, <2>3, <2>4, UploadContent
  <1>10. QED
    BY <1>8, <1>9 DEF IInv

\* The prefix that is removed is not the active one.
LEMMA CleanUpIInv ==
  ASSUME IInv, NEW u \in Request, CleanUp(u)
  PROVE  IInv'
  <1> DEFINE rec == [op[u] EXCEPT !.at = "done", !.path = None, !.pages = {}]
  <1>1. WorkOK /\ TypesOK /\ StepsOK /\ op[u] \in OpRec
    BY Typed DEF IInv, WorkOK
  <1>2. op[u].kind = "images" /\ op[u].at = "cleanup"
    BY DEF CleanUp, Do
  <1>3. /\ rec \in OpRec /\ rec.kind = op[u].kind /\ rec.at = "done" /\ rec.path = None
        /\ op' = [op EXCEPT ![u] = rec]
    BY <1>1 DEF CleanUp, End, Become, OpRec
  <1>4. object' = [v \in Request |-> IF v = op[u].path THEN Empty ELSE object[v]]
    BY DEF CleanUp
  <1>5. Storage
    BY <1>1, <1>4, Typed, Constants DEF Storage, StepsOK, StepOK
  <1>6. UNCHANGED <<chapter, typed, job, reader, cached, met>>
    BY DEF CleanUp, StorageOnly
  <1>7. OpStep(u, rec)
    BY <1>2, <1>3, <1>5, <1>6 DEF OpStep, Edge, Running
  <1> HIDE DEF rec
  <1>8. WorkOK'
    BY <1>1, <1>3, <1>7, OpStepWork
  <1>9. ASSUME ~Mixed' PROVE ContentOK'
    <2>1. ~Mixed /\ ContentOK
      BY <1>1, <1>3, <1>7, <1>9, OpStepMixed DEF IInv
    <2>2. \A p \in Request : p = chapter.path /\ ~typed => object'[p] = object[p]
      BY <1>2, <1>4, <2>1, Constants DEF ContentOK, CleanOK
    <2>3. \A v \in Request : v # u /\ ~Settled(v) => object'[v] = object[v]
      BY <1>1, <1>2, <1>4, Constants DEF WorkOK, PathOK
    <2>4. \A p \in Request : Tidy(p) => Tidy(p)'
      BY <1>4 DEF Tidy, Empty
    <2>5. QED
      BY <1>1, <1>2, <1>3, <1>7, <2>1, <2>2, <2>3, <2>4, UploadContent
  <1>10. QED
    BY <1>8, <1>9 DEF IInv

\* The row names the file, and shows the content it had.
LEMMA MarkProcessingIInv ==
  ASSUME IInv, NEW u \in Request, MarkProcessing(u)
  PROVE  IInv'
  <1> DEFINE rec == [op[u] EXCEPT !.at = "enqueue"]
  <1>1. WorkOK /\ TypesOK /\ StepsOK /\ op[u] \in OpRec
    BY Typed DEF IInv, WorkOK
  <1>2. op[u].kind = "file" /\ op[u].at = "mark"
    BY DEF MarkProcessing, Do
  <1>3. rec \in OpRec /\ rec.kind = "file" /\ rec.at = "enqueue" /\ op' = [op EXCEPT ![u] = rec]
    BY <1>1, <1>2 DEF MarkProcessing, GoTo, OpRec
  <1> HIDE DEF rec
  <1>4. op'[u] = rec /\ \A v \in Request : v # u => op'[v] = op[v]
    BY <1>1, <1>3, OpUpdate
  <1>5. UNCHANGED <<typed, object, job, reader, cached, met>>
        /\ chapter'.path = chapter.path /\ chapter'.version = chapter.version /\ chapter'.pageCount = chapter.pageCount
    BY <1>1 DEF MarkProcessing, RowOnly, TypesOK, TypeOK
  <1>6. WorkOK'
    BY <1>1, MarkProcessingWork
  <1>7. ASSUME ~Mixed' PROVE ContentOK'
    <2>1. ~Mixed /\ ContentOK
      BY <1>1, <1>2, <1>3, <1>4, <1>5, <1>7, MixedStays DEF IInv
    <2>2. Quiet
      BY <1>1, <1>2, <2>1, OthersAreQuiet DEF Alive, Running, Visible
    <2>3. Quiet'
      BY <2>2, <1>3, <1>4 DEF Quiet, Running, Visible
    <2>4. Readable' /\ Current'
      BY <1>1, <1>5, <2>1, <2>2, QuietView, ViewKept
    <2>5. CleanOK' /\ StoredOK'
      BY <1>3, <1>4, <1>5, <2>1 DEF ContentOK, CleanOK, StoredOK
    <2>6. \A p \in Request : Tidy(p) => Tidy(p)'
      BY <1>5 DEF Tidy
    <2>7. TidyOK'
      BY <2>1, <2>2, <2>6, QuietTidy DEF ContentOK
    <2>8. QED
      BY <2>3, <2>4, <2>5, <2>7, QuietContent
  <1>8. QED
    BY <1>6, <1>7 DEF IInv

\* The job is queued; the content is as it was.
LEMMA EnqueueIInv ==
  ASSUME IInv, NEW u \in Request, Enqueue(u)
  PROVE  IInv'
  <1> DEFINE rec == [op[u] EXCEPT !.at = "done", !.path = None, !.pages = {}]
             new == [at |-> "waiting", attempts |-> MaxAttempts, stalls |-> 0]
  <1>1. WorkOK /\ TypesOK /\ StepsOK /\ op[u] \in OpRec
    BY Typed DEF IInv, WorkOK
  <1>2. op[u].kind = "file" /\ op[u].at = "enqueue"
    BY DEF Enqueue, Do
  <1>3. rec \in OpRec /\ rec.kind = "file" /\ rec.at = "done" /\ op' = [op EXCEPT ![u] = rec]
    BY <1>1, <1>2 DEF Enqueue, End, Become, OpRec
  <1>4. new \in JobRec /\ new.at = "waiting" /\ job' = [job EXCEPT ![u] = new]
    BY Constants DEF Enqueue, JobRec
  <1> HIDE DEF rec, new
  <1>5. op'[u] = rec /\ \A v \in Request : v # u => op'[v] = op[v]
    BY <1>1, <1>3, OpUpdate
  <1>6. job'[u] = new /\ \A v \in Request : v # u => job'[v] = job[v]
    BY <1>1, <1>4, JobUpdate
  <1>7. UNCHANGED <<chapter, typed, object, reader, cached, met>>
    BY DEF Enqueue
  <1>8. WorkOK'
    BY <1>1, EnqueueWork
  <1>9. ASSUME ~Mixed' PROVE ContentOK'
    <2>1. ~Mixed /\ ContentOK
      BY <1>1, <1>2, <1>3, <1>5, <1>7, <1>9, MixedStays DEF IInv
    <2>2. Quiet
      BY <1>1, <1>2, <2>1, OthersAreQuiet DEF Alive, Running, Visible
    <2>3. Quiet'
      BY <2>2, <1>3, <1>5 DEF Quiet, Running, Visible
    <2>4. Readable' /\ Current'
      BY <1>1, <1>7, <2>1, <2>2, QuietView, ViewKept
    <2>5. CleanOK'
      BY <1>3, <1>5, <1>7, <2>1 DEF ContentOK, CleanOK
    <2>6. StoredOK'
      BY <1>3, <1>4, <1>5, <1>6, <1>7, <2>1 DEF ContentOK, StoredOK
    <2>7. \A p \in Request : Tidy(p) => Tidy(p)'
      BY <1>7 DEF Tidy
    <2>8. TidyOK'
      BY <2>1, <2>2, <2>7, QuietTidy DEF ContentOK
    <2>9. QED
      BY <2>3, <2>4, <2>5, <2>6, <2>8, QuietContent
  <1>10. QED
    BY <1>8, <1>9 DEF IInv

-----------------------------------------------------------------------------
(***************************************************************************)
(* The chapter is updated, and its manifest's cache entry removed.         *)
(***************************************************************************)
\* Nothing is cached for the version to come, nor does a reader have it.
LEMMA NextVersionIsNew ==
  ASSUME WorkOK, chapter'.version = chapter.version + 1, UNCHANGED <<reader, cached>>
  PROVE  /\ cached'[chapter'.version] # None => chapter'.version \notin Version
         /\ \A r \in Reader : reader'[r].at # "idle" => reader'[r].version # chapter'.version
  <1>1. ReaderOK /\ chapter.version \in Nat /\ Version \subseteq Nat
        /\ \A r \in Reader : reader[r].version \in Version
    BY Typed, Constants DEF WorkOK, ReaderRec, Version
  <1>2. \A r \in Reader : reader[r].at # "idle" => reader[r].version <= chapter.version /\ reader[r].version \in Nat
    BY <1>1 DEF ReaderOK
  <1>3. cached[chapter.version + 1] # None /\ chapter.version + 1 \in Version => chapter.version + 1 <= chapter.version
    BY <1>1 DEF ReaderOK
  <1>4. ~(chapter.version + 1 <= chapter.version)
    BY <1>1
  <1>5. QED
    BY <1>1, <1>2, <1>3, <1>4

\* So what is cached for the new version is current: there is nothing.
LEMMA NewVersionIsCurrent ==
  ASSUME WorkOK, WorkOK', chapter'.version = chapter.version + 1, UNCHANGED <<reader, cached>>
  PROVE  Current'
  <1>1. chapter'.version \in Version
    BY DEF WorkOK, TypesOK, TypeOK, Version
  <1>2. QED
    BY <1>1, NextVersionIsNew DEF Current

\* The row names the content the request has prepared, under the next version.
LEMMA UpdateChapterIInv ==
  ASSUME IInv, NEW u \in Request, UpdateChapter(u)
  PROVE  IInv'
  <1> DEFINE path == IF op[u].kind = "images" THEN u ELSE op[u].path
             pages == IF op[u].kind = "images" THEN {u} ELSE op[u].pages
             rec == [op[u] EXCEPT !.at = "clear"]
  <1>1. WorkOK /\ TypesOK /\ StepsOK /\ op[u] \in OpRec /\ StepOK(u)
    BY Typed DEF IInv, WorkOK, StepsOK
  <1>2. op[u].kind \in InPlace /\ op[u].at = "update"
    BY DEF UpdateChapter, At
  <1>3. rec \in OpRec /\ rec.kind = op[u].kind /\ rec.path = op[u].path /\ rec.at = "clear"
        /\ op' = [op EXCEPT ![u] = rec]
    BY <1>1 DEF UpdateChapter, GoTo, OpRec
  <1>4. op'[u] = rec /\ \A v \in Request : v # u => op'[v] = op[v]
    BY <1>1, <1>3, OpUpdate
  <1>5. UNCHANGED <<object, job, reader, cached, met>> /\ typed' = FALSE
    BY DEF UpdateChapter, RowOnly
  <1>6. chapter'.path = path /\ chapter'.version = chapter.version + 1 /\ chapter'.pageCount = Cardinality(pages)
    BY DEF UpdateChapter
  <1> HIDE DEF rec
  <1>7. WorkOK'
    BY <1>1, UpdateChapterWork
  <1>8. Current'
    BY <1>1, <1>5, <1>6, <1>7, NewVersionIsCurrent
  <1>9. ASSUME ~Mixed' PROVE ContentOK'
    <2>1. ~Mixed /\ ContentOK
      BY <1>1, <1>2, <1>3, <1>4, <1>5, <1>9, MixedStays DEF IInv
    <2>2. Running(u) /\ TidyOK'
      <3>1. \A v \in Request : Removing(v) => Removing(v)' /\ op'[v].path = op[v].path
        BY <1>2, <1>3, <1>4 DEF Removing
      <3>2. \A p \in Request : Tidy(p) => Tidy(p)'
        BY <1>5 DEF Tidy
      <3>3. QED
        BY <3>1, <3>2, <1>2, <2>1, TidyKept DEF Running, ContentOK
    <2>3. CASE op[u].kind = "images"
      <3>1. Quiet
        BY <1>1, <2>1, <2>2, <2>3, OthersAreQuiet DEF Alive, Visible
      <3>2. Quiet'
        BY <3>1, <2>3, <1>3, <1>4 DEF Quiet, Running, Visible
      <3>3. object[u].pages = {u} /\ object[u].manifest = {u} /\ {u} # None
        BY <1>2, <2>1, <2>3, OnePage, Constants DEF ContentOK, StoredOK
      <3>4. Readable'
        BY <3>3, <2>3, <1>5, <1>6 DEF Readable
      <3>5. CleanOK'
        <4>1. ASSUME NEW v \in Request, op[v].path # None, op[v].kind = "images" PROVE op[v].path # u
          BY <4>1, <1>1, <1>2, <2>3 DEF WorkOK, PathOK, Settled
        <4>2. QED
          BY <4>1, <1>3, <1>4, <1>6, <2>3 DEF CleanOK
      <3>6. StoredOK'
        BY <1>3, <1>4, <1>5, <2>1 DEF ContentOK, StoredOK
      <3>7. QED
        BY <2>2, <3>2, <3>4, <3>5, <3>6, <1>8, QuietContent
    <2>4. CASE op[u].kind # "images"
      <3>1. op[u].kind \in Visible
        BY <2>4, <1>2 DEF Visible, InPlace
      <3>2. \A v \in Request : v # u => ~Alive(v)
        BY <3>1, <2>1, <2>2, <1>1, VisibleIsAlone
      <3>3. ChangeOK(u)
        BY <2>1 DEF ContentOK, ChangesOK
      <3>4. Readable'
        <4>1. CASE op[u].path = None
          BY <4>1, <2>4, <1>6 DEF Readable
        <4>2. CASE op[u].path # None
          <5>1. object[op[u].path].manifest = op[u].pages /\ op[u].pages \subseteq object[op[u].path].pages
            BY <4>2, <3>1, <3>3, <1>2 DEF ChangeOK
          <5>2. op[u].pages # None
            BY <1>1, Constants DEF OpRec, Manifest
          <5>3. chapter'.path = op[u].path /\ chapter'.pageCount = Cardinality(op[u].pages) /\ object' = object
            BY <2>4, <1>5, <1>6
          <5>4. QED
            BY <5>1, <5>2, <5>3 DEF Readable
        <4>3. QED
          BY <4>1, <4>2
      <3>5. ViewOK'
        BY <3>4, <1>8 DEF ViewOK
      <3>6. ChangeOK(u)'
        BY <1>3, <1>4 DEF ChangeOK
      <3>7. job[u].at = "none"
        BY <1>1, <3>1 DEF StepOK, Visible
      <3>8. QED
        BY <2>2, <3>1, <3>2, <3>5, <3>6, <3>7, <1>1, <1>3, <1>4, <1>5, LoneContent
    <2>5. QED
      BY <2>3, <2>4
  <1>10. QED
    BY <1>7, <1>9 DEF IInv

\* What is not cached is not stale.
LEMMA ClearCacheIInv ==
  ASSUME IInv, NEW u \in Request, ClearCache(u)
  PROVE  IInv'
  <1>1. WorkOK /\ TypesOK /\ StepsOK /\ op[u] \in OpRec /\ StepOK(u)
    BY Typed DEF IInv, WorkOK, StepsOK
  <1>2. op[u].kind \in InPlace /\ op[u].at = "clear" /\ Running(u)
    BY DEF ClearCache, At, Running
  <1>3. PICK rec \in OpRec : op' = [op EXCEPT ![u] = rec] /\ rec.kind = op[u].kind
                             /\ \/ rec.at = "cleanup" /\ rec.path = op[u].path /\ op[u].kind = "images"
                                \/ rec.at = "done" /\ rec.path = None
    <2>1. CASE op[u].kind = "images" /\ op[u].path # None
      <3>1. op' = [op EXCEPT ![u] = [op[u] EXCEPT !.at = "cleanup"]]
        BY <2>1 DEF ClearCache, GoTo
      <3>2. [op[u] EXCEPT !.at = "cleanup"] \in OpRec
        BY <1>1 DEF OpRec
      <3>3. QED
        BY <3>1, <3>2, <2>1, <1>1 DEF OpRec
    <2>2. CASE ~(op[u].kind = "images" /\ op[u].path # None)
      <3>1. op' = [op EXCEPT ![u] = [op[u] EXCEPT !.at = "done", !.path = None, !.pages = {}]]
        BY <2>2 DEF ClearCache, End, Become
      <3>2. [op[u] EXCEPT !.at = "done", !.path = None, !.pages = {}] \in OpRec
        BY <1>1 DEF OpRec
      <3>3. QED
        BY <3>1, <3>2, <1>1 DEF OpRec
    <2>3. QED
      BY <2>1, <2>2
  <1>4. op'[u] = rec /\ \A v \in Request : v # u => op'[v] = op[v]
    BY <1>1, <1>3, OpUpdate
  <1>5. UNCHANGED <<chapter, typed, object, job, reader, met>>
    BY DEF ClearCache
  <1>6. \A v \in Version : cached'[v] # None => cached'[v] = cached[v]
    <2>1. cached' = [cached EXCEPT ![chapter.version] = None] /\ chapter.version \in Version
      BY <1>1, Typed DEF ClearCache, ClearCurrent
    <2>2. QED
      BY <2>1, <1>1 DEF TypesOK, TypeOK
  <1>7. WorkOK'
    BY <1>1, ClearCacheWork
  <1>8. ASSUME ~Mixed' PROVE ContentOK'
    <2>1. ~Mixed /\ ContentOK
      BY <1>1, <1>2, <1>3, <1>4, <1>5, <1>8, MixedStays DEF IInv, Running
    <2>2. TidyOK'
      <3>1. \A v \in Request : Removing(v) => Removing(v)' /\ op'[v].path = op[v].path
        BY <1>2, <1>3, <1>4 DEF Removing
      <3>2. \A p \in Request : Tidy(p) => Tidy(p)'
        BY <1>5 DEF Tidy
      <3>3. QED
        BY <3>1, <3>2, <2>1, TidyKept DEF ContentOK
    <2>3. CASE op[u].kind = "images"
      <3>1. Quiet
        BY <1>1, <1>2, <2>1, <2>3, OthersAreQuiet DEF Alive, Visible
      <3>2. Quiet'
        BY <3>1, <2>3, <1>3, <1>4 DEF Quiet, Running, Visible
      <3>3. Readable' /\ Current'
        BY <3>1, <2>1, <1>1, <1>5, <1>6, QuietView, ViewKept
      <3>4. CleanOK'
        BY <2>1, <2>3, <1>2, <1>3, <1>4, <1>5 DEF ContentOK, CleanOK
      <3>5. StoredOK'
        BY <1>3, <1>4, <1>5, <2>1 DEF ContentOK, StoredOK
      <3>6. QED
        BY <2>2, <3>2, <3>3, <3>4, <3>5, QuietContent
    <2>4. CASE op[u].kind # "images"
      <3>1. op[u].kind \in Visible /\ rec.at = "done"
        BY <2>4, <1>2, <1>3 DEF Visible, InPlace
      <3>2. \A v \in Request : v # u => ~Alive(v)
        BY <3>1, <2>1, <1>1, <1>2, VisibleIsAlone
      <3>3. \A v \in Request : ~Changing(v)
        BY <3>2, <1>2 DEF Changing, Alive, Running
      <3>4. Readable /\ Current
        BY <3>3, <2>1 DEF ContentOK, ViewOK
      <3>5. ViewOK'
        BY <3>4, <1>1, <1>5, <1>6, ViewKept DEF ViewOK
      <3>6. ChangeOK(u)'
        BY <3>1, <1>4 DEF ChangeOK
      <3>7. job[u].at = "none"
        BY <1>1, <3>1 DEF StepOK, Visible
      <3>8. QED
        BY <2>2, <3>1, <3>2, <3>5, <3>6, <3>7, <1>1, <1>3, <1>4, <1>5, LoneContent
    <2>5. QED
      BY <2>3, <2>4
  <1>9. QED
    BY <1>7, <1>8 DEF IInv

\* A request that stops has not mixed things up only if readers do not see its changes.
LEMMA StopRequestIInv ==
  ASSUME IInv, NEW u \in Request, StopRequest(u)
  PROVE  IInv'
  <1> DEFINE rec == [op[u] EXCEPT !.at = "stopped", !.path = None, !.pages = {}]
  <1>1. WorkOK /\ TypesOK /\ StepsOK /\ op[u] \in OpRec /\ StepOK(u)
    BY Typed DEF IInv, WorkOK, StepsOK
  <1>2. Running(u)
    BY DEF StopRequest
  <1>3. /\ rec \in OpRec /\ rec.kind = op[u].kind /\ rec.at = "stopped" /\ rec.path = None
        /\ op' = [op EXCEPT ![u] = rec]
    BY <1>1 DEF StopRequest, End, Become, OpRec
  <1> HIDE DEF rec
  <1>4. UNCHANGED <<chapter, typed, object, job, reader, cached, met>>
    BY DEF StopRequest
  <1>5. Storage
    BY <1>1, <1>4, Typed DEF Storage, StepsOK, StepOK, TypesOK, TypeOK, ObjectRec
  <1>6. OpStep(u, rec)
    BY <1>2, <1>3, <1>4, <1>5 DEF OpStep, Edge
  <1>7. WorkOK'
    BY <1>1, <1>3, <1>6, OpStepWork
  <1>8. ASSUME ~Mixed' PROVE ContentOK'
    <2>1. ~Mixed /\ ContentOK
      BY <1>1, <1>3, <1>6, <1>8, OpStepMixed DEF IInv
    <2>2. op'[u] = rec
      BY <1>1, <1>3, OpUpdate
    <2>3. op[u].kind \notin Visible
      BY <1>3, <1>8, <2>2 DEF Mixed, At
    <2>4. op[u].kind \in {"images", "file"}
      BY <2>3, <1>1, <1>2 DEF StepOK, Visible
    <2>5. \A p \in Request : Tidy(p) => Tidy(p)'
      BY <1>4 DEF Tidy
    <2>6. QED
      BY <2>1, <2>4, <2>5, <1>1, <1>3, <1>4, <1>6, UploadContent
  <1>9. QED
    BY <1>7, <1>8 DEF IInv

-----------------------------------------------------------------------------
(***************************************************************************)
(* The actions of appends and deletions                                    *)
(***************************************************************************)
LEMMA LoneStep ==
  ASSUME IInv, NEW u \in Request, NEW rec \in OpRec, OpStep(u, rec), op[u].kind \in Visible,
         ContentOK /\ (\A v \in Request : v # u => ~Alive(v)) => ChangeOK(u)' /\ ViewOK' /\ TidyOK'
  PROVE  IInv'
  <1>1. WorkOK /\ TypesOK /\ StepOK(u)
    BY DEF IInv, WorkOK, StepsOK
  <1>2. WorkOK'
    BY <1>1, OpStepWork
  <1>3. ASSUME ~Mixed' PROVE ContentOK'
    <2>1. ~Mixed /\ ContentOK
      BY <1>1, <1>3, OpStepMixed DEF IInv
    <2>2. Running(u) /\ rec.kind = op[u].kind /\ job' = job
      BY DEF OpStep
    <2>3. \A v \in Request : v # u => ~Alive(v)
      BY <1>1, <2>1, <2>2, VisibleIsAlone
    <2>4. op'[u] = rec /\ \A v \in Request : v # u => op'[v] = op[v]
      BY <1>1, OpUpdate DEF OpStep
    <2>5. job[u].at = "none"
      BY <1>1 DEF StepOK, Visible
    <2>6. QED
      BY <1>1, <2>1, <2>2, <2>3, <2>4, <2>5, LoneContent
  <1>4. QED
    BY <1>2, <1>3 DEF IInv

\* Before it changes anything, the content is readable.
LEMMA LoneView ==
  ASSUME ContentOK, NEW u \in Request, ~Changing(u), \A v \in Request : v # u => ~Alive(v)
  PROVE  Readable /\ Current
  BY DEF ContentOK, ViewOK, Changing, Alive, Running

\* Other prefixes than the one it works on are tidy, and this one too before it changes it.
LEMMA LoneTidy ==
  ASSUME ContentOK, NEW u \in Request, \A v \in Request : v # u => ~Alive(v)
  PROVE  \A p \in Request : p # op[u].path \/ ~Removing(u) => Tidy(p)
  BY DEF ContentOK, TidyOK, Removing, Alive, Running

\* The prefix a request works on is in use.
LEMMA PathInUse ==
  ASSUME WorkOK, NEW u \in Request, Running(u), op[u].path # None
  PROVE  op[u].path \in Request /\ ~Fresh(op[u].path) /\ object[op[u].path] \in ObjectRec
  <1>1. op[u].path \in Request
    BY Typed DEF WorkOK, OpRec
  <1>2. Settled(op[u].path) \/ op[u].path = u
    BY DEF WorkOK, PathOK
  <1>3. ~Fresh(op[u].path)
    BY <1>2 DEF Settled, Fresh, Running
  <1>4. QED
    BY <1>1, <1>3, Typed DEF WorkOK

\* What readers see while the request is changing it.
LEMMA WhileChanging ==
  ASSUME NEW u \in Request, op'[u].kind \in Visible,
         op'[u].at \in {"put", "manifest", "prefix", "wipe", "update"}
  PROVE  ViewOK'
  BY DEF ViewOK, Changing

\* An append reads the manifest of the prefix it goes on with.
LEMMA ReadForAppendIInv ==
  ASSUME IInv, NEW u \in Request, ReadForAppend(u)
  PROVE  IInv'
  <1> DEFINE m == object[op[u].path].manifest
  <1>1. WorkOK /\ TypesOK /\ StepsOK /\ op[u] \in OpRec
    BY Typed DEF IInv, WorkOK
  <1>2. op[u].kind = "append" /\ op[u].at = "read" /\ Running(u) /\ op[u].path # None
    BY <1>1 DEF ReadForAppend, Do, Running, StepsOK, StepOK
  <1>3. op[u].path \in Request /\ object[op[u].path] \in ObjectRec
    BY <1>1, <1>2, PathInUse
  <1>4. PICK found \in {m, None} :
          op' = [op EXCEPT ![u] = [op[u] EXCEPT !.at = "put", !.pages = IF found = None THEN {} ELSE found]]
    BY DEF ReadForAppend, Become
  <1> DEFINE pages == IF found = None THEN {} ELSE found
             rec == [op[u] EXCEPT !.at = "put", !.pages = pages]
  <1>5. /\ pages \in SUBSET Request /\ op' = [op EXCEPT ![u] = rec]
        /\ UNCHANGED <<chapter, typed, object, job, reader, cached, met>>
    BY <1>3, <1>4 DEF ReadForAppend, OpOnly, ObjectRec, Manifest
  <1> HIDE DEF pages
  <1>6. rec \in OpRec /\ rec.kind = "append" /\ rec.at = "put" /\ rec.path = op[u].path /\ rec.pages = pages
    BY <1>1, <1>2, <1>5 DEF OpRec
  <1> HIDE DEF rec
  <1>7. Storage
    BY <1>1, <1>5, Typed DEF Storage, StepsOK, StepOK, TypesOK, TypeOK, ObjectRec
  <1>8. OpStep(u, rec)
    BY <1>2, <1>5, <1>6, <1>7 DEF OpStep, Edge
  <1>9. op'[u] = rec
    BY <1>1, <1>5, <1>6, OpUpdate
  <1>10. ViewOK'
    BY <1>6, <1>9, WhileChanging DEF Visible
  <1>11. ASSUME ContentOK, \A v \in Request : v # u => ~Alive(v) PROVE ChangeOK(u)' /\ TidyOK'
    <2>1. Tidy(op[u].path)
      BY <1>2, <1>3, <1>11, LoneTidy DEF Removing
    <2>2. pages \subseteq object[op[u].path].pages
      BY <1>4, <2>1 DEF Tidy, pages
    <2>3. ChangeOK(u)'
      BY <1>2, <1>5, <1>6, <1>9, <2>2 DEF ChangeOK
    <2>4. TidyOK'
      BY <1>2, <1>5, <1>11, LoneTidy DEF Removing, Tidy, TidyOK
    <2>5. QED
      BY <2>3, <2>4
  <1>12. QED
    BY <1>2, <1>6, <1>8, <1>10, <1>11, LoneStep DEF Visible

\* It stores its page there.
LEMMA PutAppendedIInv ==
  ASSUME IInv, NEW u \in Request, PutAppended(u)
  PROVE  IInv'
  <1> DEFINE o == [object[op[u].path] EXCEPT !.pages = object[op[u].path].pages \cup {u}]
             rec == [op[u] EXCEPT !.at = "manifest", !.pages = op[u].pages \cup {u}]
  <1>1. WorkOK /\ TypesOK /\ StepsOK /\ op[u] \in OpRec
    BY Typed DEF IInv, WorkOK
  <1>2. op[u].kind = "append" /\ op[u].at = "put" /\ Running(u) /\ op[u].path # None
    BY <1>1 DEF PutAppended, Do, Running, StepsOK, StepOK
  <1>3. op[u].path \in Request /\ ~Fresh(op[u].path) /\ object[op[u].path] \in ObjectRec
    BY <1>1, <1>2, PathInUse
  <1>4. o \in ObjectRec /\ o.pages = object[op[u].path].pages \cup {u} /\ o.manifest = object[op[u].path].manifest
    BY <1>3 DEF ObjectRec
  <1>5. /\ op' = [op EXCEPT ![u] = rec] /\ object' = [object EXCEPT ![op[u].path] = o]
        /\ UNCHANGED <<chapter, typed, job, reader, cached, met>>
    BY DEF PutAppended, Become, StorageOnly
  <1>6. rec \in OpRec /\ rec.kind = "append" /\ rec.at = "manifest" /\ rec.path = op[u].path
        /\ rec.pages = op[u].pages \cup {u}
    BY <1>1, <1>2 DEF OpRec
  <1> HIDE DEF rec, o
  <1>7. /\ Storage /\ object'[op[u].path] = o
        /\ \A p \in Request : p # op[u].path => object'[p] = object[p]
    BY <1>1, <1>3, <1>4, <1>5, StorageUpdate
  <1>8. OpStep(u, rec)
    BY <1>2, <1>5, <1>6, <1>7 DEF OpStep, Edge
  <1>9. op'[u] = rec
    BY <1>1, <1>5, <1>6, OpUpdate
  <1>10. ViewOK'
    BY <1>6, <1>9, WhileChanging DEF Visible
  <1>11. ASSUME ContentOK, \A v \in Request : v # u => ~Alive(v) PROVE ChangeOK(u)' /\ TidyOK'
    <2>1. op[u].pages \subseteq object[op[u].path].pages
      BY <1>2, <1>11 DEF ContentOK, ChangesOK, ChangeOK, Visible
    <2>2. ChangeOK(u)'
      BY <2>1, <1>2, <1>4, <1>6, <1>7, <1>9 DEF ChangeOK
    <2>3. \A p \in Request : Tidy(p)
      BY <1>2, <1>11, LoneTidy DEF Removing
    <2>4. \A p \in Request : Tidy(p)'
      BY <2>3, <1>3, <1>4, <1>5, <1>7, <1>10 DEF Tidy
    <2>5. QED
      BY <2>2, <2>4 DEF TidyOK
  <1>12. QED
    BY <1>2, <1>6, <1>8, <1>10, <1>11, LoneStep DEF Visible

\* It, or a deletion, stores the manifest it has put together: its pages are all there.
LEMMA PutManifestIInv ==
  ASSUME IInv, NEW u \in Request, PutManifest(u)
  PROVE  IInv'
  <1> DEFINE o == [object[op[u].path] EXCEPT !.manifest = op[u].pages]
             rec == [op[u] EXCEPT !.at = "update"]
  <1>1. WorkOK /\ TypesOK /\ StepsOK /\ op[u] \in OpRec
    BY Typed DEF IInv, WorkOK
  <1>2. op[u].kind \in {"append", "deletePages"} /\ op[u].at = "manifest" /\ Running(u) /\ op[u].path # None
    BY <1>1 DEF PutManifest, At, Running, StepsOK, StepOK
  <1>3. op[u].path \in Request /\ ~Fresh(op[u].path) /\ object[op[u].path] \in ObjectRec
    BY <1>1, <1>2, PathInUse
  <1>4. o \in ObjectRec /\ o.manifest = op[u].pages /\ o.pages = object[op[u].path].pages
    BY <1>1, <1>3 DEF ObjectRec, OpRec, Manifest
  <1>5. /\ op' = [op EXCEPT ![u] = rec] /\ object' = [object EXCEPT ![op[u].path] = o]
        /\ UNCHANGED <<chapter, typed, job, reader, cached, met>>
    BY DEF PutManifest, GoTo, StorageOnly
  <1>6. rec \in OpRec /\ rec.kind = op[u].kind /\ rec.at = "update" /\ rec.path = op[u].path
        /\ rec.pages = op[u].pages
    BY <1>1, <1>2 DEF OpRec
  <1> HIDE DEF rec, o
  <1>7. /\ Storage /\ object'[op[u].path] = o
        /\ \A p \in Request : p # op[u].path => object'[p] = object[p]
    BY <1>1, <1>3, <1>4, <1>5, StorageUpdate
  <1>8. OpStep(u, rec)
    BY <1>2, <1>5, <1>6, <1>7 DEF OpStep, Edge
  <1>9. op'[u] = rec
    BY <1>1, <1>5, <1>6, OpUpdate
  <1>10. ViewOK'
    BY <1>2, <1>6, <1>9, WhileChanging DEF Visible
  <1>11. ASSUME ContentOK, \A v \in Request : v # u => ~Alive(v) PROVE ChangeOK(u)' /\ TidyOK'
    <2>1. op[u].pages \subseteq object[op[u].path].pages
      BY <1>2, <1>11 DEF ContentOK, ChangesOK, ChangeOK, Visible
    <2>2. ChangeOK(u)'
      BY <2>1, <1>2, <1>4, <1>6, <1>7, <1>9 DEF ChangeOK
    <2>3. \A p \in Request : p # op[u].path => Tidy(p)
      BY <1>3, <1>11, LoneTidy
    <2>4. \A p \in Request : Tidy(p)'
      BY <2>1, <2>3, <1>4, <1>7 DEF Tidy
    <2>5. QED
      BY <2>2, <2>4 DEF TidyOK
  <1>12. QED
    BY <1>2, <1>6, <1>8, <1>10, <1>11, LoneStep DEF Visible

\* A deletion reads the manifest and removes the pages, some or all.
LEMMA ReadForDeleteIInv ==
  ASSUME IInv, NEW u \in Request, ReadForDelete(u)
  PROVE  IInv'
  <1> DEFINE m == object[op[u].path].manifest
  <1>1. WorkOK /\ TypesOK /\ StepsOK /\ op[u] \in OpRec
    BY Typed DEF IInv, WorkOK
  <1>2. op[u].kind = "deletePages" /\ op[u].at = "read" /\ Running(u) /\ op[u].path # None
    <2>1. Do(u, "deletePages", "read")
      BY DEF ReadForDelete
    <2>2. QED
      BY <2>1, <1>1 DEF Do, Running, StepsOK, StepOK
  <1>3. op[u].path \in Request /\ ~Fresh(op[u].path) /\ object[op[u].path] \in ObjectRec
    BY <1>1, <1>2, PathInUse
  <1>4. ASSUME ContentOK, \A v \in Request : v # u => ~Alive(v)
        PROVE  Readable /\ Current /\ \A p \in Request : Tidy(p)
    BY <1>2, <1>4, LoneView, LoneTidy DEF Changing, Removing
  <1>5. CASE End(u, "done") /\ OpOnly
    <2> DEFINE rec == [op[u] EXCEPT !.at = "done", !.path = None, !.pages = {}]
    <2>1. op' = [op EXCEPT ![u] = rec] /\ UNCHANGED <<chapter, typed, object, job, reader, cached, met>>
      BY <1>5 DEF End, Become, OpOnly
    <2>2. rec \in OpRec /\ rec.kind = "deletePages" /\ rec.at = "done" /\ rec.path = None
      BY <1>1, <1>2 DEF OpRec
    <2> HIDE DEF rec
    <2>3. Storage
      BY <1>1, <2>1, Typed DEF Storage, StepsOK, StepOK, TypesOK, TypeOK, ObjectRec
    <2>4. OpStep(u, rec)
      BY <1>2, <2>1, <2>2, <2>3 DEF OpStep, Edge
    <2>5. op'[u] = rec
      BY <1>1, <2>1, <2>2, OpUpdate
    <2>6. ASSUME ContentOK, \A v \in Request : v # u => ~Alive(v) PROVE ChangeOK(u)' /\ ViewOK' /\ TidyOK'
      <3>1. ChangeOK(u)'
        BY <2>2, <2>5 DEF ChangeOK
      <3>2. Readable' /\ Current'
        BY <1>1, <1>4, <2>1, <2>6, ViewKept
      <3>3. \A p \in Request : Tidy(p)'
        BY <1>4, <2>1, <2>6 DEF Tidy
      <3>4. QED
        BY <3>1, <3>2, <3>3 DEF ViewOK, TidyOK
    <2>7. QED
      BY <1>2, <2>2, <2>4, <2>6, LoneStep DEF Visible
  <1>6. CASE m # None /\ \E removed \in (SUBSET m) \ {{}} : RemovePages(u, m, removed)
    <2>1. PICK removed \in (SUBSET m) \ {{}} : RemovePages(u, m, removed)
      BY <1>6
    <2> DEFINE o == [object[op[u].path] EXCEPT !.pages = object[op[u].path].pages \ removed]
               at == IF removed = m THEN "prefix" ELSE "manifest"
               rec == [op[u] EXCEPT !.at = at, !.pages = m \ removed]
    <2>2. m \in SUBSET Request
      BY <1>3, <1>6 DEF ObjectRec, Manifest
    <2>3. o \in ObjectRec /\ o.pages = object[op[u].path].pages \ removed
      BY <1>3 DEF ObjectRec
    <2>4. /\ object' = [object EXCEPT ![op[u].path] = o] /\ op' = [op EXCEPT ![u] = rec]
          /\ UNCHANGED <<chapter, typed, job, reader, cached, met>>
      BY <2>1 DEF RemovePages, Become, StorageOnly
    <2>5. rec \in OpRec /\ rec.kind = "deletePages" /\ rec.at = at /\ rec.path = op[u].path
          /\ rec.pages = m \ removed /\ at \in {"prefix", "manifest"} /\ (at = "prefix" => m \ removed = {})
      BY <1>1, <1>2, <2>2 DEF OpRec
    <2> HIDE DEF rec, o, at, m
    <2>6. /\ Storage /\ object'[op[u].path] = o
          /\ \A p \in Request : p # op[u].path => object'[p] = object[p]
      BY <1>1, <1>3, <2>3, <2>4, StorageUpdate
    <2>7. OpStep(u, rec)
      BY <1>2, <2>4, <2>5, <2>6 DEF OpStep, Edge
    <2>8. op'[u] = rec
      BY <1>1, <2>4, <2>5, OpUpdate
    <2>9. ViewOK'
      BY <2>5, <2>8, WhileChanging DEF Visible
    <2>10. ASSUME ContentOK, \A v \in Request : v # u => ~Alive(v) PROVE ChangeOK(u)' /\ TidyOK'
      <3>1. m \subseteq object[op[u].path].pages
        BY <1>3, <1>4, <1>6, <2>10 DEF Tidy, m
      <3>2. ChangeOK(u)'
        BY <3>1, <1>2, <2>3, <2>5, <2>6, <2>8 DEF ChangeOK
      <3>3. \A p \in Request : p # op[u].path => Tidy(p)'
        BY <1>4, <2>6, <2>10 DEF Tidy
      <3>4. Removing(u)' /\ op'[u].path = op[u].path
        BY <2>5, <2>8 DEF Removing
      <3>5. QED
        BY <3>2, <3>3, <3>4 DEF TidyOK
    <2>11. QED
      BY <1>2, <2>5, <2>7, <2>9, <2>10, LoneStep DEF Visible
  <1>7. QED
    BY <1>5, <1>6 DEF ReadForDelete

\* It removed the last page and removes the prefix.
LEMMA DeletePrefixIInv ==
  ASSUME IInv, NEW u \in Request, DeletePrefix(u)
  PROVE  IInv'
  <1> DEFINE rec == [op[u] EXCEPT !.at = "update", !.path = None]
  <1>1. WorkOK /\ TypesOK /\ StepsOK /\ op[u] \in OpRec
    BY Typed DEF IInv, WorkOK
  <1>2. op[u].kind = "deletePages" /\ op[u].at = "prefix" /\ Running(u) /\ op[u].path # None
    BY <1>1 DEF DeletePrefix, Do, Running, StepsOK, StepOK
  <1>3. op[u].path \in Request /\ ~Fresh(op[u].path)
    BY <1>1, <1>2, PathInUse
  <1>4. /\ op' = [op EXCEPT ![u] = rec] /\ object' = [object EXCEPT ![op[u].path] = Empty]
        /\ UNCHANGED <<chapter, typed, job, reader, cached, met>>
    BY DEF DeletePrefix, Become, StorageOnly
  <1>5. rec \in OpRec /\ rec.kind = "deletePages" /\ rec.at = "update" /\ rec.path = None /\ rec.pages = op[u].pages
    BY <1>1, <1>2 DEF OpRec
  <1> HIDE DEF rec
  <1>6. /\ Storage /\ object'[op[u].path] = Empty
        /\ \A p \in Request : p # op[u].path => object'[p] = object[p]
    BY <1>1, <1>3, <1>4, StorageUpdate, Constants
  <1>7. OpStep(u, rec)
    BY <1>2, <1>4, <1>5, <1>6 DEF OpStep, Edge
  <1>8. op'[u] = rec
    BY <1>1, <1>4, <1>5, OpUpdate
  <1>9. ViewOK'
    BY <1>5, <1>8, WhileChanging DEF Visible
  <1>10. ASSUME ContentOK, \A v \in Request : v # u => ~Alive(v) PROVE ChangeOK(u)' /\ TidyOK'
    <2>1. op[u].pages = {}
      BY <1>2, <1>10 DEF ContentOK, ChangesOK, ChangeOK, Visible
    <2>2. ChangeOK(u)'
      BY <2>1, <1>5, <1>8 DEF ChangeOK
    <2>3. \A p \in Request : p # op[u].path => Tidy(p)
      BY <1>3, <1>10, LoneTidy
    <2>4. \A p \in Request : Tidy(p)'
      BY <2>3, <1>6 DEF Tidy, Empty
    <2>5. QED
      BY <2>2, <2>4 DEF TidyOK
  <1>11. QED
    BY <1>2, <1>5, <1>7, <1>9, <1>10, LoneStep DEF Visible

\* The deletion of the content removes every prefix.
LEMMA WipeIInv ==
  ASSUME IInv, NEW u \in Request, Wipe(u)
  PROVE  IInv'
  <1> DEFINE rec == [op[u] EXCEPT !.at = "update"]
  <1>1. WorkOK /\ TypesOK /\ StepsOK /\ op[u] \in OpRec
    BY Typed DEF IInv, WorkOK
  <1>2. op[u].kind = "delete" /\ op[u].at = "wipe" /\ Running(u)
    BY DEF Wipe, Do, Running
  <1>3. /\ op' = [op EXCEPT ![u] = rec] /\ object' = [v \in Request |-> Empty]
        /\ UNCHANGED <<chapter, typed, job, reader, cached, met>>
    BY DEF Wipe, GoTo, StorageOnly
  <1>4. rec \in OpRec /\ rec.kind = "delete" /\ rec.at = "update" /\ rec.path = op[u].path /\ rec.pages = op[u].pages
    BY <1>1, <1>2 DEF OpRec
  <1> HIDE DEF rec
  <1>5. Storage
    BY <1>3, Constants DEF Storage
  <1>6. OpStep(u, rec)
    BY <1>2, <1>3, <1>4, <1>5 DEF OpStep, Edge
  <1>7. op'[u] = rec
    BY <1>1, <1>3, <1>4, OpUpdate
  <1>8. ViewOK'
    BY <1>4, <1>7, WhileChanging DEF Visible
  <1>9. ASSUME ContentOK PROVE ChangeOK(u)' /\ TidyOK'
    <2>1. op[u].pages = {} /\ op[u].path = None
      BY <1>2, <1>9 DEF ContentOK, ChangesOK, ChangeOK, Visible
    <2>2. ChangeOK(u)'
      BY <2>1, <1>4, <1>7 DEF ChangeOK
    <2>3. \A p \in Request : Tidy(p)'
      BY <1>3 DEF Tidy, Empty
    <2>4. QED
      BY <2>2, <2>3 DEF TidyOK
  <1>10. QED
    BY <1>2, <1>4, <1>6, <1>8, <1>9, LoneStep DEF Visible

-----------------------------------------------------------------------------
(***************************************************************************)
(* A request that begins changes nothing yet, and meets whoever works.     *)
(***************************************************************************)
LEMMA BeginIInv ==
  ASSUME IInv, NEW u \in Request, NEW kind, NEW at, NEW path, Begins(u, kind, at, path)
  PROVE  IInv'
  <1>1. WorkOK /\ TypesOK /\ StepsOK
    BY DEF IInv, WorkOK
  <1>2. /\ op'[u] = [kind |-> kind, at |-> at, path |-> path, pages |-> {}]
        /\ \A v \in Request : v # u => op'[v] = op[v]
        /\ Fresh(u) /\ met \subseteq met'
        /\ UNCHANGED <<chapter, typed, object, job, reader, cached>>
    BY <1>1, BeginFacts
  <1>3. met' = IF Others(u) = {} THEN met ELSE met \cup Others(u) \cup {u}
    BY <1>1, BeginFacts
  <1>4. WorkOK'
    BY <1>1, BeginWork
  <1>5. ASSUME ~Mixed' PROVE ContentOK'
    <2>1. ~Mixed /\ ContentOK
      BY <1>1, <1>2, <1>5, MixedStays DEF IInv
    <2>2. Quiet
      <3>1. ASSUME NEW v \in Request, op[v].kind \in Visible, Running(v) PROVE FALSE
        <4>1. v # u
          BY <3>1, <1>2 DEF Fresh, Running
        <4>2. v \in Others(u)
          BY <3>1, <4>1 DEF Others, Alive
        <4>3. v \in met' /\ op'[v].kind \in Visible
          BY <3>1, <4>1, <4>2, <1>2, <1>3
        <4>4. QED
          BY <4>3, <1>5 DEF Mixed
      <3>2. QED
        BY <3>1 DEF Quiet
    <2>3. Readable' /\ Current'
      BY <1>1, <1>2, <2>1, <2>2, QuietView, ViewKept
    <2>4. TidyOK'
      <3>1. \A p \in Request : Tidy(p) => Tidy(p)'
        BY <1>2 DEF Tidy
      <3>2. QED
        BY <3>1, <2>1, <2>2, QuietTidy DEF ContentOK
    <2>5. CASE kind \in Visible
      <3>1. Others(u) = {}
        BY <2>5, <1>2, <1>3, <1>5 DEF Mixed
      <3>2. \A v \in Request : v # u => ~Alive(v)
        BY <3>1 DEF Others
      <3>3. object[u] = Empty /\ job[u].at = "none"
        BY <1>1, <1>2 DEF StepsOK, StepOK
      <3>4. ChangeOK(u)'
        BY <3>3, <2>5, <1>2 DEF ChangeOK, Begins, FirstSteps, Visible
      <3>5. ViewOK'
        BY <2>3 DEF ViewOK
      <3>6. QED
        BY <2>4, <2>5, <3>2, <3>3, <3>4, <3>5, <1>1, <1>2, LoneContent
    <2>6. CASE kind \notin Visible
      <3>1. <<kind, at>> \in FirstSteps
        BY DEF Begins
      <3>2. at = "put"
        BY <2>6, <3>1 DEF FirstSteps, Visible
      <3>3. Quiet'
        BY <2>2, <2>6, <1>2 DEF Quiet, Running
      <3>4. object[u].manifest = None
        BY <1>1, <1>2 DEF StepsOK, StepOK, Empty
      <3>5. CleanOK' /\ StoredOK'
        BY <2>1, <3>2, <3>4, <1>2 DEF ContentOK, CleanOK, StoredOK
      <3>6. QED
        BY <2>3, <2>4, <3>3, <3>5, QuietContent
    <2>7. QED
      BY <2>5, <2>6
  <1>6. QED
    BY <1>4, <1>5 DEF IInv

\* Each request begins as its kind begins.
LEMMA StartIInv ==
  ASSUME IInv, NEW u \in Request, Start(u)
  PROVE  IInv'
  <1>1. chapter.path \in Request \cup {None} /\ None \notin Request
    BY Typed, Constants DEF IInv, WorkOK
  <1>2. CASE UploadImages(u)
    <2>1. Begins(u, "images", "put", chapter.path)
      BY <1>1, <1>2 DEF UploadImages, Begins, FirstSteps
    <2>2. QED
      BY <2>1, BeginIInv
  <1>3. CASE AppendImages(u)
    <2> DEFINE path == IF chapter.path = None THEN u ELSE chapter.path
    <2>1. Begin(u, "append", "read", path) /\ path \in Request /\ path \in {u, chapter.path}
      BY <1>1, <1>3 DEF AppendImages
    <2> HIDE DEF path
    <2>2. Begins(u, "append", "read", path)
      BY <1>1, <2>1 DEF Begins, FirstSteps
    <2>3. QED
      BY <2>2, BeginIInv
  <1>4. CASE DeleteImages(u)
    <2>1. Begins(u, "deletePages", "read", chapter.path)
      BY <1>1, <1>4 DEF DeleteImages, Begins, FirstSteps
    <2>2. QED
      BY <2>1, BeginIInv
  <1>5. CASE DeleteContent(u)
    <2>1. Begins(u, "delete", "wipe", None)
      BY <1>5 DEF DeleteContent, Begins, FirstSteps
    <2>2. QED
      BY <2>1, BeginIInv
  <1>6. CASE UploadFile(u)
    <2>1. Begins(u, "file", "put", None)
      BY <1>6 DEF UploadFile, Begins, FirstSteps
    <2>2. QED
      BY <2>1, BeginIInv
  <1>7. QED
    BY <1>2, <1>3, <1>4, <1>5, <1>6 DEF Start

-----------------------------------------------------------------------------
(***************************************************************************)
(* The actions of jobs                                                     *)
(***************************************************************************)

\* The job has read its source.
LEMMA LoadSourceIInv ==
  ASSUME IInv, NEW u \in Request, LoadSource(u)
  PROVE  IInv'
  <1> DEFINE rec == [job[u] EXCEPT !.at = "check"]
  <1>1. WorkOK /\ TypesOK /\ StepsOK /\ job[u] \in JobRec /\ object[u] \in ObjectRec
    BY Typed DEF IInv, WorkOK
  <1>2. job[u].at = "waiting" /\ op[u].kind = "file" /\ op[u].at = "done" /\ Converting(u)
    BY <1>1 DEF LoadSource, JobAt, Converting, StepsOK, StepOK
  <1>3. /\ rec \in JobRec /\ rec.at = "check" /\ rec.attempts = job[u].attempts /\ rec.stalls = job[u].stalls
    BY <1>1 DEF JobRec
  <1>4. job' = [job EXCEPT ![u] = rec]
    BY DEF LoadSource, JobGoTo
  <1>5. object' = object
    BY DEF LoadSource, JobOnly
  <1>6. Storage
    BY <1>1, <1>5, Typed DEF Storage, StepsOK, StepOK, TypesOK, TypeOK, ObjectRec
  <1>7. UNCHANGED <<chapter, typed, op, reader, met, cached>>
    BY DEF LoadSource, JobOnly
  <1>8. cached' \in [Version -> Manifest \cup {None}]
        /\ \A v \in Version : cached'[v] # None => cached'[v] = cached[v]
    BY <1>1, <1>7 DEF TypesOK, TypeOK
  <1> HIDE DEF rec
  <1>9. JobStep(u, rec)
    BY <1>2, <1>3, <1>4, <1>6, <1>7, <1>8 DEF JobStep, JobEdge
  <1>10. WorkOK'
    BY <1>1, <1>3, <1>9, JobStepWork
  <1>11. ASSUME ~Mixed' PROVE ContentOK'
    <2>1. ~Mixed /\ ContentOK
      BY <1>1, <1>7, <1>11, JobStepMixed DEF IInv
    <2>2. \A p \in Request : Tidy(p) => Tidy(p)'
      BY <1>5 DEF Tidy
    <2>3. QED
      BY <1>1, <1>3, <1>5, <1>9, <2>1, <2>2, JobContent
  <1>12. QED
    BY <1>10, <1>11 DEF IInv

\* It goes on, or gives up: when nobody met the request its key is still there.
LEMMA CheckKeyIInv ==
  ASSUME IInv, NEW u \in Request, CheckKey(u)
  PROVE  IInv'
  <1> DEFINE rec == [job[u] EXCEPT !.at = IF chapter.key = u THEN "pages" ELSE "skipped"]
  <1>1. WorkOK /\ TypesOK /\ StepsOK /\ job[u] \in JobRec /\ object[u] \in ObjectRec
    BY Typed DEF IInv, WorkOK
  <1>2. job[u].at = "check" /\ op[u].kind = "file" /\ op[u].at = "done" /\ Converting(u)
    BY <1>1 DEF CheckKey, JobAt, Converting, StepsOK, StepOK
  <1>3. /\ rec \in JobRec /\ rec.at = (IF chapter.key = u THEN "pages" ELSE "skipped") /\ rec.attempts = job[u].attempts /\ rec.stalls = job[u].stalls
    BY <1>1 DEF JobRec
  <1>4. job' = [job EXCEPT ![u] = rec]
    BY DEF CheckKey, JobGoTo
  <1>5. object' = object
    BY DEF CheckKey, JobOnly
  <1>6. Storage
    BY <1>1, <1>5, Typed DEF Storage, StepsOK, StepOK, TypesOK, TypeOK, ObjectRec
  <1>7. UNCHANGED <<chapter, typed, op, reader, met, cached>>
    BY DEF CheckKey, JobOnly
  <1>8. cached' \in [Version -> Manifest \cup {None}]
        /\ \A v \in Version : cached'[v] # None => cached'[v] = cached[v]
    BY <1>1, <1>7 DEF TypesOK, TypeOK
  <1> HIDE DEF rec
  <1>9. JobStep(u, rec)
    BY <1>2, <1>3, <1>4, <1>6, <1>7, <1>8 DEF JobStep, JobEdge
  <1>10. WorkOK'
    BY <1>1, <1>3, <1>9, JobStepWork
  <1>11. ASSUME ~Mixed' PROVE ContentOK'
    <2>1. ~Mixed /\ ContentOK
      BY <1>1, <1>7, <1>11, JobStepMixed DEF IInv
    <2>2. \A p \in Request : Tidy(p) => Tidy(p)'
      BY <1>5 DEF Tidy
    <2>3. QED
      BY <1>1, <1>3, <1>5, <1>9, <2>1, <2>2, JobContent
  <1>12. QED
    BY <1>10, <1>11 DEF IInv

\* It stores pages under its own prefix, where no reader looks yet.
LEMMA ConvertPagesIInv ==
  ASSUME IInv, NEW u \in Request, ConvertPages(u)
  PROVE  IInv'
  <1> DEFINE rec == [job[u] EXCEPT !.at = "manifest"]
             o == [object[u] EXCEPT !.pages = object[u].pages \cup {u}]
  <1>1. WorkOK /\ TypesOK /\ StepsOK /\ job[u] \in JobRec /\ object[u] \in ObjectRec
    BY Typed DEF IInv, WorkOK
  <1>2. job[u].at = "pages" /\ op[u].kind = "file" /\ op[u].at = "done" /\ Converting(u)
    BY <1>1 DEF ConvertPages, JobAt, Converting, StepsOK, StepOK
  <1>3. /\ rec \in JobRec /\ rec.at = "manifest" /\ rec.attempts = job[u].attempts /\ rec.stalls = job[u].stalls
    BY <1>1 DEF JobRec
  <1>4. job' = [job EXCEPT ![u] = rec]
    BY DEF ConvertPages, JobGoTo
  <1>5. o \in ObjectRec /\ object' = [object EXCEPT ![u] = o]
    BY <1>1, OnePage DEF ConvertPages, ObjectRec
  <1>6. Storage /\ object'[u] = o /\ \A v \in Request : v # u => object'[v] = object[v]
    BY <1>1, <1>2, <1>5, StorageUpdate DEF Fresh
  <1>7. UNCHANGED <<chapter, typed, op, reader, met, cached>>
    BY DEF ConvertPages, JobStorage
  <1>8. cached' \in [Version -> Manifest \cup {None}]
        /\ \A v \in Version : cached'[v] # None => cached'[v] = cached[v]
    BY <1>1, <1>7 DEF TypesOK, TypeOK
  <1> HIDE DEF rec
  <1>9. JobStep(u, rec)
    BY <1>2, <1>3, <1>4, <1>6, <1>7, <1>8 DEF JobStep, JobEdge
  <1>10. WorkOK'
    BY <1>1, <1>3, <1>9, JobStepWork
  <1>11. ASSUME ~Mixed' PROVE ContentOK'
    <2>1. ~Mixed /\ ContentOK
      BY <1>1, <1>7, <1>11, JobStepMixed DEF IInv
    <2>2. ~Settled(u) /\ u \in object'[u].pages
      BY <1>1, <1>2, <1>6 DEF Settled, ObjectRec
    <2>3. \A p \in Request : Tidy(p) => Tidy(p)'
      BY <1>1, <1>6, <2>2 DEF Tidy, ObjectRec
    <2>4. QED
      BY <1>1, <1>3, <1>6, <1>9, <2>1, <2>2, <2>3, JobContent
  <1>12. QED
    BY <1>10, <1>11 DEF IInv

\* And the manifest.
LEMMA WriteManifestIInv ==
  ASSUME IInv, NEW u \in Request, WriteManifest(u)
  PROVE  IInv'
  <1> DEFINE rec == [job[u] EXCEPT !.at = "ready"]
             o == [object[u] EXCEPT !.manifest = {u}]
  <1>1. WorkOK /\ TypesOK /\ StepsOK /\ job[u] \in JobRec /\ object[u] \in ObjectRec
    BY Typed DEF IInv, WorkOK
  <1>2. job[u].at = "manifest" /\ op[u].kind = "file" /\ op[u].at = "done" /\ Converting(u)
    BY <1>1 DEF WriteManifest, JobAt, Converting, StepsOK, StepOK
  <1>3. /\ rec \in JobRec /\ rec.at = "ready" /\ rec.attempts = job[u].attempts /\ rec.stalls = job[u].stalls
    BY <1>1 DEF JobRec
  <1>4. job' = [job EXCEPT ![u] = rec]
    BY DEF WriteManifest, JobGoTo
  <1>5. o \in ObjectRec /\ object' = [object EXCEPT ![u] = o]
    BY <1>1, OnePage DEF WriteManifest, ObjectRec
  <1>6. Storage /\ object'[u] = o /\ \A v \in Request : v # u => object'[v] = object[v]
    BY <1>1, <1>2, <1>5, StorageUpdate DEF Fresh
  <1>7. UNCHANGED <<chapter, typed, op, reader, met, cached>>
    BY DEF WriteManifest, JobStorage
  <1>8. cached' \in [Version -> Manifest \cup {None}]
        /\ \A v \in Version : cached'[v] # None => cached'[v] = cached[v]
    BY <1>1, <1>7 DEF TypesOK, TypeOK
  <1> HIDE DEF rec
  <1>9. JobStep(u, rec)
    BY <1>2, <1>3, <1>4, <1>6, <1>7, <1>8 DEF JobStep, JobEdge
  <1>10. WorkOK'
    BY <1>1, <1>3, <1>9, JobStepWork
  <1>11. ASSUME ~Mixed' PROVE ContentOK'
    <2>1. ~Mixed /\ ContentOK
      BY <1>1, <1>7, <1>11, JobStepMixed DEF IInv
    <2>2. ~Settled(u) /\ u \in object'[u].pages /\ object'[u].manifest = {u}
      BY <1>1, <1>2, <1>6, <2>1 DEF Settled, ObjectRec, ContentOK, StoredOK
    <2>3. \A p \in Request : Tidy(p) => Tidy(p)'
      BY <1>1, <1>6, <2>2 DEF Tidy, ObjectRec
    <2>4. QED
      BY <1>1, <1>3, <1>6, <1>9, <2>1, <2>2, <2>3, JobContent
  <1>12. QED
    BY <1>10, <1>11 DEF IInv

\* It removes the source, which is no page.
LEMMA DeleteSourceIInv ==
  ASSUME IInv, NEW u \in Request, DeleteSource(u)
  PROVE  IInv'
  <1> DEFINE rec == [job[u] EXCEPT !.at = "clear"]
             o == [object[u] EXCEPT !.source = FALSE]
  <1>1. WorkOK /\ TypesOK /\ StepsOK /\ job[u] \in JobRec /\ object[u] \in ObjectRec
    BY Typed DEF IInv, WorkOK
  <1>2. job[u].at = "source" /\ op[u].kind = "file" /\ op[u].at = "done" /\ Converting(u)
    BY <1>1 DEF DeleteSource, JobAt, Converting, StepsOK, StepOK
  <1>3. /\ rec \in JobRec /\ rec.at = "clear" /\ rec.attempts = job[u].attempts /\ rec.stalls = job[u].stalls
    BY <1>1 DEF JobRec
  <1>4. job' = [job EXCEPT ![u] = rec]
    BY DEF DeleteSource, JobGoTo
  <1>5. o \in ObjectRec /\ object' = [object EXCEPT ![u] = o]
    BY <1>1, OnePage DEF DeleteSource, ObjectRec
  <1>6. Storage /\ object'[u] = o /\ \A v \in Request : v # u => object'[v] = object[v]
    BY <1>1, <1>2, <1>5, StorageUpdate DEF Fresh
  <1>7. UNCHANGED <<chapter, typed, op, reader, met, cached>>
    BY DEF DeleteSource, JobStorage
  <1>8. cached' \in [Version -> Manifest \cup {None}]
        /\ \A v \in Version : cached'[v] # None => cached'[v] = cached[v]
    BY <1>1, <1>7 DEF TypesOK, TypeOK
  <1> HIDE DEF rec
  <1>9. JobStep(u, rec)
    BY <1>2, <1>3, <1>4, <1>6, <1>7, <1>8 DEF JobStep, JobEdge
  <1>10. WorkOK'
    BY <1>1, <1>3, <1>9, JobStepWork
  <1>11. ASSUME ~Mixed' PROVE ContentOK'
    <2>1. ~Mixed /\ ContentOK
      BY <1>1, <1>7, <1>11, JobStepMixed DEF IInv
    <2>2. object'[u].pages = object[u].pages /\ object'[u].manifest = object[u].manifest
      BY <1>1, <1>6 DEF ObjectRec
    <2>3. \A p \in Request : Tidy(p) => Tidy(p)'
      BY <1>1, <1>6, <2>2 DEF Tidy, ObjectRec
    <2>4. QED
      BY <1>1, <1>3, <1>6, <1>9, <2>1, <2>2, <2>3, JobContent
  <1>12. QED
    BY <1>10, <1>11 DEF IInv

\* It clears the cache.
LEMMA FinishJobIInv ==
  ASSUME IInv, NEW u \in Request, FinishJob(u)
  PROVE  IInv'
  <1> DEFINE rec == [at |-> "done", attempts |-> 0, stalls |-> 0]
  <1>1. WorkOK /\ TypesOK /\ StepsOK /\ job[u] \in JobRec /\ object[u] \in ObjectRec
    BY Typed DEF IInv, WorkOK
  <1>2. job[u].at = "clear" /\ op[u].kind = "file" /\ op[u].at = "done" /\ Converting(u)
    BY <1>1 DEF FinishJob, JobAt, Converting, StepsOK, StepOK
  <1>3. rec \in JobRec /\ rec.at = "done"
    BY Constants DEF JobRec
  <1>4. job' = [job EXCEPT ![u] = rec]
    BY DEF FinishJob, JobEnds
  <1>5. object' = object
    BY DEF FinishJob, ClearCurrent
  <1>6. Storage
    BY <1>1, <1>5, Typed DEF Storage, StepsOK, StepOK, TypesOK, TypeOK, ObjectRec
  <1>7. UNCHANGED <<chapter, typed, op, reader, met>>
        /\ cached' = [cached EXCEPT ![chapter.version] = None] /\ chapter.version \in Version
    BY <1>1, Typed DEF FinishJob, ClearCurrent
  <1>8. cached' \in [Version -> Manifest \cup {None}]
        /\ \A v \in Version : cached'[v] # None => cached'[v] = cached[v]
    BY <1>1, <1>7 DEF TypesOK, TypeOK
  <1> HIDE DEF rec
  <1>9. JobStep(u, rec)
    BY <1>2, <1>3, <1>4, <1>6, <1>7, <1>8 DEF JobStep, JobEdge
  <1>10. WorkOK'
    BY <1>1, <1>3, <1>9, JobStepWork
  <1>11. ASSUME ~Mixed' PROVE ContentOK'
    <2>1. ~Mixed /\ ContentOK
      BY <1>1, <1>7, <1>11, JobStepMixed DEF IInv
    <2>2. \A p \in Request : Tidy(p) => Tidy(p)'
      BY <1>5 DEF Tidy
    <2>3. QED
      BY <1>1, <1>3, <1>5, <1>9, <2>1, <2>2, JobContent
  <1>12. QED
    BY <1>10, <1>11 DEF IInv

\* Its worker stops, and it waits again or has stalled once too often.
LEMMA StallJobIInv ==
  ASSUME IInv, NEW u \in Request, StallJob(u)
  PROVE  IInv'
  <1>1. WorkOK /\ TypesOK /\ StepsOK /\ job[u] \in JobRec /\ object[u] \in ObjectRec
    BY Typed DEF IInv, WorkOK
  <1>2. Converting(u) /\ op[u].kind = "file" /\ op[u].at = "done"
    BY <1>1 DEF StallJob, Converting, StepsOK, StepOK
  <1>3. PICK rec \in JobRec : job' = [job EXCEPT ![u] = rec] /\ (JobAgain(u, rec) \/ rec.at = "stalled")
    <2>1. CASE job[u].stalls < MaxStalls
      <3> DEFINE rec == [job[u] EXCEPT !.stalls = job[u].stalls + 1, !.at = "waiting"]
      <3>1. job[u].stalls \in Nat /\ job[u].attempts \in 0..MaxAttempts /\ job[u].attempts > 0 /\ MaxAttempts \in Nat
        BY <1>1, <1>2, Constants DEF JobRec, StepsOK, StepOK
      <3>2. rec.at = "waiting" /\ rec.attempts = job[u].attempts /\ rec.stalls = job[u].stalls + 1 /\ rec \in JobRec
        <4>1. job[u].stalls + 1 \in Nat
          BY <3>1
        <4>2. rec.at = "waiting" /\ rec.attempts = job[u].attempts /\ rec.stalls = job[u].stalls + 1
          BY <1>1 DEF JobRec
        <4>3. rec \in JobRec
          BY <1>1, <4>1 DEF JobRec
        <4>4. QED
          BY <4>2, <4>3
      <3>3. job' = [job EXCEPT ![u] = rec]
        BY <1>1, <2>1 DEF StallJob, TypesOK, JobRec
      <3> HIDE DEF rec
      <3>4. JobAgain(u, rec)
        BY <3>1, <3>2 DEF JobAgain
      <3>5. QED
        BY <3>2, <3>3, <3>4
    <2>2. CASE ~(job[u].stalls < MaxStalls)
      <3> DEFINE rec == [at |-> "stalled", attempts |-> 0, stalls |-> 0]
      <3>1. rec \in JobRec /\ rec.at = "stalled"
        BY Constants DEF JobRec
      <3>2. job' = [job EXCEPT ![u] = rec]
        BY <2>2 DEF StallJob, JobEnds
      <3> HIDE DEF rec
      <3>3. QED
        BY <3>1, <3>2
    <2>3. QED
      BY <2>1, <2>2
  <1>4. rec.at \in {"waiting", "stalled"}
    BY <1>3 DEF JobAgain
  <1>5. object' = object
    BY DEF StallJob, JobOnly
  <1>6. Storage
    BY <1>1, <1>5, Typed DEF Storage, StepsOK, StepOK, TypesOK, TypeOK, ObjectRec
  <1>7. UNCHANGED <<chapter, typed, op, reader, met, cached>>
    BY DEF StallJob, JobOnly
  <1>8. cached' \in [Version -> Manifest \cup {None}]
        /\ \A v \in Version : cached'[v] # None => cached'[v] = cached[v]
    BY <1>1, <1>7 DEF TypesOK, TypeOK
  <1>9. JobStep(u, rec)
    BY <1>2, <1>3, <1>6, <1>7, <1>8 DEF JobStep
  <1>10. WorkOK'
    BY <1>1, <1>9, JobStepWork
  <1>11. ASSUME ~Mixed' PROVE ContentOK'
    <2>1. ~Mixed /\ ContentOK
      BY <1>1, <1>7, <1>11, JobStepMixed DEF IInv
    <2>2. \A p \in Request : Tidy(p) => Tidy(p)'
      BY <1>5 DEF Tidy
    <2>3. QED
      BY <1>1, <1>4, <1>5, <1>9, <2>1, <2>2, JobContent
  <1>12. QED
    BY <1>10, <1>11 DEF IInv

\* An attempt fails and nothing marks the chapter: the content is as it was.
LEMMA FailJobUnrecordedIInv ==
  ASSUME IInv, NEW u \in Request, FailJobUnrecorded(u)
  PROVE  IInv'
  <1>1. WorkOK /\ TypesOK /\ StepsOK /\ job[u] \in JobRec /\ object[u] \in ObjectRec
    BY Typed DEF IInv, WorkOK
  <1>2. Converting(u) /\ op[u].kind = "file" /\ op[u].at = "done"
    BY <1>1 DEF FailJobUnrecorded, Converting, StepsOK, StepOK
  <1>3. PICK rec \in JobRec : job' = [job EXCEPT ![u] = rec] /\ (JobAgain(u, rec) \/ rec.at = "unrecorded")
    BY <1>1, AttemptFacts DEF FailJobUnrecorded
  <1>4. rec.at \in {"waiting", "unrecorded"}
    BY <1>3 DEF JobAgain
  <1>5. object' = object
    BY DEF FailJobUnrecorded, JobOnly
  <1>6. Storage
    BY <1>1, <1>5, Typed DEF Storage, StepsOK, StepOK, TypesOK, TypeOK, ObjectRec
  <1>7. UNCHANGED <<chapter, typed, op, reader, met, cached>>
    BY DEF FailJobUnrecorded, JobOnly
  <1>8. cached' \in [Version -> Manifest \cup {None}]
        /\ \A v \in Version : cached'[v] # None => cached'[v] = cached[v]
    BY <1>1, <1>7 DEF TypesOK, TypeOK
  <1>9. JobStep(u, rec)
    BY <1>2, <1>3, <1>6, <1>7, <1>8 DEF JobStep
  <1>10. WorkOK'
    BY <1>1, <1>9, JobStepWork
  <1>11. ASSUME ~Mixed' PROVE ContentOK'
    <2>1. ~Mixed /\ ContentOK
      BY <1>1, <1>7, <1>11, JobStepMixed DEF IInv
    <2>2. \A p \in Request : Tidy(p) => Tidy(p)'
      BY <1>5 DEF Tidy
    <2>3. QED
      BY <1>1, <1>4, <1>5, <1>9, <2>1, <2>2, JobContent
  <1>12. QED
    BY <1>10, <1>11 DEF IInv

\* The row names what the job has stored, under the next version.
LEMMA MakeReadyIInv ==
  ASSUME IInv, NEW u \in Request, MakeReady(u)
  PROVE  IInv'
  <1> DEFINE rec == [job[u] EXCEPT !.at = "source"]
  <1>1. WorkOK /\ TypesOK /\ StepsOK /\ job[u] \in JobRec
    BY Typed DEF IInv, WorkOK
  <1>2. job[u].at = "ready" /\ op[u].kind = "file" /\ Alive(u)
    BY <1>1 DEF MakeReady, JobAt, Alive, Converting, StepsOK, StepOK
  <1>3. rec \in JobRec /\ rec.at = "source" /\ job' = [job EXCEPT ![u] = rec]
    BY <1>1 DEF MakeReady, JobGoTo, JobRec
  <1> HIDE DEF rec
  <1>4. job'[u] = rec /\ \A v \in Request : v # u => job'[v] = job[v]
    BY <1>1, <1>3, JobUpdate
  <1>5. UNCHANGED <<object, op, reader, cached, met>> /\ typed' = FALSE
        /\ chapter'.path = u /\ chapter'.version = chapter.version + 1 /\ chapter'.pageCount = 1
    BY DEF MakeReady
  <1>6. WorkOK'
    BY <1>1, MakeReadyWork
  <1>7. ASSUME ~Mixed' PROVE ContentOK'
    <2>1. ~Mixed /\ ContentOK
      BY <1>1, <1>5, <1>7, JobStepMixed DEF IInv
    <2>2. Quiet /\ Quiet'
      BY <1>1, <1>2, <1>5, <2>1, OthersAreQuiet DEF Quiet, Running, Visible
    <2>3. object[u].manifest = {u} /\ u \in object[u].pages
      BY <1>2, <2>1 DEF ContentOK, StoredOK
    <2>4. Readable'
      BY <2>3, <1>5, OnePage, Constants DEF Readable
    <2>5. Current'
      BY <1>1, <1>5, <1>6, NewVersionIsCurrent
    <2>6. CleanOK'
      <3>1. ~Settled(u)
        BY <1>2 DEF Settled
      <3>2. ASSUME NEW v \in Request, op[v].path # None, op[v].kind = "images" PROVE op[v].path # u
        BY <3>1, <3>2, <1>1 DEF WorkOK, PathOK
      <3>3. QED
        BY <3>2, <1>5 DEF CleanOK
    <2>7. StoredOK'
      BY <1>3, <1>4, <1>5, <2>1 DEF ContentOK, StoredOK
    <2>8. \A p \in Request : Tidy(p) => Tidy(p)'
      BY <1>5 DEF Tidy
    <2>9. TidyOK'
      BY <2>1, <2>2, <2>8, QuietTidy DEF ContentOK
    <2>10. QED
      BY <2>2, <2>4, <2>5, <2>6, <2>7, <2>9, QuietContent
  <1>8. QED
    BY <1>6, <1>7 DEF IInv

\* A failed attempt marks the row, whose path stays the one it was.
LEMMA FailJobIInv ==
  ASSUME IInv, NEW u \in Request, FailJob(u)
  PROVE  IInv'
  <1>1. WorkOK /\ TypesOK /\ StepsOK /\ job[u] \in JobRec
    BY Typed DEF IInv, WorkOK
  <1>2. op[u].kind = "file" /\ Alive(u)
    BY <1>1 DEF FailJob, Alive, Converting, StepsOK, StepOK
  <1>3. job'[u].at \in {"waiting", "failed"} /\ \A v \in Request : v # u => job'[v] = job[v]
    <2>1. PICK rec \in JobRec :
            /\ job' = [job EXCEPT ![u] = rec]
            /\ \/ JobAgain(u, rec) /\ rec.attempts < job[u].attempts
               \/ rec.at = "failed" /\ rec.attempts = 0
      BY <1>1, AttemptFacts DEF FailJob
    <2>2. QED
      BY <1>1, <2>1, JobUpdate DEF JobAgain
  <1>4. UNCHANGED <<typed, object, op, reader, cached, met>>
        /\ chapter'.path = chapter.path /\ chapter'.version = chapter.version /\ chapter'.pageCount = chapter.pageCount
    BY <1>1 DEF FailJob, TypesOK, TypeOK
  <1>5. WorkOK'
    BY <1>1, FailJobWork
  <1>6. ASSUME ~Mixed' PROVE ContentOK'
    <2>1. ~Mixed /\ ContentOK
      BY <1>1, <1>4, <1>6, JobStepMixed DEF IInv
    <2>2. Quiet /\ Quiet'
      BY <1>1, <1>2, <1>4, <2>1, OthersAreQuiet DEF Quiet, Running, Visible
    <2>3. Readable' /\ Current'
      BY <1>1, <1>4, <2>1, <2>2, QuietView, ViewKept
    <2>4. CleanOK' /\ StoredOK'
      BY <1>3, <1>4, <2>1 DEF ContentOK, CleanOK, StoredOK
    <2>5. \A p \in Request : Tidy(p) => Tidy(p)'
      BY <1>4 DEF Tidy
    <2>6. TidyOK'
      BY <2>1, <2>2, <2>5, QuietTidy DEF ContentOK
    <2>7. QED
      BY <2>2, <2>3, <2>4, <2>6, QuietContent
  <1>7. QED
    BY <1>5, <1>6 DEF IInv

-----------------------------------------------------------------------------
(***************************************************************************)
(* A path is typed: nothing else changes, and what readers see under it is *)
(* excused until an upload, an append or a deletion sets it again.         *)
(***************************************************************************)
LEMMA EditPathIInv ==
  ASSUME IInv, NEW path \in Request \cup {None}, EditPath(path)
  PROVE  IInv'
  <1>1. /\ TypesOK /\ StepsOK /\ AloneOK /\ KeyOK /\ OwnKeyOK /\ PathOK /\ CountOK /\ ReaderOK
        /\ OnlyOvertakenIsSkipped /\ WorkOK
    BY DEF IInv, WorkOK
  <1>2. chapter' = [chapter EXCEPT !.path = path] /\ typed' = TRUE /\ UNCHANGED <<object, op, job, reader, cached, met>>
    BY DEF EditPath
  <1>3. /\ chapter'.path = path /\ chapter'.key = chapter.key /\ chapter'.version = chapter.version
        /\ chapter'.status = chapter.status
        /\ chapter' \in [status : Status, path : Request \cup {None}, key : Request \cup {None},
                         version : Version, pageCount : 0..Cardinality(Request)]
    <2>1. chapter \in [status : Status, path : Request \cup {None}, key : Request \cup {None},
                       version : Version, pageCount : 0..Cardinality(Request)]
      BY <1>1 DEF TypesOK, TypeOK, Status
    <2>2. QED
      BY <2>1, <1>2
  <1>4. TypesOK'
    BY <1>1, <1>2, <1>3 DEF TypesOK, TypeOK, Status, Version
  <1>5. StepsOK' /\ AloneOK'
    BY <1>1, <1>2, <1>3 DEF StepsOK, StepOK, Fresh, Running, Converting, AloneOK, Alive
  <1>6. KeyOK' /\ OwnKeyOK' /\ OnlyOvertakenIsSkipped'
    BY <1>1, <1>2, <1>3 DEF KeyOK, OwnKeyOK, Do, OnlyOvertakenIsSkipped
  <1>7. \A v \in Request : Settled(v) => Settled(v)'
    BY <1>2, <1>3 DEF Settled
  <1>8. path # None => Settled(path)'
    BY <1>2, <1>3 DEF EditPath, Settled, Converting
  <1>9. PathOK'
    <2>1. \A v \in Request : op'[v].path = op[v].path /\ op'[v].kind = op[v].kind
      BY <1>2
    <2>2. chapter'.path \in {None, chapter.path} \/ Settled(chapter.path)'
      BY <1>3, <1>8
    <2>3. chapter'.path \in Request \cup {None}
      BY <1>3
    <2>4. QED
      BY <2>1, <2>2, <2>3, <1>1, <1>7, PathsKept
  <1>10. CountOK'
    BY <1>1, <1>3, <1>7, CountKept
  <1>11. ReaderOK'
    BY <1>1, <1>2, <1>3 DEF ReaderOK
  <1>12. WorkOK'
    BY <1>4, <1>5, <1>6, <1>9, <1>10, <1>11 DEF WorkOK
  <1>13. ASSUME ~Mixed' PROVE ContentOK'
    <2>1. ~Mixed /\ ContentOK
      BY <1>1, <1>2, <1>13, JobStepMixed DEF IInv
    <2>2. Readable' /\ Current' /\ CleanOK'
      BY <1>2 DEF Readable, Current, CleanOK
    <2>3. StoredOK' /\ TidyOK'
      BY <1>2, <2>1 DEF ContentOK, StoredOK, TidyOK, Tidy, Removing
    <2>4. ChangesOK'
      BY <1>2, <2>1 DEF ContentOK, ChangesOK, ChangeOK
    <2>5. QED
      BY <2>2, <2>3, <2>4 DEF ContentOK, ViewOK
  <1>14. QED
    BY <1>12, <1>13 DEF IInv

-----------------------------------------------------------------------------
(***************************************************************************)
(* Readers cache what the chapter shows.                                   *)
(***************************************************************************)
LEMMA ReadIInv ==
  ASSUME IInv, NEW r \in Reader, Read(r)
  PROVE  IInv'
  <1>1. WorkOK /\ TypesOK /\ ReaderOK
    BY DEF IInv, WorkOK
  <1>2. PICK rec \in ReaderRec :
           /\ ReadStep(r, rec)
           /\ \/ rec.at = "idle" /\ cached' = cached
              \/ /\ rec.at = "path" /\ rec.version = chapter.version /\ cached' = cached
              \/ /\ rec.at = "load" /\ rec.version = reader[r].version /\ reader[r].at # "idle"
                 /\ rec.path = chapter.path /\ chapter.path # None /\ cached' = cached
              \/ /\ rec.at = "store" /\ reader[r].at = "load" /\ rec.version = reader[r].version
                 /\ rec.path = reader[r].path /\ rec.manifest # None
                 /\ rec.manifest = object[reader[r].path].manifest /\ cached' = cached
              \/ /\ rec.at = "idle" /\ reader[r].at = "store"
                 /\ cached' = [cached EXCEPT ![reader[r].version] = reader[r].manifest]
    BY <1>1, ReadFacts
  <1>3. UNCHANGED <<chapter, typed, object, op, job, met>> /\ reader'[r] = rec
        /\ \A q \in Reader : q # r => reader'[q] = reader[q]
    BY <1>1, <1>2 DEF ReadStep, TypesOK
  <1>4. WorkOK'
    BY <1>1, ReadWork
  <1>5. ASSUME ~Mixed' PROVE ContentOK'
    <2>1. ~Mixed /\ ContentOK
      BY <1>3, <1>5 DEF IInv, Mixed, At
    <2>2. CleanOK' /\ StoredOK' /\ TidyOK' /\ ChangesOK'
      BY <2>1, <1>3 DEF ContentOK, CleanOK, StoredOK, TidyOK, Tidy, Removing, ChangesOK, ChangeOK
    <2>3. ASSUME \A u \in Request : ~Changing(u)' PROVE Readable' /\ Current'
      <3>1. Readable /\ Current
        BY <2>1, <2>3, <1>3 DEF ContentOK, ViewOK, Changing
      <3>2. Readable'
        BY <3>1, <1>3 DEF Readable
      <3>3. ASSUME chapter.path # None, ~typed, cached'[chapter.version] # None
            PROVE  cached'[chapter.version] = object[chapter.path].manifest
        <4>1. CASE cached' = cached
          BY <3>1, <3>3, <4>1 DEF Current
        <4>2. CASE reader[r].at = "store" /\ cached' = [cached EXCEPT ![reader[r].version] = reader[r].manifest]
          <5>1. reader[r].version = chapter.version => reader[r].manifest = object[chapter.path].manifest
            BY <3>1, <3>3, <4>2 DEF Current
          <5>2. chapter.version \in Version /\ cached \in [Version -> Manifest \cup {None}]
            BY <1>1, Typed DEF TypesOK, TypeOK
          <5>3. QED
            BY <3>1, <3>3, <4>2, <5>1, <5>2 DEF Current
        <4>3. QED
          BY <1>2, <4>1, <4>2
      <3>4. ASSUME NEW q \in Reader, chapter.path # None, ~typed, reader'[q].at = "store", reader'[q].version = chapter.version
            PROVE  reader'[q].manifest = object[chapter.path].manifest
        <4>1. CASE q # r
          BY <3>1, <3>4, <4>1, <1>3 DEF Current
        <4>2. CASE q = r
          BY <3>4, <4>2, <1>1, <1>2, <1>3 DEF ReaderOK
        <4>3. QED
          BY <4>1, <4>2
      <3>5. Current'
        BY <3>3, <3>4, <1>3 DEF Current
      <3>6. QED
        BY <3>2, <3>5
    <2>4. QED
      BY <2>2, <2>3 DEF ContentOK, ViewOK
  <1>6. QED
    BY <1>4, <1>5 DEF IInv
-----------------------------------------------------------------------------
(***************************************************************************)
(* The specification keeps the invariant                                   *)
(***************************************************************************)
LEMMA InitTypes ==
  ASSUME Init
  PROVE  TypesOK
  <1>1. 0 \in 0..Cardinality(Request) /\ 0..MaxAttempts \subseteq Nat /\ 0 \in 0..MaxAttempts
    BY Constants
  <1>2. chapter \in [status : {"EMPTY", "READY", "PROCESSING", "FAILED"}, path : Request \cup {None},
                     key : Request \cup {None}, version : Version, pageCount : 0..Cardinality(Request)]
        /\ chapter.status # "PROCESSING" /\ chapter.key = None
    <2>1. CASE Given = None
      BY <1>1, <2>1, Constants DEF Init
    <2>2. CASE Given \in Request
      <3>1. 1 \in 0..Cardinality(Request) /\ Given # None
        BY <2>2, OnePage, Constants
      <3>2. QED
        BY <3>1, <2>2, <1>1 DEF Init, Version
    <2>3. QED
      BY <2>1, <2>2, ContentAssumption
  <1>3. object \in [Request -> [source : BOOLEAN, pages : SUBSET Request, manifest : Manifest \cup {None}]]
    BY DEF Init, Empty, Manifest
  <1>4. cached \in [Version -> Manifest \cup {None}] /\ met \subseteq Request /\ typed \in BOOLEAN
    BY DEF Init
  <1>5. op \in [Request -> OpRec]
    BY DEF Init, OpRec, InPlace
  <1>6. job \in [Request -> JobRec]
    BY <1>1 DEF Init, JobRec
  <1>7. reader \in [Reader -> ReaderRec]
    BY Constants DEF Init, ReaderRec, NoManifest
  <1>8. QED
    BY <1>2, <1>3, <1>4, <1>5, <1>6, <1>7 DEF TypesOK, TypeOK

\* The invariant holds of the chapter without content, and of the one with given images.
LEMMA InitIInv ==
  ASSUME Init
  PROVE  IInv
  <1>1. TypesOK
    BY InitTypes
  <1>2. \A u \in Request : /\ job[u].at = "none" /\ op[u].path = None /\ chapter.key # u
                           /\ op[u].pages = {}
                           /\ u = Given => op[u].kind = "images" /\ op[u].at = "done"
                           /\ u # Given => op[u].kind = None /\ op[u].at = "new" /\ object[u] = Empty
    BY Constants DEF Init
  <1>3. \A u \in Request : ~Running(u) /\ ~Converting(u)
    BY <1>2 DEF Running, Converting
  <1>4. StepsOK
    BY <1>2, <1>3 DEF StepsOK, StepOK, Fresh, Init
  <1>5. AloneOK /\ KeyOK /\ OwnKeyOK /\ OnlyOvertakenIsSkipped
    BY <1>2, <1>3 DEF AloneOK, KeyOK, OwnKeyOK, OnlyOvertakenIsSkipped, Alive, Do
  <1>6. PathOK
    <2>1. chapter.path # None => chapter.path = Given /\ Given \in Request
      BY ContentAssumption DEF Init
    <2>2. QED
      BY <2>1, <1>2 DEF PathOK, Settled
  <1>7. CountOK
    <2>1. IsFiniteSet(SettledSet) /\ Cardinality(SettledSet) \in Nat
      BY Constants, FS_Subset, FS_CardinalityType DEF SettledSet
    <2>2. CASE Given = None
      BY <2>1, <2>2 DEF Init, CountOK
    <2>3. CASE Given \in Request
      <3>1. Given \in SettledSet
        BY <2>3, <1>2 DEF SettledSet, Settled
      <3>2. {Given} \subseteq SettledSet /\ Cardinality({Given}) = 1
        BY <3>1, FS_Singleton
      <3>3. 1 <= Cardinality(SettledSet)
        BY <3>2, <2>1, FS_Subset
      <3>4. chapter.version = 1
        BY <2>3, Constants DEF Init
      <3>5. QED
        BY <3>3, <3>4 DEF CountOK
    <2>4. QED
      BY <2>2, <2>3, ContentAssumption
  <1>8. ReaderOK
    BY DEF ReaderOK, Init, NoManifest
  <1>9. Readable
    <2>1. ASSUME chapter.path # None PROVE chapter.path = Given /\ Given \in Request /\ chapter.pageCount = 1
      BY <2>1, ContentAssumption DEF Init
    <2>2. ASSUME chapter.path # None
          PROVE  object[chapter.path].pages = {Given} /\ object[chapter.path].manifest = {Given}
      BY <2>1, <2>2 DEF Init
    <2>3. ASSUME chapter.path # None PROVE {Given} # None /\ Cardinality({Given}) = 1
      BY <2>1, <2>3, FS_Singleton, OnePage, Constants
    <2>4. QED
      BY <2>1, <2>2, <2>3 DEF Readable
  <1>10. Current
    BY <1>1 DEF Current, Init, NoManifest, TypesOK, TypeOK
  <1>11. CleanOK /\ StoredOK
    BY <1>2 DEF CleanOK, StoredOK
  <1>12. ChangesOK
    BY <1>2 DEF ChangesOK, ChangeOK, Visible
  <1>13. TidyOK
    BY Constants DEF TidyOK, Tidy, Init, Empty
  <1>14. ContentOK
    BY <1>9, <1>10, <1>11, <1>12, <1>13 DEF ContentOK, ViewOK
  <1>15. QED
    BY <1>1, <1>4, <1>5, <1>6, <1>7, <1>8, <1>14 DEF IInv, WorkOK

\* Every step of a request, of a job or of a reader keeps the invariant.
LEMMA NextIInv ==
  ASSUME IInv, Next
  PROVE  IInv'
  <1>1. ASSUME NEW u \in Request, Continue(u) PROVE IInv'
    <2>1. CASE PutImages(u) \/ PutImagesManifest(u) \/ CleanUp(u)
      BY <2>1, PutImagesIInv, PutImagesManifestIInv, CleanUpIInv
    <2>2. CASE ReadForAppend(u) \/ PutAppended(u) \/ PutManifest(u)
      BY <2>2, ReadForAppendIInv, PutAppendedIInv, PutManifestIInv
    <2>3. CASE ReadForDelete(u) \/ DeletePrefix(u) \/ Wipe(u)
      BY <2>3, ReadForDeleteIInv, DeletePrefixIInv, WipeIInv
    <2>4. CASE UpdateChapter(u) \/ ClearCache(u)
      BY <2>4, UpdateChapterIInv, ClearCacheIInv
    <2>5. CASE PutSource(u) \/ MarkProcessing(u) \/ Enqueue(u)
      BY <2>5, PutSourceIInv, MarkProcessingIInv, EnqueueIInv
    <2>6. QED
      BY <1>1, <2>1, <2>2, <2>3, <2>4, <2>5 DEF Continue
  <1>2. ASSUME NEW u \in Request, Convert(u) PROVE IInv'
    <2>1. CASE LoadSource(u) \/ CheckKey(u) \/ ConvertPages(u) \/ WriteManifest(u)
      BY <2>1, LoadSourceIInv, CheckKeyIInv, ConvertPagesIInv, WriteManifestIInv
    <2>2. CASE MakeReady(u) \/ DeleteSource(u) \/ FinishJob(u) \/ FailJob(u) \/ FailJobUnrecorded(u)
      BY <2>2, MakeReadyIInv, DeleteSourceIInv, FinishJobIInv, FailJobIInv, FailJobUnrecordedIInv
    <2>3. QED
      BY <1>2, <2>1, <2>2 DEF Convert
  <1>3. ASSUME NEW u \in Request, Start(u) \/ StallJob(u) \/ StopRequest(u) PROVE IInv'
    BY <1>3, StartIInv, StallJobIInv, StopRequestIInv
  <1>4. ASSUME NEW r \in Reader, Read(r) PROVE IInv'
    BY <1>4, ReadIInv
  <1>5. ASSUME NEW path \in Request \cup {None}, EditPath(path) PROVE IInv'
    BY <1>5, EditPathIInv
  <1>6. QED
    BY <1>1, <1>2, <1>3, <1>4, <1>5 DEF Next

\* A step that changes nothing keeps it too.
LEMMA StutterIInv ==
  ASSUME IInv, UNCHANGED vars
  PROVE  IInv'
  <1>1. WorkOK'
    <2>1. TypesOK' /\ StepsOK' /\ AloneOK'
      BY DEF vars, IInv, WorkOK, TypesOK, TypeOK, StepsOK, StepOK, Fresh, Running, Converting, AloneOK, Alive
    <2>2. KeyOK' /\ OwnKeyOK' /\ OnlyOvertakenIsSkipped'
      BY DEF vars, IInv, WorkOK, KeyOK, OwnKeyOK, OnlyOvertakenIsSkipped, Do
    <2>3. PathOK' /\ CountOK' /\ ReaderOK'
      BY DEF vars, IInv, WorkOK, PathOK, CountOK, SettledSet, Settled, ReaderOK
    <2>4. QED
      BY <2>1, <2>2, <2>3 DEF WorkOK
  <1>2. ASSUME ~Mixed' PROVE ContentOK'
    <2>1. ContentOK
      BY <1>2 DEF vars, IInv, Mixed, At
    <2>2. CleanOK' /\ StoredOK' /\ TidyOK' /\ ChangesOK' /\ ViewOK'
      BY <2>1 DEF vars, ContentOK, CleanOK, StoredOK, TidyOK, Tidy, Removing, ChangesOK, ChangeOK, ViewOK, Readable, Current, Changing
    <2>3. QED
      BY <2>2 DEF ContentOK
  <1>3. QED
    BY <1>1, <1>2 DEF IInv

\* Every reachable state satisfies the invariant.
LEMMA Invariance == Spec => []IInv
  <1>1. Init => IInv
    BY InitIInv
  <1>2. IInv /\ [Next]_vars => IInv'
    BY NextIInv, StutterIInv
  <1>3. QED
    BY <1>1, <1>2, PTL DEF Spec

-----------------------------------------------------------------------------
(***************************************************************************)
(* What the specification promises                                         *)
(***************************************************************************)
\* The row, the objects and the cache keep their types; in particular the chapter is
\* PROCESSING exactly when contentKey names a file, and the content version never passes
\* the number of requests, although no request compares either before it writes.
THEOREM ContentTyped == Spec => []TypeOK
  <1>1. IInv => TypeOK
    BY DEF IInv, WorkOK, TypesOK
  <1>2. QED
    BY <1>1, Invariance, PTL

\* A chapter that is PROCESSING has a job that will say how it ended, whatever requests,
\* failed attempts and stalls run into each other and however often each happens; only a
\* request that stopped, a last stall or a last error nobody records leaves it without one.
THEOREM ProcessingHasAJob == Spec => []ProcessingHasJob
  <1>1. ASSUME IInv PROVE ProcessingHasJob
    <2>1. chapter.status = "PROCESSING" => chapter.key \in Request
      BY <1>1, Typed DEF IInv, WorkOK, TypesOK, TypeOK
    <2>2. QED
      BY <1>1, <2>1 DEF IInv, WorkOK, KeyOK, ProcessingHasJob, At
  <1>2. QED
    BY <1>1, Invariance, PTL

\* The job of an accepted file gives it up as outdated only when another request met it
\* or an attempt of its own had failed or stalled.
THEOREM OnlyOvertaken == Spec => []OnlyOvertakenIsSkipped
  <1>1. IInv => OnlyOvertakenIsSkipped
    BY DEF IInv, WorkOK
  <1>2. QED
    BY <1>1, Invariance, PTL

\* Readers find the manifest and every page of the path the chapter names, as many as
\* pageCount says, while files are converted and while new images replace old ones; a
\* path that was typed is excused, and what is said holds again when the next upload,
\* append or deletion sets the path.
THEOREM ContentStaysReadable == Spec => []ContentIsReadable
  <1>1. ASSUME IInv PROVE ContentIsReadable
    <2>1. CASE Mixed \/ \E u \in Request : Running(u) /\ op[u].kind \in Visible
      BY <2>1 DEF ContentIsReadable
    <2>2. CASE ~Mixed /\ \A u \in Request : ~(Running(u) /\ op[u].kind \in Visible)
      <3>1. ContentOK /\ Quiet
        BY <1>1, <2>2 DEF IInv, Quiet
      <3>2. Readable
        BY <3>1, QuietView
      <3>3. QED
        BY <3>2 DEF Readable, ContentIsReadable
    <2>3. QED
      BY <2>1, <2>2
  <1>2. QED
    BY <1>1, Invariance, PTL

\* What is cached for the version the chapter has is the manifest in storage, although
\* a reader stores what it loaded at any time later, unless the path was typed.
THEOREM CacheStaysCurrent == Spec => []CachedManifestIsCurrent
  <1>1. ASSUME IInv PROVE CachedManifestIsCurrent
    <2>1. CASE Mixed \/ \E u \in Request : Running(u) /\ op[u].kind \in Visible
      BY <2>1 DEF CachedManifestIsCurrent
    <2>2. CASE ~Mixed /\ \A u \in Request : ~(Running(u) /\ op[u].kind \in Visible)
      <3>1. ContentOK /\ Quiet
        BY <1>1, <2>2 DEF IInv, Quiet
      <3>2. Current
        BY <3>1, QuietView
      <3>3. QED
        BY <3>2 DEF Current, CachedManifestIsCurrent
    <2>3. QED
      BY <2>1, <2>2
  <1>2. QED
    BY <1>1, Invariance, PTL

=============================================================================
