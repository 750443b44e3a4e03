---------------------------- MODULE ChapterContent ----------------------------
(***************************************************************************)
(* The content of one chapter: image requests that change it in place      *)
(* (chapter-content.service.ts), text, PDF and EPUB files that are         *)
(* uploaded by a request and converted by a BullMQ job                     *)
(* (text-, pdf- and epub-processing.service.ts), and readers that cache    *)
(* its manifest by content version (reader.service.ts).                    *)
(* Objects in storage and the Chapter row are written one at a time.  Each *)
(* request that needs one makes a fresh version prefix, so the prefix, the *)
(* source file and the page it writes are all named after the request.     *)
(***************************************************************************)
EXTENDS Naturals, FiniteSets

CONSTANTS Request,     \* admin requests on the chapter, each made once
          Reader,      \* requests for the manifest
          None,
          Given,       \* the request whose images the chapter already has, or None
          MaxAttempts, \* attempts of a job
          MaxStalls,   \* stalls BullMQ forgives a job (maxStalledCount)
          MaxStops,    \* model bound: requests that stop in the middle
          MaxReads,    \* model bound: manifests read
          MaxEdits     \* model bound: paths that administrators type

ASSUME ContentAssumption ==
  /\ MaxAttempts \in Nat \ {0}
  /\ {MaxStalls, MaxStops, MaxReads, MaxEdits} \subseteq Nat
  /\ IsFiniteSet(Request) /\ Given \in Request \cup {None}
  /\ None \notin Request /\ \A m \in SUBSET Request : None # m

VARIABLES
  chapter, \* the Chapter row
  object,  \* storage, by prefix: the source file, pages and manifest
  op,      \* what each request is doing, and its local values
  job,     \* the BullMQ job of each file that was uploaded
  reader,  \* what each reader is doing
  cached,  \* reader:manifest:<chapter>:<version> in Redis
  met,     \* history: requests that ran, or whose job ran, together with another
  typed,   \* history: the path of the row is one an administrator has typed
  stops, reads, edits

row == <<chapter, typed>>
bounds == <<stops, reads, edits>>
vars == <<row, object, op, job, reader, cached, met, bounds>>

InPlace == {"images", "append", "deletePages", "delete"}
Version == 0..Cardinality(Request)
Manifest == SUBSET Request

\* A manifest lists pages; None is the manifest that is not there.
Empty == [source |-> FALSE, pages |-> {}, manifest |-> None]
NoManifest == [at |-> "idle", version |-> 0, path |-> None, manifest |-> None]
Init ==
  /\ chapter = IF Given = None
               THEN [status |-> "EMPTY", path |-> None, key |-> None, version |-> 0, pageCount |-> 0]
               ELSE [status |-> "READY", path |-> Given, key |-> None, version |-> 1, pageCount |-> 1]
  /\ object = [u \in Request |-> IF u = Given THEN [source |-> FALSE, pages |-> {u}, manifest |-> {u}]
                                 ELSE Empty]
  /\ op = [u \in Request |-> [kind |-> IF u = Given THEN "images" ELSE None,
                             at |-> IF u = Given THEN "done" ELSE "new",
                             path |-> None, pages |-> {}]]
  /\ job = [u \in Request |-> [at |-> "none", attempts |-> 0, stalls |-> 0]]
  /\ reader = [r \in Reader |-> NoManifest]
  /\ cached = [v \in Version |-> None]
  /\ met = {} /\ typed = FALSE /\ stops = 0 /\ reads = 0 /\ edits = 0

-----------------------------------------------------------------------------
Running(u) == op[u].at \notin {"new", "done", "stopped"}
Converting(u) == job[u].at \in {"waiting", "check", "pages", "manifest", "ready", "source", "clear"}
Alive(u) == Running(u) \/ Converting(u)

At(u, at) == op[u].at = at
Do(u, kind, at) == op[u].kind = kind /\ op[u].at = at
GoTo(u, at) == op' = [op EXCEPT ![u].at = at]
Become(u, rec) == op' = [op EXCEPT ![u] = rec]
End(u, at) == Become(u, [op[u] EXCEPT !.at = at, !.path = None, !.pages = {}])

\* A request reads the chapter row, and what it finds there decides where it goes on.
Begin(u, kind, at, path) ==
  /\ At(u, "new")
  /\ Become(u, [kind |-> kind, at |-> at, path |-> path, pages |-> {}])
  /\ LET others == {v \in Request \ {u} : Alive(v)} IN
     met' = IF others = {} THEN met ELSE met \cup others \cup {u}
  /\ UNCHANGED <<row, object, job, reader, cached, bounds>>

OpOnly == UNCHANGED <<row, object, job, reader, cached, met, bounds>>
StorageOnly == UNCHANGED <<row, job, reader, cached, met, bounds>>
RowOnly == UNCHANGED <<object, job, reader, cached, met, bounds>>

(***************************************************************************)
(* chapter-content.service.ts                                              *)
(***************************************************************************)
\* uploadImages: a new prefix; the old one is removed at the end.
UploadImages(u) == Begin(u, "images", "put", chapter.path)

PutImages(u) ==
  /\ Do(u, "images", "put")
  /\ object' = [object EXCEPT ![u].pages = {u}]
  /\ GoTo(u, "manifest") /\ StorageOnly
PutImagesManifest(u) ==
  /\ Do(u, "images", "manifest")
  /\ object' = [object EXCEPT ![u].manifest = {u}]
  /\ GoTo(u, "update") /\ StorageOnly
\* Mutant: the clean-up removes the prefix that is active now.
CleanUpActive(u) ==
  /\ Do(u, "images", "cleanup")
  /\ object' = [v \in Request |-> IF v = chapter.path THEN Empty ELSE object[v]]
  /\ End(u, "done") /\ StorageOnly

CleanUp(u) ==
  /\ Do(u, "images", "cleanup")
  /\ object' = [v \in Request |-> IF v = op[u].path THEN Empty ELSE object[v]]
  /\ End(u, "done") /\ StorageOnly

\* appendImages: into the active prefix, or a new one.
AppendImages(u) ==
  Begin(u, "append", "read", IF chapter.path = None THEN u ELSE chapter.path)

\* readManifest returns null whatever is wrong, and an append then starts from no pages.
ReadForAppend(u) ==
  /\ Do(u, "append", "read")
  /\ \E m \in {object[op[u].path].manifest, None} :
       Become(u, [op[u] EXCEPT !.at = "put", !.pages = IF m = None THEN {} ELSE m])
  /\ OpOnly
PutAppended(u) ==
  /\ Do(u, "append", "put")
  /\ object' = [object EXCEPT ![op[u].path].pages = @ \cup {u}]
  /\ Become(u, [op[u] EXCEPT !.at = "manifest", !.pages = @ \cup {u}])
  /\ StorageOnly

\* The manifest is replaced by the one the request has put together.
PutManifest(u) ==
  /\ op[u].kind \in {"append", "deletePages"} /\ At(u, "manifest")
  /\ object' = [object EXCEPT ![op[u].path].manifest = op[u].pages]
  /\ GoTo(u, "update") /\ StorageOnly

\* deleteImages: without an active prefix, or a manifest that can be read, it refuses.
DeleteImages(u) == chapter.path # None /\ Begin(u, "deletePages", "read", chapter.path)

RemovePages(u, listed, removed) ==
  /\ object' = [object EXCEPT ![op[u].path].pages = @ \ removed]
  /\ Become(u, [op[u] EXCEPT !.at = IF removed = listed THEN "prefix" ELSE "manifest",
                             !.pages = listed \ removed])
  /\ StorageOnly
ReadForDelete(u) ==
  LET m == object[op[u].path].manifest IN
  /\ Do(u, "deletePages", "read")
  /\ \/ End(u, "done") /\ OpOnly
     \/ m # None /\ \E removed \in (SUBSET m) \ {{}} : RemovePages(u, m, removed)
DeletePrefix(u) ==
  /\ Do(u, "deletePages", "prefix")
  /\ object' = [object EXCEPT ![op[u].path] = Empty]
  /\ Become(u, [op[u] EXCEPT !.at = "update", !.path = None])
  /\ StorageOnly

\* deleteContent removes everything under the prefix of the chapter, in whatever state.
DeleteContent(u) == Begin(u, "delete", "wipe", None)
Wipe(u) ==
  /\ Do(u, "delete", "wipe")
  /\ object' = [v \in Request |-> Empty]
  /\ GoTo(u, "update") /\ StorageOnly

\* Mutant: the content version stays.
UpdateChapterSameVersion(u) ==
  /\ op[u].kind \in InPlace /\ At(u, "update")
  /\ chapter' = IF op[u].kind = "images"
                THEN [chapter EXCEPT !.status = "READY", !.path = u, !.key = None, !.pageCount = 1]
                ELSE [status |-> IF op[u].pages = {} THEN "EMPTY" ELSE "READY", path |-> op[u].path,
                      key |-> None, version |-> chapter.version,
                      pageCount |-> Cardinality(op[u].pages)]
  /\ typed' = FALSE
  /\ GoTo(u, "clear") /\ RowOnly

\* updateChapterAfterContentChange of an images request sets the new prefix.
UpdateChapter(u) ==
  LET path == IF op[u].kind = "images" THEN u ELSE op[u].path
      pages == IF op[u].kind = "images" THEN {u} ELSE op[u].pages
  IN
  /\ op[u].kind \in InPlace /\ At(u, "update")
  /\ chapter' = [status |-> IF pages = {} THEN "EMPTY" ELSE "READY", path |-> path, key |-> None,
                 version |-> chapter.version + 1, pageCount |-> Cardinality(pages)]
  /\ typed' = FALSE
  /\ GoTo(u, "clear") /\ RowOnly

\* clearChapterManifestCache, of the version as it is now.
ClearCurrent == cached' = [cached EXCEPT ![chapter.version] = None]
ClearCache(u) ==
  /\ op[u].kind \in InPlace /\ At(u, "clear")
  /\ ClearCurrent
  /\ IF op[u].kind = "images" /\ op[u].path # None THEN GoTo(u, "cleanup") ELSE End(u, "done")
  /\ UNCHANGED <<row, object, job, reader, met, bounds>>

\* updateChapter of chapters.service.ts writes the path it is given, by id: no version, no
\* page count, no cache is touched, and nothing looks whether a manifest is there.  The
\* name of a prefix is random and known to nobody while its request still runs; one that
\* ended without a manifest stands for any path with nothing under it.
EditPath(path) ==
  /\ edits < MaxEdits /\ path # chapter.path
  /\ path # None => op[path].at \in {"done", "stopped"} /\ ~Converting(path) /\ chapter.key # path
  /\ chapter' = [chapter EXCEPT !.path = path]
  /\ typed' = TRUE /\ edits' = edits + 1
  /\ UNCHANGED <<object, op, job, reader, cached, met, stops, reads>>

(***************************************************************************)
(* Uploads of a text, PDF or EPUB file                                     *)
(***************************************************************************)
\* Refused while a file is processed; the row is not locked.
UploadFile(u) == chapter.status # "PROCESSING" /\ Begin(u, "file", "put", None)

PutSource(u) ==
  /\ Do(u, "file", "put")
  /\ object' = [object EXCEPT ![u].source = TRUE]
  /\ GoTo(u, "mark") /\ StorageOnly
\* Mutant: contentKey is not written.
MarkProcessingWithoutKey(u) ==
  /\ Do(u, "file", "mark")
  /\ chapter' = [chapter EXCEPT !.status = "PROCESSING"]
  /\ GoTo(u, "enqueue") /\ UNCHANGED typed /\ RowOnly

MarkProcessing(u) ==
  /\ Do(u, "file", "mark")
  /\ chapter' = [chapter EXCEPT !.status = "PROCESSING", !.key = u]
  /\ GoTo(u, "enqueue") /\ UNCHANGED typed /\ RowOnly
Enqueue(u) ==
  /\ Do(u, "file", "enqueue")
  /\ job' = [job EXCEPT ![u] = [at |-> "waiting", attempts |-> MaxAttempts, stalls |-> 0]]
  /\ End(u, "done")
  /\ UNCHANGED <<row, object, reader, cached, met, bounds>>

(***************************************************************************)
(* The job, one attempt after the other                                    *)
(***************************************************************************)
JobAt(u, at) == job[u].at = at
JobGoTo(u, at) == job' = [job EXCEPT ![u].at = at]
\* A job that is gone from the queue.
JobEnds(u, at) == job' = [job EXCEPT ![u] = [at |-> at, attempts |-> 0, stalls |-> 0]]
JobOnly == UNCHANGED <<row, object, op, reader, cached, met, bounds>>
JobStorage == UNCHANGED <<row, op, reader, cached, met, bounds>>

LoadSource(u) == JobAt(u, "waiting") /\ object[u].source /\ JobGoTo(u, "check") /\ JobOnly

\* "Skipping outdated .. job": contentKey names another source, or none.
CheckKey(u) ==
  /\ JobAt(u, "check")
  /\ JobGoTo(u, IF chapter.key = u THEN "pages" ELSE "skipped") /\ JobOnly

ConvertPages(u) ==
  /\ JobAt(u, "pages")
  /\ object' = [object EXCEPT ![u].pages = @ \cup {u}]
  /\ JobGoTo(u, "manifest") /\ JobStorage
WriteManifest(u) ==
  /\ JobAt(u, "manifest")
  /\ object' = [object EXCEPT ![u].manifest = {u}]
  /\ JobGoTo(u, "ready") /\ JobStorage

\* contentKey is not compared again.
MakeReady(u) ==
  /\ JobAt(u, "ready")
  /\ chapter' = [status |-> "READY", path |-> u, key |-> None,
                 version |-> chapter.version + 1, pageCount |-> 1]
  /\ typed' = FALSE
  /\ JobGoTo(u, "source")
  /\ UNCHANGED <<object, op, reader, cached, met, bounds>>
DeleteSource(u) ==
  /\ JobAt(u, "source")
  /\ object' = [object EXCEPT ![u].source = FALSE]
  /\ JobGoTo(u, "clear") /\ JobStorage
FinishJob(u) ==
  /\ JobAt(u, "clear")
  /\ ClearCurrent
  /\ JobEnds(u, "done")
  /\ UNCHANGED <<row, object, op, reader, met, bounds>>

\* BullMQ counts the attempt that threw, and makes another while some are left.
CountAttempt(u, end) ==
  IF job[u].attempts > 1
  THEN job' = [job EXCEPT ![u].attempts = @ - 1, ![u].at = "waiting"]
  ELSE JobEnds(u, end)

\* Mutant: the source is loaded outside the try.
FailJobInsideTry(u) ==
  /\ Converting(u)
  /\ chapter' = IF JobAt(u, "waiting") THEN chapter
                ELSE [chapter EXCEPT !.status = "FAILED", !.key = None]
  /\ CountAttempt(u, "failed")
  /\ UNCHANGED <<object, op, reader, cached, met, typed, bounds>>

\* Any step throws, the last ones too, and so does a source that is gone: the handler
\* marks the chapter, whichever file it is about now, and BullMQ counts the attempt.
FailJob(u) ==
  /\ Converting(u)
  /\ chapter' = [chapter EXCEPT !.status = "FAILED", !.key = None]
  /\ CountAttempt(u, "failed")
  /\ UNCHANGED <<object, op, reader, cached, met, typed, bounds>>

\* Nothing marks the chapter when a statement before the try throws, or the handler's own.
FailJobUnrecorded(u) ==
  /\ Converting(u)
  /\ CountAttempt(u, "unrecorded")
  /\ JobOnly

\* The worker stops: BullMQ gives the job to another, so many times.
StallJob(u) ==
  /\ Converting(u) /\ ~JobAt(u, "waiting")
  /\ IF job[u].stalls < MaxStalls
       THEN job' = [job EXCEPT ![u].stalls = @ + 1, ![u].at = "waiting"]
       ELSE JobEnds(u, "stalled")
  /\ JobOnly

\* The server of a request stops.
StopRequest(u) ==
  /\ stops < MaxStops /\ Running(u)
  /\ End(u, "stopped") /\ stops' = stops + 1
  /\ UNCHANGED <<row, object, job, reader, cached, met, reads, edits>>

(***************************************************************************)
(* reader.service.ts                                                       *)
(***************************************************************************)
ReaderOnly == UNCHANGED <<row, object, op, job, cached, met, stops, edits>>
ReaderGoes(r, rec) == reader' = [reader EXCEPT ![r] = rec]
\* verifyToken: the token names the version the chapter has.
VerifyToken(r) ==
  /\ reader[r].at = "idle" /\ reads < MaxReads /\ chapter.path # None
  /\ ReaderGoes(r, [NoManifest EXCEPT !.at = "path", !.version = chapter.version])
  /\ reads' = reads + 1 /\ ReaderOnly
\* getManifestByPayload reads the path again, and the cache under the token's version.
FindManifest(r) ==
  /\ reader[r].at = "path"
  /\ IF chapter.path = None \/ cached[reader[r].version] # None
     THEN ReaderGoes(r, NoManifest)
     ELSE ReaderGoes(r, [reader[r] EXCEPT !.at = "load", !.path = chapter.path])
  /\ UNCHANGED reads /\ ReaderOnly
LoadManifest(r) ==
  LET m == object[reader[r].path].manifest IN
  /\ reader[r].at = "load"
  /\ IF m = None THEN ReaderGoes(r, NoManifest)
     ELSE ReaderGoes(r, [reader[r] EXCEPT !.at = "store", !.manifest = m])
  /\ UNCHANGED reads /\ ReaderOnly
StoreManifest(r) ==
  /\ reader[r].at = "store"
  /\ cached' = [cached EXCEPT ![reader[r].version] = reader[r].manifest]
  /\ ReaderGoes(r, NoManifest)
  /\ UNCHANGED <<row, object, op, job, met, bounds>>

-----------------------------------------------------------------------------
Start(u) == \/ UploadImages(u) \/ AppendImages(u) \/ DeleteImages(u) \/ DeleteContent(u)
            \/ UploadFile(u)
Continue(u) ==
  \/ PutImages(u) \/ PutImagesManifest(u) \/ CleanUp(u)
  \/ ReadForAppend(u) \/ PutAppended(u) \/ PutManifest(u)
  \/ ReadForDelete(u) \/ DeletePrefix(u) \/ Wipe(u)
  \/ UpdateChapter(u) \/ ClearCache(u)
  \/ PutSource(u) \/ MarkProcessing(u) \/ Enqueue(u)
Convert(u) ==
  \/ LoadSource(u) \/ CheckKey(u) \/ ConvertPages(u) \/ WriteManifest(u)
  \/ MakeReady(u) \/ DeleteSource(u) \/ FinishJob(u) \/ FailJob(u) \/ FailJobUnrecorded(u)
Read(r) == VerifyToken(r) \/ FindManifest(r) \/ LoadManifest(r) \/ StoreManifest(r)

Next == \/ \E u \in Request : Start(u) \/ Continue(u) \/ Convert(u) \/ StallJob(u) \/ StopRequest(u)
        \/ \E path \in Request \cup {None} : EditPath(path)
        \/ \E r \in Reader : Read(r)
Spec == Init /\ [][Next]_vars

\* A request that has marked the chapter goes on to queue the job, unless it stops, and
\* BullMQ's workers take up every job that waits.
FairSpec == Spec /\ \A u \in Request : WF_vars(Enqueue(u)) /\ WF_vars(Convert(u))

-----------------------------------------------------------------------------
(***************************************************************************)
(* Properties                                                              *)
(***************************************************************************)
TypeOK ==
  /\ chapter \in [status : {"EMPTY", "READY", "PROCESSING", "FAILED"}, path : Request \cup {None},
                  key : Request \cup {None}, version : Version, pageCount : 0..Cardinality(Request)]
  /\ object \in [Request -> [source : BOOLEAN, pages : SUBSET Request, manifest : Manifest \cup {None}]]
  /\ cached \in [Version -> Manifest \cup {None}]
  /\ met \subseteq Request /\ typed \in BOOLEAN
  /\ chapter.status = "PROCESSING" <=> chapter.key # None

\* A request that changes what readers see ran together with another, or stopped halfway.
Visible == {"append", "deletePages", "delete"}
Mixed == \E u \in Request : op[u].kind \in Visible /\ (u \in met \/ At(u, "stopped"))

\* Whatever path the chapter names can be read: there is a manifest, all its pages are
\* stored, and pageCount counts them; while a file is converted, after it failed or its
\* worker stalled, and while new images replace old ones; only an append or a deletion
\* shows its steps while it runs, and a path that was typed may name anything until the
\* next upload, append or deletion.
ContentIsReadable ==
  \/ typed \/ chapter.path = None \/ Mixed
  \/ \E u \in Request : Running(u) /\ op[u].kind \in Visible
  \/ LET o == object[chapter.path] IN
     o.manifest # None /\ o.manifest \subseteq o.pages /\ chapter.pageCount = Cardinality(o.manifest)

\* A chapter that is PROCESSING, which refuses every other file, has a job that will say
\* how it ended, or will get one: whatever requests and jobs run into each other.  The
\* exceptions stay PROCESSING for ever: the request stopped before it queued the job, the
\* job stalled once too often (text-processing.service.ts:180), or its last attempt threw
\* where nothing records it (pdf-processing.service.ts:186 and :275).
ProcessingHasJob ==
  chapter.status = "PROCESSING" =>
    LET u == chapter.key IN
    \/ At(u, "enqueue") \/ At(u, "stopped")
    \/ job[u].at \in {"waiting", "check", "pages", "manifest", "ready", "stalled", "unrecorded"}

\* The manifest that is cached for the current version is the one in storage, unless the
\* path was typed: the version, and what is cached for it, is then that of another path.
CachedManifestIsCurrent ==
  LET m == cached[chapter.version] IN
  \/ typed \/ chapter.path = None \/ m = None \/ Mixed
  \/ \E u \in Request : Running(u) /\ op[u].kind \in Visible
  \/ m = object[chapter.path].manifest

\* A file that was accepted is converted or reported as failed: its job gives up as
\* outdated only when another request met it, or when its own first attempt failed
\* (which clears contentKey, so that the attempts BullMQ still makes give up).
OnlyOvertakenIsSkipped ==
  \A u \in Request : job[u].at = "skipped" =>
    u \in met \/ job[u].attempts < MaxAttempts \/ job[u].stalls > 0

\* PROCESSING ends, unless no job is left to end it.
ProcessingEnds ==
  []<>(\/ chapter.status # "PROCESSING"
       \/ At(chapter.key, "stopped") \/ job[chapter.key].at \in {"stalled", "unrecorded"})
=============================================================================
