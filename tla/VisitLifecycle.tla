--------------------------- MODULE VisitLifecycle ---------------------------
(***************************************************************************)
(* A visit from its planning to the document on its case: the status and   *)
(* its log (internal.UpdateVisitStatus), the response with its assets and  *)
(* images (api/v1_visitEndpoints.go), the review that uploads a report to  *)
(* AdvoPro (api/v1_visitReview.go, internal/advopro_document_upload.go).   *)
(*                                                                         *)
(* No handler uses a transaction on the visits' database: a step below is  *)
(* one statement, one file operation or one commit, and a worker's job     *)
(* says which comes next and what the handler remembers.  No handler looks *)
(* at the status before it acts, so any of them may be called at any time. *)
(*                                                                         *)
(* "faults" counts what the code does not repair: a crash of the server    *)
(* within a request, a commit whose answer is lost, a clean-up or a log    *)
(* entry that fails.  A failed statement that only ends the request is not *)
(* counted, it may happen at every step.                                   *)
(* Left out: deleted visits (RoutePlanning), the report's content, the     *)
(* temporary file of the report.  "Mutant" marks a definition with a       *)
(* mistake, which is not part of the model.                                *)
(***************************************************************************)
EXTENDS Naturals, Sequences, FiniteSets

CONSTANTS
    Visits,
    Workers,     \* requests that may be under way at once
    Handlers,    \* the handlers clients call
    Overlapping, \* FALSE: a request is answered before the next arrives
    Title,       \* per visit, the case and the title of its report
    Lists,       \* the lists of other assets a client posts
    Answers,     \* the answers a client posts, Blank for a field left empty
    Batches,     \* bound: posts whose assets are stored at the same time
    Images,      \* bound: images of visits
    Names,       \* bound: file names ImportDocument draws
    Rounds,      \* bound: the lists of visits a review is asked for
    MaxLog,      \* bound: log entries of a visit, those of reviews aside
    MaxFaults,   \* bound: faults
    None         \* no row, nothing remembered

Blank == "blank"

ASSUME LifecycleAssumption ==
    /\ Overlapping \in BOOLEAN
    /\ Rounds \subseteq Seq(Visits) \ {<<>>}
    /\ \A list \in Lists, answers \in Answers, batch \in Batches :
         None # [list |-> list, answers |-> answers, batch |-> batch]
    /\ \A answers \in Answers, completed \in BOOLEAN :
         None # [answers |-> answers, completed |-> completed]
    /\ \A list \in Lists : IsFiniteSet(list)
    /\ MaxLog \in Nat
    /\ MaxFaults \in Nat

VARIABLES
    status,    \* visits.status_id
    log,       \* per visit, its visit_status_logs
    response,  \* per visit, its row of visit_responses, or None
    assets,    \* rows of assets that are not deleted
    images,    \* rows of visit_response_images
    pictures,  \* the images whose file is on the disk
    documents, \* documents of the cases, in AdvoPro's database
    caseFiles, \* files in the folders of the cases
    job,       \* per worker, the request it serves
    accepted,  \* per visit, the last post, or None when it was not answered "200"
    faults

responseVars == <<response, assets>>
imageVars == <<images, pictures>>
caseVars == <<documents, caseFiles>>
vars == <<status, log, responseVars, imageVars, caseVars, job, accepted, faults>>

----------------------------------------------------------------------------
NotPlanned == 1
Planned == 2
ReadyToVisit == 3
ToReview == 4
Exported == 5
PendingCompletion == 6

\* The status a handler sets when its work is done.
Target == [AssignVisitsToGroup |-> Planned,
           VisitLetterSent |-> ReadyToVisit,
           CreateVisitResponse |-> PendingCompletion,
           CompleteVisitResponse |-> ToReview,
           ReviewedVisit |-> Exported]

Idle == [at |-> "idle"]

Init ==
    /\ status = [v \in Visits |-> NotPlanned]
    /\ log = [v \in Visits |-> <<>>]
    /\ response = [v \in Visits |-> None]
    /\ assets = {} /\ images = {} /\ pictures = {}
    /\ documents = {} /\ caseFiles = {}
    /\ job = [w \in Workers |-> Idle]
    /\ accepted = [v \in Visits |-> None]
    /\ faults = 0

Quiet == \A w \in Workers : job[w] = Idle

Fault == faults < MaxFaults /\ faults' = faults + 1

\* Worker w takes a request to handler h about visit v. "held" is what the
\* handler remembers from one step to the next.
Take(w, h, v, j) ==
    /\ h \in Handlers
    /\ job[w] = Idle
    /\ Overlapping \/ Quiet
    /\ job' = [job EXCEPT ![w] = [handler |-> h, visit |-> v, at |-> j.at,
                                  rest |-> j.rest, post |-> j.post, held |-> j.held]]
From(step) == [at |-> step, rest |-> <<>>, post |-> None, held |-> None]

At(w, step) == job[w].at = step
Go(w, step) == job' = [job EXCEPT ![w].at = step]
GoHolding(w, step, held) == job' = [job EXCEPT ![w].at = step, ![w].held = held]

\* The work on one visit ends: a review goes on with its next visit, every
\* other handler answers.
NextVisit(j) ==
    [j EXCEPT !.at = "load", !.visit = Head(j.rest), !.rest = Tail(j.rest), !.held = None]

Finish(w) ==
    job' = [job EXCEPT ![w] = IF job[w].rest = <<>> THEN Idle ELSE NextVisit(job[w])]

\* A statement or a file operation fails where the handler has nothing to undo:
\* it answers with an error, or a review goes on with its next visit.
StepFails(w) ==
    /\ job[w].at \in {"find", "upsert", "reset", "list", "asset", "completed",
                      "load", "title", "copy", "readStatus", "writeStatus"}
    /\ Finish(w)
    /\ UNCHANGED <<status, log, responseVars, imageVars, caseVars, accepted, faults>>

\* The server stops, and is started again.
Crash ==
    /\ ~Quiet
    /\ job' = [w \in Workers |-> Idle]
    /\ Fault
    /\ UNCHANGED <<status, log, responseVars, imageVars, caseVars, accepted>>

----------------------------------------------------------------------------
\* UpdateVisitStatus, in three statements, and the answer of its caller.

\* The client of a post is told that all of it is stored.
Answered(j) ==
    accepted' = IF j.handler = "CreateVisitResponse"
                THEN [accepted EXCEPT ![j.visit] = j.post]
                ELSE accepted

\* "the record is already in that status code" is no error for a response, and
\* the end of the work on a visit for a review.
ReadStatus(w) ==
    LET j == job[w]
        old == status[j.visit]
    IN  /\ At(w, "readStatus")
        /\ \/ /\ old = Target[j.handler]
              /\ Finish(w)
              /\ Answered(j)
           \/ /\ old # Target[j.handler]
              /\ GoHolding(w, "writeStatus", old)
              /\ UNCHANGED accepted
        /\ UNCHANGED <<status, log, responseVars, imageVars, caseVars, faults>>

WriteStatus(w) ==
    /\ At(w, "writeStatus")
    /\ status' = [status EXCEPT ![job[w].visit] = Target[job[w].handler]]
    /\ Go(w, "writeLog")
    /\ UNCHANGED <<log, responseVars, imageVars, caseVars, accepted, faults>>

\* Mutant: the old status is taken from the record that Update has changed.
EntryAfterUpdate(j) == [old |-> Target[j.handler], new |-> Target[j.handler]]

Entry(j) == [old |-> j.held, new |-> Target[j.handler]]

WriteLog(w) ==
    /\ At(w, "writeLog")
    /\ log' = [log EXCEPT ![job[w].visit] = Append(@, Entry(job[w]))]
    /\ Finish(w)
    /\ Answered(job[w])
    /\ UNCHANGED <<status, responseVars, imageVars, caseVars, faults>>

LogFails(w) ==
    /\ At(w, "writeLog")
    /\ Finish(w)
    /\ Fault
    /\ UNCHANGED <<status, log, responseVars, imageVars, caseVars, accepted>>

MayLog(v) == Len(log[v]) < MaxLog

VisitLetterSent(w, v) ==
    /\ MayLog(v)
    /\ Take(w, "VisitLetterSent", v, From("readStatus"))
    /\ UNCHANGED <<status, log, responseVars, imageVars, caseVars, accepted, faults>>

\* The transaction that gives the visit a group also plans it; the update that
\* would log this comes after it. A visit at a time: RoutePlanning has the group.
AssignVisitsToGroup(w, v) ==
    /\ MayLog(v)
    /\ Take(w, "AssignVisitsToGroup", v, From("readStatus"))
    /\ status' = [status EXCEPT ![v] = Planned]
    /\ UNCHANGED <<log, responseVars, imageVars, caseVars, accepted, faults>>

----------------------------------------------------------------------------
\* CreateVisitResponse: find the row or create it, replace the list of assets.

\* The rows of one insert. The ids are new: a batch is that of one post, and
\* "nested" are the rows gorm inserts along with the response.
Rows(j, insert) ==
    {[visit |-> j.visit, batch |-> j.post.batch, insert |-> insert, item |-> i,
      image |-> FALSE] : i \in j.post.list}

Busy(handler) == {w \in Workers : job[w] # Idle /\ job[w].handler = handler}

BatchesInUse ==
    {a.batch : a \in assets}
    \cup {job[w].post.batch : w \in Busy("CreateVisitResponse")}
    \cup {job[w].held.batch : w \in Busy("UploadAssetImage")}

CreateVisitResponse(w, v) ==
    /\ MayLog(v)
    /\ \E list \in Lists, answers \in Answers, batch \in Batches \ BatchesInUse :
         Take(w, "CreateVisitResponse", v,
              [From("find") EXCEPT !.post =
                  [list |-> list, answers |-> answers, batch |-> batch]])
    /\ accepted' = [accepted EXCEPT ![v] = None]
    /\ UNCHANGED <<status, log, responseVars, imageVars, caseVars, faults>>

FindResponse(w) ==
    /\ At(w, "find")
    /\ GoHolding(w, "upsert", response[job[w].visit])
    /\ UNCHANGED <<status, log, responseVars, imageVars, caseVars, accepted, faults>>

\* visit_id is unique: the second of two creations fails.
CreateResponse(w) ==
    LET v == job[w].visit
    IN  /\ At(w, "upsert")
        /\ job[w].held = None
        /\ response[v] = None
        /\ response' = [response EXCEPT ![v] =
                          [answers |-> job[w].post.answers, completed |-> FALSE]]
        /\ assets' = assets \cup Rows(job[w], "nested")
        /\ Go(w, "reset")
        /\ UNCHANGED <<status, log, imageVars, caseVars, accepted, faults>>

\* Mutant: the upsert replaces the whole row.
ReplaceResponse(w) ==
    LET v == job[w].visit
    IN  /\ At(w, "upsert")
        /\ job[w].held # None
        /\ response' = [response EXCEPT ![v] =
                          [answers |-> job[w].post.answers, completed |-> FALSE]]
        /\ assets' = assets \cup Rows(job[w], "nested")
        /\ Go(w, "reset")
        /\ UNCHANGED <<status, log, imageVars, caseVars, accepted, faults>>

\* Updates leaves the columns whose posted value is empty.
UpdateResponse(w) ==
    LET v == job[w].visit
        posted == job[w].post.answers
    IN  /\ At(w, "upsert")
        /\ job[w].held # None
        /\ response' = [response EXCEPT ![v].answers = IF posted = Blank THEN @ ELSE posted]
        /\ assets' = assets \cup Rows(job[w], "nested")
        /\ Go(w, "reset")
        /\ UNCHANGED <<status, log, imageVars, caseVars, accepted, faults>>

AssetsOf(v) == {a \in assets : a.visit = v}

\* Mutant: what an earlier post stored is kept.
AssetsOfBatch(v) == {a \in AssetsOf(v) : a.insert = "nested"}

Wiped(v) == AssetsOf(v)

ResetAssets(w) ==
    /\ At(w, "reset")
    /\ assets' = assets \ Wiped(job[w].visit)
    /\ Go(w, "list")
    /\ UNCHANGED <<status, log, response, imageVars, caseVars, accepted, faults>>

ListAssets(w) ==
    /\ At(w, "list")
    /\ assets' = assets \cup Rows(job[w], "listed")
    /\ Go(w, "readStatus")
    /\ UNCHANGED <<status, log, response, imageVars, caseVars, accepted, faults>>

----------------------------------------------------------------------------
\* CompleteVisitResponse, UploadAssetImage and UploadVisitImage.

CompleteVisitResponse(w, v) ==
    /\ MayLog(v)
    /\ response[v] # None
    /\ Take(w, "CompleteVisitResponse", v,
            [From("completed") EXCEPT !.held = response[v]])
    /\ UNCHANGED <<status, log, responseVars, imageVars, caseVars, accepted, faults>>

\* Save writes the whole row as it was read.
SaveCompleted(w) ==
    /\ At(w, "completed")
    /\ response' = [response EXCEPT ![job[w].visit] = [job[w].held EXCEPT !.completed = TRUE]]
    /\ Go(w, "readStatus")
    /\ UNCHANGED <<status, log, assets, imageVars, caseVars, accepted, faults>>

UploadAssetImage(w, a) ==
    /\ Take(w, "UploadAssetImage", a.visit, [From("asset") EXCEPT !.held = a])
    /\ UNCHANGED <<status, log, responseVars, imageVars, caseVars, accepted, faults>>

\* Save inserts the row again when it was deleted since it was read.
SaveAsset(w) ==
    LET a == job[w].held
    IN  /\ At(w, "asset")
        /\ assets' = {b \in assets : b # [a EXCEPT !.image = b.image]}
                        \cup {[a EXCEPT !.image = TRUE]}
        /\ Finish(w)
        /\ UNCHANGED <<status, log, response, imageVars, caseVars, accepted, faults>>

\* Mutant: the row names its file from the beginning.
UploadVisitImageNamed(w, v) ==
    /\ response[v] # None
    /\ \E i \in Images \ {image.id : image \in images} :
         /\ Take(w, "UploadVisitImage", v, [From("picture") EXCEPT !.held = i])
         /\ images' = images \cup {[id |-> i, visit |-> v, path |-> "stored"]}
    /\ UNCHANGED <<status, log, responseVars, pictures, caseVars, accepted, faults>>

\* The row is created before the file, whose name contains its id.
UploadVisitImage(w, v) ==
    /\ response[v] # None
    /\ \E i \in Images \ {image.id : image \in images} :
         /\ Take(w, "UploadVisitImage", v, [From("picture") EXCEPT !.held = i])
         /\ images' = images \cup {[id |-> i, visit |-> v, path |-> "pending"]}
    /\ UNCHANGED <<status, log, responseVars, pictures, caseVars, accepted, faults>>

SavePicture(w) ==
    /\ At(w, "picture")
    /\ pictures' = pictures \cup {job[w].held}
    /\ Go(w, "path")
    /\ UNCHANGED <<status, log, responseVars, images, caseVars, accepted, faults>>

RowOf(i) == {image \in images : image.id = i}

\* Mutant: the row stays when its file could not be saved.
PictureFailsOnly(w) ==
    /\ At(w, "picture")
    /\ Finish(w)
    /\ UNCHANGED <<status, log, responseVars, imageVars, caseVars, accepted, faults>>

PictureFails(w) ==
    /\ At(w, "picture")
    /\ \/ images' = images \ RowOf(job[w].held) /\ UNCHANGED faults
       \/ Fault /\ UNCHANGED images
    /\ Finish(w)
    /\ UNCHANGED <<status, log, responseVars, pictures, caseVars, accepted>>

\* The answer of the last Save is ignored.
SavePath(w) ==
    /\ At(w, "path")
    /\ \/ /\ images' = (images \ RowOf(job[w].held))
                         \cup {[r EXCEPT !.path = "stored"] : r \in RowOf(job[w].held)}
          /\ UNCHANGED faults
       \/ Fault /\ UNCHANGED images
    /\ Finish(w)
    /\ UNCHANGED <<status, log, responseVars, pictures, caseVars, accepted>>

----------------------------------------------------------------------------
\* ReviewedVisit, and ImportDocument for each of its visits.

\* AdvoPro has answered the ping.
ReviewedVisit(w) ==
    /\ \E ids \in Rounds :
         Take(w, "ReviewedVisit", Head(ids), [From("load") EXCEPT !.rest = Tail(ids)])
    /\ UNCHANGED <<status, log, responseVars, imageVars, caseVars, accepted, faults>>

\* Mutant: the status is set before the document is uploaded.
LoadVisitForStatus(w) ==
    /\ At(w, "load")
    /\ response[job[w].visit] # None
    /\ Go(w, "readStatus")
    /\ UNCHANGED <<status, log, responseVars, imageVars, caseVars, accepted, faults>>

\* The visit and its response are read, the report is made.
LoadVisit(w) ==
    /\ At(w, "load")
    /\ \/ response[job[w].visit] # None /\ Go(w, "title")
       \/ response[job[w].visit] = None /\ Finish(w)
    /\ UNCHANGED <<status, log, responseVars, imageVars, caseVars, accepted, faults>>

\* Mutant: no idempotency guard.
ExistsNowhere(title) == FALSE

documentExists(title) == \E d \in documents : d.title = title

CheckTitle(w) ==
    /\ At(w, "title")
    /\ \/ documentExists(Title[job[w].visit]) /\ Finish(w)
       \/ ~documentExists(Title[job[w].visit]) /\ Go(w, "copy")
    /\ UNCHANGED <<status, log, responseVars, imageVars, caseVars, accepted, faults>>

NamesInUse ==
    caseFiles \cup {d.file : d \in documents}
    \cup {job[w].held : w \in {x \in Workers : At(x, "commit")}}

CopyFile(w) ==
    /\ At(w, "copy")
    /\ \E name \in Names \ NamesInUse :
         /\ caseFiles' = caseFiles \cup {name}
         /\ GoHolding(w, "commit", name)
    /\ UNCHANGED <<status, log, responseVars, imageVars, documents, accepted, faults>>

Document(j) == [title |-> Title[j.visit], visit |-> j.visit, file |-> j.held]

CommitDocument(w) ==
    /\ At(w, "commit")
    /\ documents' = documents \cup {Document(job[w])}
    /\ Go(w, "readStatus")
    /\ UNCHANGED <<status, log, responseVars, imageVars, caseFiles, accepted, faults>>

\* Mutant: the copied file is left behind.
KeepFile(name) == caseFiles

cleanupFile(name) == caseFiles \ {name}

\* The connection, a statement or the commit fails: the transaction is rolled
\* back and the file removed, unless removing it fails too.
ImportFails(w) ==
    /\ At(w, "commit")
    /\ \/ caseFiles' = cleanupFile(job[w].held) /\ UNCHANGED faults
       \/ Fault /\ UNCHANGED caseFiles
    /\ Finish(w)
    /\ UNCHANGED <<status, log, responseVars, imageVars, documents, accepted>>

\* The commit succeeds but its answer is lost: the file is removed all the same.
CommitAnswerLost(w) ==
    /\ At(w, "commit")
    /\ documents' = documents \cup {Document(job[w])}
    /\ caseFiles' = cleanupFile(job[w].held)
    /\ Finish(w)
    /\ Fault
    /\ UNCHANGED <<status, log, responseVars, imageVars, accepted>>

----------------------------------------------------------------------------
Step(w) ==
    \/ ReadStatus(w) \/ WriteStatus(w) \/ WriteLog(w)
    \/ FindResponse(w) \/ CreateResponse(w) \/ UpdateResponse(w)
    \/ ResetAssets(w) \/ ListAssets(w)
    \/ SaveCompleted(w) \/ SaveAsset(w) \/ SavePicture(w) \/ SavePath(w)
    \/ LoadVisit(w) \/ CheckTitle(w) \/ CopyFile(w) \/ CommitDocument(w)

Failure(w) ==
    StepFails(w) \/ LogFails(w) \/ PictureFails(w) \/ ImportFails(w) \/ CommitAnswerLost(w)

Request(w) ==
    \/ \E v \in Visits :
         \/ AssignVisitsToGroup(w, v) \/ VisitLetterSent(w, v)
         \/ CreateVisitResponse(w, v) \/ CompleteVisitResponse(w, v)
         \/ UploadVisitImage(w, v)
    \/ \E a \in assets : UploadAssetImage(w, a)
    \/ ReviewedVisit(w)

Next == Crash \/ \E w \in Workers : Request(w) \/ Step(w) \/ Failure(w)

Spec == Init /\ [][Next]_vars

\* Reviewers ask again as long as a visit is not exported, and no step that is
\* tried again and again fails every time.
FairSpec ==
    /\ Spec
    /\ \A w \in Workers :
         /\ WF_vars(Step(w))
         /\ SF_vars(ReviewedVisit(w))
         /\ SF_vars(LoadVisit(w)) /\ SF_vars(CheckTitle(w)) /\ SF_vars(CopyFile(w))
         /\ SF_vars(CommitDocument(w))
         /\ SF_vars(ReadStatus(w)) /\ SF_vars(WriteStatus(w)) /\ SF_vars(WriteLog(w))

----------------------------------------------------------------------------
\* Properties that hold however requests overlap and whenever the server stops.

\* A visit is to be reviewed only when its response was completed: completing
\* stores the row before the status, and no later post of the response takes it
\* back (CompleteVisitResponse, CreateVisitResponse).
ToReviewIsCompleted ==
    \A v \in Visits : status[v] = ToReview => response[v] # None /\ response[v].completed

\* "Only NOW update the status, since the document is on the case": an exported
\* visit has its own document in AdvoPro, made from this visit (ReviewedVisit).
ExportedHasDocument ==
    \A v \in Visits : status[v] = Exported =>
        \E d \in documents : d.visit = v /\ d.title = Title[v]

\* An image row that names a file has that file (UploadVisitImage).
StoredImageHasFile ==
    \A image \in images : image.path = "stored" => image.id \in pictures

----------------------------------------------------------------------------
\* Properties of requests that are answered before the next one arrives.

\* After an accepted post the response has exactly the assets of the posted
\* list, each once, and the posted answers, whatever earlier posts of the same
\* response failed at: "wipe old rows for this visit response first so we don't
\* accumulate duplicates per retry" (CreateVisitResponse).
ResponseAsPosted ==
    Quiet => \A v \in Visits : accepted[v] # None =>
        /\ {a.item : a \in AssetsOf(v)} = accepted[v].list
        /\ Cardinality(AssetsOf(v)) = Cardinality(accepted[v].list)
        /\ accepted[v].answers \in {response[v].answers, Blank}

\* The log of a visit is a chain from "not planned" to the status it has. A link
\* may be missing in front of "planned", which AssignVisitsToGroup writes without
\* a log entry, and one for every fault (UpdateVisitStatus).
Before(l, i) == IF i = 1 THEN NotPlanned ELSE l[i - 1].new
Reached(v, i) == IF i > Len(log[v]) THEN status[v] ELSE log[v][i].old
BrokenLinks(v) ==
    {i \in 1..(Len(log[v]) + 1) : Reached(v, i) \notin {Before(log[v], i), Planned}}
LogBreaksOnlyByFault ==
    Quiet => \A v \in Visits : Cardinality(BrokenLinks(v)) <= faults

\* Files on the cases and documents in AdvoPro's database belong together, but
\* for one for every fault (ImportDocument).
FilesMatchDocuments ==
    LET named == {d.file : d \in documents}
    IN  Quiet => Cardinality((caseFiles \ named) \cup (named \ caseFiles)) <= faults

\* Only a fault leaves an image row that has no file (UploadVisitImage).
PendingOnlyByFault ==
    Quiet => Cardinality({image \in images : image.path = "pending"}) <= faults

\* A review that is repeated, also after a crash, puts no second document with
\* the same title on the case: "Used to make imports idempotent"
\* (documentExists).
OneDocumentPerTitle ==
    \A d, e \in documents : d.title = e.title => d = e

----------------------------------------------------------------------------
\* What the comments promise and the code does not do.

\* "Retries re-post the full other_assets list; wipe old rows [...] so we don't
\* accumulate duplicates per retry": an item of a list is stored once, also when
\* the client repeats a post that is still under way (CreateVisitResponse).
ItemStoredOnce ==
    \A a, b \in {x \in assets : x.insert = "listed"} :
        a.visit = b.visit /\ a.item = b.item => a.batch = b.batch

\* The import is idempotent and the status follows the document: a visit whose
\* document is on the case is exported in the end, its review being repeated.
ReviewFinishes ==
    \A v \in Visits : (\E d \in documents : d.visit = v) ~> (status[v] = Exported)
=============================================================================
