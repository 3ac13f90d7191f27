------------------------ MODULE VisitLifecycleProofs ------------------------
(***************************************************************************)
(* Proofs about VisitLifecycle, for any number of visits and requests and  *)
(* for requests that overlap at every step, fail and are cut off by        *)
(* crashes.                                                                *)
(***************************************************************************)
EXTENDS VisitLifecycle, SequenceTheorems, TLAPS

Row == [answers : Answers, completed : BOOLEAN]
Posts == [list : Lists, answers : Answers, batch : Batches]

\* What a handler has established is read off the rows, the documents and the
\* pictures there are.
Completed(rows, v) == rows[v] # None /\ rows[v].completed = TRUE
Has(docs, v) == \E d \in docs : d.visit = v /\ d.title = Title[v]

Updating == {"readStatus", "writeStatus", "writeLog"}
Posting == {"find", "upsert", "reset", "list"}
Reviewing == {"load", "title", "copy", "commit"}

\* A request under way, with what it has established so far: the status is set
\* by one who completed the response, or put the document on the case.
Sound(j, rows, docs, pics) ==
    /\ j = [handler |-> j.handler, visit |-> j.visit, at |-> j.at,
            rest |-> j.rest, post |-> j.post, held |-> j.held]
    /\ j.handler \in DOMAIN Target => j.visit \in Visits
    /\ j.rest \in Seq(Visits)
    /\ j.rest # <<>> => j.handler = "ReviewedVisit"
    /\ j.at \in Posting => j.handler = "CreateVisitResponse" /\ j.post \in Posts
    /\ j.at = "upsert" /\ j.held # None => rows[j.visit] # None
    /\ j.at = "completed" => j.handler = "CompleteVisitResponse" /\ j.held \in Row
    /\ j.at \in Reviewing => j.handler = "ReviewedVisit"
    /\ j.at = "path" => j.held \in pics
    /\ j.at \in Updating =>
         /\ j.handler \in DOMAIN Target
         /\ j.handler = "CompleteVisitResponse" => Completed(rows, j.visit)
         /\ j.handler = "ReviewedVisit" => Has(docs, j.visit)

JobOK(j, rows, docs, pics) == j = Idle \/ Sound(j, rows, docs, pics)

\* Nothing that was established is taken back.
Grows ==
    /\ \A v \in Visits : response[v] # None => response'[v] # None
    /\ \A v \in Visits : Completed(response, v) => Completed(response', v)
    /\ \A v \in Visits : Has(documents, v) => Has(documents', v)
    /\ pictures \subseteq pictures'

TypeInv ==
    /\ DOMAIN status = Visits
    /\ response \in [Visits -> Row \cup {None}]
    /\ DOMAIN job = Workers

StatusInv ==
    \A v \in Visits :
        /\ status[v] = ToReview => Completed(response, v)
        /\ status[v] = Exported => Has(documents, v)

Inv ==
    /\ TypeInv
    /\ \A w \in Workers : JobOK(job[w], response, documents, pictures)
    /\ StatusInv
    /\ StoredImageHasFile

----------------------------------------------------------------------------
\* A request keeps what it has established while others take their steps.
LEMMA StaysSound ==
    ASSUME NEW j, JobOK(j, response, documents, pictures), Grows
    PROVE  JobOK(j, response', documents', pictures')
BY DEF JobOK, Sound, Grows, Posting, Updating, Target

\* The next step of a request is sound again.
LEMMA FinishSound ==
    ASSUME NEW w \in Workers, DOMAIN job = Workers,
           JobOK(job[w], response, documents, pictures), job[w] # Idle, Finish(w),
           NEW rows, NEW docs, NEW pics
    PROVE  JobOK(job'[w], rows, docs, pics)
<1> DEFINE j == job[w]
<1>1. Sound(j, response, documents, pictures)
  BY DEF JobOK
<1>2. CASE j.rest = <<>>
  BY <1>2 DEF Finish, JobOK
<1>3. CASE j.rest # <<>>
  <2>1. j.rest \in Seq(Visits) /\ j.handler = "ReviewedVisit"
    BY <1>1, <1>3 DEF Sound
  <2>2. Head(j.rest) \in Visits /\ Tail(j.rest) \in Seq(Visits)
    BY <2>1, <1>3
  <2>3. job'[w] = [j EXCEPT !.at = "load", !.visit = Head(j.rest),
                            !.rest = Tail(j.rest), !.held = None]
    BY <1>3 DEF Finish, NextVisit
  <2>4. job'[w] = [handler |-> j.handler, visit |-> Head(j.rest), at |-> "load",
                   rest |-> Tail(j.rest), post |-> j.post, held |-> None]
    BY <2>3, <1>1 DEF Sound
  <2> QED
    BY <2>1, <2>2, <2>4 DEF JobOK, Sound, Posting, Reviewing, Updating, Target
<1> QED
  BY <1>2, <1>3

\* The others are not touched by a step of w.
Alone(w) ==
    /\ DOMAIN job' = Workers
    /\ \A x \in Workers \ {w} : job'[x] = job[x]

LEMMA JobsKept ==
    ASSUME NEW w \in Workers, Inv, Grows, Alone(w),
           JobOK(job'[w], response', documents', pictures')
    PROVE  \A x \in Workers : JobOK(job'[x], response', documents', pictures')
<1> TAKE x \in Workers
<1>1. CASE x = w
  BY <1>1
<1>2. CASE x # w
  BY <1>2, StaysSound DEF Inv, Alone
<1> QED
  BY <1>1, <1>2

\* A step that leaves the rows' types and the images alone keeps the invariant
\* if its own request stays sound and its visit has the status it has earned.
LEMMA Combine ==
    ASSUME NEW w \in Workers, Inv, Grows, Alone(w),
           JobOK(job'[w], response', documents', pictures'),
           response' \in [Visits -> Row \cup {None}],
           UNCHANGED status, StoredImageHasFile'
    PROVE  Inv'
<1>1. TypeInv'
  BY DEF Inv, TypeInv, Alone
<1>2. (\A x \in Workers : JobOK(job[x], response, documents, pictures))'
  BY JobsKept
<1>3. StatusInv'
  BY DEF Inv, StatusInv, Grows
<1> QED
  BY <1>1, <1>2, <1>3 DEF Inv

----------------------------------------------------------------------------
\* What the steps do to the job of their request.

LEMMA Under ==
    ASSUME NEW w \in Workers, Inv, NEW step, At(w, step), step # "idle"
    PROVE  /\ job[w] # Idle
           /\ JobOK(job[w], response, documents, pictures)
           /\ Sound(job[w], response, documents, pictures)
BY DEF Inv, At, Idle, JobOK

LEMMA Moves ==
    ASSUME NEW w \in Workers, Inv, Sound(job[w], response, documents, pictures)
    PROVE  /\ Finish(w) => Alone(w)
           /\ \A step : Go(w, step) =>
                 /\ Alone(w)
                 /\ job'[w] = [handler |-> job[w].handler, visit |-> job[w].visit,
                               at |-> step, rest |-> job[w].rest,
                               post |-> job[w].post, held |-> job[w].held]
           /\ \A step, held : GoHolding(w, step, held) =>
                 /\ Alone(w)
                 /\ job'[w] = [handler |-> job[w].handler, visit |-> job[w].visit,
                               at |-> step, rest |-> job[w].rest,
                               post |-> job[w].post, held |-> held]
<1>0. DOMAIN job = Workers
  BY DEF Inv, TypeInv
<1>1. Finish(w) => Alone(w)
  BY <1>0 DEF Finish, Alone
<1>2. ASSUME NEW step, Go(w, step)
      PROVE  /\ Alone(w)
             /\ job'[w] = [handler |-> job[w].handler, visit |-> job[w].visit,
                           at |-> step, rest |-> job[w].rest,
                           post |-> job[w].post, held |-> job[w].held]
  <2>1. job'[w] = [job[w] EXCEPT !.at = step] /\ Alone(w)
    BY <1>0, <1>2 DEF Go, Alone
  <2> QED
    BY <2>1 DEF Sound
<1>3. ASSUME NEW step, NEW held, GoHolding(w, step, held)
      PROVE  /\ Alone(w)
             /\ job'[w] = [handler |-> job[w].handler, visit |-> job[w].visit,
                           at |-> step, rest |-> job[w].rest,
                           post |-> job[w].post, held |-> held]
  <2>1. job'[w] = [job[w] EXCEPT !.at = step, !.held = held] /\ Alone(w)
    BY <1>0, <1>3 DEF GoHolding, Alone
  <2> QED
    BY <2>1 DEF Sound
<1> QED
  BY <1>1, <1>2, <1>3

LEMMA TakeSound ==
    ASSUME NEW w \in Workers, Inv, NEW h, NEW v, NEW j, Take(w, h, v, j),
           Sound([handler |-> h, visit |-> v, at |-> j.at, rest |-> j.rest,
                  post |-> j.post, held |-> j.held], response', documents', pictures')
    PROVE  Alone(w) /\ JobOK(job'[w], response', documents', pictures')
BY DEF Take, Inv, TypeInv, Alone, JobOK

----------------------------------------------------------------------------
\* The steps that leave the rows, the documents and the images alone.

Untouched == UNCHANGED <<status, response, documents, images, pictures>>

LEMMA Quietly ==
    ASSUME NEW w \in Workers, Inv, Untouched, Alone(w),
           JobOK(job'[w], response, documents, pictures)
    PROVE  Inv'
<1>1. Grows
  BY DEF Untouched, Grows
<1>2. response' \in [Visits -> Row \cup {None}] /\ StoredImageHasFile'
  BY DEF Untouched, Inv, TypeInv, StoredImageHasFile
<1>3. JobOK(job'[w], response', documents', pictures') /\ UNCHANGED status
  BY DEF Untouched
<1> QED
  BY <1>1, <1>2, <1>3, Combine

LEMMA FinishingKeeps ==
    ASSUME NEW w \in Workers, Inv, Untouched, Finish(w),
           NEW step, At(w, step), step # "idle"
    PROVE  Inv'
<1>1. Sound(job[w], response, documents, pictures) /\ job[w] # Idle
      /\ JobOK(job[w], response, documents, pictures)
  BY Under
<1>2. Alone(w)
  BY <1>1, Moves
<1>3. JobOK(job'[w], response, documents, pictures)
  BY <1>1, FinishSound DEF Inv, TypeInv
<1> QED
  BY <1>2, <1>3, Quietly

LEMMA StepFailsKeeps ==
    ASSUME NEW w \in Workers, Inv, StepFails(w)
    PROVE  Inv'
<1>1. Finish(w) /\ Untouched /\ job[w].at # "idle"
  BY DEF StepFails, Untouched, responseVars, imageVars, caseVars
<1> QED
  BY <1>1, FinishingKeeps DEF At

LEMMA CrashKeeps ==
    ASSUME Inv, Crash
    PROVE  Inv'
<1>1. UNCHANGED <<status, response, documents, images, pictures>>
      /\ job' = [w \in Workers |-> Idle]
  BY DEF Crash, responseVars, imageVars, caseVars
<1> QED
  BY <1>1 DEF Inv, TypeInv, StatusInv, StoredImageHasFile, JobOK

----------------------------------------------------------------------------
\* Requests.

LEMMA TakingKeeps ==
    ASSUME NEW w \in Workers, Inv, Untouched, NEW h, NEW v, NEW j, Take(w, h, v, j),
           Sound([handler |-> h, visit |-> v, at |-> j.at, rest |-> j.rest,
                  post |-> j.post, held |-> j.held], response, documents, pictures)
    PROVE  Inv'
<1>1. Sound([handler |-> h, visit |-> v, at |-> j.at, rest |-> j.rest,
             post |-> j.post, held |-> j.held], response', documents', pictures')
  BY DEF Untouched
<1>2. Alone(w) /\ JobOK(job'[w], response', documents', pictures')
  BY <1>1, TakeSound
<1> QED
  BY <1>2, Quietly DEF Untouched

LEMMA VisitLetterSentKeeps ==
    ASSUME NEW w \in Workers, NEW v \in Visits, Inv, VisitLetterSent(w, v)
    PROVE  Inv'
<1>1. Take(w, "VisitLetterSent", v, From("readStatus")) /\ Untouched
  BY DEF VisitLetterSent, Untouched, responseVars, imageVars, caseVars
<1>2. Sound([handler |-> "VisitLetterSent", visit |-> v, at |-> From("readStatus").at,
             rest |-> From("readStatus").rest, post |-> From("readStatus").post,
             held |-> From("readStatus").held], response, documents, pictures)
  BY EmptySeq DEF Sound, From, Posting, Reviewing, Updating, Target
<1> QED
  BY <1>1, <1>2, TakingKeeps

LEMMA AssignVisitsToGroupKeeps ==
    ASSUME NEW w \in Workers, NEW v \in Visits, Inv, AssignVisitsToGroup(w, v)
    PROVE  Inv'
<1> DEFINE j == From("readStatus")
<1>1. /\ Take(w, "AssignVisitsToGroup", v, j)
      /\ status' = [status EXCEPT ![v] = Planned]
      /\ UNCHANGED <<response, documents, images, pictures>>
  BY DEF AssignVisitsToGroup, responseVars, imageVars, caseVars
<1>2. Grows
  BY <1>1 DEF Grows
<1>3. Sound([handler |-> "AssignVisitsToGroup", visit |-> v, at |-> j.at,
             rest |-> j.rest, post |-> j.post, held |-> j.held],
            response', documents', pictures')
  BY EmptySeq DEF Sound, From, Posting, Reviewing, Updating, Target
<1>4. Alone(w) /\ JobOK(job'[w], response', documents', pictures')
  BY <1>1, <1>3, TakeSound
<1>5. (\A x \in Workers : JobOK(job[x], response, documents, pictures))'
  BY <1>2, <1>4, JobsKept
<1>6. StatusInv'
  BY <1>1 DEF Inv, TypeInv, StatusInv, Planned, ToReview, Exported
<1> QED
  BY <1>1, <1>4, <1>5, <1>6 DEF Inv, TypeInv, Alone, StoredImageHasFile

LEMMA CreateVisitResponseKeeps ==
    ASSUME NEW w \in Workers, NEW v \in Visits, Inv, CreateVisitResponse(w, v)
    PROVE  Inv'
<1>1. Untouched
  BY DEF CreateVisitResponse, Untouched, responseVars, imageVars, caseVars
<1>2. PICK list \in Lists, answers \in Answers, batch \in Batches :
        Take(w, "CreateVisitResponse", v,
             [From("find") EXCEPT !.post =
                 [list |-> list, answers |-> answers, batch |-> batch]])
  BY DEF CreateVisitResponse
<1> DEFINE post == [list |-> list, answers |-> answers, batch |-> batch]
           j == [From("find") EXCEPT !.post = post]
<1>3. j = [at |-> "find", rest |-> <<>>, post |-> post, held |-> None] /\ post \in Posts
  BY DEF From, Posts
<1>4. Sound([handler |-> "CreateVisitResponse", visit |-> v, at |-> j.at,
             rest |-> j.rest, post |-> j.post, held |-> j.held],
            response, documents, pictures)
  BY <1>3, EmptySeq DEF Sound, Posting, Reviewing, Updating, Target
<1> QED
  BY <1>1, <1>2, <1>4, TakingKeeps

LEMMA CompleteVisitResponseKeeps ==
    ASSUME NEW w \in Workers, NEW v \in Visits, Inv, CompleteVisitResponse(w, v)
    PROVE  Inv'
<1> DEFINE j == [From("completed") EXCEPT !.held = response[v]]
<1>1. Take(w, "CompleteVisitResponse", v, j) /\ Untouched
  BY DEF CompleteVisitResponse, Untouched, responseVars, imageVars, caseVars
<1>2. response[v] \in Row
  BY DEF CompleteVisitResponse, Inv, TypeInv
<1>3. j = [at |-> "completed", rest |-> <<>>, post |-> None, held |-> response[v]]
  BY DEF From
<1>4. Sound([handler |-> "CompleteVisitResponse", visit |-> v, at |-> j.at,
             rest |-> j.rest, post |-> j.post, held |-> j.held],
            response, documents, pictures)
  BY <1>2, <1>3, EmptySeq DEF Sound, Posting, Reviewing, Updating, Target
<1> QED
  BY <1>1, <1>4, TakingKeeps

LEMMA UploadAssetImageKeeps ==
    ASSUME NEW w \in Workers, NEW a, Inv, UploadAssetImage(w, a)
    PROVE  Inv'
<1> DEFINE j == [From("asset") EXCEPT !.held = a]
<1>1. Take(w, "UploadAssetImage", a.visit, j) /\ Untouched
  BY DEF UploadAssetImage, Untouched, responseVars, imageVars, caseVars
<1>2. j = [at |-> "asset", rest |-> <<>>, post |-> None, held |-> a]
  BY DEF From
<1>3. Sound([handler |-> "UploadAssetImage", visit |-> a.visit, at |-> j.at,
             rest |-> j.rest, post |-> j.post, held |-> j.held],
            response, documents, pictures)
  BY <1>2, EmptySeq DEF Sound, Posting, Reviewing, Updating, Target
<1> QED
  BY <1>1, <1>3, TakingKeeps

LEMMA UploadVisitImageKeeps ==
    ASSUME NEW w \in Workers, NEW v \in Visits, Inv, UploadVisitImage(w, v)
    PROVE  Inv'
<1>1. UNCHANGED <<status, response, documents, pictures>>
  BY DEF UploadVisitImage, responseVars, caseVars
<1>2. PICK i \in Images \ {image.id : image \in images} :
        /\ Take(w, "UploadVisitImage", v, [From("picture") EXCEPT !.held = i])
        /\ images' = images \cup {[id |-> i, visit |-> v, path |-> "pending"]}
  BY DEF UploadVisitImage
<1> DEFINE j == [From("picture") EXCEPT !.held = i]
<1>3. j = [at |-> "picture", rest |-> <<>>, post |-> None, held |-> i]
  BY DEF From
<1>4. Sound([handler |-> "UploadVisitImage", visit |-> v, at |-> j.at,
             rest |-> j.rest, post |-> j.post, held |-> j.held],
            response', documents', pictures')
  BY <1>3, EmptySeq DEF Sound, Posting, Reviewing, Updating, Target
<1>5. Alone(w) /\ JobOK(job'[w], response', documents', pictures')
  BY <1>2, <1>4, TakeSound
<1>6. StoredImageHasFile' /\ Grows
  BY <1>1, <1>2 DEF Inv, StoredImageHasFile, Grows
<1>7. response' \in [Visits -> Row \cup {None}]
  BY <1>1 DEF Inv, TypeInv
<1> QED
  BY <1>1, <1>5, <1>6, <1>7, Combine

LEMMA ReviewedVisitKeeps ==
    ASSUME NEW w \in Workers, Inv, ReviewedVisit(w)
    PROVE  Inv'
<1>1. Untouched
  BY DEF ReviewedVisit, Untouched, responseVars, imageVars, caseVars
<1>2. PICK ids \in Rounds :
        Take(w, "ReviewedVisit", Head(ids), [From("load") EXCEPT !.rest = Tail(ids)])
  BY DEF ReviewedVisit
<1> DEFINE j == [From("load") EXCEPT !.rest = Tail(ids)]
<1>3. Head(ids) \in Visits /\ Tail(ids) \in Seq(Visits)
  <2>1. ids \in Seq(Visits) /\ ids # <<>>
    BY LifecycleAssumption
  <2> QED
    BY <2>1
<1>4. j = [at |-> "load", rest |-> Tail(ids), post |-> None, held |-> None]
  <2>1. \A rest : [From("load") EXCEPT !.rest = rest]
                    = [at |-> "load", rest |-> rest, post |-> None, held |-> None]
    BY DEF From
  <2> QED
    BY <2>1
<1>5. Sound([handler |-> "ReviewedVisit", visit |-> Head(ids), at |-> j.at,
             rest |-> j.rest, post |-> j.post, held |-> j.held],
            response, documents, pictures)
  BY <1>3, <1>4 DEF Sound, Posting, Reviewing, Updating, Target
<1> QED
  BY <1>1, <1>2, <1>5, TakingKeeps

----------------------------------------------------------------------------
\* The status and the log.

LEMMA ReadStatusKeeps ==
    ASSUME NEW w \in Workers, Inv, ReadStatus(w)
    PROVE  Inv'
<1>1. Untouched /\ At(w, "readStatus")
  BY DEF ReadStatus, Untouched, responseVars, imageVars, caseVars
<1>2. Sound(job[w], response, documents, pictures)
  BY <1>1, Under
<1>3. CASE Finish(w)
  BY <1>1, <1>3, FinishingKeeps
<1>4. CASE GoHolding(w, "writeStatus", status[job[w].visit])
  <2>1. /\ Alone(w)
        /\ job'[w] = [handler |-> job[w].handler, visit |-> job[w].visit,
                      at |-> "writeStatus", rest |-> job[w].rest,
                      post |-> job[w].post, held |-> status[job[w].visit]]
    BY <1>2, <1>4, Moves
  <2>2. JobOK(job'[w], response, documents, pictures)
    BY <1>1, <1>2, <2>1 DEF JobOK, Sound, Posting, Reviewing, Updating, At
  <2> QED
    BY <1>1, <2>1, <2>2, Quietly
<1> QED
  BY <1>3, <1>4 DEF ReadStatus

LEMMA WriteStatusKeeps ==
    ASSUME NEW w \in Workers, Inv, WriteStatus(w)
    PROVE  Inv'
<1> DEFINE v == job[w].visit
           h == job[w].handler
<1>1. /\ At(w, "writeStatus") /\ Go(w, "writeLog")
      /\ status' = [status EXCEPT ![v] = Target[h]]
      /\ UNCHANGED <<response, documents, images, pictures>>
  BY DEF WriteStatus, responseVars, imageVars, caseVars
<1>2. Sound(job[w], response, documents, pictures)
  BY <1>1, Under
<1>3. /\ h \in DOMAIN Target /\ v \in Visits
      /\ h = "CompleteVisitResponse" => Completed(response, v)
      /\ h = "ReviewedVisit" => Has(documents, v)
  BY <1>1, <1>2 DEF Sound, Updating, At
<1>4. /\ Alone(w)
      /\ job'[w] = [handler |-> h, visit |-> v, at |-> "writeLog", rest |-> job[w].rest,
                    post |-> job[w].post, held |-> job[w].held]
  BY <1>1, <1>2, Moves
<1>5. JobOK(job'[w], response', documents', pictures')
  BY <1>1, <1>2, <1>3, <1>4 DEF JobOK, Sound, Posting, Reviewing, Updating
<1>6. Grows
  BY <1>1 DEF Grows
<1>7. (\A x \in Workers : JobOK(job[x], response, documents, pictures))'
  BY <1>4, <1>5, <1>6, JobsKept
<1>8. StatusInv'
  <2>1. /\ Target[h] = ToReview => h = "CompleteVisitResponse"
        /\ Target[h] = Exported => h = "ReviewedVisit"
    BY <1>3 DEF Target, Planned, ToReview, Exported, ReadyToVisit, PendingCompletion
  <2> QED
    BY <1>1, <1>3, <2>1 DEF Inv, TypeInv, StatusInv
<1>9. TypeInv' /\ StoredImageHasFile'
  BY <1>1, <1>4 DEF Inv, TypeInv, StoredImageHasFile, Alone
<1> QED
  BY <1>7, <1>8, <1>9 DEF Inv

LEMMA LogKeeps ==
    ASSUME NEW w \in Workers, Inv, WriteLog(w) \/ LogFails(w)
    PROVE  Inv'
<1>1. Untouched /\ At(w, "writeLog") /\ Finish(w)
  BY DEF WriteLog, LogFails, Untouched, responseVars, imageVars, caseVars
<1> QED
  BY <1>1, FinishingKeeps

----------------------------------------------------------------------------
\* The response and its assets.

LEMMA FindResponseKeeps ==
    ASSUME NEW w \in Workers, Inv, FindResponse(w)
    PROVE  Inv'
<1> DEFINE held == response[job[w].visit]
<1>1. Untouched /\ At(w, "find") /\ GoHolding(w, "upsert", held)
  BY DEF FindResponse, Untouched, responseVars, imageVars, caseVars
<1>2. Sound(job[w], response, documents, pictures)
  BY <1>1, Under
<1> HIDE DEF held
<1>3. /\ Alone(w)
      /\ job'[w] = [handler |-> job[w].handler, visit |-> job[w].visit, at |-> "upsert",
                    rest |-> job[w].rest, post |-> job[w].post, held |-> held]
  BY <1>1, <1>2, Moves
<1>4. JobOK(job'[w], response, documents, pictures)
  BY <1>1, <1>2, <1>3 DEF JobOK, Sound, Posting, Reviewing, Updating, At, held
<1> QED
  BY <1>1, <1>3, <1>4, Quietly

\* Steps of the post that leave a row with the posted answers, or as it was.
LEMMA PostingKeeps ==
    ASSUME NEW w \in Workers, Inv, At(w, "upsert") \/ At(w, "reset") \/ At(w, "list"),
           NEW step, step \in {"reset", "list", "readStatus"}, Go(w, step),
           UNCHANGED <<status, documents, images, pictures>>,
           response' \in [Visits -> Row \cup {None}],
           \A v \in Visits : response[v] # None => response'[v] # None,
           \A v \in Visits : Completed(response, v) => Completed(response', v)
    PROVE  Inv'
<1>1. Sound(job[w], response, documents, pictures)
  BY Under
<1>2. /\ Alone(w)
      /\ job'[w] = [handler |-> job[w].handler, visit |-> job[w].visit, at |-> step,
                    rest |-> job[w].rest, post |-> job[w].post, held |-> job[w].held]
  BY <1>1, Moves
<1>3. Grows
  BY DEF Grows
<1>4. job[w].handler = "CreateVisitResponse" /\ job[w].post \in Posts
  BY <1>1 DEF Sound, Posting, At
<1>5. JobOK(job'[w], response', documents', pictures')
  BY <1>1, <1>2, <1>4 DEF JobOK, Sound, Posting, Reviewing, Updating, Target
<1>6. StoredImageHasFile'
  BY DEF Inv, StoredImageHasFile
<1> QED
  BY <1>2, <1>3, <1>5, <1>6, Combine

LEMMA CreateResponseKeeps ==
    ASSUME NEW w \in Workers, Inv, CreateResponse(w)
    PROVE  Inv'
<1> DEFINE v == job[w].visit
           row == [answers |-> job[w].post.answers, completed |-> FALSE]
<1>1. /\ At(w, "upsert") /\ Go(w, "reset") /\ response[v] = None
      /\ response' = [response EXCEPT ![v] = row]
      /\ UNCHANGED <<status, documents, images, pictures>>
  BY DEF CreateResponse, imageVars, caseVars
<1>2. Sound(job[w], response, documents, pictures)
  BY <1>1, Under
<1>3. row \in Row
  BY <1>1, <1>2 DEF Sound, Posting, At, Posts, Row
<1>4. response' \in [Visits -> Row \cup {None}]
  BY <1>1, <1>3 DEF Inv, TypeInv
<1>5. row # None
  BY <1>2, <1>1, LifecycleAssumption DEF Sound, Posting, At, Posts
<1>6. ASSUME NEW u \in Visits
      PROVE  /\ response[u] # None => response'[u] # None
             /\ Completed(response, u) => Completed(response', u)
  BY <1>1, <1>5 DEF Completed, Inv, TypeInv
<1> QED
  BY <1>1, <1>4, <1>6, PostingKeeps

LEMMA UpdateResponseKeeps ==
    ASSUME NEW w \in Workers, Inv, UpdateResponse(w)
    PROVE  Inv'
<1> DEFINE v == job[w].visit
           answers == IF job[w].post.answers = Blank
                      THEN response[v].answers ELSE job[w].post.answers
<1>1. /\ At(w, "upsert") /\ Go(w, "reset")
      /\ response' = [response EXCEPT ![v] = [response[v] EXCEPT !.answers = answers]]
      /\ UNCHANGED <<status, documents, images, pictures>>
  BY DEF UpdateResponse, imageVars, caseVars
<1>2. Sound(job[w], response, documents, pictures) /\ job[w].held # None
  BY <1>1, Under DEF UpdateResponse
<1>3. response[v] \in Row
  BY <1>1, <1>2 DEF Sound, At, Posting, Target, Inv, TypeInv
<1>4. answers \in Answers
  BY <1>1, <1>2, <1>3 DEF Sound, Posting, At, Posts, Row
<1> DEFINE row == [response[v] EXCEPT !.answers = answers]
<1> HIDE DEF answers
<1>5. row \in Row /\ row.completed = response[v].completed
  BY <1>3, <1>4 DEF Row
<1>6. row # None
  BY <1>3, <1>4, <1>5, LifecycleAssumption DEF Row
<1> HIDE DEF row
<1>7. response' \in [Visits -> Row \cup {None}]
  BY <1>1, <1>5 DEF Inv, TypeInv, row
<1>8. ASSUME NEW u \in Visits
      PROVE  /\ response[u] # None => response'[u] # None
             /\ Completed(response, u) => Completed(response', u)
  BY <1>1, <1>5, <1>6 DEF Completed, Inv, TypeInv, row
<1> QED
  BY <1>1, <1>7, <1>8, PostingKeeps

LEMMA AssetsKeep ==
    ASSUME NEW w \in Workers, Inv, ResetAssets(w) \/ ListAssets(w)
    PROVE  Inv'
<1>1. /\ \/ At(w, "reset") /\ Go(w, "list")
         \/ At(w, "list") /\ Go(w, "readStatus")
      /\ UNCHANGED <<status, response, documents, images, pictures>>
  BY DEF ResetAssets, ListAssets, imageVars, caseVars
<1>2. /\ response' \in [Visits -> Row \cup {None}]
      /\ \A v \in Visits : Completed(response, v) => Completed(response', v)
      /\ \A v \in Visits : response[v] # None => response'[v] # None
  BY <1>1 DEF Inv, TypeInv
<1> QED
  BY <1>1, <1>2, PostingKeeps

LEMMA SaveCompletedKeeps ==
    ASSUME NEW w \in Workers, Inv, SaveCompleted(w)
    PROVE  Inv'
<1> DEFINE v == job[w].visit
           row == [job[w].held EXCEPT !.completed = TRUE]
<1>1. /\ At(w, "completed") /\ Go(w, "readStatus")
      /\ response' = [response EXCEPT ![v] = row]
      /\ UNCHANGED <<status, documents, images, pictures>>
  BY DEF SaveCompleted, imageVars, caseVars
<1>2. Sound(job[w], response, documents, pictures)
  BY <1>1, Under
<1>3. job[w].handler = "CompleteVisitResponse" /\ job[w].held \in Row /\ v \in Visits
  BY <1>1, <1>2 DEF Sound, At, Target
<1>4. row \in Row /\ row.completed = TRUE
  BY <1>3 DEF Row
<1>5. row # None
  BY <1>3, <1>4, LifecycleAssumption DEF Row
<1> HIDE DEF row
<1>6. response' \in [Visits -> Row \cup {None}]
  BY <1>1, <1>4 DEF Inv, TypeInv
<1>7. Completed(response', v)
  BY <1>1, <1>3, <1>4, <1>5 DEF Completed, Inv, TypeInv
<1>8. Grows
  BY <1>1, <1>5, <1>7 DEF Grows, Completed, Inv, TypeInv
<1>9. /\ Alone(w)
      /\ job'[w] = [handler |-> job[w].handler, visit |-> v, at |-> "readStatus",
                    rest |-> job[w].rest, post |-> job[w].post, held |-> job[w].held]
  BY <1>1, <1>2, Moves
<1>10. JobOK(job'[w], response', documents', pictures')
  BY <1>2, <1>3, <1>7, <1>9 DEF JobOK, Sound, Posting, Reviewing, Updating, Target
<1>11. StoredImageHasFile'
  BY <1>1 DEF Inv, StoredImageHasFile
<1> QED
  BY <1>1, <1>6, <1>8, <1>9, <1>10, <1>11, Combine

----------------------------------------------------------------------------
\* Images.

LEMMA SaveAssetKeeps ==
    ASSUME NEW w \in Workers, Inv, SaveAsset(w)
    PROVE  Inv'
<1>1. Untouched /\ At(w, "asset") /\ Finish(w)
  BY DEF SaveAsset, Untouched, imageVars, caseVars
<1> QED
  BY <1>1, FinishingKeeps

LEMMA SavePictureKeeps ==
    ASSUME NEW w \in Workers, Inv, SavePicture(w)
    PROVE  Inv'
<1>1. /\ At(w, "picture") /\ Go(w, "path")
      /\ pictures' = pictures \cup {job[w].held}
      /\ UNCHANGED <<status, response, documents, images>>
  BY DEF SavePicture, responseVars, caseVars
<1>2. Sound(job[w], response, documents, pictures)
  BY <1>1, Under
<1>3. /\ Alone(w)
      /\ job'[w] = [handler |-> job[w].handler, visit |-> job[w].visit, at |-> "path",
                    rest |-> job[w].rest, post |-> job[w].post, held |-> job[w].held]
  BY <1>1, <1>2, Moves
<1>4. JobOK(job'[w], response', documents', pictures')
  BY <1>1, <1>2, <1>3 DEF JobOK, Sound, Posting, Reviewing, Updating
<1>5. Grows /\ StoredImageHasFile' /\ response' \in [Visits -> Row \cup {None}]
  BY <1>1 DEF Grows, Inv, TypeInv, StoredImageHasFile
<1> QED
  BY <1>1, <1>3, <1>4, <1>5, Combine

\* The end of an upload, whatever it leaves of its row.
LEMMA UploadEnds ==
    ASSUME NEW w \in Workers, Inv, NEW step, At(w, step), step # "idle", Finish(w),
           UNCHANGED <<status, response, documents, pictures>>, StoredImageHasFile'
    PROVE  Inv'
<1>1. Sound(job[w], response, documents, pictures) /\ job[w] # Idle
      /\ JobOK(job[w], response, documents, pictures)
  BY Under
<1>2. Alone(w)
  BY <1>1, Moves
<1>3. JobOK(job'[w], response', documents', pictures')
  BY <1>1, FinishSound DEF Inv, TypeInv
<1>4. Grows /\ response' \in [Visits -> Row \cup {None}]
  BY DEF Grows, Inv, TypeInv
<1> QED
  BY <1>2, <1>3, <1>4, Combine

LEMMA PictureFailsKeeps ==
    ASSUME NEW w \in Workers, Inv, PictureFails(w)
    PROVE  Inv'
<1>1. /\ At(w, "picture") /\ Finish(w)
      /\ images' \subseteq images
      /\ UNCHANGED <<status, response, documents, pictures>>
  BY DEF PictureFails, responseVars, caseVars
<1>2. StoredImageHasFile'
  BY <1>1 DEF Inv, StoredImageHasFile
<1> QED
  BY <1>1, <1>2, UploadEnds

LEMMA SavePathKeeps ==
    ASSUME NEW w \in Workers, Inv, SavePath(w)
    PROVE  Inv'
<1> DEFINE i == job[w].held
<1>1. /\ At(w, "path") /\ Finish(w)
      /\ \/ images' = images
         \/ images' = (images \ RowOf(i)) \cup {[r EXCEPT !.path = "stored"] : r \in RowOf(i)}
      /\ UNCHANGED <<status, response, documents, pictures>>
  BY DEF SavePath, responseVars, caseVars
<1>2. i \in pictures
  BY <1>1, Under DEF Sound, At
<1>3. ASSUME NEW r \in RowOf(i)
      PROVE  [r EXCEPT !.path = "stored"].id \in pictures
  BY <1>2, <1>3 DEF RowOf
<1>4. StoredImageHasFile'
  BY <1>1, <1>3 DEF Inv, StoredImageHasFile
<1> QED
  BY <1>1, <1>4, UploadEnds

----------------------------------------------------------------------------
\* The review.

LEMMA ReviewGoesOn ==
    ASSUME NEW w \in Workers, Inv, NEW from, At(w, from), from \in {"load", "title", "copy"},
           NEW step, step \in {"title", "copy", "commit"}, NEW held,
           Go(w, step) \/ GoHolding(w, step, held), Untouched
    PROVE  Inv'
<1>1. Sound(job[w], response, documents, pictures) /\ job[w].handler = "ReviewedVisit"
  BY Under DEF Sound, At, Reviewing
<1> DEFINE Moved(h) == [handler |-> job[w].handler, visit |-> job[w].visit,
                        at |-> step, rest |-> job[w].rest,
                        post |-> job[w].post, held |-> h]
<1>2. PICK h : Alone(w) /\ job'[w] = Moved(h)
  <2>1. CASE Go(w, step)
    <3>1. Alone(w) /\ job'[w] = Moved(job[w].held)
      BY <1>1, <2>1, Moves
    <3> QED
      BY <3>1
  <2>2. CASE GoHolding(w, step, held)
    <3>1. Alone(w) /\ job'[w] = Moved(held)
      BY <1>1, <2>2, Moves
    <3> QED
      BY <3>1
  <2> QED
    BY <2>1, <2>2
<1>3. JobOK(job'[w], response, documents, pictures)
  BY <1>1, <1>2 DEF JobOK, Sound, Posting, Reviewing, Updating
<1> QED
  BY <1>2, <1>3, Quietly

LEMMA LoadVisitKeeps ==
    ASSUME NEW w \in Workers, Inv, LoadVisit(w)
    PROVE  Inv'
<1>1. Untouched /\ At(w, "load") /\ (Go(w, "title") \/ Finish(w))
  BY DEF LoadVisit, Untouched, responseVars, imageVars, caseVars
<1>2. CASE Go(w, "title")
  BY <1>1, <1>2, ReviewGoesOn
<1>3. CASE Finish(w)
  BY <1>1, <1>3, FinishingKeeps
<1> QED
  BY <1>1, <1>2, <1>3

LEMMA CheckTitleKeeps ==
    ASSUME NEW w \in Workers, Inv, CheckTitle(w)
    PROVE  Inv'
<1>1. Untouched /\ At(w, "title") /\ (Go(w, "copy") \/ Finish(w))
  BY DEF CheckTitle, Untouched, responseVars, imageVars, caseVars
<1>2. CASE Go(w, "copy")
  BY <1>1, <1>2, ReviewGoesOn
<1>3. CASE Finish(w)
  BY <1>1, <1>3, FinishingKeeps
<1> QED
  BY <1>1, <1>2, <1>3

LEMMA CopyFileKeeps ==
    ASSUME NEW w \in Workers, Inv, CopyFile(w)
    PROVE  Inv'
<1>1. PICK name \in Names \ NamesInUse : GoHolding(w, "commit", name)
  BY DEF CopyFile
<1>2. Untouched /\ At(w, "copy")
  BY DEF CopyFile, Untouched, responseVars, imageVars
<1> QED
  BY <1>1, <1>2, ReviewGoesOn

\* A committed document stays on the case.
LEMMA DocumentAdded ==
    ASSUME NEW w \in Workers, Inv,
           documents' = documents \cup {Document(job[w])},
           UNCHANGED <<status, response, images, pictures>>
    PROVE  /\ Grows /\ StoredImageHasFile'
           /\ response' \in [Visits -> Row \cup {None}]
           /\ Has(documents', job[w].visit)
<1> DEFINE d == Document(job[w])
<1>1. d.visit = job[w].visit /\ d.title = Title[job[w].visit]
  BY DEF Document
<1> HIDE DEF d
<1>2. documents' = documents \cup {d}
  BY DEF d
<1>3. Has(documents', job[w].visit)
  BY <1>1, <1>2 DEF Has
<1>4. Grows
  BY <1>2 DEF Grows, Has
<1>5. StoredImageHasFile' /\ response' \in [Visits -> Row \cup {None}]
  BY DEF Inv, TypeInv, StoredImageHasFile
<1> QED
  BY <1>3, <1>4, <1>5

LEMMA CommitDocumentKeeps ==
    ASSUME NEW w \in Workers, Inv, CommitDocument(w)
    PROVE  Inv'
<1>1. /\ At(w, "commit") /\ Go(w, "readStatus")
      /\ documents' = documents \cup {Document(job[w])}
      /\ UNCHANGED <<status, response, images, pictures>>
  BY DEF CommitDocument, responseVars, imageVars
<1>2. Sound(job[w], response, documents, pictures) /\ job[w].handler = "ReviewedVisit"
  BY <1>1, Under DEF Sound, At, Reviewing
<1>3. /\ Alone(w)
      /\ job'[w] = [handler |-> job[w].handler, visit |-> job[w].visit,
                    at |-> "readStatus", rest |-> job[w].rest,
                    post |-> job[w].post, held |-> job[w].held]
  BY <1>1, <1>2, Moves
<1>4. /\ Grows /\ StoredImageHasFile' /\ response' \in [Visits -> Row \cup {None}]
      /\ Has(documents', job[w].visit)
  BY <1>1, DocumentAdded
<1>5. JobOK(job'[w], response', documents', pictures')
  BY <1>2, <1>3, <1>4 DEF JobOK, Sound, Posting, Reviewing, Updating, Target
<1> QED
  BY <1>1, <1>3, <1>4, <1>5, Combine

LEMMA CommitAnswerLostKeeps ==
    ASSUME NEW w \in Workers, Inv, CommitAnswerLost(w)
    PROVE  Inv'
<1>1. /\ At(w, "commit") /\ Finish(w)
      /\ documents' = documents \cup {Document(job[w])}
      /\ UNCHANGED <<status, response, images, pictures>>
  BY DEF CommitAnswerLost, responseVars, imageVars
<1>2. Sound(job[w], response, documents, pictures) /\ job[w] # Idle
      /\ JobOK(job[w], response, documents, pictures)
  BY <1>1, Under
<1>3. Alone(w)
  BY <1>1, <1>2, Moves
<1>4. JobOK(job'[w], response', documents', pictures')
  BY <1>1, <1>2, FinishSound DEF Inv, TypeInv
<1>5. Grows /\ StoredImageHasFile' /\ response' \in [Visits -> Row \cup {None}]
  BY <1>1, DocumentAdded
<1> QED
  BY <1>1, <1>3, <1>4, <1>5, Combine

LEMMA ImportFailsKeeps ==
    ASSUME NEW w \in Workers, Inv, ImportFails(w)
    PROVE  Inv'
<1>1. Untouched /\ At(w, "commit") /\ Finish(w)
  BY DEF ImportFails, Untouched, responseVars, imageVars
<1> QED
  BY <1>1, FinishingKeeps

----------------------------------------------------------------------------
LEMMA InitEstablishes == Init => Inv
<1> SUFFICES ASSUME Init PROVE Inv
  OBVIOUS
<1> QED
  BY DEF Init, Inv, TypeInv, StatusInv, StoredImageHasFile, JobOK, NotPlanned, ToReview, Exported

LEMMA NextKeeps == Inv /\ [Next]_vars => Inv'
<1> SUFFICES ASSUME Inv, [Next]_vars PROVE Inv'
  OBVIOUS
<1>1. CASE Crash
  BY <1>1, CrashKeeps
<1>2. ASSUME NEW w \in Workers, Request(w) PROVE Inv'
  BY <1>2, AssignVisitsToGroupKeeps, VisitLetterSentKeeps, CreateVisitResponseKeeps,
     CompleteVisitResponseKeeps, UploadVisitImageKeeps, UploadAssetImageKeeps, ReviewedVisitKeeps DEF Request
<1>3. ASSUME NEW w \in Workers, Step(w) PROVE Inv'
  BY <1>3, ReadStatusKeeps, WriteStatusKeeps, LogKeeps, FindResponseKeeps,
     CreateResponseKeeps, UpdateResponseKeeps, AssetsKeep, SaveCompletedKeeps,
     SaveAssetKeeps, SavePictureKeeps, SavePathKeeps, LoadVisitKeeps, CheckTitleKeeps,
     CopyFileKeeps, CommitDocumentKeeps DEF Step
<1>4. ASSUME NEW w \in Workers, Failure(w) PROVE Inv'
  BY <1>4, StepFailsKeeps, LogKeeps, PictureFailsKeeps, ImportFailsKeeps,
     CommitAnswerLostKeeps DEF Failure
<1>5. CASE UNCHANGED vars
  BY <1>5 DEF Inv, TypeInv, StatusInv, StoredImageHasFile, vars, responseVars, imageVars,
              caseVars
<1> QED
  BY <1>1, <1>2, <1>3, <1>4, <1>5 DEF Next

LEMMA Invariance == Spec => []Inv
BY InitEstablishes, NextKeeps, PTL DEF Spec

\* A visit is to be reviewed only when its response was completed
\* (CompleteVisitResponse), for any number of overlapping requests and crashes.
THEOREM ReviewsAreOfCompleted == Spec => []ToReviewIsCompleted
<1>1. Inv => ToReviewIsCompleted
  BY DEF Inv, StatusInv, Completed, ToReviewIsCompleted
<1> QED
  BY <1>1, Invariance, PTL

\* An exported visit has its document on the case (ReviewedVisit): no order of
\* reviews, failures and crashes sets the status first.
THEOREM ExportsAreDocumented == Spec => []ExportedHasDocument
<1>1. Inv => ExportedHasDocument
  BY DEF Inv, StatusInv, Has, ExportedHasDocument
<1> QED
  BY <1>1, Invariance, PTL

\* An image row that names its file was saved after the file was
\* (UploadVisitImage).
THEOREM StoredImagesExist == Spec => []StoredImageHasFile
<1>1. Inv => StoredImageHasFile
  BY DEF Inv
<1> QED
  BY <1>1, Invariance, PTL

----------------------------------------------------------------------------
\* Reviews that do not overlap: between the look at the titles and the commit no
\* other request runs.

Checked == \A w \in Workers :
    job[w].at \in {"copy", "commit"} => ~documentExists(Title[job[w].visit])

OneRequest == \A w, x \in Workers : job[w] # Idle /\ job[x] # Idle => w = x

SerialInv == Inv /\ OneRequest /\ Checked /\ OneDocumentPerTitle

LEMMA StepAlone ==
    ASSUME NEW w \in Workers, Inv, Step(w) \/ Failure(w)
    PROVE  Alone(w) /\ job[w] # Idle
<1>1. DOMAIN job = Workers
  BY DEF Inv, TypeInv
<1>2. \/ Finish(w)
      \/ \E step : Go(w, step)
      \/ \E step, held : GoHolding(w, step, held)
  BY DEF Step, Failure, ReadStatus, WriteStatus, WriteLog, FindResponse, CreateResponse,
     UpdateResponse, ResetAssets, ListAssets, SaveCompleted, SaveAsset, SavePicture,
     SavePath, LoadVisit, CheckTitle, CopyFile, CommitDocument, StepFails, LogFails,
     PictureFails, ImportFails, CommitAnswerLost
<1>3. Alone(w)
  BY <1>1, <1>2 DEF Finish, Go, GoHolding, Alone
<1>4. job[w].at # "idle"
  BY DEF Step, Failure, ReadStatus, WriteStatus, WriteLog, FindResponse, CreateResponse,
     UpdateResponse, ResetAssets, ListAssets, SaveCompleted, SaveAsset, SavePicture,
     SavePath, LoadVisit, CheckTitle, CopyFile, CommitDocument, StepFails, LogFails,
     PictureFails, ImportFails, CommitAnswerLost, At
<1> QED
  BY <1>3, <1>4 DEF Idle

LEMMA RequestAlone ==
    ASSUME ~Overlapping, NEW w \in Workers, Inv, Request(w)
    PROVE  /\ Alone(w) /\ Quiet /\ UNCHANGED documents
           /\ job'[w].at \notin {"copy", "commit"}
<1>1. DOMAIN job = Workers
  BY DEF Inv, TypeInv
<1>2. PICK h, v, j : Take(w, h, v, j) /\ j.at \notin {"copy", "commit"}
  <2>1. \A rest : [From("load") EXCEPT !.rest = rest].at = "load"
    BY DEF From
  <2>2. \A post : [From("find") EXCEPT !.post = post].at = "find"
    BY DEF From
  <2>3. \A held : /\ [From("completed") EXCEPT !.held = held].at = "completed"
                  /\ [From("asset") EXCEPT !.held = held].at = "asset"
                  /\ [From("picture") EXCEPT !.held = held].at = "picture"
    BY DEF From
  <2>4. CASE \E v \in Visits : VisitLetterSent(w, v)
    BY <2>4 DEF VisitLetterSent, From
  <2>10. CASE \E v \in Visits : AssignVisitsToGroup(w, v)
    BY <2>10 DEF AssignVisitsToGroup, From
  <2>5. CASE \E v \in Visits : CreateVisitResponse(w, v)
    BY <2>2, <2>5 DEF CreateVisitResponse
  <2>6. CASE \E v \in Visits : CompleteVisitResponse(w, v)
    BY <2>3, <2>6 DEF CompleteVisitResponse
  <2>7. CASE \E v \in Visits : UploadVisitImage(w, v)
    BY <2>3, <2>7 DEF UploadVisitImage
  <2>8. CASE \E a \in assets : UploadAssetImage(w, a)
    BY <2>3, <2>8 DEF UploadAssetImage
  <2>9. CASE ReviewedVisit(w)
    BY <2>1, <2>9 DEF ReviewedVisit
  <2> QED
    BY <2>4, <2>5, <2>6, <2>7, <2>8, <2>9, <2>10 DEF Request
<1>3. Alone(w) /\ Quiet /\ job'[w].at \notin {"copy", "commit"}
  BY <1>1, <1>2 DEF Take, Alone
<1>4. UNCHANGED documents
  BY DEF Request, AssignVisitsToGroup, VisitLetterSent, CreateVisitResponse, CompleteVisitResponse,
     UploadVisitImage, UploadAssetImage, ReviewedVisit, caseVars
<1> QED
  BY <1>3, <1>4

\* Only a commit adds a document, one whose title was not on the case.
LEMMA DocumentsByCommit ==
    ASSUME NEW w \in Workers, Step(w) \/ Failure(w)
    PROVE  \/ UNCHANGED documents
           \/ At(w, "commit") /\ documents' = documents \cup {Document(job[w])}
BY DEF Step, Failure, ReadStatus, WriteStatus, WriteLog, FindResponse, CreateResponse,
   UpdateResponse, ResetAssets, ListAssets, SaveCompleted, SaveAsset, SavePicture,
   SavePath, LoadVisit, CheckTitle, CopyFile, CommitDocument, StepFails, LogFails,
   PictureFails, ImportFails, CommitAnswerLost, caseVars

LEMMA FinishLeaves ==
    ASSUME NEW w \in Workers, Inv, Finish(w), job[w] # Idle
    PROVE  job'[w].at \notin {"copy", "commit"}
<1>1. DOMAIN job = Workers /\ Sound(job[w], response, documents, pictures)
  BY DEF Inv, TypeInv, JobOK
<1>2. CASE job[w].rest = <<>>
  BY <1>1, <1>2 DEF Finish, Idle
<1>3. CASE job[w].rest # <<>>
  <2>1. job'[w] = NextVisit(job[w])
    BY <1>1, <1>3 DEF Finish
  <2>2. job[w] = [handler |-> job[w].handler, visit |-> job[w].visit, at |-> job[w].at,
                  rest |-> job[w].rest, post |-> job[w].post, held |-> job[w].held]
    BY <1>1 DEF Sound
  <2>3. \A v, r : [job[w] EXCEPT !.at = "load", !.visit = v, !.rest = r, !.held = None].at
                    = "load"
    BY <2>2
  <2> QED
    BY <2>1, <2>3 DEF NextVisit
<1> QED
  BY <1>2, <1>3

\* A review is at the copy or the commit only behind a look at the titles.
LEMMA CopyIsChecked ==
    ASSUME NEW w \in Workers, Inv, Step(w) \/ Failure(w),
           job'[w].at \in {"copy", "commit"}
    PROVE  /\ UNCHANGED documents
           /\ job'[w].visit = job[w].visit
           /\ ~documentExists(Title[job[w].visit]) \/ At(w, "copy")
<1>1. job[w] # Idle
  BY StepAlone
<1>2. Sound(job[w], response, documents, pictures)
  BY <1>1 DEF Inv, JobOK
<1>3. ~Finish(w)
  BY <1>1, FinishLeaves
<1>4. ASSUME NEW step, Go(w, step) \/ \E held : GoHolding(w, step, held)
      PROVE  step \in {"copy", "commit"} /\ job'[w].visit = job[w].visit
  <2>1. PICK held : job'[w] = [handler |-> job[w].handler, visit |-> job[w].visit,
                               at |-> step, rest |-> job[w].rest,
                               post |-> job[w].post, held |-> held]
    BY <1>2, <1>4, Moves
  <2> QED
    BY <2>1
<1>5. ~Failure(w)
  BY <1>3 DEF Failure, StepFails, LogFails, PictureFails, ImportFails, CommitAnswerLost
<1>6. CheckTitle(w) \/ CopyFile(w)
  <2>1. ~WriteStatus(w) /\ ~WriteLog(w)
    BY <1>3, <1>4 DEF WriteStatus, WriteLog
  <2>5. ~ReadStatus(w)
    <3>1. ~GoHolding(w, "writeStatus", status[job[w].visit])
      BY <1>4
    <3> QED
      BY <1>3, <3>1 DEF ReadStatus
  <2>2. ~FindResponse(w) /\ ~CreateResponse(w) /\ ~UpdateResponse(w)
    BY <1>4 DEF FindResponse, CreateResponse, UpdateResponse
  <2>3. ~ResetAssets(w) /\ ~ListAssets(w) /\ ~SaveCompleted(w) /\ ~SaveAsset(w)
    BY <1>3, <1>4 DEF ResetAssets, ListAssets, SaveCompleted, SaveAsset
  <2>4. ~SavePicture(w) /\ ~SavePath(w) /\ ~LoadVisit(w) /\ ~CommitDocument(w)
    BY <1>3, <1>4 DEF SavePicture, SavePath, LoadVisit, CommitDocument
  <2> QED
    BY <1>5, <2>1, <2>2, <2>3, <2>4, <2>5 DEF Step
<1>7. CASE CheckTitle(w)
  BY <1>3, <1>4, <1>7 DEF CheckTitle, caseVars
<1>8. CASE CopyFile(w)
  BY <1>4, <1>8 DEF CopyFile
<1> QED
  BY <1>6, <1>7, <1>8

LEMMA SerialNext ==
    ASSUME ~Overlapping, SerialInv, [Next]_vars
    PROVE  SerialInv'
<1>1. Inv'
  BY NextKeeps DEF SerialInv
<1>2. ASSUME NEW w \in Workers, Step(w) \/ Failure(w)
      PROVE  (OneRequest /\ Checked /\ OneDocumentPerTitle)'
  <2>1. Alone(w) /\ job[w] # Idle
    BY <1>2, StepAlone DEF SerialInv
  <2>2. \A x \in Workers \ {w} : job'[x] = Idle
    BY <2>1 DEF SerialInv, OneRequest, Alone
  <2>3. OneRequest'
    BY <2>2 DEF OneRequest
  <2>4. Checked'
    <3>1. ASSUME job'[w].at \in {"copy", "commit"}
          PROVE  \A d \in documents' : d.title # Title[job'[w].visit]
      <4>1. /\ UNCHANGED documents
            /\ job'[w].visit = job[w].visit
            /\ ~documentExists(Title[job[w].visit]) \/ At(w, "copy")
        BY <1>2, <3>1, CopyIsChecked DEF SerialInv
      <4>2. ~documentExists(Title[job[w].visit])
        BY <4>1 DEF SerialInv, Checked, At
      <4> QED
        BY <4>1, <4>2 DEF documentExists
    <3> QED
      BY <2>2, <3>1 DEF Checked, Idle, documentExists
  <2>5. OneDocumentPerTitle'
    <3>1. CASE UNCHANGED documents
      BY <3>1 DEF SerialInv, OneDocumentPerTitle
    <3>2. CASE At(w, "commit") /\ documents' = documents \cup {Document(job[w])}
      <4>1. \A d \in documents : d.title # Document(job[w]).title
        BY <3>2 DEF SerialInv, Checked, At, documentExists, Document
      <4> QED
        BY <3>2, <4>1 DEF SerialInv, OneDocumentPerTitle
    <3> QED
      BY <1>2, <3>1, <3>2, DocumentsByCommit
  <2> QED
    BY <2>3, <2>4, <2>5
<1>3. ASSUME NEW w \in Workers, Request(w)
      PROVE  (OneRequest /\ Checked /\ OneDocumentPerTitle)'
  <2>1. /\ Alone(w) /\ Quiet /\ UNCHANGED documents
        /\ job'[w].at \notin {"copy", "commit"}
    BY <1>3, RequestAlone DEF SerialInv
  <2>2. \A x \in Workers \ {w} : job'[x] = Idle
    BY <2>1 DEF Alone, Quiet
  <2> QED
    BY <2>1, <2>2 DEF SerialInv, OneRequest, Checked, OneDocumentPerTitle, Idle
<1>4. CASE Crash
  BY <1>1, <1>4 DEF Crash, SerialInv, OneRequest, Checked, OneDocumentPerTitle, caseVars, Idle
<1>5. CASE UNCHANGED vars
  BY <1>1, <1>5 DEF SerialInv, OneRequest, Checked, OneDocumentPerTitle, documentExists, At,
              vars, caseVars
<1> QED
  BY <1>1, <1>2, <1>3, <1>4, <1>5 DEF Next, SerialInv

\* While requests do not overlap, a repeated review puts no second document with
\* one title on the case (documentExists), whatever fails in between.
THEOREM SerialDocuments ==
    ASSUME ~Overlapping
    PROVE  Spec => []OneDocumentPerTitle
<1>1. Init => SerialInv
  <2>1. Init => OneRequest /\ Checked /\ OneDocumentPerTitle
    BY DEF Init, OneRequest, Checked, OneDocumentPerTitle, Idle
  <2> QED
    BY <2>1, InitEstablishes DEF SerialInv
<1>2. SerialInv /\ [Next]_vars => SerialInv'
  BY SerialNext
<1>3. SerialInv => OneDocumentPerTitle
  BY DEF SerialInv
<1> QED
  BY <1>1, <1>2, <1>3, PTL DEF Spec
=============================================================================
