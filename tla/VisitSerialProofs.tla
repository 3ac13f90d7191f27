------------------------- MODULE VisitSerialProofs --------------------------
(***************************************************************************)
(* Proofs about VisitLifecycle when a request is answered before the next  *)
(* one arrives, for any number of visits, images and files: what a request *)
(* leaves behind when it fails, and what the server leaves behind when it  *)
(* stops, is one inconsistency for every fault and no more, and what a     *)
(* post that was answered leaves is what was posted.                       *)
(***************************************************************************)
EXTENDS VisitLifecycleProofs, FiniteSetTheorems

AtMost(S, n) == IsFiniteSet(S) /\ Cardinality(S) <= n

LEMMA Fewer ==
    ASSUME NEW S, NEW n \in Nat, AtMost(S, n), NEW m \in Nat, n <= m, NEW T, T \subseteq S
    PROVE  AtMost(T, m)
<1>1. IsFiniteSet(T) /\ Cardinality(T) <= Cardinality(S)
  BY FS_Subset DEF AtMost
<1>2. Cardinality(T) \in Nat /\ Cardinality(S) \in Nat
  BY <1>1, FS_CardinalityType DEF AtMost
<1> QED
  BY <1>1, <1>2 DEF AtMost

LEMMA NothingOwed == AtMost({}, 0)
BY FS_EmptySet DEF AtMost

LEMMA OneMore ==
    ASSUME NEW S, NEW n \in Nat, AtMost(S, n), NEW x, NEW T, T \subseteq S \cup {x}
    PROVE  AtMost(T, n + 1)
<1>1. IsFiniteSet(S \cup {x}) /\ Cardinality(S \cup {x}) <= Cardinality(S) + 1
  <2>1. Cardinality(S) \in Nat
    BY FS_CardinalityType DEF AtMost
  <2>2. /\ IsFiniteSet(S \cup {x})
        /\ Cardinality(S \cup {x}) = IF x \in S THEN Cardinality(S) ELSE Cardinality(S) + 1
    BY FS_AddElement DEF AtMost
  <2> QED
    BY <2>1, <2>2
<1>2. Cardinality(S) \in Nat /\ Cardinality(S \cup {x}) \in Nat
  BY <1>1, FS_CardinalityType DEF AtMost
<1>3. AtMost(S \cup {x}, n + 1)
  BY <1>1, <1>2 DEF AtMost
<1> QED
  BY <1>3, Fewer

----------------------------------------------------------------------------
\* The one request that is under way.

Serial == SerialInv /\ faults \in Nat

ToAt(w, step) == Go(w, step) \/ \E held : GoHolding(w, step, held)

LEMMA SerialIsInv ==
    ASSUME Serial
    PROVE  Inv /\ OneRequest /\ DOMAIN job = Workers /\ faults \in Nat
BY DEF Serial, SerialInv, Inv, TypeInv

LEMMA NextVisitFields ==
    ASSUME NEW j,
           j = [handler |-> j.handler, visit |-> j.visit, at |-> j.at,
                rest |-> j.rest, post |-> j.post, held |-> j.held]
    PROVE  NextVisit(j).at = "load" /\ NextVisit(j).handler = j.handler
BY DEF NextVisit

\* Where a step leaves its request.
LEMMA Landing ==
    ASSUME Serial, NEW w \in Workers, job[w] # Idle
    PROVE  /\ \A x \in Workers \ {w} : job[x] = Idle
           /\ Finish(w) =>
                /\ Alone(w) /\ job'[w].at \in {"idle", "load"}
                /\ job'[w] = Idle \/ job'[w].handler = "ReviewedVisit"
           /\ \A step : Go(w, step) =>
                /\ Alone(w) /\ job'[w].at = step
                /\ job'[w].handler = job[w].handler /\ job'[w].visit = job[w].visit
                /\ job'[w].post = job[w].post /\ job'[w].held = job[w].held
           /\ \A step, held : GoHolding(w, step, held) =>
                /\ Alone(w) /\ job'[w].at = step
                /\ job'[w].handler = job[w].handler /\ job'[w].visit = job[w].visit
                /\ job'[w].post = job[w].post /\ job'[w].held = held
<1>1. Inv /\ OneRequest /\ DOMAIN job = Workers
  BY SerialIsInv
<1>2. Sound(job[w], response, documents, pictures)
  BY <1>1 DEF Inv, JobOK
<1>3. \A x \in Workers \ {w} : job[x] = Idle
  BY <1>1 DEF OneRequest
<1>4. ASSUME Finish(w)
      PROVE  /\ Alone(w) /\ job'[w].at \in {"idle", "load"}
             /\ job'[w] = Idle \/ job'[w].handler = "ReviewedVisit"
  <2>1. Alone(w)
    BY <1>1, <1>2, <1>4, Moves
  <2>2. CASE job[w].rest = <<>>
    BY <1>1, <1>4, <2>1, <2>2 DEF Finish, Idle
  <2>3. CASE job[w].rest # <<>>
    <3>1. job'[w] = NextVisit(job[w])
      BY <1>1, <1>4, <2>3 DEF Finish
    <3>2. job[w] = [handler |-> job[w].handler, visit |-> job[w].visit, at |-> job[w].at,
                    rest |-> job[w].rest, post |-> job[w].post, held |-> job[w].held]
      BY <1>2 DEF Sound
    <3>3. job'[w].at = "load" /\ job'[w].handler = job[w].handler
      BY <3>1, <3>2, NextVisitFields
    <3> QED
      BY <1>2, <2>1, <2>3, <3>3 DEF Sound
  <2> QED
    BY <2>2, <2>3
<1>5. ASSUME NEW step, Go(w, step)
      PROVE  /\ Alone(w) /\ job'[w].at = step
             /\ job'[w].handler = job[w].handler /\ job'[w].visit = job[w].visit
             /\ job'[w].post = job[w].post /\ job'[w].held = job[w].held
  <2>1. /\ Alone(w)
        /\ job'[w] = [handler |-> job[w].handler, visit |-> job[w].visit,
                      at |-> step, rest |-> job[w].rest,
                      post |-> job[w].post, held |-> job[w].held]
    BY <1>1, <1>2, <1>5, Moves
  <2> QED
    BY <2>1
<1>6. ASSUME NEW step, NEW held, GoHolding(w, step, held)
      PROVE  /\ Alone(w) /\ job'[w].at = step
             /\ job'[w].handler = job[w].handler /\ job'[w].visit = job[w].visit
             /\ job'[w].post = job[w].post /\ job'[w].held = held
  <2>1. /\ Alone(w)
        /\ job'[w] = [handler |-> job[w].handler, visit |-> job[w].visit,
                      at |-> step, rest |-> job[w].rest,
                      post |-> job[w].post, held |-> held]
    BY <1>1, <1>2, <1>6, Moves
  <2> QED
    BY <2>1
<1> QED
  BY <1>3, <1>4, <1>5, <1>6

LEMMA SomeStep ==
    ASSUME Serial, NEW w \in Workers, NEW steps, \E step \in steps : ToAt(w, step),
           job[w] # Idle
    PROVE  job'[w].at \in steps
BY Landing DEF ToAt

\* A request is taken when no other is served.
LEMMA Taken ==
    ASSUME Serial, ~Overlapping, NEW w \in Workers, NEW h, NEW v, NEW j, Take(w, h, v, j)
    PROVE  /\ Quiet /\ Alone(w)
           /\ job'[w] = [handler |-> h, visit |-> v, at |-> j.at,
                         rest |-> j.rest, post |-> j.post, held |-> j.held]
BY SerialIsInv DEF Take, Alone

LEMMA Froms ==
    /\ \A step : From(step) = [at |-> step, rest |-> <<>>, post |-> None, held |-> None]
    /\ \A step, held : [From(step) EXCEPT !.held = held]
                         = [at |-> step, rest |-> <<>>, post |-> None, held |-> held]
    /\ \A step, post : [From(step) EXCEPT !.post = post]
                         = [at |-> step, rest |-> <<>>, post |-> post, held |-> None]
    /\ \A step, rest : [From(step) EXCEPT !.rest = rest]
                         = [at |-> step, rest |-> rest, post |-> None, held |-> None]
BY DEF From

LEMMA QuietIsIdle ==
    ASSUME Quiet, NEW w \in Workers
    PROVE  job[w] = Idle /\ job[w].at = "idle"
BY DEF Quiet, Idle

\* A crash cuts off the one request.
LEMMA CrashOfOne ==
    ASSUME Serial, Crash
    PROVE  /\ \E w \in Workers : job[w] # Idle /\ \A x \in Workers \ {w} : job[x] = Idle
           /\ \A x \in Workers : job'[x] = Idle /\ job'[x].at = "idle"
           /\ faults' = faults + 1
           /\ UNCHANGED <<status, log, response, assets, images, pictures, documents,
                          caseFiles, accepted>>
<1>1. \E w \in Workers : job[w] # Idle /\ \A x \in Workers \ {w} : job[x] = Idle
  BY SerialIsInv DEF Crash, Quiet, OneRequest
<1>2. \A x \in Workers : job'[x] = Idle /\ job'[x].at = "idle"
  BY DEF Crash, Idle
<1> QED
  BY <1>1, <1>2 DEF Crash, Fault, responseVars, imageVars, caseVars

----------------------------------------------------------------------------
\* Images.

\* An upload that is under way owns the one row of its image.
Uploading(w) == job[w].at \in {"picture", "path"}
PendingImages == {image \in images : image.path = "pending"}
Orphans ==
    {image \in PendingImages : \A w \in Workers : Uploading(w) => image.id # job[w].held}

ImageInv ==
    /\ images \subseteq [id : Images, visit : Visits, path : {"pending", "stored"}]
    /\ \A w \in Workers : Uploading(w) => \E row \in images : RowOf(job[w].held) = {row}
    /\ AtMost(Orphans, faults)

LEMMA ImagesAside ==
    ASSUME Serial, ImageInv, UNCHANGED images, faults' \in Nat, faults <= faults',
           \A x \in Workers : ~Uploading(x) /\ ~Uploading(x)'
    PROVE  ImageInv'
<1>1. Orphans' = Orphans
  BY DEF Orphans, PendingImages
<1>2. AtMost(Orphans, faults) /\ faults \in Nat
  BY SerialIsInv DEF ImageInv
<1>3. AtMost(Orphans, faults')
  BY <1>2, Fewer
<1> QED
  BY <1>1, <1>3 DEF ImageInv

LEMMA StepsOfUploads ==
    ASSUME Serial, NEW w \in Workers, Step(w) \/ Failure(w)
    PROVE  \/ SavePicture(w) \/ SavePath(w) \/ PictureFails(w)
           \/ /\ UNCHANGED images /\ faults' \in {faults, faults + 1}
              /\ ~Uploading(w) /\ ~Uploading(w)'
<1> SUFFICES ASSUME ~SavePicture(w), ~SavePath(w), ~PictureFails(w)
             PROVE  /\ UNCHANGED images /\ faults' \in {faults, faults + 1}
                    /\ ~Uploading(w) /\ ~Uploading(w)'
  OBVIOUS
<1>1. job[w] # Idle
  BY SerialIsInv, StepAlone
<1>2. UNCHANGED images /\ faults' \in {faults, faults + 1} /\ ~Uploading(w)
  BY DEF Uploading, Step, Failure, ReadStatus, WriteStatus, WriteLog, FindResponse,
     CreateResponse, UpdateResponse, ResetAssets, ListAssets, SaveCompleted, SaveAsset,
     LoadVisit, CheckTitle, CopyFile, CommitDocument, StepFails, LogFails, ImportFails,
     CommitAnswerLost, At, Fault, imageVars
<1>3. \/ Finish(w)
      \/ \E step \in {"writeStatus", "writeLog", "upsert", "reset", "list", "readStatus",
                      "title", "copy", "commit"} : ToAt(w, step)
  BY DEF Step, Failure, ReadStatus, WriteStatus, WriteLog, FindResponse,
     CreateResponse, UpdateResponse, ResetAssets, ListAssets, SaveCompleted, SaveAsset,
     LoadVisit, CheckTitle, CopyFile, CommitDocument, StepFails, LogFails, ImportFails,
     CommitAnswerLost, ToAt
<1>4. CASE Finish(w)
  BY <1>1, <1>2, <1>4, Landing DEF Uploading
<1>5. CASE \E step \in {"writeStatus", "writeLog", "upsert", "reset", "list", "readStatus",
                        "title", "copy", "commit"} : ToAt(w, step)
  BY <1>1, <1>2, <1>5, SomeStep DEF Uploading
<1> QED
  BY <1>3, <1>4, <1>5

LEMMA UploadStepsKeep ==
    ASSUME Serial, ImageInv, NEW w \in Workers, Step(w) \/ Failure(w)
    PROVE  ImageInv'
<1> DEFINE i == job[w].held
<1>0. AtMost(Orphans, faults) /\ faults \in Nat
  BY SerialIsInv DEF ImageInv
<1>1. /\ job[w] # Idle /\ Alone(w)
      /\ \A x \in Workers \ {w} : ~Uploading(x) /\ ~Uploading(x)'
  <2>1. job[w] # Idle /\ Alone(w)
    BY SerialIsInv, StepAlone
  <2>2. \A x \in Workers \ {w} : job[x] = Idle /\ job'[x] = Idle
    BY <2>1, Landing DEF Alone
  <2> QED
    BY <2>1, <2>2 DEF Uploading, Idle
<1>2. CASE SavePicture(w)
  <2>1. At(w, "picture") /\ Go(w, "path") /\ UNCHANGED <<images, faults>>
    BY <1>2 DEF SavePicture
  <2>2. Uploading(w) /\ Uploading(w)' /\ job'[w].held = job[w].held
    BY <1>1, <2>1, Landing DEF Uploading, At
  <2>3. Orphans' = Orphans
    BY <1>1, <2>1, <2>2 DEF Orphans, PendingImages
  <2>4. \A x \in Workers : Uploading(x)' => Uploading(x) /\ job'[x].held = job[x].held
    BY <1>1, <2>2
  <2> QED
    BY <2>1, <2>3, <2>4 DEF ImageInv, RowOf
<1>3. ASSUME Uploading(w), Finish(w), NEW row \in images, RowOf(i) = {row},
             NEW stored \in [id : Images, visit : Visits, path : {"stored"}],
             \/ images' = images \ {row} /\ faults' = faults
             \/ images' = (images \ {row}) \cup {stored} /\ faults' = faults
             \/ images' = images /\ faults' = faults + 1
      PROVE  ImageInv'
  <2>1. \A x \in Workers : ~Uploading(x)'
    BY <1>1, <1>3, Landing DEF Uploading
  <2>2. Orphans = PendingImages \ {row}
    BY <1>1, <1>3 DEF Orphans, PendingImages, RowOf
  <2>3. Orphans' = PendingImages'
    BY <2>1 DEF Orphans
  <2>4. \/ PendingImages' \subseteq Orphans /\ faults' = faults
        \/ PendingImages' \subseteq Orphans \cup {row} /\ faults' = faults + 1
    BY <1>3, <2>2 DEF PendingImages
  <2>5. AtMost(PendingImages', faults')
    BY <1>0, <2>4, Fewer, OneMore
  <2>6. images' \subseteq [id : Images, visit : Visits, path : {"pending", "stored"}]
    BY <1>3 DEF ImageInv
  <2> QED
    BY <2>1, <2>3, <2>5, <2>6 DEF ImageInv
<1>4. CASE PictureFails(w) \/ SavePath(w)
  <2>1. Uploading(w) /\ Finish(w)
    BY <1>4 DEF PictureFails, SavePath, Uploading, At
  <2>2. PICK row \in images : RowOf(i) = {row}
    BY <2>1 DEF ImageInv
  <2>3. [row EXCEPT !.path = "stored"] \in [id : Images, visit : Visits, path : {"stored"}]
    BY DEF ImageInv
  <2>4. {[r EXCEPT !.path = "stored"] : r \in RowOf(i)} = {[row EXCEPT !.path = "stored"]}
    BY <2>2
  <2>5. \/ images' = images \ {row} /\ faults' = faults
        \/ /\ images' = (images \ {row}) \cup {[row EXCEPT !.path = "stored"]}
           /\ faults' = faults
        \/ images' = images /\ faults' = faults + 1
    BY <1>4, <2>2, <2>4 DEF PictureFails, SavePath, Fault
  <2> QED
    BY <1>3, <2>1, <2>2, <2>3, <2>5
<1>5. CASE /\ UNCHANGED images /\ faults' \in {faults, faults + 1}
           /\ ~Uploading(w) /\ ~Uploading(w)'
  BY <1>0, <1>1, <1>5, ImagesAside
<1> QED
  BY <1>2, <1>4, <1>5, StepsOfUploads

LEMMA UploadRequestKeeps ==
    ASSUME Serial, ~Overlapping, ImageInv, NEW w \in Workers, NEW v \in Visits,
           UploadVisitImage(w, v)
    PROVE  ImageInv'
<1>1. PICK i \in Images \ {image.id : image \in images} :
        /\ Take(w, "UploadVisitImage", v, [From("picture") EXCEPT !.held = i])
        /\ images' = images \cup {[id |-> i, visit |-> v, path |-> "pending"]}
  BY DEF UploadVisitImage
<1> DEFINE row == [id |-> i, visit |-> v, path |-> "pending"]
<1>2. /\ Quiet /\ Alone(w) /\ UNCHANGED faults
      /\ job'[w] = [handler |-> "UploadVisitImage", visit |-> v, at |-> "picture",
                    rest |-> <<>>, post |-> None, held |-> i]
  <2>1. [From("picture") EXCEPT !.held = i]
          = [at |-> "picture", rest |-> <<>>, post |-> None, held |-> i]
    BY Froms
  <2> QED
    BY <1>1, <2>1, Taken DEF UploadVisitImage
<1>3. /\ \A x \in Workers : ~Uploading(x)
      /\ \A x \in Workers \ {w} : ~Uploading(x)'
      /\ Uploading(w)' /\ job'[w].held = i
  BY <1>2, QuietIsIdle DEF Uploading, Alone
<1>4. (RowOf(i))' = {row}
  BY <1>1 DEF RowOf
<1>5. Orphans' = Orphans
  <2>1. Orphans = PendingImages
    BY <1>3 DEF Orphans
  <2>2. \A image \in Orphans' : image \in images' /\ image.path = "pending" /\ image.id # i
    BY <1>3 DEF Orphans, PendingImages
  <2>3. Orphans' \subseteq PendingImages
    BY <1>1, <2>2 DEF PendingImages
  <2>4. PendingImages \subseteq Orphans'
    BY <1>1, <1>3 DEF Orphans, PendingImages
  <2> QED
    BY <2>1, <2>3, <2>4
<1>6. images' \subseteq [id : Images, visit : Visits, path : {"pending", "stored"}]
  BY <1>1 DEF ImageInv
<1>7. \A x \in Workers : Uploading(x)' => \E r \in images' : RowOf(job[x].held)' = {r}
  <2>1. row \in images'
    BY <1>1
  <2> QED
    BY <1>3, <1>4, <2>1 DEF RowOf
<1> QED
  BY <1>2, <1>5, <1>6, <1>7 DEF ImageInv

\* What every request leaves alone.
LEMMA RequestsAside ==
    ASSUME Serial, ~Overlapping, NEW w \in Workers, Request(w)
    PROVE  /\ Quiet /\ Alone(w) /\ UNCHANGED <<faults, response, assets, pictures, log>>
           /\ UNCHANGED <<documents, caseFiles>>
           /\ job'[w].at \in {"readStatus", "find", "completed", "asset", "picture", "load"}
           /\ job'[w].at = "picture" => \E v \in Visits : UploadVisitImage(w, v)
           /\ UNCHANGED images \/ \E v \in Visits : UploadVisitImage(w, v)
<1>1. PICK h, v, j : /\ Take(w, h, v, j)
                     /\ j.at \in {"readStatus", "find", "completed", "asset", "picture", "load"}
                     /\ j.at = "picture" => \E x \in Visits : UploadVisitImage(w, x)
  <2>4. CASE \E v \in Visits : VisitLetterSent(w, v)
    BY <2>4, Froms DEF VisitLetterSent
  <2>10. CASE \E v \in Visits : AssignVisitsToGroup(w, v)
    BY <2>10, Froms DEF AssignVisitsToGroup
  <2>5. CASE \E v \in Visits : CreateVisitResponse(w, v)
    <3>0. PICK v \in Visits : CreateVisitResponse(w, v)
      BY <2>5
    <3>1. PICK post : Take(w, "CreateVisitResponse", v, [From("find") EXCEPT !.post = post])
      BY <3>0 DEF CreateVisitResponse
    <3>2. [From("find") EXCEPT !.post = post].at = "find"
      BY Froms
    <3> QED
      BY <3>1, <3>2
  <2>6. CASE \E v \in Visits : CompleteVisitResponse(w, v)
    <3>1. PICK v \in Visits : Take(w, "CompleteVisitResponse", v, [From("completed") EXCEPT !.held = response[v]])
      BY <2>6 DEF CompleteVisitResponse
    <3>2. [From("completed") EXCEPT !.held = response[v]].at = "completed"
      BY Froms
    <3> QED
      BY <3>1, <3>2
  <2>7. CASE \E v \in Visits : UploadVisitImage(w, v)
    <3>1. PICK v \in Visits, i \in Images : Take(w, "UploadVisitImage", v, [From("picture") EXCEPT !.held = i])
      BY <2>7 DEF UploadVisitImage
    <3>2. [From("picture") EXCEPT !.held = i].at = "picture"
      BY Froms
    <3> QED
      BY <2>7, <3>1, <3>2
  <2>8. CASE \E a \in assets : UploadAssetImage(w, a)
    <3>1. PICK a \in assets : Take(w, "UploadAssetImage", a.visit, [From("asset") EXCEPT !.held = a])
      BY <2>8 DEF UploadAssetImage
    <3>2. [From("asset") EXCEPT !.held = a].at = "asset"
      BY Froms
    <3> QED
      BY <3>1, <3>2
  <2>9. CASE ReviewedVisit(w)
    <3>1. PICK ids \in Rounds : Take(w, "ReviewedVisit", Head(ids), [From("load") EXCEPT !.rest = Tail(ids)])
      BY <2>9 DEF ReviewedVisit
    <3>2. \A rest : [From("load") EXCEPT !.rest = rest].at = "load"
      BY Froms
    <3> QED
      BY <3>1, <3>2
  <2> QED
    BY <2>4, <2>5, <2>6, <2>7, <2>8, <2>9, <2>10 DEF Request
<1>2. Quiet /\ Alone(w) /\ job'[w].at = j.at
  <2>1. /\ Quiet /\ Alone(w)
        /\ job'[w] = [handler |-> h, visit |-> v, at |-> j.at,
                      rest |-> j.rest, post |-> j.post, held |-> j.held]
    BY <1>1, Taken
  <2> QED
    BY <2>1
<1>3. /\ UNCHANGED <<faults, response, assets, pictures, log>>
      /\ UNCHANGED <<documents, caseFiles>>
      /\ UNCHANGED images \/ \E x \in Visits : UploadVisitImage(w, x)
  BY DEF Request, AssignVisitsToGroup, VisitLetterSent, CreateVisitResponse,
     CompleteVisitResponse, UploadVisitImage, UploadAssetImage, ReviewedVisit, responseVars,
     imageVars, caseVars
<1> QED
  BY <1>1, <1>2, <1>3

LEMMA SerialBase == ~Overlapping /\ Serial /\ [Next]_vars => Serial'
<1> SUFFICES ASSUME ~Overlapping, Serial, [Next]_vars PROVE Serial'
  OBVIOUS
<1>1. SerialInv'
  BY SerialNext DEF Serial
<1>2. faults' \in {faults, faults + 1}
  BY DEF Next, vars, Crash, Fault, Request, AssignVisitsToGroup, VisitLetterSent,
     CreateVisitResponse, CompleteVisitResponse, UploadVisitImage, UploadAssetImage,
     ReviewedVisit, Step, Failure, ReadStatus, WriteStatus, WriteLog, FindResponse,
     CreateResponse, UpdateResponse, ResetAssets, ListAssets, SaveCompleted, SaveAsset,
     SavePicture, SavePath, LoadVisit, CheckTitle, CopyFile, CommitDocument, StepFails,
     LogFails, PictureFails, ImportFails, CommitAnswerLost
<1> QED
  BY <1>1, <1>2 DEF Serial

LEMMA SerialStart == Init => Serial
<1> SUFFICES ASSUME Init PROVE Serial
  OBVIOUS
<1>1. OneRequest /\ Checked /\ OneDocumentPerTitle /\ faults \in Nat
  BY DEF Init, OneRequest, Checked, OneDocumentPerTitle, Idle
<1> QED
  BY <1>1, InitEstablishes DEF SerialInv, Serial

LEMMA ImagesNext == ~Overlapping /\ Serial /\ ImageInv /\ [Next]_vars => ImageInv'
<1> SUFFICES ASSUME ~Overlapping, Serial, ImageInv, [Next]_vars PROVE ImageInv'
  OBVIOUS
<1>0. AtMost(Orphans, faults) /\ faults \in Nat
  BY SerialIsInv DEF ImageInv
<1>1. ASSUME NEW w \in Workers, Request(w)
      PROVE  ImageInv'
  <2>1. CASE \E v \in Visits : UploadVisitImage(w, v)
    BY <2>1, UploadRequestKeeps
  <2>2. CASE ~ \E v \in Visits : UploadVisitImage(w, v)
    <3>1. /\ Quiet /\ Alone(w) /\ UNCHANGED <<faults, images>>
          /\ job'[w].at \notin {"picture", "path"}
      BY <1>1, <2>2, RequestsAside
    <3>2. \A x \in Workers : ~Uploading(x) /\ ~Uploading(x)'
      BY <3>1, QuietIsIdle DEF Uploading, Alone
    <3> QED
      BY <1>0, <3>1, <3>2, ImagesAside
  <2> QED
    BY <2>1, <2>2
<1>2. CASE Crash
  <2>1. PICK w \in Workers : job[w] # Idle /\ \A x \in Workers \ {w} : job[x] = Idle
    BY <1>2, CrashOfOne
  <2>2. /\ \A x \in Workers : ~Uploading(x)'
        /\ UNCHANGED images /\ faults' = faults + 1
    BY <1>2, CrashOfOne DEF Uploading
  <2>3. \E row : PendingImages \subseteq Orphans \cup {row}
    <3>1. \A x \in Workers \ {w} : ~Uploading(x)
      BY <2>1 DEF Uploading, Idle
    <3>2. CASE Uploading(w)
      <4>1. PICK row : RowOf(job[w].held) = {row}
        BY <3>2 DEF ImageInv
      <4>2. PendingImages \subseteq Orphans \cup {row}
        BY <3>1, <4>1 DEF Orphans, PendingImages, RowOf
      <4> QED
        BY <4>2
    <3>3. CASE ~Uploading(w)
      BY <3>1, <3>3 DEF Orphans
    <3> QED
      BY <3>2, <3>3
  <2>4. AtMost(PendingImages, faults + 1)
    BY <1>0, <2>3, OneMore
  <2>5. Orphans' = PendingImages
    BY <2>2 DEF Orphans, PendingImages
  <2> QED
    BY <2>2, <2>4, <2>5 DEF ImageInv
<1>3. CASE UNCHANGED vars
  BY <1>3 DEF vars, imageVars, ImageInv, Orphans, PendingImages, Uploading, RowOf
<1> QED
  BY <1>1, <1>2, <1>3, UploadStepsKeep DEF Next

\* While requests do not overlap, there are at most as many image rows without a
\* file as there were faults: an upload that fails removes its row
\* (UploadVisitImage), and only one upload is cut off when the server stops.
THEOREM PendingImagesAreFaults ==
    ASSUME ~Overlapping
    PROVE  Spec => []PendingOnlyByFault
<1>1. Init => ImageInv
  <2> SUFFICES ASSUME Init PROVE ImageInv
    OBVIOUS
  <2>1. Orphans = {} /\ faults = 0 /\ images = {}
    BY DEF Init, Orphans, PendingImages
  <2>2. \A w \in Workers : ~Uploading(w)
    BY DEF Init, Uploading, Idle
  <2> QED
    BY <2>1, <2>2, NothingOwed DEF ImageInv
<1>2. ImageInv => PendingOnlyByFault
  <2> SUFFICES ASSUME ImageInv, Quiet PROVE Cardinality(PendingImages) <= faults
    BY DEF PendingOnlyByFault, PendingImages
  <2>1. Orphans = PendingImages
    BY QuietIsIdle DEF Orphans, Uploading
  <2> QED
    BY <2>1 DEF ImageInv, AtMost
<1> QED
  BY <1>1, <1>2, SerialStart, SerialBase, ImagesNext, PTL DEF Spec

----------------------------------------------------------------------------
\* Files of the cases.

\* An import that is under way owns the file it has copied.
Named == {d.file : d \in documents}
Loose == (caseFiles \ Named) \cup (Named \ caseFiles)
Unowned == {name \in Loose : \A w \in Workers : At(w, "commit") => name # job[w].held}

FileInv ==
    /\ \A w \in Workers : At(w, "commit") => job[w].held \in caseFiles \ Named
    /\ AtMost(Unowned, faults)

LEMMA FilesAside ==
    ASSUME Serial, FileInv, UNCHANGED <<documents, caseFiles>>,
           faults' \in Nat, faults <= faults',
           \A x \in Workers : ~At(x, "commit") /\ ~At(x, "commit")'
    PROVE  FileInv'
<1>1. Unowned' = Unowned
  BY DEF Unowned, Loose, Named
<1>2. AtMost(Unowned, faults) /\ faults \in Nat
  BY SerialIsInv DEF FileInv
<1>3. AtMost(Unowned, faults')
  BY <1>2, Fewer
<1> QED
  BY <1>1, <1>3 DEF FileInv

LEMMA StepsOfImports ==
    ASSUME Serial, NEW w \in Workers, Step(w) \/ Failure(w)
    PROVE  \/ CopyFile(w) \/ CommitDocument(w) \/ ImportFails(w) \/ CommitAnswerLost(w)
           \/ /\ UNCHANGED <<documents, caseFiles>> /\ faults' \in {faults, faults + 1}
              /\ ~At(w, "commit") /\ ~At(w, "commit")'
<1> SUFFICES ASSUME ~CopyFile(w), ~CommitDocument(w), ~ImportFails(w), ~CommitAnswerLost(w)
             PROVE  /\ UNCHANGED <<documents, caseFiles>> /\ faults' \in {faults, faults + 1}
                    /\ ~At(w, "commit") /\ ~At(w, "commit")'
  OBVIOUS
<1>1. job[w] # Idle
  BY SerialIsInv, StepAlone
<1>2. UNCHANGED <<documents, caseFiles>> /\ faults' \in {faults, faults + 1}
      /\ ~At(w, "commit")
  BY DEF Step, Failure, ReadStatus, WriteStatus, WriteLog, FindResponse,
     CreateResponse, UpdateResponse, ResetAssets, ListAssets, SaveCompleted, SaveAsset,
     SavePicture, SavePath, LoadVisit, CheckTitle, StepFails, LogFails, PictureFails,
     At, Fault, caseVars
<1>3. \/ Finish(w)
      \/ \E step \in {"writeStatus", "writeLog", "upsert", "reset", "list", "readStatus",
                      "title", "copy", "path"} : ToAt(w, step)
  BY DEF Step, Failure, ReadStatus, WriteStatus, WriteLog, FindResponse,
     CreateResponse, UpdateResponse, ResetAssets, ListAssets, SaveCompleted, SaveAsset,
     SavePicture, SavePath, LoadVisit, CheckTitle, StepFails, LogFails, PictureFails, ToAt
<1>4. CASE Finish(w)
  BY <1>1, <1>2, <1>4, Landing DEF At
<1>5. CASE \E step \in {"writeStatus", "writeLog", "upsert", "reset", "list", "readStatus",
                        "title", "copy", "path"} : ToAt(w, step)
  BY <1>1, <1>2, <1>5, SomeStep DEF At
<1> QED
  BY <1>3, <1>4, <1>5

LEMMA ImportStepsKeep ==
    ASSUME Serial, FileInv, NEW w \in Workers, Step(w) \/ Failure(w)
    PROVE  FileInv'
<1> DEFINE name == job[w].held
<1>0. AtMost(Unowned, faults) /\ faults \in Nat
  BY SerialIsInv DEF FileInv
<1>1. /\ job[w] # Idle /\ Alone(w)
      /\ \A x \in Workers \ {w} : ~At(x, "commit") /\ ~At(x, "commit")'
  <2>1. job[w] # Idle /\ Alone(w)
    BY SerialIsInv, StepAlone
  <2>2. \A x \in Workers \ {w} : job[x] = Idle /\ job'[x] = Idle
    BY <2>1, Landing DEF Alone
  <2> QED
    BY <2>1, <2>2 DEF At, Idle
<1>2. CASE CopyFile(w)
  <2>1. PICK new \in Names \ NamesInUse :
          caseFiles' = caseFiles \cup {new} /\ GoHolding(w, "commit", new)
    BY <1>2 DEF CopyFile
  <2>2. At(w, "copy") /\ UNCHANGED <<documents, faults>>
    BY <1>2 DEF CopyFile
  <2>3. job'[w].at = "commit" /\ job'[w].held = new
    BY <1>1, <2>1, Landing
  <2>4. new \notin caseFiles /\ new \notin Named /\ Named' = Named
    BY <2>1, <2>2 DEF NamesInUse, Named
  <2>5. \A x \in Workers : ~At(x, "commit")
    BY <1>1, <2>2 DEF At
  <2>6. Unowned' \subseteq Unowned
    <3>1. Unowned = Loose
      BY <2>5 DEF Unowned
    <3>2. Unowned' = Loose' \ {new}
      BY <1>1, <2>3 DEF Unowned, At
    <3>3. Loose' \subseteq Loose \cup {new}
      BY <2>1, <2>4 DEF Loose
    <3> QED
      BY <3>1, <3>2, <3>3
  <2>7. AtMost(Unowned', faults')
    BY <1>0, <2>2, <2>6, Fewer
  <2>8. \A x \in Workers : At(x, "commit")' => job'[x].held \in caseFiles' \ Named'
    BY <1>1, <2>1, <2>3, <2>4
  <2> QED
    BY <2>7, <2>8 DEF FileInv
<1>3. ASSUME At(w, "commit"), job'[w].at # "commit",
             \/ /\ Loose' \subseteq Loose \ {name} /\ faults' = faults
             \/ /\ Loose' \subseteq Loose \cup {name} /\ faults' = faults + 1
      PROVE  FileInv'
  <2>1. \A x \in Workers : ~At(x, "commit")'
    BY <1>1, <1>3 DEF At
  <2>2. Unowned = Loose \ {name}
    BY <1>1, <1>3 DEF Unowned
  <2>3. Unowned' = Loose'
    BY <2>1 DEF Unowned
  <2>4. AtMost(Loose', faults')
    <3>1. CASE Loose' \subseteq Loose \ {name} /\ faults' = faults
      BY <1>0, <2>2, <3>1, Fewer
    <3>2. CASE Loose' \subseteq Loose \cup {name} /\ faults' = faults + 1
      <4>1. Loose' \subseteq Unowned \cup {name}
        BY <2>2, <3>2
      <4> QED
        BY <1>0, <3>2, <4>1, OneMore
    <3> QED
      BY <1>3, <3>1, <3>2
  <2> QED
    BY <2>1, <2>3, <2>4 DEF FileInv
<1>4. ASSUME At(w, "commit")
      PROVE  name \in caseFiles \ Named
  BY <1>4 DEF FileInv
<1>5. ASSUME documents' = documents \cup {Document(job[w])}
      PROVE  Named' = Named \cup {name}
  <2>1. Document(job[w]).file = name
    BY DEF Document
  <2> HIDE DEF Document
  <2>2. Named' = Named \cup {Document(job[w]).file}
    BY <1>5 DEF Named
  <2> QED
    BY <2>1, <2>2
<1>6. CASE CommitDocument(w)
  <2>1. /\ At(w, "commit") /\ Go(w, "readStatus") /\ UNCHANGED <<caseFiles, faults>>
        /\ documents' = documents \cup {Document(job[w])}
    BY <1>6 DEF CommitDocument
  <2>2. Loose' \subseteq Loose \ {name}
    BY <1>4, <1>5, <2>1 DEF Loose
  <2>3. job'[w].at # "commit"
    BY <1>1, <2>1, Landing
  <2> QED
    BY <1>3, <2>1, <2>2, <2>3
<1>7. CASE ImportFails(w)
  <2>1. /\ At(w, "commit") /\ Finish(w) /\ UNCHANGED documents
        /\ \/ caseFiles' = caseFiles \ {name} /\ faults' = faults
           \/ caseFiles' = caseFiles /\ faults' = faults + 1
    BY <1>7 DEF ImportFails, cleanupFile, Fault
  <2>2. job'[w].at # "commit"
    BY <1>1, <2>1, Landing
  <2>3. Named' = Named
    BY <2>1 DEF Named
  <2>4. \/ Loose' \subseteq Loose \ {name} /\ faults' = faults
        \/ Loose' \subseteq Loose \cup {name} /\ faults' = faults + 1
    BY <1>4, <2>1, <2>3 DEF Loose
  <2> QED
    BY <1>3, <2>1, <2>2, <2>4
<1>8. CASE CommitAnswerLost(w)
  <2>1. /\ At(w, "commit") /\ Finish(w) /\ faults' = faults + 1
        /\ documents' = documents \cup {Document(job[w])}
        /\ caseFiles' = caseFiles \ {name}
    BY <1>8 DEF CommitAnswerLost, cleanupFile, Fault
  <2>2. job'[w].at # "commit"
    BY <1>1, <2>1, Landing
  <2>3. Loose' \subseteq Loose \cup {name}
    BY <1>5, <2>1 DEF Loose
  <2> QED
    BY <1>3, <2>1, <2>2, <2>3
<1>9. CASE /\ UNCHANGED <<documents, caseFiles>> /\ faults' \in {faults, faults + 1}
           /\ ~At(w, "commit") /\ ~At(w, "commit")'
  BY <1>0, <1>1, <1>9, FilesAside
<1> QED
  BY <1>2, <1>6, <1>7, <1>8, <1>9, StepsOfImports

LEMMA FilesNext == ~Overlapping /\ Serial /\ FileInv /\ [Next]_vars => FileInv'
<1> SUFFICES ASSUME ~Overlapping, Serial, FileInv, [Next]_vars PROVE FileInv'
  OBVIOUS
<1>0. AtMost(Unowned, faults) /\ faults \in Nat
  BY SerialIsInv DEF FileInv
<1>1. ASSUME NEW w \in Workers, Request(w)
      PROVE  FileInv'
  <2>1. /\ Quiet /\ Alone(w) /\ UNCHANGED <<faults, documents, caseFiles>>
        /\ job'[w].at # "commit"
    BY <1>1, RequestsAside
  <2>2. \A x \in Workers : ~At(x, "commit") /\ ~At(x, "commit")'
    BY <2>1, QuietIsIdle DEF At, Alone
  <2> QED
    BY <1>0, <2>1, <2>2, FilesAside
<1>2. CASE Crash
  <2>1. PICK w \in Workers : job[w] # Idle /\ \A x \in Workers \ {w} : job[x] = Idle
    BY <1>2, CrashOfOne
  <2>2. /\ \A x \in Workers : ~At(x, "commit")'
        /\ UNCHANGED <<documents, caseFiles>> /\ faults' = faults + 1
    BY <1>2, CrashOfOne DEF At
  <2>3. Loose \subseteq Unowned \cup {job[w].held}
    BY <2>1 DEF Unowned, At, Idle
  <2>4. AtMost(Loose, faults + 1)
    BY <1>0, <2>3, OneMore
  <2>5. Unowned' = Loose
    BY <2>2 DEF Unowned, Loose, Named
  <2> QED
    BY <2>2, <2>4, <2>5 DEF FileInv
<1>3. CASE UNCHANGED vars
  BY <1>3 DEF vars, caseVars, FileInv, Unowned, Loose, Named, At
<1> QED
  BY <1>1, <1>2, <1>3, ImportStepsKeep DEF Next

\* While requests do not overlap, the files on the cases and the documents that
\* name them differ in at most as many names as there were faults: a commit that
\* fails takes its file with it (ImportDocument), and a crash between the copy
\* and the commit leaves one file.
THEOREM LooseFilesAreFaults ==
    ASSUME ~Overlapping
    PROVE  Spec => []FilesMatchDocuments
<1>1. Init => FileInv
  <2> SUFFICES ASSUME Init PROVE FileInv
    OBVIOUS
  <2>1. Unowned = {} /\ faults = 0
    BY DEF Init, Unowned, Loose, Named
  <2>2. \A w \in Workers : ~At(w, "commit")
    BY DEF Init, At, Idle
  <2> QED
    BY <2>1, <2>2, NothingOwed DEF FileInv
<1>2. FileInv => FilesMatchDocuments
  <2> SUFFICES ASSUME FileInv, Quiet PROVE Cardinality(Loose) <= faults
    BY DEF FilesMatchDocuments, Loose, Named
  <2>1. Unowned = Loose
    BY QuietIsIdle DEF Unowned, At
  <2> QED
    BY <2>1 DEF FileInv, AtMost
<1> QED
  BY <1>1, <1>2, SerialStart, SerialBase, FilesNext, PTL DEF Spec

----------------------------------------------------------------------------
\* The log.

Codes == NotPlanned..PendingCompletion
Entries == [old : Codes, new : Codes]

\* The links of the log l that are broken when it ends at status s.
Broken(l, s) ==
    {i \in 1..(Len(l) + 1) :
        (IF i > Len(l) THEN s ELSE l[i].old) \notin {Before(l, i), Planned}}

\* An update that has written the status and not the log still owes the entry
\* that leads on from the status it has read.
LogInv ==
    /\ status \in [Visits -> Codes] /\ log \in [Visits -> Seq(Entries)]
    /\ \A w \in Workers :
         /\ At(w, "writeStatus") => job[w].held = status[job[w].visit]
         /\ At(w, "writeLog") =>
              /\ job[w].held \in Codes
              /\ status[job[w].visit] = Target[job[w].handler]
              /\ AtMost(Broken(log[job[w].visit], job[w].held), faults)
    /\ \A v \in Visits :
         (\A w \in Workers : At(w, "writeLog") => job[w].visit # v)
           => AtMost(Broken(log[v], status[v]), faults)

LEMMA EntryMends ==
    ASSUME NEW l \in Seq(Entries), NEW s \in Codes, NEW t \in Codes
    PROVE  Broken(Append(l, [old |-> s, new |-> t]), t) = Broken(l, s)
<1> DEFINE e == [old |-> s, new |-> t]
           m == Append(l, e)
           n == Len(l)
<1>1. e \in Entries /\ e.old = s /\ e.new = t
  BY DEF Entries
<1>2. /\ n \in Nat /\ m \in Seq(Entries) /\ Len(m) = n + 1 /\ m[n + 1] = e
      /\ \A i \in 1..n : m[i] = l[i]
  BY <1>1, LenProperties, AppendProperties
<1> HIDE DEF e, m, n
<1>3. ASSUME NEW i \in 1..(n + 1)
      PROVE  Before(m, i) = Before(l, i)
  <2>1. CASE i = 1
    BY <2>1 DEF Before
  <2>2. CASE i # 1
    <3>1. i - 1 \in 1..n
      BY <1>2, <2>2
    <3> QED
      BY <1>2, <2>2, <3>1 DEF Before
  <2> QED
    BY <2>1, <2>2
<1>4. Before(m, n + 2) = t
  <2>1. n + 2 # 1 /\ (n + 2) - 1 = n + 1
    BY <1>2
  <2> QED
    BY <1>1, <1>2, <2>1 DEF Before
<1>5. n + 2 \notin Broken(m, t)
  BY <1>2, <1>4 DEF Broken
<1>6. ASSUME NEW i \in 1..(n + 1)
      PROVE  i \in Broken(m, t) <=> i \in Broken(l, s)
  <2>1. CASE i \in 1..n
    <3>1. i \in 1..(Len(m) + 1) /\ ~(i > Len(m)) /\ ~(i > Len(l)) /\ i \in 1..(Len(l) + 1)
      BY <1>2, <2>1 DEF n
    <3>2. m[i] = l[i] /\ Before(m, i) = Before(l, i)
      BY <1>2, <1>3, <2>1
    <3> QED
      BY <3>1, <3>2 DEF Broken
  <2>2. CASE i = n + 1
    <3>1. i \in 1..(Len(m) + 1) /\ ~(i > Len(m)) /\ i > Len(l) /\ i \in 1..(Len(l) + 1)
      BY <1>2, <2>2 DEF n
    <3>2. m[i].old = s /\ Before(m, i) = Before(l, i)
      BY <1>1, <1>2, <1>3, <2>2
    <3> QED
      BY <3>1, <3>2 DEF Broken
  <2> QED
    BY <1>2, <2>1, <2>2
<1>7. Broken(m, t) \subseteq 1..(n + 2) /\ Broken(l, s) \subseteq 1..(n + 1)
  BY <1>2 DEF Broken, n
<1>8. \A i \in 1..(n + 2) : i = n + 2 \/ i \in 1..(n + 1)
  BY <1>2
<1>9. Broken(m, t) = Broken(l, s)
  BY <1>5, <1>6, <1>7, <1>8
<1> QED
  BY <1>9 DEF m, e

LEMMA NoEntryBreaks ==
    ASSUME NEW l \in Seq(Entries), NEW s \in Codes, NEW t \in Codes
    PROVE  /\ Broken(l, t) \subseteq Broken(l, s) \cup {Len(l) + 1}
           /\ Broken(l, Planned) \subseteq Broken(l, s)
<1>1. Len(l) \in Nat
  BY LenProperties
<1>2. \A i \in 1..(Len(l) + 1) : i > Len(l) => i = Len(l) + 1
  BY <1>1
<1> QED
  BY <1>2 DEF Broken

LEMMA LogsAside ==
    ASSUME Serial, LogInv, UNCHANGED <<status, log>>, faults' \in Nat, faults <= faults',
           \A x \in Workers : /\ ~At(x, "writeLog") /\ ~At(x, "writeLog")'
                              /\ ~At(x, "writeStatus")'
    PROVE  LogInv'
<1>1. ASSUME NEW v \in Visits
      PROVE  AtMost(Broken(log[v], status[v]), faults')
  <2>1. AtMost(Broken(log[v], status[v]), faults) /\ faults \in Nat
    BY SerialIsInv DEF LogInv
  <2> QED
    BY <2>1, Fewer
<1> QED
  BY <1>1 DEF LogInv

LEMMA StepsOfUpdates ==
    ASSUME Serial, NEW w \in Workers, Step(w) \/ Failure(w)
    PROVE  \/ ReadStatus(w) \/ WriteStatus(w) \/ WriteLog(w) \/ LogFails(w)
           \/ /\ UNCHANGED <<status, log>> /\ faults' \in {faults, faults + 1}
              /\ ~At(w, "writeLog") /\ ~At(w, "writeLog")' /\ ~At(w, "writeStatus")'
<1> SUFFICES ASSUME ~ReadStatus(w), ~WriteStatus(w), ~WriteLog(w), ~LogFails(w)
             PROVE  /\ UNCHANGED <<status, log>> /\ faults' \in {faults, faults + 1}
                    /\ ~At(w, "writeLog")
                    /\ ~At(w, "writeLog")' /\ ~At(w, "writeStatus")'
  OBVIOUS
<1>1. job[w] # Idle
  BY SerialIsInv, StepAlone
<1>2. UNCHANGED <<status, log>> /\ faults' \in {faults, faults + 1}
      /\ ~At(w, "writeLog")
  BY DEF Step, Failure, FindResponse, CreateResponse, UpdateResponse, ResetAssets,
     ListAssets, SaveCompleted, SaveAsset, SavePicture, SavePath, LoadVisit, CheckTitle,
     CopyFile, CommitDocument, StepFails, PictureFails, ImportFails, CommitAnswerLost,
     At, Fault
<1>3. \/ Finish(w)
      \/ \E step \in {"upsert", "reset", "list", "readStatus", "title", "copy", "commit",
                      "path"} : ToAt(w, step)
  BY DEF Step, Failure, FindResponse, CreateResponse, UpdateResponse, ResetAssets,
     ListAssets, SaveCompleted, SaveAsset, SavePicture, SavePath, LoadVisit, CheckTitle,
     CopyFile, CommitDocument, StepFails, PictureFails, ImportFails, CommitAnswerLost, ToAt
<1>4. CASE Finish(w)
  BY <1>1, <1>2, <1>4, Landing DEF At
<1>5. CASE \E step \in {"upsert", "reset", "list", "readStatus", "title", "copy", "commit",
                        "path"} : ToAt(w, step)
  BY <1>1, <1>2, <1>5, SomeStep DEF At
<1> QED
  BY <1>3, <1>4, <1>5

LEMMA TargetIsCode == \A h \in DOMAIN Target : Target[h] \in Codes
BY DEF Target, Codes, NotPlanned, Planned, ReadyToVisit, ToReview, Exported,
   PendingCompletion

LEMMA UpdateStepsKeep ==
    ASSUME Serial, LogInv, NEW w \in Workers, Step(w) \/ Failure(w)
    PROVE  LogInv'
<1> DEFINE v == job[w].visit
           old == job[w].held
           new == Target[job[w].handler]
<1>0. faults \in Nat /\ status \in [Visits -> Codes] /\ log \in [Visits -> Seq(Entries)]
  BY SerialIsInv DEF LogInv
<1>1. /\ job[w] # Idle /\ Alone(w)
      /\ \A x \in Workers \ {w} : /\ ~At(x, "writeLog") /\ ~At(x, "writeLog")'
                                  /\ ~At(x, "writeStatus")'
  <2>1. job[w] # Idle /\ Alone(w)
    BY SerialIsInv, StepAlone
  <2>2. \A x \in Workers \ {w} : job[x] = Idle /\ job'[x] = Idle
    BY <2>1, Landing DEF Alone
  <2> QED
    BY <2>1, <2>2 DEF At, Idle
<1>2. ASSUME job[w].at \in Updating
      PROVE  v \in Visits /\ new \in Codes
  <2>1. Sound(job[w], response, documents, pictures)
    BY <1>1, SerialIsInv DEF Inv, JobOK
  <2> QED
    BY <1>2, <2>1, TargetIsCode DEF Sound
<1>3. ASSUME ~At(w, "writeLog"), NEW x \in Visits
      PROVE  AtMost(Broken(log[x], status[x]), faults)
  BY <1>1, <1>3 DEF LogInv
<1>4. CASE ReadStatus(w)
  <2>1. At(w, "readStatus") /\ UNCHANGED <<status, log, faults>>
        /\ (Finish(w) \/ GoHolding(w, "writeStatus", status[v]))
    BY <1>4 DEF ReadStatus
  <2>2. \A x \in Visits : AtMost(Broken(log[x], status[x]), faults)
    BY <1>3, <2>1 DEF At
  <2>3. ~At(w, "writeLog")'
        /\ (At(w, "writeStatus")' => job'[w].held = status[v] /\ job'[w].visit = v)
    <3>1. CASE Finish(w)
      BY <1>1, <3>1, Landing DEF At
    <3>2. CASE GoHolding(w, "writeStatus", status[v])
      BY <1>1, <3>2, Landing DEF At
    <3> QED
      BY <2>1, <3>1, <3>2
  <2> QED
    BY <1>0, <1>1, <2>1, <2>2, <2>3 DEF LogInv
<1>5. CASE WriteStatus(w)
  <2>1. /\ At(w, "writeStatus") /\ UNCHANGED <<log, faults>> /\ Go(w, "writeLog")
        /\ status' = [status EXCEPT ![v] = new]
    BY <1>5 DEF WriteStatus
  <2>2. v \in Visits /\ new \in Codes /\ old = status[v]
    BY <1>2, <2>1 DEF LogInv, At, Updating
  <2>3. \A x \in Visits : AtMost(Broken(log[x], status[x]), faults)
    BY <1>3, <2>1 DEF At
  <2>4. /\ job'[w].at = "writeLog" /\ job'[w].visit = v /\ job'[w].held = old
        /\ job'[w].handler = job[w].handler
    BY <1>1, <2>1, Landing
  <2>5. status' \in [Visits -> Codes] /\ status'[v] = new
        /\ \A x \in Visits \ {v} : status'[x] = status[x]
    BY <1>0, <2>1, <2>2
  <2>6. \A x \in Workers :
          /\ ~At(x, "writeStatus")'
          /\ At(x, "writeLog")' => x = w
    BY <1>1, <2>4 DEF At
  <2>7. \A x \in Visits :
          (\A y \in Workers : At(y, "writeLog")' => job'[y].visit # x)
            => AtMost(Broken(log[x], status'[x]), faults)
    BY <2>3, <2>4, <2>5 DEF At
  <2>8. AtMost(Broken(log[v], old), faults) /\ old \in Codes
    BY <1>0, <2>2, <2>3
  <2> QED
    BY <1>0, <2>1, <2>4, <2>5, <2>6, <2>7, <2>8 DEF LogInv
<1>6. ASSUME At(w, "writeLog")
      PROVE  /\ v \in Visits /\ new \in Codes /\ old \in Codes /\ status[v] = new
             /\ AtMost(Broken(log[v], old), faults)
             /\ \A x \in Visits \ {v} : AtMost(Broken(log[x], status[x]), faults)
             /\ log[v] \in Seq(Entries)
  <2>1. v \in Visits /\ new \in Codes
    BY <1>2, <1>6 DEF At, Updating
  <2>2. \A x \in Visits \ {v} : AtMost(Broken(log[x], status[x]), faults)
    BY <1>1 DEF LogInv
  <2> QED
    BY <1>0, <1>6, <2>1, <2>2 DEF LogInv
<1>7. ASSUME Finish(w)
      PROVE  \A x \in Workers : ~At(x, "writeLog")' /\ ~At(x, "writeStatus")'
  BY <1>1, <1>7, Landing DEF At
<1>8. CASE WriteLog(w)
  <2>1. /\ At(w, "writeLog") /\ Finish(w) /\ UNCHANGED <<status, faults>>
        /\ log' = [log EXCEPT ![v] = Append(@, [old |-> old, new |-> new])]
    BY <1>8 DEF WriteLog, Entry
  <2>2. Append(log[v], [old |-> old, new |-> new]) \in Seq(Entries)
    BY <1>6, <2>1, AppendProperties DEF Entries
  <2>3. /\ log' \in [Visits -> Seq(Entries)]
        /\ log'[v] = Append(log[v], [old |-> old, new |-> new])
        /\ \A x \in Visits \ {v} : log'[x] = log[x]
    BY <1>0, <1>6, <2>1, <2>2
  <2>4. Broken(log'[v], status[v]) = Broken(log[v], old)
    BY <1>6, <2>1, <2>3, EntryMends
  <2>5. \A x \in Visits : AtMost(Broken(log'[x], status[x]), faults)
    BY <1>6, <2>1, <2>3, <2>4
  <2> QED
    BY <1>0, <1>7, <2>1, <2>3, <2>5 DEF LogInv
<1>9. CASE LogFails(w)
  <2>1. /\ At(w, "writeLog") /\ Finish(w) /\ UNCHANGED <<status, log>>
        /\ faults' = faults + 1
    BY <1>9 DEF LogFails, Fault
  <2>2. Broken(log[v], new) \subseteq Broken(log[v], old) \cup {Len(log[v]) + 1}
    BY <1>6, <2>1, NoEntryBreaks
  <2>3. AtMost(Broken(log[v], new), faults + 1)
    BY <1>0, <1>6, <2>1, <2>2, OneMore
  <2>4. \A x \in Visits \ {v} : AtMost(Broken(log[x], status[x]), faults + 1)
    BY <1>0, <1>6, <2>1, Fewer
  <2>5. \A x \in Visits : AtMost(Broken(log[x], status[x]), faults + 1)
    BY <1>6, <2>1, <2>3, <2>4
  <2> QED
    BY <1>0, <1>7, <2>1, <2>5 DEF LogInv
<1>10. CASE /\ UNCHANGED <<status, log>> /\ faults' \in {faults, faults + 1}
            /\ ~At(w, "writeLog") /\ ~At(w, "writeLog")' /\ ~At(w, "writeStatus")'
  BY <1>0, <1>1, <1>10, LogsAside
<1> QED
  BY <1>4, <1>5, <1>8, <1>9, <1>10, StepsOfUpdates

LEMMA LogsNext == ~Overlapping /\ Serial /\ LogInv /\ [Next]_vars => LogInv'
<1> SUFFICES ASSUME ~Overlapping, Serial, LogInv, [Next]_vars PROVE LogInv'
  OBVIOUS
<1>0. faults \in Nat /\ status \in [Visits -> Codes] /\ log \in [Visits -> Seq(Entries)]
  BY SerialIsInv DEF LogInv
<1>1. ASSUME NEW w \in Workers, Request(w)
      PROVE  LogInv'
  <2>1. /\ Quiet /\ Alone(w) /\ UNCHANGED <<faults, log>>
        /\ job'[w].at \notin {"writeLog", "writeStatus"}
    BY <1>1, RequestsAside
  <2>2. \A x \in Workers : /\ ~At(x, "writeLog") /\ ~At(x, "writeLog")'
                           /\ ~At(x, "writeStatus")'
    BY <2>1, QuietIsIdle DEF At, Alone
  <2>3. CASE UNCHANGED status
    BY <1>0, <2>1, <2>2, <2>3, LogsAside
  <2>4. CASE \E v \in Visits : AssignVisitsToGroup(w, v)
    <3>1. PICK v \in Visits : status' = [status EXCEPT ![v] = Planned]
      BY <2>4 DEF AssignVisitsToGroup
    <3>2. /\ status' \in [Visits -> Codes] /\ status'[v] = Planned
          /\ \A x \in Visits \ {v} : status'[x] = status[x]
      BY <1>0, <3>1 DEF Codes, NotPlanned, Planned, PendingCompletion
    <3>3. \A x \in Visits : AtMost(Broken(log[x], status[x]), faults)
      BY <2>2 DEF LogInv
    <3>4. log[v] \in Seq(Entries) /\ status[v] \in Codes
      BY <1>0
    <3>5. Broken(log[v], Planned) \subseteq Broken(log[v], status[v])
      BY <3>4, NoEntryBreaks
    <3>6. AtMost(Broken(log[v], Planned), faults)
      BY <1>0, <3>3, <3>5, Fewer
    <3>7. \A x \in Visits : AtMost(Broken(log[x], status'[x]), faults)
      BY <3>2, <3>3, <3>6
    <3> QED
      BY <1>0, <2>1, <2>2, <3>2, <3>7 DEF LogInv
  <2>5. UNCHANGED status \/ \E v \in Visits : AssignVisitsToGroup(w, v)
    BY <1>1 DEF Request, VisitLetterSent, CreateVisitResponse, CompleteVisitResponse,
       UploadVisitImage, UploadAssetImage, ReviewedVisit
  <2> QED
    BY <2>3, <2>4, <2>5
<1>2. CASE Crash
  <2>1. PICK w \in Workers : job[w] # Idle /\ \A x \in Workers \ {w} : job[x] = Idle
    BY <1>2, CrashOfOne
  <2>2. /\ \A x \in Workers : ~At(x, "writeLog")' /\ ~At(x, "writeStatus")'
        /\ UNCHANGED <<status, log>> /\ faults' = faults + 1
    BY <1>2, CrashOfOne DEF At
  <2>3. \A x \in Workers \ {w} : ~At(x, "writeLog")
    BY <2>1 DEF At, Idle
  <2>4. ASSUME NEW x \in Visits
        PROVE  AtMost(Broken(log[x], status[x]), faults + 1)
    <3>1. CASE At(w, "writeLog") /\ job[w].visit = x
      <4>1. AtMost(Broken(log[x], job[w].held), faults) /\ job[w].held \in Codes
        BY <3>1 DEF LogInv
      <4>2. log[x] \in Seq(Entries) /\ status[x] \in Codes
        BY <1>0
      <4>3. Broken(log[x], status[x])
              \subseteq Broken(log[x], job[w].held) \cup {Len(log[x]) + 1}
        BY <4>1, <4>2, NoEntryBreaks
      <4> QED
        BY <1>0, <4>1, <4>3, OneMore
    <3>2. CASE ~(At(w, "writeLog") /\ job[w].visit = x)
      <4>1. AtMost(Broken(log[x], status[x]), faults)
        BY <2>3, <3>2 DEF LogInv
      <4> QED
        BY <1>0, <4>1, Fewer
    <3> QED
      BY <3>1, <3>2
  <2> QED
    BY <1>0, <2>2, <2>4 DEF LogInv
<1>3. CASE UNCHANGED vars
  BY <1>3 DEF vars, LogInv, At
<1> QED
  BY <1>1, <1>2, <1>3, UpdateStepsKeep DEF Next

\* While requests do not overlap, the log of a visit is a chain from "not
\* planned" to its status, but for the links in front of "planned" and one link
\* for every fault: only an update that is cut off, or whose insert fails,
\* between its two statements leaves a gap (UpdateVisitStatus).
THEOREM LogGapsAreFaults ==
    ASSUME ~Overlapping
    PROVE  Spec => []LogBreaksOnlyByFault
<1>1. Init => LogInv
  <2> SUFFICES ASSUME Init PROVE LogInv
    OBVIOUS
  <2>1. /\ status \in [Visits -> Codes] /\ log \in [Visits -> Seq(Entries)]
        /\ \A w \in Workers : job[w].at = "idle"
        /\ \A v \in Visits : log[v] = <<>> /\ status[v] = NotPlanned
        /\ faults = 0
    BY EmptySeq DEF Init, Codes, NotPlanned, PendingCompletion, Idle
  <2>2. ASSUME NEW l \in Seq(Entries), Len(l) = 0
        PROVE  Broken(l, NotPlanned) = {}
    <3>1. \A i \in 1..(Len(l) + 1) : i = 1 /\ i > Len(l)
      BY <2>2
    <3>2. Before(l, 1) = NotPlanned
      BY DEF Before
    <3>3. \A i \in 1..(Len(l) + 1) : i \notin Broken(l, NotPlanned)
      BY <3>1, <3>2 DEF Broken
    <3> QED
      BY <3>3 DEF Broken
  <2>3. \A v \in Visits : Broken(log[v], status[v]) = {}
    BY <2>1, <2>2, EmptySeq
  <2>4. \A v \in Visits : AtMost(Broken(log[v], status[v]), faults)
    BY <2>1, <2>3, NothingOwed
  <2> QED
    BY <2>1, <2>4 DEF LogInv, At
<1>2. LogInv => LogBreaksOnlyByFault
  <2> SUFFICES ASSUME LogInv, Quiet, NEW v \in Visits
               PROVE  Cardinality(BrokenLinks(v)) <= faults
    BY DEF LogBreaksOnlyByFault
  <2>1. AtMost(Broken(log[v], status[v]), faults)
    BY QuietIsIdle DEF LogInv, At
  <2>2. BrokenLinks(v) = Broken(log[v], status[v])
    BY DEF BrokenLinks, Broken, Reached
  <2> QED
    BY <2>1, <2>2 DEF AtMost
<1> QED
  BY <1>1, <1>2, SerialStart, SerialBase, LogsNext, PTL DEF Spec

----------------------------------------------------------------------------
\* The posted responses.

AssetRow == [visit : Visits, batch : Batches, insert : {"nested", "listed"},
             item : UNION Lists, image : BOOLEAN]

\* The rows hold what was posted.
Stored(v, post) ==
    /\ {a.item : a \in AssetsOf(v)} = post.list
    /\ \A a, b \in AssetsOf(v) : a.item = b.item => a = b
    /\ response[v] # None
    /\ post.answers \in {response[v].answers, Blank}

RowsInv ==
    /\ assets \subseteq AssetRow
    /\ accepted \in [Visits -> Posts \cup {None}]
    /\ \A v \in Visits : accepted[v] # None => Stored(v, accepted[v])

\* How far a post has come: the client has no answer yet, the old assets go
\* before the list is inserted, and the status follows the rows.
Posted(w) ==
    LET v == job[w].visit
        post == job[w].post
    IN  /\ job[w].at \in Posting \cup Updating
        /\ v \in Visits /\ post \in Posts
        /\ accepted[v] = None
        /\ job[w].at \in {"reset", "list"} =>
             response[v] # None /\ post.answers \in {response[v].answers, Blank}
        /\ At(w, "list") => AssetsOf(v) = {}
        /\ job[w].at \in Updating => Stored(v, post)

\* What a request holds is still there.
Progress(w) ==
    /\ At(w, "completed") => job[w].held = response[job[w].visit]
    /\ At(w, "upsert") => job[w].held = response[job[w].visit]
    /\ At(w, "asset") => job[w].held \in assets
    /\ job[w] # Idle /\ job[w].handler = "CreateVisitResponse" => Posted(w)

ResponseInv == RowsInv /\ \A w \in Workers : Progress(w)

LEMMA IdleProgress ==
    ASSUME NEW w \in Workers, job[w] = Idle
    PROVE  Progress(w)
BY DEF Progress, At, Idle

LEMMA IdleProgressNext ==
    ASSUME NEW w \in Workers, job'[w] = Idle
    PROVE  Progress(w)'
BY DEF Progress, At, Idle

LEMMA StoredStays ==
    ASSUME NEW v \in Visits, NEW post, Stored(v, post), AssetsOf(v)' = AssetsOf(v),
           response'[v] # None, response'[v].answers = response[v].answers
    PROVE  Stored(v, post)'
BY DEF Stored

\* A step that stores something for visit v only.
LEMMA OthersStored ==
    ASSUME RowsInv, NEW v \in Visits, assets' \subseteq AssetRow,
           accepted' \in [Visits -> Posts \cup {None}],
           \A x \in Visits \ {v} : /\ AssetsOf(x)' = AssetsOf(x)
                                   /\ response'[x] = response[x]
                                   /\ accepted'[x] = accepted[x],
           accepted'[v] # None => Stored(v, accepted[v])'
    PROVE  RowsInv'
<1>1. ASSUME NEW x \in Visits \ {v}, accepted'[x] # None
      PROVE  Stored(x, accepted[x])'
  BY <1>1 DEF RowsInv, Stored
<1> QED
  BY <1>1 DEF RowsInv

LEMMA RowsUntouched ==
    ASSUME RowsInv, UNCHANGED <<response, assets, accepted>>
    PROVE  RowsInv'
BY DEF RowsInv, Stored, AssetsOf

\* A handler that does not post ends, or goes on to a step that holds nothing.
LEMMA NoPost ==
    ASSUME NEW w \in Workers, job'[w].handler # "CreateVisitResponse",
           job'[w].at \notin {"completed", "upsert", "asset"}
    PROVE  Progress(w)'
BY DEF Progress, At

LEMMA EndsProgress ==
    ASSUME Serial, NEW w \in Workers, job[w] # Idle, Finish(w)
    PROVE  Progress(w)'
<1>1. /\ job'[w].at \in {"idle", "load"}
      /\ job'[w] = Idle \/ job'[w].handler = "ReviewedVisit"
  BY Landing
<1>2. CASE job'[w] = Idle
  BY <1>2, IdleProgressNext
<1>3. CASE job'[w] # Idle
  BY <1>1, <1>3, NoPost
<1> QED
  BY <1>2, <1>3

LEMMA OthersProgress ==
    ASSUME Serial, NEW w \in Workers, job[w] # Idle, Alone(w), Progress(w)', RowsInv'
    PROVE  ResponseInv'
<1>1. ASSUME NEW x \in Workers \ {w}
      PROVE  Progress(x)'
  <2>1. job'[x] = Idle
    BY Landing DEF Alone
  <2> QED
    BY <2>1, IdleProgressNext
<1> QED
  BY <1>1 DEF ResponseInv

\* The steps that store nothing of a response.
LEMMA AsideOfPosts ==
    ASSUME Serial, ResponseInv, NEW w \in Workers, job[w] # Idle,
           UNCHANGED <<response, assets, accepted>>,
           \/ Finish(w)
           \/ \E step \in {"title", "copy", "commit", "path"} : ToAt(w, step)
              /\ job[w].at \in {"load", "title", "copy", "picture"}
           \/ At(w, "commit") /\ Go(w, "readStatus")
    PROVE  ResponseInv'
<1>1. RowsInv'
  BY RowsUntouched DEF ResponseInv
<1>2. CASE Finish(w)
  BY <1>1, <1>2, EndsProgress, OthersProgress, Landing
<1>3. CASE \/ At(w, "commit") /\ Go(w, "readStatus")
           \/ \E step \in {"title", "copy", "commit", "path"} : ToAt(w, step)
              /\ job[w].at \in {"load", "title", "copy", "picture"}
  <2>1. job[w].handler # "CreateVisitResponse"
    BY <1>3 DEF ResponseInv, Progress, Posted, At, Posting, Updating
  <2>2. /\ Alone(w) /\ job'[w].handler = job[w].handler
        /\ job'[w].at \in {"title", "copy", "commit", "path", "readStatus"}
    BY <1>3, Landing DEF ToAt
  <2>3. Progress(w)'
    BY <2>1, <2>2, NoPost
  <2> QED
    BY <1>1, <2>2, <2>3, OthersProgress
<1> QED
  BY <1>2, <1>3

LEMMA PosterIsPosted ==
    ASSUME Serial, ResponseInv, NEW w \in Workers, job[w].at \in Posting
    PROVE  /\ job[w] # Idle /\ job[w].handler = "CreateVisitResponse" /\ Posted(w)
           /\ RowsInv /\ Progress(w)
<1>1. job[w] # Idle
  BY DEF Posting, Idle
<1>2. job[w].handler = "CreateVisitResponse"
  BY <1>1, SerialIsInv DEF Inv, JobOK, Sound
<1> QED
  BY <1>1, <1>2 DEF ResponseInv, Progress

\* A step of a post that is not answered yet.
LEMMA PostGoesOn ==
    ASSUME Serial, ResponseInv, NEW w \in Workers, job[w].at \in Posting,
           NEW step \in {"upsert", "reset", "list", "readStatus"}, ToAt(w, step),
           NEW v, NEW post, v = job[w].visit, post = job[w].post,
           UNCHANGED accepted, assets' \subseteq AssetRow,
           \A x \in Visits \ {v} : AssetsOf(x)' = AssetsOf(x) /\ response'[x] = response[x],
           step = "upsert" => job'[w].held = response'[v],
           step \in {"reset", "list"} =>
             response'[v] # None /\ post.answers \in {response'[v].answers, Blank},
           step = "list" => AssetsOf(v)' = {},
           step = "readStatus" => Stored(v, post)'
    PROVE  ResponseInv'
<1>1. job[w] # Idle /\ job[w].handler = "CreateVisitResponse" /\ Posted(w) /\ RowsInv
  BY PosterIsPosted
<1>2. /\ Alone(w) /\ job'[w].at = step /\ job'[w].handler = "CreateVisitResponse"
      /\ job'[w].visit = v /\ job'[w].post = post
  BY <1>1, Landing DEF ToAt
<1>3. v \in Visits /\ post \in Posts /\ accepted[v] = None
  BY <1>1 DEF Posted
<1>4. RowsInv'
  <2>1. accepted' \in [Visits -> Posts \cup {None}] /\ accepted'[v] = None
        /\ \A x \in Visits \ {v} : accepted'[x] = accepted[x]
    BY <1>1, <1>3 DEF RowsInv
  <2> QED
    BY <1>1, <1>3, <2>1, OthersStored
<1>5. Posted(w)'
  <2>1. step \in Posting \cup Updating
    BY DEF Posting, Updating
  <2>2. step \in Updating => Stored(v, post)'
    BY DEF Updating
  <2>3. Posted(w)' <=> 
          /\ step \in Posting \cup Updating
          /\ v \in Visits /\ post \in Posts
          /\ accepted'[v] = None
          /\ step \in {"reset", "list"} =>
               response'[v] # None /\ post.answers \in {response'[v].answers, Blank}
          /\ step = "list" => AssetsOf(v)' = {}
          /\ step \in Updating => Stored(v, post)'
    BY <1>2 DEF Posted, At, AssetsOf, Stored
  <2> QED
    BY <1>3, <2>1, <2>2, <2>3
<1>6. Progress(w)'
  BY <1>2, <1>5 DEF Progress, At
<1> QED
  BY <1>1, <1>2, <1>4, <1>6, OthersProgress

LEMMA FindStepKeeps ==
    ASSUME Serial, ResponseInv, NEW w \in Workers, FindResponse(w)
    PROVE  ResponseInv'
<1>1. /\ At(w, "find") /\ GoHolding(w, "upsert", response[job[w].visit])
      /\ UNCHANGED <<response, assets, accepted>>
  BY DEF FindResponse, responseVars
<1>2. job[w].at \in Posting /\ ToAt(w, "upsert")
  BY <1>1 DEF At, Posting, ToAt
<1>3. job'[w].held = response[job[w].visit] /\ job[w] # Idle
  BY <1>1, <1>2, PosterIsPosted, Landing
<1>4. assets' \subseteq AssetRow
  BY <1>1 DEF ResponseInv, RowsInv
<1>5. \A x \in Visits : AssetsOf(x)' = AssetsOf(x)
  BY <1>1 DEF AssetsOf
<1>6. PICK v, post : v = job[w].visit /\ post = job[w].post
  OBVIOUS
<1> QED
  BY <1>1, <1>2, <1>3, <1>4, <1>5, <1>6, PostGoesOn

\* The rows a post inserts.
LEMMA PostedRows ==
    ASSUME NEW j, j.visit \in Visits, j.post \in Posts, NEW insert \in {"nested", "listed"}
    PROVE  /\ Rows(j, insert) \subseteq AssetRow
           /\ \A a \in Rows(j, insert) : a.visit = j.visit
           /\ {a.item : a \in Rows(j, insert)} = j.post.list
           /\ \A a, b \in Rows(j, insert) : a.item = b.item => a = b
<1>1. j.post.list \in Lists /\ j.post.batch \in Batches
  BY DEF Posts
<1>2. \A i \in j.post.list : i \in UNION Lists
  BY <1>1
<1>3. \A i \in j.post.list :
        [visit |-> j.visit, batch |-> j.post.batch, insert |-> insert, item |-> i,
         image |-> FALSE] \in AssetRow
  BY <1>1, <1>2 DEF AssetRow
<1>4. Rows(j, insert) \subseteq AssetRow
  BY <1>3 DEF Rows
<1>5. \A a \in Rows(j, insert) : a.visit = j.visit
  BY DEF Rows
<1> DEFINE row(i) == [visit |-> j.visit, batch |-> j.post.batch, insert |-> insert, item |-> i,
                      image |-> FALSE]
<1>6. /\ \A i \in j.post.list : row(i) \in Rows(j, insert) /\ row(i).item = i
      /\ \A a \in Rows(j, insert) : a.item \in j.post.list /\ a = row(a.item)
  <2>1. Rows(j, insert) = {row(i) : i \in j.post.list}
    BY DEF Rows
  <2>2. \A i \in j.post.list : row(i).item = i
    OBVIOUS
  <2> HIDE DEF row
  <2>3. ASSUME NEW a \in Rows(j, insert)
        PROVE  a.item \in j.post.list /\ a = row(a.item)
    <3>1. PICK i \in j.post.list : a = row(i)
      BY <2>1
    <3> QED
      BY <2>2, <3>1
  <2> QED
    BY <2>1, <2>2, <2>3
<1> HIDE DEF row
<1>7. {a.item : a \in Rows(j, insert)} = j.post.list
  BY <1>6
<1>8. \A a, b \in Rows(j, insert) : a.item = b.item => a = b
  BY <1>6
<1> QED
  BY <1>4, <1>5, <1>7, <1>8

LEMMA UpsertKeeps ==
    ASSUME Serial, ResponseInv, NEW w \in Workers, CreateResponse(w) \/ UpdateResponse(w)
    PROVE  ResponseInv'
<1>0. PICK v, post : v = job[w].visit /\ post = job[w].post
  OBVIOUS
<1> DEFINE posted == post.answers
<1>1. /\ At(w, "upsert") /\ Go(w, "reset") /\ UNCHANGED accepted
      /\ assets' = assets \cup Rows(job[w], "nested")
  BY DEF CreateResponse, UpdateResponse
<1>2. job[w].at \in Posting /\ ToAt(w, "reset")
  BY <1>1 DEF At, Posting, ToAt
<1>3. v \in Visits /\ post \in Posts /\ assets \subseteq AssetRow
      /\ job[w].held = response[v]
  BY <1>0, <1>1, <1>2, PosterIsPosted DEF Posted, RowsInv, Progress
<1>4. response \in [Visits -> Row \cup {None}]
  BY SerialIsInv DEF Inv, TypeInv
<1>5. /\ response'[v] # None /\ posted \in {response'[v].answers, Blank}
      /\ \A x \in Visits \ {v} : response'[x] = response[x]
  <2>1. CASE CreateResponse(w)
    <3>1. response' = [response EXCEPT ![v] = [answers |-> posted, completed |-> FALSE]]
      BY <1>0, <2>1 DEF CreateResponse
    <3>2. posted \in Answers
      BY <1>3 DEF Posts
    <3>3. [answers |-> posted, completed |-> FALSE] # None
      BY <3>2, LifecycleAssumption
    <3> QED
      BY <1>3, <1>4, <3>1, <3>3
  <2>2. CASE UpdateResponse(w)
    <3>1. /\ response' = [response EXCEPT ![v].answers = IF posted = Blank THEN @ ELSE posted]
          /\ response[v] # None
      BY <1>0, <1>3, <2>2 DEF UpdateResponse
    <3>2. response[v] \in Row
      BY <1>3, <1>4, <3>1
    <3>3. \E answers \in Answers :
            /\ posted \in {answers, Blank}
            /\ response'[v] = [answers |-> answers, completed |-> response[v].completed]
      <4>1. posted \in Answers /\ response[v].answers \in Answers
        BY <1>3, <3>2 DEF Posts, Row
      <4> QED
        BY <1>3, <1>4, <3>1, <3>2, <4>1 DEF Row
    <3>4. response[v].completed \in BOOLEAN
      BY <3>2 DEF Row
    <3>5. response'[v] # None
      BY <3>3, <3>4, LifecycleAssumption
    <3> QED
      BY <1>3, <1>4, <3>1, <3>3, <3>5
  <2> QED
    BY <2>1, <2>2
<1>6. assets' \subseteq AssetRow /\ \A x \in Visits \ {v} : AssetsOf(x)' = AssetsOf(x)
  BY <1>0, <1>1, <1>3, PostedRows DEF AssetsOf
<1> QED
  BY <1>0, <1>1, <1>2, <1>5, <1>6, PostGoesOn

LEMMA ResetKeeps ==
    ASSUME Serial, ResponseInv, NEW w \in Workers, ResetAssets(w)
    PROVE  ResponseInv'
<1>0. PICK v, post : v = job[w].visit /\ post = job[w].post
  OBVIOUS
<1>1. /\ At(w, "reset") /\ Go(w, "list") /\ UNCHANGED <<accepted, response>>
      /\ assets' = assets \ AssetsOf(v)
  BY <1>0 DEF ResetAssets, Wiped
<1>2. job[w].at \in Posting /\ ToAt(w, "list")
  BY <1>1 DEF At, Posting, ToAt
<1>3. assets \subseteq AssetRow
      /\ response[v] # None /\ post.answers \in {response[v].answers, Blank}
  BY <1>0, <1>1, <1>2, PosterIsPosted DEF Posted, RowsInv, At
<1>4. /\ assets' \subseteq AssetRow /\ AssetsOf(v)' = {}
      /\ \A x \in Visits \ {v} : AssetsOf(x)' = AssetsOf(x)
  BY <1>1, <1>3 DEF AssetsOf
<1> QED
  BY <1>0, <1>1, <1>2, <1>3, <1>4, PostGoesOn

LEMMA ListKeeps ==
    ASSUME Serial, ResponseInv, NEW w \in Workers, ListAssets(w)
    PROVE  ResponseInv'
<1>0. PICK v, post : v = job[w].visit /\ post = job[w].post
  OBVIOUS
<1> DEFINE rows == Rows(job[w], "listed")
<1>1. /\ At(w, "list") /\ Go(w, "readStatus") /\ UNCHANGED <<accepted, response>>
      /\ assets' = assets \cup rows
  BY DEF ListAssets
<1>2. job[w].at \in Posting /\ ToAt(w, "readStatus")
  BY <1>1 DEF At, Posting, ToAt
<1>3. /\ v \in Visits /\ post \in Posts /\ assets \subseteq AssetRow
      /\ AssetsOf(v) = {}
      /\ response[v] # None /\ post.answers \in {response[v].answers, Blank}
  BY <1>0, <1>1, <1>2, PosterIsPosted DEF Posted, RowsInv, At
<1>4. /\ rows \subseteq AssetRow /\ \A a \in rows : a.visit = v
      /\ {a.item : a \in rows} = post.list
      /\ \A a, b \in rows : a.item = b.item => a = b
  BY <1>0, <1>3, PostedRows
<1> HIDE DEF rows
<1>5. /\ assets' \subseteq AssetRow /\ AssetsOf(v)' = rows
      /\ \A x \in Visits \ {v} : AssetsOf(x)' = AssetsOf(x)
  BY <1>1, <1>3, <1>4 DEF AssetsOf
<1>6. Stored(v, post)'
  BY <1>1, <1>3, <1>4, <1>5 DEF Stored
<1> QED
  BY <1>0, <1>1, <1>2, <1>5, <1>6, PostGoesOn

LEMMA CompletedRow ==
    ASSUME NEW held \in Row, NEW completed \in BOOLEAN
    PROVE  /\ held.answers \in Answers
           /\ [held EXCEPT !.completed = completed]
              = [answers |-> held.answers, completed |-> completed]
  BY DEF Row

\* Completing writes the row back as it was read, completed.
LEMMA CompletingStays ==
    ASSUME Serial, ResponseInv, NEW w \in Workers, SaveCompleted(w)
    PROVE  ResponseInv'
<1>0. PICK v, held : v = job[w].visit /\ held = job[w].held
  OBVIOUS
<1>1. /\ At(w, "completed") /\ Go(w, "readStatus") /\ UNCHANGED <<assets, accepted>>
      /\ response' = [response EXCEPT ![v] = [held EXCEPT !.completed = TRUE]]
  BY <1>0 DEF SaveCompleted
<1>2. job[w] # Idle /\ RowsInv /\ held = response[v]
  BY <1>0, <1>1 DEF ResponseInv, Progress, At, Idle
<1>3. job[w].handler = "CompleteVisitResponse" /\ held \in Row /\ v \in Visits
  BY <1>0, <1>1, <1>2, SerialIsInv DEF Inv, JobOK, Sound, At, Target
<1>4. /\ [held EXCEPT !.completed = TRUE]
           = [answers |-> held.answers, completed |-> TRUE]
      /\ held.answers \in Answers
  BY <1>3, CompletedRow
<1>5. /\ response'[v] = [answers |-> held.answers, completed |-> TRUE]
      /\ \A x \in Visits \ {v} : response'[x] = response[x]
  BY <1>1, <1>3, <1>4, SerialIsInv DEF Inv, TypeInv
<1>6. response'[v] # None /\ response'[v].answers = response[v].answers
  <2>1. response'[v].answers = held.answers
    BY <1>5
  <2>2. [answers |-> held.answers, completed |-> TRUE] # None
    BY <1>4, LifecycleAssumption
  <2> QED
    BY <1>2, <1>5, <2>1, <2>2
<1>7. \A x \in Visits : AssetsOf(x)' = AssetsOf(x)
  BY <1>1 DEF AssetsOf
<1>8. RowsInv'
  <2>1. ASSUME accepted'[v] # None
        PROVE  Stored(v, accepted[v])'
    <3>1. PICK post : post = accepted[v] /\ post = accepted'[v]
      BY <1>1
    <3>2. Stored(v, post)
      BY <1>1, <1>2, <1>3, <2>1, <3>1 DEF RowsInv
    <3>3. Stored(v, post)'
      BY <1>3, <1>6, <1>7, <3>2, StoredStays
    <3> QED
      BY <3>1, <3>3 DEF Stored
  <2>2. assets' \subseteq AssetRow /\ accepted' \in [Visits -> Posts \cup {None}]
    BY <1>1, <1>2 DEF RowsInv
  <2> QED
    BY <1>1, <1>2, <1>3, <1>5, <1>7, <2>1, <2>2, OthersStored
<1>9. Alone(w) /\ job'[w].at = "readStatus" /\ job'[w].handler = "CompleteVisitResponse"
  BY <1>1, <1>2, <1>3, Landing
<1>10. Progress(w)'
  BY <1>9, NoPost
<1> QED
  BY <1>2, <1>8, <1>9, <1>10, OthersProgress

\* Saving an asset with its image replaces one row of one item.
LEMMA SavedAssetStays ==
    ASSUME Serial, ResponseInv, NEW w \in Workers, SaveAsset(w)
    PROVE  ResponseInv'
<1>1. PICK a : a = job[w].held
  OBVIOUS
<1> DEFINE new == [a EXCEPT !.image = TRUE]
           old == {b \in assets : b = [a EXCEPT !.image = b.image]}
<1>2. /\ At(w, "asset") /\ Finish(w) /\ UNCHANGED <<response, accepted>>
      /\ assets' = (assets \ old) \cup {new}
  BY <1>1 DEF SaveAsset
<1>3. job[w] # Idle /\ RowsInv /\ a \in assets /\ assets \subseteq AssetRow
  BY <1>1, <1>2 DEF ResponseInv, RowsInv, Progress, At, Idle
<1>0. PICK i : i = a.item
  OBVIOUS
<1>4. PICK u \in Visits : u = a.visit /\ i = a.item
  BY <1>0, <1>3 DEF AssetRow
<1>5. new \in AssetRow /\ new.visit = u /\ new.item = i
  BY <1>3, <1>4 DEF AssetRow
<1>6. a \in old /\ \A b \in old : b.visit = u /\ b.item = i
  BY <1>3, <1>4 DEF AssetRow
<1> HIDE DEF new, old
<1>7. assets' \subseteq AssetRow
  BY <1>2, <1>3, <1>5
<1>8. \A x \in Visits \ {u} : AssetsOf(x)' = AssetsOf(x)
  BY <1>2, <1>5, <1>6 DEF AssetsOf
<1>9. AssetsOf(u)' = (AssetsOf(u) \ old) \cup {new}
  BY <1>2, <1>5 DEF AssetsOf
<1>10. ASSUME accepted'[u] # None
       PROVE  Stored(u, accepted[u])'
  <2>1. PICK post : post = accepted[u] /\ post = accepted'[u]
    BY <1>2
  <2>2. Stored(u, post)
    BY <1>2, <1>3, <1>10, <2>1 DEF RowsInv
  <2>3. a \in AssetsOf(u)
    BY <1>3, <1>4 DEF AssetsOf
  <2>4. \A b \in AssetsOf(u) \ old : b.item # i
    BY <1>4, <1>6, <2>2, <2>3 DEF Stored
  <2>5. \A b, c \in AssetsOf(u)' : b.item = c.item => b = c
    BY <1>5, <1>9, <2>2, <2>4 DEF Stored
  <2>6. {b.item : b \in AssetsOf(u)'} = {b.item : b \in AssetsOf(u)}
    <3>1. \A b \in AssetsOf(u)' : \E c \in AssetsOf(u) : b.item = c.item
      BY <1>4, <1>5, <1>9, <2>3
    <3>2. \A c \in AssetsOf(u) : \E b \in AssetsOf(u)' : b.item = c.item
      BY <1>5, <1>6, <1>9
    <3> QED
      BY <3>1, <3>2
  <2>7. /\ {b.item : b \in AssetsOf(u)} = post.list
        /\ response[u] # None /\ post.answers \in {response[u].answers, Blank}
    BY <2>2 DEF Stored
  <2>8. /\ {b.item : b \in AssetsOf(u)'} = post.list
        /\ response'[u] # None /\ post.answers \in {response'[u].answers, Blank}
    BY <1>2, <2>6, <2>7
  <2> QED
    BY <2>1, <2>5, <2>8 DEF Stored
<1>11. RowsInv'
  <2>1. accepted' \in [Visits -> Posts \cup {None}]
    BY <1>2, <1>3 DEF RowsInv
  <2> QED
    BY <1>2, <1>3, <1>7, <1>8, <1>10, <2>1, OthersStored
<1>12. Alone(w) /\ Progress(w)'
  BY <1>2, <1>3, EndsProgress, Landing
<1> QED
  BY <1>3, <1>11, <1>12, OthersProgress

\* The update of the status, and the answer to a post.
LEMMA UpdatesStay ==
    ASSUME Serial, ResponseInv, NEW w \in Workers,
           ReadStatus(w) \/ WriteStatus(w) \/ WriteLog(w)
    PROVE  ResponseInv'
<1>0. PICK v, post : v = job[w].visit /\ post = job[w].post
  OBVIOUS
<1>1. /\ job[w].at \in Updating /\ UNCHANGED <<response, assets>>
      /\ \/ Finish(w) /\ Answered(job[w])
         \/ UNCHANGED accepted /\ \E step \in {"writeStatus", "writeLog"} : ToAt(w, step)
  BY DEF ReadStatus, WriteStatus, WriteLog, responseVars, At, Updating, ToAt
<1>2. job[w] # Idle /\ RowsInv /\ Progress(w)
  BY <1>1 DEF ResponseInv, Updating, Idle
<1>3. \A x \in Visits : AssetsOf(x)' = AssetsOf(x)
  BY <1>1 DEF AssetsOf
<1>4. ASSUME job[w].handler = "CreateVisitResponse"
      PROVE  /\ v \in Visits /\ post \in Posts /\ accepted[v] = None
             /\ Stored(v, post) /\ Stored(v, post)'
  <2>1. /\ v \in Visits /\ post \in Posts /\ accepted[v] = None /\ Stored(v, post)
    BY <1>0, <1>1, <1>2, <1>4 DEF Progress, Posted
  <2> QED
    BY <1>1, <1>3, <2>1 DEF Stored
<1>5. CASE UNCHANGED accepted /\ \E step \in {"writeStatus", "writeLog"} : ToAt(w, step)
  <2>1. RowsInv'
    BY <1>1, <1>2, <1>5, RowsUntouched
  <2>2. /\ Alone(w) /\ job'[w].at \in {"writeStatus", "writeLog"}
        /\ job'[w].handler = job[w].handler /\ job'[w].visit = v /\ job'[w].post = post
    BY <1>0, <1>2, <1>5, Landing DEF ToAt
  <2>3. Progress(w)'
    <3>1. CASE job[w].handler = "CreateVisitResponse"
      <4>1. Posted(w)'
        BY <1>4, <1>5, <2>2, <3>1 DEF Posted, At, Updating, Stored, AssetsOf
      <4> QED
        BY <2>2, <4>1 DEF Progress, At
    <3>2. CASE job[w].handler # "CreateVisitResponse"
      BY <2>2, <3>2, NoPost
    <3> QED
      BY <3>1, <3>2
  <2> QED
    BY <1>2, <2>1, <2>2, <2>3, OthersProgress
<1>6. CASE Finish(w) /\ Answered(job[w])
  <2>1. Alone(w) /\ Progress(w)'
    BY <1>2, <1>6, EndsProgress, Landing
  <2>2. RowsInv'
    <3>1. CASE job[w].handler # "CreateVisitResponse"
      BY <1>1, <1>2, <1>6, <3>1, RowsUntouched DEF Answered
    <3>2. CASE job[w].handler = "CreateVisitResponse"
      <4>1. accepted' = [accepted EXCEPT ![v] = post]
        BY <1>0, <1>6, <3>2 DEF Answered
      <4>2. /\ accepted' \in [Visits -> Posts \cup {None}] /\ accepted'[v] = post
            /\ \A x \in Visits \ {v} : accepted'[x] = accepted[x]
        BY <1>2, <1>4, <3>2, <4>1 DEF RowsInv
      <4>3. Stored(v, accepted[v])'
        BY <1>4, <3>2, <4>2 DEF Stored
      <4>4. assets' \subseteq AssetRow
        BY <1>1, <1>2 DEF RowsInv
      <4> QED
        BY <1>1, <1>2, <1>3, <1>4, <3>2, <4>2, <4>3, <4>4, OthersStored
    <3> QED
      BY <3>1, <3>2
  <2> QED
    BY <1>2, <2>1, <2>2, OthersProgress
<1> QED
  BY <1>1, <1>5, <1>6

LEMMA PostStepsKeep ==
    ASSUME Serial, ResponseInv, NEW w \in Workers, Step(w) \/ Failure(w)
    PROVE  ResponseInv'
<1>1. job[w] # Idle
  BY SerialIsInv, StepAlone
<1>2. CASE Failure(w) \/ SavePath(w)
  <2>1. Finish(w) /\ UNCHANGED <<response, assets, accepted>>
    BY <1>2 DEF Failure, StepFails, LogFails, PictureFails, ImportFails, CommitAnswerLost,
       SavePath, responseVars
  <2> QED
    BY <1>1, <2>1, AsideOfPosts
<1>3. CASE SavePicture(w) \/ LoadVisit(w) \/ CheckTitle(w) \/ CopyFile(w) \/ CommitDocument(w)
  <2>1. UNCHANGED <<response, assets, accepted>>
    BY <1>3 DEF SavePicture, LoadVisit, CheckTitle, CopyFile, CommitDocument, responseVars
  <2>2. \/ Finish(w)
        \/ \E step \in {"title", "copy", "commit", "path"} : ToAt(w, step)
           /\ job[w].at \in {"load", "title", "copy", "picture"}
        \/ At(w, "commit") /\ Go(w, "readStatus")
    BY <1>3 DEF SavePicture, LoadVisit, CheckTitle, CopyFile, CommitDocument, ToAt, At
  <2> QED
    BY <1>1, <2>1, <2>2, AsideOfPosts
<1> QED
  BY <1>2, <1>3, UpdatesStay, FindStepKeeps, UpsertKeeps, ResetKeeps, ListKeeps,
     CompletingStays, SavedAssetStays DEF Step

LEMMA RequestsKeepPosts ==
    ASSUME Serial, ~Overlapping, ResponseInv, NEW w \in Workers, Request(w)
    PROVE  ResponseInv'
<1>1. RowsInv /\ Quiet /\ Alone(w) /\ UNCHANGED <<response, assets>>
  BY RequestsAside DEF ResponseInv
<1>2. \A x \in Workers \ {w} : Progress(x)'
  BY <1>1, QuietIsIdle, IdleProgressNext DEF Alone
<1>3. ASSUME UNCHANGED accepted
      PROVE  RowsInv'
  BY <1>1, <1>3, RowsUntouched
<1>4. ASSUME NEW h, NEW v, NEW j, Take(w, h, v, j), h # "CreateVisitResponse",
             UNCHANGED accepted, j.at \notin {"completed", "upsert", "asset"}
      PROVE  ResponseInv'
  <2>1. job'[w].handler = h /\ job'[w].at = j.at
    <3>1. job'[w] = [handler |-> h, visit |-> v, at |-> j.at,
                     rest |-> j.rest, post |-> j.post, held |-> j.held]
      BY <1>4, Taken
    <3> QED
      BY <3>1
  <2> QED
    BY <1>2, <1>3, <1>4, <2>1, NoPost DEF ResponseInv
<1>5. CASE \E v \in Visits : AssignVisitsToGroup(w, v)
  BY <1>4, <1>5, Froms DEF AssignVisitsToGroup
<1>6. CASE \E v \in Visits : VisitLetterSent(w, v)
  BY <1>4, <1>6, Froms DEF VisitLetterSent
<1>7. CASE \E v \in Visits : UploadVisitImage(w, v)
  <2>1. PICK v \in Visits, i \in Images :
          Take(w, "UploadVisitImage", v, [From("picture") EXCEPT !.held = i])
          /\ UNCHANGED accepted
    BY <1>7 DEF UploadVisitImage
  <2>2. [From("picture") EXCEPT !.held = i].at = "picture"
    BY Froms
  <2> QED
    BY <1>4, <2>1, <2>2
<1>8. CASE ReviewedVisit(w)
  <2>1. PICK v, rest : Take(w, "ReviewedVisit", v, [From("load") EXCEPT !.rest = rest])
                       /\ UNCHANGED accepted
    BY <1>8 DEF ReviewedVisit
  <2>2. [From("load") EXCEPT !.rest = rest].at = "load"
    BY Froms
  <2> QED
    BY <1>4, <2>1, <2>2
<1>9. ASSUME NEW h, NEW v, NEW step, NEW held, UNCHANGED accepted,
             Take(w, h, v, [From(step) EXCEPT !.held = held]),
             \/ h = "CompleteVisitResponse" /\ step = "completed" /\ held = response[v]
             \/ h = "UploadAssetImage" /\ step = "asset" /\ held \in assets
      PROVE  ResponseInv'
  <2>1. [From(step) EXCEPT !.held = held]
          = [at |-> step, rest |-> <<>>, post |-> None, held |-> held]
    BY Froms
  <2>2. job'[w] = [handler |-> h, visit |-> v, at |-> step,
                   rest |-> <<>>, post |-> None, held |-> held]
    BY <1>9, <2>1, Taken
  <2>3. Progress(w)'
    BY <1>1, <1>9, <2>2 DEF Progress, At
  <2> QED
    BY <1>2, <1>3, <1>9, <2>3 DEF ResponseInv
<1>10. CASE \E v \in Visits : CompleteVisitResponse(w, v)
  BY <1>9, <1>10 DEF CompleteVisitResponse
<1>11. CASE \E a \in assets : UploadAssetImage(w, a)
  BY <1>9, <1>11 DEF UploadAssetImage
<1>12. CASE \E v \in Visits : CreateVisitResponse(w, v)
  <2>1. PICK v \in Visits, post \in Posts :
          /\ Take(w, "CreateVisitResponse", v, [From("find") EXCEPT !.post = post])
          /\ accepted' = [accepted EXCEPT ![v] = None]
    BY <1>12 DEF CreateVisitResponse, Posts
  <2>2. [From("find") EXCEPT !.post = post]
          = [at |-> "find", rest |-> <<>>, post |-> post, held |-> None]
    BY Froms
  <2>3. job'[w] = [handler |-> "CreateVisitResponse", visit |-> v, at |-> "find",
                   rest |-> <<>>, post |-> post, held |-> None]
    BY <2>1, <2>2, Taken
  <2>4. /\ accepted' \in [Visits -> Posts \cup {None}] /\ accepted'[v] = None
        /\ \A x \in Visits \ {v} : accepted'[x] = accepted[x]
    BY <1>1, <2>1 DEF RowsInv
  <2>5. RowsInv'
    <3>1. assets' \subseteq AssetRow /\ \A x \in Visits : AssetsOf(x)' = AssetsOf(x)
      BY <1>1 DEF RowsInv, AssetsOf
    <3> QED
      BY <1>1, <2>4, <3>1, OthersStored
  <2>6. Progress(w)'
    BY <2>3, <2>4 DEF Progress, Posted, At, Posting, Updating
  <2> QED
    BY <1>2, <2>5, <2>6 DEF ResponseInv
<1> QED
  BY <1>5, <1>6, <1>7, <1>8, <1>10, <1>11, <1>12 DEF Request

LEMMA PostsNext == ~Overlapping /\ Serial /\ ResponseInv /\ [Next]_vars => ResponseInv'
<1> SUFFICES ASSUME ~Overlapping, Serial, ResponseInv, [Next]_vars PROVE ResponseInv'
  OBVIOUS
<1>1. CASE Crash
  <2>1. (\A x \in Workers : job'[x] = Idle) /\ UNCHANGED <<response, assets, accepted>>
    BY <1>1, CrashOfOne
  <2> QED
    BY <2>1, RowsUntouched, IdleProgressNext DEF ResponseInv
<1>2. CASE UNCHANGED vars
  <2>1. UNCHANGED <<job, response, assets, accepted>>
    BY <1>2 DEF vars, responseVars
  <2>2. \A x \in Workers : Progress(x)'
    BY <2>1 DEF ResponseInv, Progress, Posted, At, Stored, AssetsOf
  <2> QED
    BY <2>1, <2>2, RowsUntouched DEF ResponseInv
<1> QED
  BY <1>1, <1>2, RequestsKeepPosts, PostStepsKeep DEF Next

\* An item of the list has one row.
LEMMA AsManyRows ==
    ASSUME NEW v \in Visits, NEW post \in Posts, Stored(v, post)
    PROVE  Cardinality(AssetsOf(v)) = Cardinality(post.list)
<1> DEFINE rows == AssetsOf(v)
           f == [i \in post.list |-> CHOOSE a \in rows : a.item = i]
<1>1. IsFiniteSet(post.list)
  BY LifecycleAssumption DEF Posts
<1>2. {a.item : a \in rows} = post.list /\ \A a, b \in rows : a.item = b.item => a = b
  BY DEF Stored
<1> HIDE DEF rows
<1>3. \A i \in post.list : f[i] \in rows /\ f[i].item = i
  <2> TAKE i \in post.list
  <2>1. \E a \in rows : a.item = i
    BY <1>2
  <2> QED
    BY <2>1
<1>4. \A a \in rows : a.item \in post.list /\ f[a.item] = a
  BY <1>2, <1>3
<1>5. f \in [post.list -> rows]
  BY <1>3
<1> HIDE DEF f
<1>6. f \in Bijection(post.list, rows)
  <2>1. \A i, k \in post.list : f[i] = f[k] => i = k
    BY <1>3
  <2>2. \A a \in rows : \E i \in post.list : f[i] = a
    BY <1>4
  <2> QED
    BY <1>5, <2>1, <2>2 DEF Bijection, Injection, IsInjective, Surjection
<1>7. ExistsBijection(post.list, rows)
  BY <1>6 DEF ExistsBijection
<1> QED
  BY <1>1, <1>7, FS_Bijection DEF rows

\* While requests do not overlap, a visit has exactly the rows of the post that
\* was answered last, each once: what an earlier post left when it failed or was
\* cut off is wiped, and neither completing the response nor an image of an asset
\* brings old answers or rows back (CreateVisitResponse).
THEOREM ResponsesAreAsPosted ==
    ASSUME ~Overlapping
    PROVE  Spec => []ResponseAsPosted
<1>1. Init => ResponseInv
  <2> SUFFICES ASSUME Init PROVE ResponseInv
    OBVIOUS
  <2>1. RowsInv /\ \A w \in Workers : job[w] = Idle
    BY DEF Init, RowsInv
  <2> QED
    BY <2>1, IdleProgress DEF ResponseInv
<1>2. ResponseInv => ResponseAsPosted
  <2> SUFFICES ASSUME ResponseInv, NEW v \in Visits, accepted[v] # None
               PROVE  /\ {a.item : a \in AssetsOf(v)} = accepted[v].list
                      /\ Cardinality(AssetsOf(v)) = Cardinality(accepted[v].list)
                      /\ accepted[v].answers \in {response[v].answers, Blank}
    BY DEF ResponseAsPosted
  <2>1. PICK post \in Posts : post = accepted[v]
    BY DEF ResponseInv, RowsInv
  <2>2. Stored(v, post)
    BY <2>1 DEF ResponseInv, RowsInv
  <2> QED
    BY <2>1, <2>2, AsManyRows DEF Stored
<1> QED
  BY <1>1, <1>2, SerialStart, SerialBase, PostsNext, PTL DEF Spec
=============================================================================
