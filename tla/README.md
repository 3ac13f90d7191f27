# MOP backend: specification

The backend plans and records the visits that consultants make to debtors. It
is a gin server over a relational database (gorm, one connection), with calls to
AdvoPro (an external case system), Valhalla (routing) and Penneo (signing).
This directory holds TLA+ models of it, the TLC runs that check them, and the
theorems proved about them with TLAPS. `PROJECT.json` lists the components, the
runs, the source lines each definition stands for, the findings and the hazards.

## Inventory

| Component | Code | State | Operations |
| --- | --- | --- | --- |
| Route groups and stop order | `api/v1_groups.go`, `api/v1_routing.go` | `visits.group_id`, `stop_nr`, `segment_index`, `status_id` | assign to a new group, move one visit, reorder, split, join, optimize, delete |
| Drawn route | `api/v1_route.go` | `visit_routes`, one row per group; `visit_time` | draw, clear, recompute |
| Database handle | `initializers/database.go`, `internal/internal.go`, `internal/logger/log.go`, `middleware/auth.go` | the one connection, the log table | statements, transactions, logging of errors |
| Visit status lifecycle | `internal/internal.go`, `api/v1_visitReview.go`, `api/v1_visitEndpoints.go` | `status_id`, the change log, documents at AdvoPro | plan, letter sent, response, review, export |
| Responses and images | `api/v1_visitEndpoints.go` | `visit_responses`, images on disk | create, upload, complete |
| Planned excel file | `api/v1_visitPlan.go` | visit columns, route settings | plan from a file, patch a visit |
| Creation of visits | `api/v1_visitCreationPlanning.go` | visits, debtors | fetch, merge by address, create; letter sent |
| Tour solver | `internal/tsp` | none (pure) | cost matrix from Valhalla, Held-Karp, 2-opt, nearest neighbour, tours per segment, road |
| Arrival times | `api/v1_route.go`, `api/v1_visitPlan.go` | `route_settings` (one row) | read or create, patch, schedule, interval of a visit |
| Signing flow | `api/v1_penneo.go` | SSE hub, registry of pending cases | start, wait (webhook, poll, timeout), event stream |
| Document upload | `internal/advopro*.go` | rows at AdvoPro | import document, historik |
| Login attempts | `middleware/security.go`, `api/v1_user.go` | `login_attempts` | count, limit, log |
| Letters and reports | `internal/advopro_breve.go`, `pdf_repport.go`, `excel/` | none | format |
| HTTP plumbing | `main.go`, `middleware`, `proxy`, `api2` | none | routing table, headers |
| Schema and seed | `migrate/`, `models/` | the tables | create, seed |

How they interact: every handler reads and writes the tables through one global
`gorm.DB`, whose pool has one connection. `UpdateVisitStatus` and
`UpdateVisitValue` change a column and write the change log; the second takes
the handle it should use, the first always takes the global one, as the logger
does. The group handlers edit the order in transactions and drop the drawn
route; `OptimizeGroup` reads rows, asks the solver (which asks Valhalla for a
distance matrix), writes the order in a transaction and then draws the road like
`RecomputeGroupRoute`. Upload, creation, letter and response handlers move the
status of the same rows.

What is hard about it:

- *State read before a call and used after it.* `OptimizeGroup` and
  `computeAndStoreRoute` read the group, leave the database for Valhalla and
  write afterwards; everything else can happen in between.
- *Two columns, many writers.* `stop_nr` and `segment_index` of a group must fit
  together, but assign, move, reorder, split, join, optimize and delete each
  write one of them, or neither, with checks of their own. NULL means 0 to the
  Go code and "before every number" to the database.
- *One of several steps failing.* The solver can fail per segment, the road can
  fail after the order was committed.
- *Everyone waiting on everyone.* With one connection and no time limits, a
  statement on the global handle inside a transaction stops the program.
- *No transaction where several statements belong together.* A status is read,
  written and logged in three statements; a response is stored in up to six; an
  image has a row, a file and a second write of the row; a document has a file, a
  transaction in another database and then a status here. Each of them may be
  the last one before a crash, and clients repeat what failed.
- *A webhook, a poll and a timeout race* for the end of a wait that only lives in
  memory, while browsers join and leave its events.
- *Arithmetic on ends.* Tours with zero, one or two fixed ends, segments of one
  or two stops, stops on top of each other, times across midnight, rounding up
  to the hour.

What makes each component correct:

- Route groups: two visits of a group are never the same stop; along the stops
  of a group the segments are consecutive blocks; a locked stop keeps its place;
  the edits a planner sees are those of a line of visits cut into segments.
- Drawn route: it shows the stops the group has now.
- Database handle: a transaction uses only its own connection, and every request
  is answered.
- Status: while requests come one after another, a sent letter is undone only by
  assigning the visit anew; a visit to be reviewed has a completed response, an
  exported one its document; the log is a chain of the statuses the visit had,
  but for the write of "planned" and one link for every fault.
- Responses: what was posted is what is stored, however often it was posted; an
  image row that names a file has it.
- Documents: one of a title on a case; no file without its rows and no rows
  without the file.
- Solver: the tour keeps segments and fixed ends, is the shortest where the
  solver is exact and never longer than the tour it started from elsewhere.
- Times: every stop is reached by the legs that lead to it; anchors and overrun
  are right; the interval told to a debtor holds the arrival.
- Signing: every wait ends, with the true outcome of the case, a listener misses
  nothing, and the registry holds exactly the cases that are waited for.
- Login: no more than the allowed attempts pass within the window (not modelled).

## Modules

**`RoutePlanning`** models the groups and the drawn route. Its variables are
columns: `live` (rows without `deleted_at`), `groupId`, `stopNr`,
`segmentIndex`, `statusId`; `route[g]` is the stop order the drawn route of `g`
was made for; `task[w]` is what a request under way has read. Every handler that
is one transaction is one action: `ChangeGroupId`, `ReorderVisit`,
`SplitSegment`, `JoinSegment`, `DeleteVisit`, `VisitLetterSent` (a transaction
excludes every other statement, since there is one connection; a rollback is a
step that is not taken). Handlers that leave the database are a worker that takes
one action per database step:

| Handler | Actions |
| --- | --- |
| `AssignVisitsToGroup` | `AssignVisitsToGroup` (transaction), `ConfirmStatus` once per visit |
| `OptimizeGroup` | `OptimizeGroup` (read), `StoreOrder` or `OptimizeFails`, `OptimizeRoute` (read the order), `StoreRoute` or `DrawFails` |
| `RecomputeGroupRoute` | `RecomputeGroupRoute` (read), `StoreRoute` or `DrawFails` |

The solver is any tour that its caller's contract allows: `optimizeFree` keeps
the segments one after another, `optimizeSegmented` also keeps the first stop of
each segment, and for every set of segments whose call fails lists them as the
fallback does, with the borrowed end twice (`PlacesOf`). `Rankings` and
`StopOrders` leave ties of a sort open, as `sort.Slice` and `ORDER BY` do.

Two constants choose how requests are sent. With `Overlapping` requests
interleave at every database step; without it one is sent when the one before it
was answered (`Admitted`). `Movable` are the visits that may be moved on their
own to another group: with none, the segments are what the comments in
`v1_routing.go` assume of them.

**`RouteBoard`** is what the planner is promised: each group a line of visits cut
into segments, with the operations new group, swap, split, join, optimize,
delete. A line is the set of its visits, which is driven before which, and which
two are in one segment: what the planner sees, and nothing about numbers.
**`RoutePlanningBoard`** reads the columns as such a board and states that
`RoutePlanning` implements it.

**`DbPool`** models the connection. A handler is a set of paths of statements:
`db` on the global handle, `tx` on the transaction's, `begin`, `end`, and `io`
for a call outside. `conn` is the request whose transaction has the connection,
`todo[r]` what request `r` still executes. There is a path definition for every
handler that writes, with its early returns, the errors it logs and the log
entry of its success; `Served` puts the statements of the middleware (the token,
the GeoIP block) in front, where a request may be refused. Loops run once or
twice. A transaction may fail at every statement, which cuts its path off there
(`CutOff`). `Plain` are the handlers without a transaction, `Editing` those whose
transactions keep to their own handle whatever fails. The two of `Logging`
(`ChangeGroupId`, `VisitCreation`) write some failures to the log before they
leave the transaction (`Logged`); `Troubles` says whether such failures happen:
of a "statement", or of a "debtor" AdvoPro does not give. `PlanVisit` leaves its
handle always. `OwnHandle` collects the handlers that keep to theirs, given the
`Troubles`.

**`VisitLifecycle`** models one visit from planning to the document on its case.
`job[w]` is the request of worker `w`: its handler, its visit, the next step and
what the handler remembers. A step is one statement, one file operation or one
commit.

| Code | Steps |
| --- | --- |
| `UpdateVisitStatus` | `ReadStatus`, `WriteStatus`, `WriteLog`, the last part of every handler below |
| `AssignVisitsToGroup` | writes "planned", then `UpdateVisitStatus` |
| `VisitLetterSent` | `UpdateVisitStatus` |
| `CreateVisitResponse` | the response found or created, its fields, old assets deleted, new ones inserted, then `UpdateVisitStatus` |
| `CompleteVisitResponse` | the row loaded, saved whole as it was loaded, then `UpdateVisitStatus` |
| `UploadVisitImage`, `UploadAssetImage` | row, file, path; the row taken back when the file fails |
| `ReviewedVisit`, `ImportDocument` | per visit of the list: loaded, the title looked up, the file copied, the rows committed, then `UpdateVisitStatus` |

Every step has a failure (`Failure`, what the handler does when the statement or
the operation fails) and a request may be cut off after every step (`Crash`).
`faults` counts only what the code cannot repair, so that the properties can say
"one for every fault": a crash inside a request, a commit whose answer is lost, a
clean-up or a log entry that fails. A failure that merely ends the request is
free. No handler looks at the status before it acts, so in the model too every
request may come at any time.

**`PenneoFlow`** models `StartPenneoFlow`, its goroutine, the registry, the hub,
the webhook and the event stream. `penneo[c]` is what Penneo made of a case,
`flow[c]` the step of the request and then of the goroutine, `age[c]` the ticks
of its ticker, `client[b]` a listener with its channel, which holds `Capacity`
messages. Webhooks are called early, late, twice, with a bad signature or never;
polls fail; that a webhook which takes effect is about a case Penneo really
signed is an assumption about its callers, not something the model shows; the
server restarts and forgets everything but what Penneo has.
**`SigningOutcome`** is the promise: a case gets one outcome, which is final and,
unless the program gave up, is what Penneo decided. `PenneoFlow` reads the
outcome from the goroutine's messages (`ImplementsOutcome`).

**`TourSolver`** holds the algorithms of `internal/tsp` as operators:
`heldKarp` (its table as a function, filled by subset), `twoOpt`,
`nearestNeighbor`, `solveOrder`, `SolveSegmentedTSP`. **`ArrivalTimes`** holds the
schedule: collapsed stops, `computeArrivalTimes`, `visitIntervalRange`.
**`TourPlan`** composes both with Valhalla as the environment, in the order of
the code: draw stops, ask for a matrix at growing snap radii, solve, ask for the
road, read or create the settings, which may be patched meanwhile, and schedule.

**`RoutePlanningProofs`** (types, unique stops), **`RouteSegmentProofs`**
(segments, letters, drawn routes, the refinement of `RouteBoard`),
**`DbPoolProofs`**, **`VisitLifecycleProofs`**, **`VisitSerialProofs`** (one request
at a time), **`PenneoFlowProofs`**, **`TourSolverProofs`** (lemmas about the
algorithms) and **`TourPlanProofs`** hold the proofs. `MCRoutePlanning`,
`MCVisitLifecycle` and `MCTourPlan` hold values for TLC; the runs
`signing`, `pool` and `bug_plan_upload` need none and check `PenneoFlow` and
`DbPool` themselves.

The modules overlap in what they share and abstract from the rest:
`RoutePlanning` has the orders the solver may answer where `TourPlan` has the
one it answers; `VisitLifecycle` has the statements of a status where `DbPool`
has the handle they use; a group that is assigned, a letter and a deleted visit
are one transaction in `RoutePlanning`, whose subject is the order.

Definitions marked "Mutant" are not part of a model. Each is the definition after
it with a mistake a change to the code could make; `PROJECT.json` pairs it with
the property that detects it.

## Runs

| Run | Requests | What it shows |
| --- | --- | --- |
| `route_serial` | one at a time | `TypeOK`. `UniqueStops`: no two visits of a group are one stop, starting from seed rows in a group without `stop_nr`, with moves, deletes and failing solver calls. `OptimizeRestoresBlocks`: optimizing repairs blocks that moves have interleaved. `StaleOnlyByLeavingOrOptimizing`: a drawn route becomes out of date only by a visit leaving the group or by the write of an optimized order. `LetterStaysSent`: a sent letter is undone only by assigning the visit to another group (with overlap: `bug_letter_undone`). |
| `route_edit` | one at a time, no moves | `SegmentsAscend`: segments are ascending blocks. `JoinGuardProves`: what the comment in `JoinSegment` relies on. `LockedStaysPut`: the optimizer does not move a stop alone in its segment. `ImplementsBoard`: refinement of `RouteBoard`. |
| `route_overlap` | overlapping | `OnlyOptimizeDuplicates`: with two requests interleaving and edits, moves and assignments at every point between their steps, only the write of an optimized order can break `UniqueStops`. |
| `pool` | two at once, every statement of a transaction may fail, but for the failures `ChangeGroupId` and `VisitCreation` log inside theirs | `TransactionUsesOwnHandle` and `Answered` for all handlers that write but `PlanVisit`. |
| `visit_serial` | one at a time, failures, one fault, repeated by the client | `ResponseAsPosted`, `FilesMatchDocuments`, `PendingOnlyByFault`, `LogBreaksOnlyByFault`, `OneDocumentPerTitle`, `StoredImageHasFile`: what rows, files, log and documents a fault can leave apart, and that a later request repairs the rest. |
| `visit_overlap` | two at once, failures, one fault | `ToReviewIsCompleted`, `ExportedHasDocument`: the status never runs ahead of what it stands for. |
| `signing` | one case, two listeners | `RegistryMatchesFlows`, `NoEventLost`, `TimeoutMeansUnsigned`, `EveryWaitEnds`, `ImplementsOutcome`. |
| `tour_plan` | one plan at a time, settings patched | `KeepsEnds`, `ExactIsShortest`, `HeuristicNoWorse`, `SegmentsStayInOrder`, `SegmentedIsShortest` against brute force, with segments on all sides of the two limits; `LegsReachTheirStops`, `ScheduleFits`, `ArrivalInsideInterval`. |
| `bug_*` | | findings, below |

Bounds. Three visits are the least number for "a visit between two of another
segment", four for two segments of two; two groups are the least for leaving and
entering, and a third id adds only more of the same, since no handler but
`ChangeGroupId` and `AssignVisitsToGroup` relates two groups. Two requests are
the least for a stale snapshot or a wait, and three do not add a statement
between. `MaxGroup` bounds `nextVacantGroupId`; `Letters`, `Deletable`,
`Splittable`, `Movable` and `Drawable` say for which rows the action is taken
and keep the state space small. Where a run deletes only some rows, the others
play the part of rows nobody deletes. `route_overlap` does not split segments,
delete or send letters: with them it does not finish in a few minutes, and
`OnlyStoreDuplicates` proves the same property with all of them. `route_overlap`
explores steps up to and including those that break `UniqueStops` and not beyond
(`CONSTRAINT UniqueStops`: the property is about the step that breaks it). It,
`route_serial` and `route_edit` identify states that differ only in columns of
deleted rows or in the `stop_nr` of rows outside every group (`VIEW
ReadColumns`): no handler reads a deleted row, and a row that enters a group is
numbered anew. The properties of these runs do not read them either, but for
`TypeOK`, which is proved for all columns. In `route_serial` one visit gets
letters, another may be deleted, and the route of one of the two groups is
drawn, which visits enter and leave.

`pool` runs every loop once or twice: whether a path waits for itself does not
depend on how often it repeats a statement. `visit_serial` has one visit, two
lists of assets (none, one), two answers (one of them blank, which the code
treats apart), two posts, one image and two file names: the second post and the
second name are what a repetition needs. It has all handlers; `visit_overlap`
leaves out images, which do not touch the status. Both allow one fault, so every
pair (fault, everything after it) is reached; `MaxLog` only stops a log that
would grow for ever. Two visits share nothing but the case and file folders of a
review, and the theorems below hold for any number. `signing` has three ticks
for the two hours, which leaves a tick that is not the last one on both sides,
two failing polls, so that two in a row fail, one restart, and the real capacity
of eight: no goroutine sends more than three messages, which is why
`NoEventLost` holds. `tour_plan` takes all matrices of two costs for up to three
stops and those with at most four cheap pairs for four. The code has two limits,
25 stops for a tour and 20 for a segment that is solved for every pair of ends;
a segment between the two gets one exact tour and its way back. They are scaled
down to three pairs (tour and segment: 3 and 2, 5 and 4, 2 and 2), so that there
are segments within both, between the two and beyond both, and tours on both
sides; costs of 600 and 1500 seconds let a schedule cross midnight, the earliest
interval and 20:00 with the settings of `MCTourPlan`.

Deadlock is checked in the runs of `DbPool` and `VisitLifecycle`.
`RoutePlanning` may stop: when every row was deleted there is nothing to do. So
may `PenneoFlow`, when every case has its outcome, and `TourPlan`, when the plan
is made.

Fairness. *`DbPool`* (`Answered`): a statement inside a transaction, a commit and
a call outside end (weak fairness). `http.Post` to Valhalla has no time limit, so
this is an assumption for that call; the connection is not held meanwhile. A
request that waits for the connection gets it if it is free again and again
(strong fairness): `database/sql` keeps waiting requests in a queue. Requests
need not arrive. *`PenneoFlow`* (`EveryWaitEnds`): the ticker ticks and the
goroutine takes its next step (weak fairness), so calls to Penneo are answered or
fail; its client has no time limit either, so this again is an assumption.
Neither a decision, nor a webhook, nor a successful poll is assumed.
*`VisitLifecycle`* (`bug_review_retry` only): reviewers ask again while a visit is
not exported, and a step that is tried again and again does not fail every time
(strong fairness). It is there to make the finding mean something: even so the
visit is never exported.

## Findings

Each `bug_*` run checks what a comment or document says and finds it violated.

- `bug_plan_upload`: `PlanVisit` calls `UpdateVisitStatus`, which uses the global
  handle, inside its transaction: it waits for the connection it holds, and every
  later request waits for it.
- `bug_letter_undone`: `VisitLetterSent` makes a visit "ready to visit", for which
  `ChangeGroupDate` refuses another date. `AssignVisitsToGroup` sets "planned" in
  its transaction and again, visit by visit, after the commit: a letter recorded
  in between is undone.
- `bug_asset_duplicates`: `CreateVisitResponse` wipes the old assets "so we don't
  accumulate duplicates per retry", in a statement of its own. When a post is
  repeated while the first is under way, both wipe, then both insert.
- `bug_review_retry`: the import is meant to be idempotent, but a document that
  exists is an error, on which `ReviewedVisit` skips the status. When the status
  could not be written after the document was, no later review writes it.

Also seen, and not the subject of a run:

- *Order.* README.md says the rows of a segment form an uninterrupted block;
  `ChangeGroupId` keeps the visit's `segment_index` and inserts it before the
  last stop, wherever that segment is. Rows are parked for a unique index on
  `(group_id, stop_nr)` that no migration creates, and an order computed from
  rows that changed since can then give one stop twice
  (`OnlyOptimizeDuplicates` says that nothing else can). A group whose letters
  were all sent may be reordered, since the guard only compares statuses with
  each other.
- *Drawn routes.* `ChangeGroupId` should drop the routes of both groups; gorm has
  written the new `group_id` into the loaded row, so the old group's route stays.
  So does the old route when the road cannot be drawn after `OptimizeGroup`
  (`StaleOnlyByLeavingOrOptimizing` names both causes). When the solver fails for
  a segment that is not the last, the stored stops have a gap.
- *Handle.* `VisitCreation` logs a debtor AdvoPro does not give (as
  `FetchDebitorData` does before it) and a visit it cannot store inside its
  transaction, `ChangeGroupId` a failing `nextVacantGroupId`, update or
  `fixRouteOrder`. The logger writes on the global handle, so these requests
  wait for the connection they hold, as in `bug_plan_upload`, and are not
  answered: TLC finds it in `pool` with `Handlers = {"VisitCreation"}` and
  `Troubles = {"debtor"}`, or `{"ChangeGroupId"}` and `{"statement"}`. Two first
  reads of the route settings at once create two rows. The clients of Valhalla
  and Penneo have no time limit.
- *Status.* `AssignVisitsToGroup` writes "planned" in its transaction, so the
  update that should log it finds nothing to do. `CompleteVisitResponse` saves
  the row as it read it, so answers posted meanwhile are undone. Two reviews of
  one visit at once can put its document on the case twice.
- *Tours.* Two stops with only the end fixed come out reversed, two stops in a
  segment are never reversed; a "fully free" tour begins at stop 0. Comments say
  that segments are exact up to 10 stops, the code up to 20. Arrivals after 20:30
  get an interval that the comment above it excludes.
- *Signing.* The route of Penneo's webhook asks for an auditor's login.
- *Login.* The limits count successful and refused attempts too.

## Proofs

For any visits, any number of groups and of requests under way:

- `TypeCorrect`: `Spec => []TypeOK`. `TypeOK` is inductive. The work is in the
  steps that carry data through a request: the snapshot of `OptimizeGroup`, the
  places `optimizeSegmented` computes from it (`TourType`, `ShiftGrows`,
  `StoredPlace`) and the orders `ReadOrder` selects.
- `OnlyStoreDuplicates`: `Spec => OnlyOptimizeDuplicates`. One lemma per action
  shows that it keeps `UniqueStops` from any typed state: a move renumbers the
  group it enters, a swap exchanges two numbers, an assignment numbers a group
  that was empty. Only `StoreOrder` remains.
- `SerialUniqueStops`: while requests do not overlap (`~Overlapping`),
  `Spec => []UniqueStops`. `UniqueStops` is not
  inductive: `StoreOrder` writes places that are different among the rows it
  read, which says nothing of rows that entered since. The invariant is
  `SerialInv == TypeOK /\ UniqueStops /\ OneRequest /\ SnapshotCurrent`: at most
  one request is under way, and what the solver was given is what the group
  still is. The core is `SegmentedSeparate`: the sets of places at which the
  list of `optimizeSegmented` holds two visits are disjoint, although a failed
  segment holds one visit twice and shifts the rest. So the last place written
  for each is different, and a row that is not written has the only place its
  list gives it.
- `SegmentsAreBlocks`: while requests do not overlap and no visit is moved on its
  own into a group that exists (`Movable = {}`), `Spec => []SegmentsAscend`. The
  invariant is `SerialInv /\ SegmentsAscend`; the step that needs an argument is
  `StoreOrder`, where `SegmentsApart` says that every place of a visit is in front
  of every place of a visit of a later segment, also when calls fail. A move puts
  a visit in front of the last stop whatever its segment is, so the hypothesis
  cannot be dropped. `OptimizingRestoresBlocks` needs no such hypothesis: whatever
  moves did, the same lemma makes blocks of the next stored order.
- `JoinStaysNonNegative`, `LockedStopsStayPut`: under the same hypotheses,
  `JoinGuardProves` and `LockedStaysPut`. The first also assumes that no row is of
  the seed (`Seeded = {}`), whose rows have no numbers: a row with NULL in front
  of a segment is what the comment in `JoinSegment` does not think of. The
  invariants add `Numbered` (no number of a group is missing) and `Unnumbered` (a
  group has all its numbers or none): a locked stop stays where it is because the
  stops of the segments in front of it are as many before and after.
- `LettersStaySent`, `RoutesGoStaleAsIntended`: `LetterStaysSent` and
  `StaleOnlyByLeavingOrOptimizing` while requests do not overlap. `RequestInv`
  adds to `SerialInv` that the statuses still to be confirmed are the ones the
  assignment set, and that the order a road is drawn for is the order the group
  has.
- `PlanningImplementsBoard`: while requests do not overlap, nothing is moved on
  its own and no row is of the seed, `RoutePlanning` implements `RouteBoard`.
  `BoardInv == SerialInv /\ SegmentsAscend /\ Numbered`; one lemma per request
  names the step of the board it is: a reordering exchanges two neighbours of one
  segment, a split cuts the line in front of one visit although it renumbers the
  rest of the group, a join that only takes up a gap is no step at all, and the
  statuses, letters and routes are none either.
- `HandlersUseOwnHandle`: when only handlers of `OwnHandle` are called, `Spec =>
  []TransactionUsesOwnHandle`, for any number of requests: those of `Editing`
  and `Plain` whatever fails, `ChangeGroupId` and `VisitCreation` but for the
  failures they log inside the transaction (`Troubles = {}`). Of these, and of
  `PlanVisit`, it is false. A path is sound when every "begin" has an "end"
  behind it with only statements of the transaction and outside calls between
  them. What is left of a transaction that was cut off has only statements of
  its own (`OwnCutOff`). Concatenation, choice, repetition and `Transaction`
  make sound paths from sound ones (`SoundThen`, `SoundTransaction`,
  `StatementsSound`), so each handler's paths are sound, also behind the
  middleware (`ServedSound`); the tail of a sound path is sound (`TailSound`),
  so `PoolInv` is inductive. The loop bound does not matter to the argument.
- `ReviewsAreOfCompleted`, `ExportsAreDocumented`, `StoredImagesExist`:
  `ToReviewIsCompleted`, `ExportedHasDocument` and `StoredImageHasFile` for any
  visits and any number of requests that overlap at every statement, with
  failures and crashes. They are not inductive: between the check and the status
  a job remembers that the response was completed or that the document is there.
  `Inv` adds `JobOK` of every job, what its step implies about the rows, and
  `StatusInv`; what makes it stable is that nothing uncompletes a response,
  removes a committed document or deletes a file whose row names it. There is one
  lemma per action, and `JobOK` of the other workers is carried by the rows being
  only added to.
- `SerialDocuments`: while requests do not overlap, `OneDocumentPerTitle`, with
  repeated reviews, lost answers and crashes. `SerialInv == Inv /\ OneRequest /\
  Checked /\ OneDocumentPerTitle`: only one request is under way, and between
  the look-up of a title and the commit no document has that title.
- `PendingImagesAreFaults`, `LooseFilesAreFaults`, `LogGapsAreFaults`: while
  requests do not overlap, `PendingOnlyByFault`, `FilesMatchDocuments` and
  `LogBreaksOnlyByFault`. None is inductive, since a request under way is always
  in the middle of something. Each invariant (`ImageInv`, `FileInv`, `LogInv`)
  counts what belongs to no request under way (image rows no upload will name,
  files no import will commit, links of a log but the one an update still owes)
  against the faults: a fault is what turns the one into the other.
- `ResponsesAreAsPosted`: while requests do not overlap, `ResponseAsPosted`.
  `ResponseInv` says how far the post under way has come: nothing is accepted
  while it wipes and inserts, so what an earlier post left behind need not be
  known, and after the insert the rows are one for each item of its list.
- `RegistryFollows`: `RegistryMatchesFlows` for any number of cases and listeners
  (`FlowInv`, one lemma per action).
- `FlowImplementsOutcome`: `PenneoFlow` implements `SigningOutcome`. The invariant
  `SignedInv` says that a goroutine that processes a case has seen it signed; then
  every step maps to an outcome, a decision at Penneo or a stutter.
- `ListenersMissNothing`: `NoEventLost` for any number of cases and listeners.
  `EventInv` bounds what a goroutine has told by its step, three messages at most,
  so the channel of eight never fills.
- `TimeoutIsHonest`: `TimeoutMeansUnsigned` for any length of the wait. `AgeInv`
  relates the ticks a case has waited to the moment it was signed: a poll reads
  every tick before the next one comes, so a signature is older than the last
  tick only if a poll failed.
- `ArrivalsAsAnnounced`: `ArrivalInsideInterval`, whatever the stops, costs and
  settings. It needs no invariant: for a time from 00:30 to 20:00 the rounded hour
  is one of 20, and neither the cap nor midnight cuts the three hours around it
  (`ThreeHoursAround`).
- `ToursKeepEnds`, `ExactToursAreShortest`, `HeuristicToursNoWorse`,
  `SegmentsStay`, `SegmentedToursAreShortest`, `LegsAreTheirs`, `SchedulesFit`:
  the properties of a plan, for any stops, costs, segments, limits and settings.
  The invariants are short, since a plan is made in one line of steps:
  `SolvedInv` says that the order is an answer of the solver to what was asked,
  with natural costs for all pairs; `PlanInv` that the legs are those drawn for
  that order and that the times are computed from them with settings
  `PatchRouteSettings` accepts. The work is in what the algorithms answer; see below.

The algorithms are recursive functions, of which the prover knows nothing but
their definition. That such a function exists, and that its values are what the
definition says, is shown for each from the library's fact that inclusion of
finite sets is well-founded (`LeastSet`, `LeastMeasure`), once for functions that
recur to smaller arguments (`Descent`, `Recursion`) and once for those that run
along 1..n (`Upwards`, `ByIndex`, `ByIndexOnly`). With these:

- *heldKarp* (`PathsAre`, `PathsFindTours`, `PathsAreLeast`, `heldKarpIsExact`):
  by induction over the size of the visited set, an entry of the table is a path
  over that set to that end, and there is none that costs less: a path without
  its last stop is a path over one stop less.
- *nearestNeighbor* (`SomeStopIsLeft`, `nearestNeighborIsPerm`): as long as the
  path is shorter than the tour there is a stop that is neither on it nor
  reserved for the end, by counting.
- *twoOpt* (`FromPlaceIs`, `PassIs`, `twoOptIs`): a pass keeps the ends and the
  stops and either changes nothing, and then no reversal improves, or lowers the
  cost. Costs are natural numbers, so the passes end.
- *solveOrder* (`CostTurned`, `solveOrderIsExact`, `solveOrderImproves`,
  `PairsAnswered`): a turned order costs on the turned matrix what the order costs,
  so a free start with a fixed end is a fixed start with a free end.
- *SolveSegmentedTSP* (`SolutionsAre`, `BlockedSplit`, `MoreChains`,
  `SolveSegmentedTSPIs`): `Chains` is what holds of the candidates after i
  segments: each is an order of exactly the stops of these segments, each segment
  in its block of places, and for every such order there is a candidate with the
  same last stop that costs no more. An order that keeps the segments splits
  into one of the first i and one of the last segment, which some entry and exit
  covers. An order that never goes back to an earlier segment is one that has each
  segment in its block (`AscendingIsBlocked`, by counting): that ties `Blocked` of
  the proofs to `InSegments` of the property.
- *collapseConsecutive* (`PlacesOfNext`, `CollapsedIs`, `DrawnLegs`): the number of
  a stop goes up by one exactly where its place is asked for anew, so
  `expandLegs` finds the leg of each pair under the number of its first stop.
- *computeArrivalTimes* (`InstantsAscend`, `ScheduleLeavesTime`): the instants
  ascend from the anchored end, so that without overrun they all lie within one
  day and the printed times are the instants to the minute.

The proofs assume what the modules assume of their constants: visits are a
finite set of numbers, `MaxGroup` is positive, the bounding sets are subsets,
`Free` is not a request, `None` is not a row, a list of assets is finite, a
channel holds at least three messages, costs are positive and one of them is the
greatest (an input bound of `Matrices` refers to it), the two limits of the
solver are natural numbers, in any order, settings are rows that
`PatchRouteSettings` accepts. `SetToSeqs`, `Cardinality` and the like are used
through the facts the library states about them. Four hypotheses are those of
the runs, and say of which requests a theorem speaks: `Handlers \subseteq
OwnHandle` as above; `~Overlapping` that one is sent when the one before it was
answered, as one planner does; `Movable = {}` that `ChangeGroupId` is not used;
`Seeded = {}` that every row came in by `VisitCreation`, which the seed's rows
of `migrate.go` did not.

Every invariant and every action property of the passing runs is stated by a
theorem. Only model-checked are `Answered` and `EveryWaitEnds`, since liveness
is out of the prover's reach. `HandlersUseOwnHandle` and the theorems with
`~Overlapping` speak of the requests they name; what was found of the others is
in the findings.

## Not modelled

- `PatchVisit` writes any column the client names, with no check; every
  statement about the columns would end there.
- `RemoveFromGroup` reads a route parameter that its route does not have and
  only answers 400. `GetInGroup` and the other readers change nothing.
- `ChangeGroupDate`, `ChangeKonsulent`, `visit_date`, `user_id`: the order does
  not depend on them (their statements are in `DbPool`).
- Failing SQL statements and crashes in `RoutePlanning`, other than those that
  roll a transaction back: a worker stops where it is, as in `OptimizeFails` and
  `DrawFails`. `VisitLifecycle` has both at every step.
- How many attempts the login limits admit: their statements are in `DbPool`, and
  nothing else depends on the counts.
- Which visits `mergeByGeocode` merges: grouping a list by a key. Statements of
  `VisitCreation` are in `DbPool`, its rows are where the other modules begin.
- The rounding of `float64` in costs and coordinates; the solver is checked with
  integers.
- Renewal of Penneo's and AdvoPro's tokens, contents of requests and documents.
- The queries of `advopro.go`, which read an external schema, and the historik
  functions, which no handler calls.
- Letters, reports, excel and HTTP: layout and plumbing.

## Plan

Written so far, in this order: `RoutePlanning` with `RouteBoard`, since the order
of stops is what most handlers share; `DbPool`, since every handler needs the
connection; `VisitLifecycle`; `PenneoFlow` with `SigningOutcome`; `TourSolver`,
`ArrivalTimes` and `TourPlan`. Next, most important first:

1. The answers of `SolveSegmentedTSP` are tours that `RoutePlanning` allows: what
   `SolveSegmentedTSPIs` proves of the one as a statement about the other, with the
   group handlers that call the solver segment by segment.
2. What remains true of `RoutePlanning` when requests overlap: the order of the
   segments after an edit between the steps of `OptimizeGroup`.
3. `LoginLimiter`: attempts counted and recorded in separate statements.
