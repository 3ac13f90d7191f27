------------------------------- MODULE DbPool -------------------------------
(***************************************************************************)
(* Requests and the one connection of the database handle                  *)
(* (initializers/database.go sets SetMaxOpenConns(1)).                     *)
(*                                                                         *)
(* A transaction keeps the connection from Begin to Commit or Rollback; a  *)
(* statement on the global handle needs it too, and waits for it without a *)
(* time limit: no handler passes a context. A handler is the set of paths  *)
(* its statements can take. What the statements read and write is the      *)
(* matter of RoutePlanning. A transaction may fail at every statement; two *)
(* handlers write some of these failures to the log before they leave it,  *)
(* and Troubles says which of those happen.                                *)
(* "Mutant" marks a definition with a mistake, which is not part of the    *)
(* model.                                                                  *)
(***************************************************************************)
EXTENDS Naturals, Sequences, FiniteSets

CONSTANTS
    Requests, \* requests that may be under way at once
    Handlers, \* the handlers they may call
    Troubles  \* failures that are logged inside a transaction and happen: of a
              \* "statement", or of a "debtor" that AdvoPro does not give

Free == "free"

ASSUME RequestsAssumption == Requests # {} /\ Free \notin Requests
ASSUME TroublesAssumption == Troubles \subseteq {"statement", "debtor"}

VARIABLES
    conn, \* Free, or the request whose transaction has the connection
    todo  \* per request, the statements its handler still executes

vars == <<conn, todo>>

----------------------------------------------------------------------------
\* Paths: "db" is a statement on the global handle, "tx" one on the handle of
\* the transaction that "begin" opened and "end" commits or rolls back, "io" a
\* call to Valhalla or AdvoPro.

Then(P, Q) == {p \o q : p \in P, q \in Q}
OrNot(P) == P \cup {<<>>}
Loop(P) == P \cup Then(P, P)   \* bound: a loop runs once or twice

\* Statements on the global handle, a number of them in L. The queries that a
\* Preload adds to its own are one with it.
Statements(L) == UNION {[1..n -> {"db"}] : n \in L}

\* The paths P of a handler on which it logs t inside its transaction.
Logged(t, P) == IF t \in Troubles THEN P ELSE {}

\* The paths P of a transaction, whole or up to a statement that fails or finds
\* what the handler refuses.
CutOff(P) == UNION {{SubSeq(p, 1, n) : n \in 1..Len(p)} : p \in P}

\* Mutant: neither committed nor rolled back.
TransactionLeftOpen(P) == Then({<<"begin">>}, P)

Transaction(P) == Then({<<"begin">>}, Then(P, {<<"end">>}))

\* Before every handler the middleware looks for a ban of a client from outside,
GeoIPBlocker == OrNot({<<"db">>})

\* and, but for a login, reads the user of the token.
RequireAuth == {<<"db">>}

LoggerError == {<<"db">>}

\* LogUserCreate, LogUserPatch, LogUserDelete, LogVisitCreate, LogVisitDelete.
LogActivity == Then({<<"db">>}, OrNot(LoggerError))

\* There is no such user: the attempt is recorded.
RefuseToken == Then(RequireAuth, LogActivity)

UpdateVisitStatus == {<<"db">>, <<"db", "db">>, <<"db", "db", "db">>}

\* Mutant: takes the global handle.
UpdateVisitValueGlobally == {<<"db", "db">>}

\* Works on the handle it is given, which is the transaction's everywhere.
UpdateVisitValue == {<<"tx", "tx">>}

\* ReorderVisit, SplitSegment and JoinSegment: reads, logged writes, check.
SegmentEdit ==
    LET edited == Then({<<"tx">>}, Then(Loop(UpdateVisitValue), {<<"tx", "tx">>}))
    IN  Then(Transaction(CutOff(edited)), OrNot(LoggerError))

\* The visit and, in a group, a sibling or the vacant id are found, the update
\* is logged and made, the group renumbered, routes are cleared. A failure of
\* nextVacantGroupId, of the update or of fixRouteOrder is logged before the
\* transaction is left; after the one of the update the handler goes on. Other
\* failures are logged after it.
ChangeGroupId ==
    LET found == Then({<<"tx">>}, OrNot({<<"tx">>, <<"tx", "tx">>}))
        updated == Then(found, Then(UpdateVisitValue, {<<"tx">>}))
        reordered == OrNot({<<"tx", "tx">>})
        cleared == {<<"tx">>, <<"tx", "tx">>}
        moved == Then(updated, Then(reordered, OrNot(CutOff(cleared))))
        logged == Then({<<"tx", "tx", "tx">>}, LoggerError)
                  \cup Then(updated, Then(LoggerError,
                           Then(reordered, OrNot(CutOff(cleared)))
                           \cup Then({<<"tx">>, <<"tx", "tx">>}, LoggerError)))
                  \cup Then(updated, Then({<<"tx">>, <<"tx", "tx">>}, LoggerError))
    IN  Then(Transaction(CutOff(Then(found, UpdateVisitValue)) \cup moved
                         \cup Logged("statement", logged)),
             OrNot(LoggerError))

\* ChangeGroupDate and ChangeKonsulent.
GroupUpdate ==
    LET updated == Then({<<"tx">>}, Then(Loop(UpdateVisitValue), {<<"tx">>}))
    IN  Then(Transaction(CutOff(updated)), OrNot(LoggerError))

AssignVisitsToGroup ==
    LET assigned == {<<"tx", "tx", "tx">>}
    IN  Then(Transaction(CutOff(assigned)), LoggerError)
        \cup Then(Transaction(assigned), Loop(UpdateVisitStatus))

VisitLetterSent == UpdateVisitStatus

computeAndStoreRoute ==
    LET stored == Then(Loop(UpdateVisitValue), {<<"tx", "tx">>})
    IN  {<<"db">>, <<"db", "io">>, <<"db", "io", "db">>}
        \cup Then({<<"db", "io", "db">>}, Transaction(CutOff(stored)))

RecomputeGroupRoute == Then(computeAndStoreRoute, OrNot(LoggerError))

\* Read, ask the solver, store the order, draw the road.
OptimizeGroup ==
    LET stored == Loop(UpdateVisitValue)
    IN  Then({<<"db">>, <<"db", "io">>}, OrNot(LoggerError))
        \cup Then({<<"db", "io">>}, Then(Transaction(CutOff(stored)), LoggerError))
        \cup Then({<<"db", "io">>}, Then(Transaction(stored), RecomputeGroupRoute))

\* Rows are checked one by one, then written in one transaction; for a row that
\* was written UpdateVisitStatus is called, which knows only the global handle.
PlanVisit ==
    Then({<<"db">>},
         Then(Loop({<<"db">>}),
              OrNot(Then(Transaction(Loop(Then({<<"tx">>}, OrNot(UpdateVisitStatus)))),
                         OrNot(LoggerError)))))

\* A response: the upsert reads, then creates or updates; the old assets are
\* deleted, the posted ones created, if any. What fails is logged.
CreateVisitResponse ==
    LoggerError
    \cup Then(Statements(1..4), LoggerError)
    \cup Then(Statements({3, 4}), Then(UpdateVisitStatus, OrNot(LoggerError)))

\* Response and visit are read, the image row is created, then completed; when
\* its file cannot be saved it is deleted, and that is logged.
UploadVisitImage == Statements({1, 2, 4, 5})

\* Asset, response and visit are read, the asset is saved, or the error logged.
UploadAssetImage == Statements(1..5)

CompleteVisitResponse ==
    Statements({1, 2}) \cup Then(Statements({2}), UpdateVisitStatus)

\* The visit is read, and again for the report; AdvoPro is asked on connections
\* of its own, and clean-ups that fail there are logged here.
ReviewItem ==
    Statements({1, 2})
    \cup Then({<<"db", "db", "io">>}, OrNot(Loop(LoggerError)))
    \cup Then({<<"db", "db", "io">>}, UpdateVisitStatus)

ReviewedVisit ==
    Then({<<"io">>}, LoggerError \cup OrNot(Loop(ReviewItem)))

DeleteVisit == Then({<<"db">>}, LoggerError \cup LogActivity)

\* The visits and their debtors, for whom AdvoPro is asked, are created in a
\* transaction, read again and logged. FetchDebitorData logs what it cannot
\* give, once or twice, and the handler logs it again; it also logs a visit it
\* cannot store: all before the transaction is left. Failures of a debtor's row
\* and of the commit are logged after it. Bound: one visit, at most one debtor.
VisitCreation ==
    LET debtor == Then({<<"tx">>}, {<<"tx">>, <<"tx", "tx">>})
        created == Then({<<"tx">>}, OrNot(Then({<<"io">>}, debtor)))
        unknown == Then({<<"tx", "io">>}, Then(Loop(LoggerError), LoggerError))
        refused == {<<"tx">>} \cup Then({<<"tx", "io">>}, CutOff(debtor))
                   \cup Logged("statement", Then({<<"tx">>}, LoggerError))
                   \cup Logged("debtor", unknown)
    IN  Then({<<"io">>},
             Then(OrNot(LoggerError),
                  Then(Transaction(refused), LoggerError)
                  \cup Then(Transaction(created), Then({<<"db">>}, LoggerError \cup LogActivity))))

\* The new columns are the client's; the visit is read before and after.
PatchVisit == LoggerError \cup Then({<<"db">>}, LoggerError \cup Statements({2}))

\* getRouteSetting reads the one row, or creates it.
PatchRouteSettings ==
    Then(Statements({1, 2}), Then(OrNot({<<"db">>}), OrNot(LoggerError)))

CreateUser == {<<"db">>} \cup Then({<<"db">>}, LogActivity)

\* Patch, DeleteUser and ChangePassword: find the user, write, log.
UserEdit ==
    LoggerError
    \cup Then({<<"db">>},
              OrNot(LoggerError \cup Then(OrNot(LoggerError), Then({<<"db">>}, LogActivity))))

\* Two counts per tier up to the first that is exceeded; the attempt is
\* recorded in any case.
LoginAttemptLog == Then(Statements({2, 4, 6, 8}), LogActivity)

\* The attempt is marked before each check with the reason it would fail for,
\* and as successful at the end.
Login ==
    LoginAttemptLog
    \cup Then(Statements({8}), Then(LogActivity, Statements({2, 3, 4, 5})))

ErrorLog == LoggerError \cup LogActivity

Paths ==
    [SegmentEdit |-> SegmentEdit,
     ChangeGroupId |-> ChangeGroupId,
     GroupUpdate |-> GroupUpdate,
     AssignVisitsToGroup |-> AssignVisitsToGroup,
     VisitLetterSent |-> VisitLetterSent,
     RecomputeGroupRoute |-> RecomputeGroupRoute,
     OptimizeGroup |-> OptimizeGroup,
     CreateVisitResponse |-> CreateVisitResponse,
     UploadVisitImage |-> UploadVisitImage,
     UploadAssetImage |-> UploadAssetImage,
     CompleteVisitResponse |-> CompleteVisitResponse,
     ReviewedVisit |-> ReviewedVisit,
     DeleteVisit |-> DeleteVisit,
     PatchVisit |-> PatchVisit,
     PatchRouteSettings |-> PatchRouteSettings,
     CreateUser |-> CreateUser,
     UserEdit |-> UserEdit,
     Login |-> Login,
     ErrorLog |-> ErrorLog,
     PlanVisit |-> PlanVisit,
     VisitCreation |-> VisitCreation]

\* What the server executes for a request to handler h. Any may be refused
\* before the first statement of its handler.
Served(h) ==
    Then(GeoIPBlocker,
         OrNot(IF h = "Login" THEN Login
               ELSE RefuseToken \cup Then(RequireAuth, OrNot(Paths[h]))))

\* Handlers whose transactions stay on their own handle, those that write some
\* failures to the log inside one, and those without one.
Editing == {"SegmentEdit", "GroupUpdate", "AssignVisitsToGroup", "RecomputeGroupRoute",
            "OptimizeGroup"}
Logging == {"ChangeGroupId", "VisitCreation"}
Plain == {"VisitLetterSent", "CreateVisitResponse", "UploadVisitImage", "UploadAssetImage",
          "CompleteVisitResponse", "ReviewedVisit", "DeleteVisit", "PatchVisit",
          "PatchRouteSettings", "CreateUser", "UserEdit", "Login", "ErrorLog"}

\* The handlers that keep to their own handle, whatever fails; of Logging, as long
\* as there is nothing to log inside a transaction, and PlanVisit never.
OwnHandle == Editing \cup Plain \cup (IF Troubles = {} THEN Logging ELSE {})

----------------------------------------------------------------------------
Init == conn = Free /\ todo = [r \in Requests |-> <<>>]

Arrive(r) ==
    /\ todo[r] = <<>>
    /\ \E h \in Handlers : \E p \in Served(h) :
         todo' = [todo EXCEPT ![r] = p]
    /\ UNCHANGED conn

\* Request r has executed the statement at the head of its path.
Done(r, kind) ==
    /\ todo[r] # <<>>
    /\ Head(todo[r]) = kind
    /\ todo' = [todo EXCEPT ![r] = Tail(@)]

Statement(r) == Done(r, "db") /\ conn = Free /\ UNCHANGED conn
Begin(r) == Done(r, "begin") /\ conn = Free /\ conn' = r
InTransaction(r) == Done(r, "tx") /\ conn = r /\ UNCHANGED conn
End(r) == Done(r, "end") /\ conn = r /\ conn' = Free
AskOutside(r) == Done(r, "io") /\ UNCHANGED conn

Next ==
    \E r \in Requests :
        Arrive(r) \/ Statement(r) \/ Begin(r) \/ InTransaction(r) \/ End(r) \/ AskOutside(r)

Spec == Init /\ [][Next]_vars

\* Statements end, outside calls are assumed to, and database/sql hands a freed
\* connection to a waiting request: none is passed over for ever.
Fairness ==
    \A r \in Requests :
        /\ WF_vars(InTransaction(r)) /\ WF_vars(End(r)) /\ WF_vars(AskOutside(r))
        /\ SF_vars(Statement(r)) /\ SF_vars(Begin(r))

FairSpec == Spec /\ Fairness

----------------------------------------------------------------------------
\* Properties.

\* Inside a transaction a handler uses only the transaction: the request that
\* has the connection never asks the handle for another one, which there is not.
TransactionUsesOwnHandle ==
    conn # Free => todo[conn] # <<>> /\ Head(todo[conn]) \in {"tx", "end", "io"}

\* Every request that was accepted is answered.
Answered == \A r \in Requests : todo[r] # <<>> ~> todo[r] = <<>>
=============================================================================
