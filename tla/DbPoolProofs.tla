---------------------------- MODULE DbPoolProofs ----------------------------
(***************************************************************************)
(* For any number of requests: a transaction never asks the handle for a   *)
(* second connection. This holds of the handlers of Editing and Plain      *)
(* whatever fails, of those of Logging while no failure happens that they  *)
(* log inside a transaction, and not of the upload of a plan.              *)
(*                                                                         *)
(* The paths of these handlers are sound: between a "begin" and its "end"  *)
(* there are only statements of the transaction and calls outside. The     *)
(* tail of a sound path is sound, so a request that executes one keeps the *)
(* invariant at every step.                                                *)
(***************************************************************************)
EXTENDS DbPool, Integers, TLAPS

Kinds == {"db", "tx", "io", "begin", "end"}
OwnKinds == {"tx", "io"}
PlainKinds == {"db", "io"}

\* The rest q of a path, inside a transaction, stays on its handle until "end".
Inside(q) ==
    \E e \in 1..Len(q) : /\ q[e] = "end"
                         /\ \A i \in 1..(e - 1) : q[i] \in OwnKinds

\* Every transaction of q ends, and until then uses its own handle only.
Sound(q) ==
    \A b \in 1..Len(q) : q[b] = "begin" =>
        \E e \in (b + 1)..Len(q) : /\ q[e] = "end"
                                   /\ \A i \in (b + 1)..(e - 1) : q[i] \in OwnKinds

SoundPaths == {q \in Seq(Kinds) : Sound(q)}

----------------------------------------------------------------------------
\* Sound paths are put together from sound paths.

LEMMA ThenJoins ==
    ASSUME NEW P, NEW Q, NEW x \in Then(P, Q)
    PROVE  \E p \in P, q \in Q : x = p \o q
BY DEF Then

LEMMA SoundThen ==
    ASSUME NEW P \in SUBSET SoundPaths, NEW Q \in SUBSET SoundPaths
    PROVE  Then(P, Q) \in SUBSET SoundPaths
<1> SUFFICES ASSUME NEW x \in Then(P, Q)
             PROVE  x \in SoundPaths
  OBVIOUS
<1> PICK p \in P, q \in Q : x = p \o q
  BY ThenJoins
<1>1. /\ p \in Seq(Kinds) /\ Sound(p)
      /\ q \in Seq(Kinds) /\ Sound(q)
  BY DEF SoundPaths
<1> DEFINE r == p \o q
<1> x = r
  OBVIOUS
<1>2. /\ r \in Seq(Kinds)
      /\ Len(r) = Len(p) + Len(q)
      /\ \A i \in 1..Len(p) : r[i] = p[i]
      /\ \A i \in 1..Len(q) : r[Len(p) + i] = q[i]
      /\ Len(p) \in Nat /\ Len(q) \in Nat
  BY <1>1
<1> HIDE DEF r
<1>3. ASSUME NEW b \in 1..Len(r), r[b] = "begin"
      PROVE  \E e \in (b + 1)..Len(r) : /\ r[e] = "end"
                                        /\ \A i \in (b + 1)..(e - 1) : r[i] \in OwnKinds
  <2>1. CASE b \in 1..Len(p)
    <3>1. PICK e \in (b + 1)..Len(p) :
            p[e] = "end" /\ \A i \in (b + 1)..(e - 1) : p[i] \in OwnKinds
      BY <1>1, <1>2, <1>3, <2>1 DEF Sound
    <3>2. e \in (b + 1)..Len(r) /\ r[e] = "end"
      BY <3>1, <1>2, <2>1
    <3>3. ASSUME NEW i \in (b + 1)..(e - 1)
          PROVE  r[i] \in OwnKinds
      <4>1. i \in 1..Len(p)
        BY <3>1, <1>2, <2>1
      <4>2. r[i] = p[i]
        BY <4>1, <1>2
      <4> QED
        BY <3>1, <4>2
    <3>4. QED
      BY <3>2, <3>3
  <2>2. CASE b \notin 1..Len(p)
    <3> DEFINE c == b - Len(p)
    <3>1. c \in 1..Len(q) /\ q[c] = "begin" /\ b = Len(p) + c
      BY <1>2, <1>3, <2>2
    <3>2. PICK e \in (c + 1)..Len(q) :
            q[e] = "end" /\ \A i \in (c + 1)..(e - 1) : q[i] \in OwnKinds
      BY <1>1, <3>1 DEF Sound
    <3>3. Len(p) + e \in (b + 1)..Len(r) /\ r[Len(p) + e] = "end"
      BY <3>1, <3>2, <1>2
    <3>4. ASSUME NEW i \in (b + 1)..(Len(p) + e - 1)
          PROVE  r[i] \in OwnKinds
      <4>1. i - Len(p) \in (c + 1)..(e - 1) /\ i - Len(p) \in 1..Len(q)
        BY <3>1, <3>2, <1>2
      <4>2. r[i] = q[i - Len(p)]
        BY <4>1, <1>2
      <4>3. QED
        BY <4>1, <4>2, <3>2
    <3>5. QED
      BY <3>3, <3>4
  <2>3. QED
    BY <2>1, <2>2
<1>4. Sound(r)
  BY <1>3 DEF Sound
<1>5. r \in SoundPaths
  BY <1>2, <1>4 DEF SoundPaths
<1>6. QED
  BY <1>5

LEMMA SoundOrNot ==
    ASSUME NEW P \in SUBSET SoundPaths
    PROVE  OrNot(P) \in SUBSET SoundPaths
<1>1. <<>> \in SoundPaths
  BY DEF SoundPaths, Sound
<1>2. QED
  BY <1>1 DEF OrNot

LEMMA SoundLoop ==
    ASSUME NEW P \in SUBSET SoundPaths
    PROVE  Loop(P) \in SUBSET SoundPaths
<1>1. Then(P, P) \in SUBSET SoundPaths
  BY SoundThen
<1>2. QED
  BY <1>1 DEF Loop

\* Paths of statements that no transaction needs to begin or end.
LEMMA SoundPlain ==
    ASSUME NEW q \in Seq(PlainKinds)
    PROVE  q \in SoundPaths
<1>1. q \in Seq(Kinds)
  BY DEF Kinds, PlainKinds
<1>2. \A b \in 1..Len(q) : q[b] # "begin"
  BY DEF PlainKinds
<1>3. QED
  BY <1>1, <1>2 DEF SoundPaths, Sound

LEMMA PlainSteps ==
    /\ <<>> \in SoundPaths
    /\ <<"db">> \in SoundPaths
    /\ <<"db", "db">> \in SoundPaths
    /\ <<"db", "db", "db">> \in SoundPaths
    /\ <<"db", "io">> \in SoundPaths
    /\ <<"db", "io", "db">> \in SoundPaths
    /\ <<"io">> \in SoundPaths
    /\ <<"db", "db", "io">> \in SoundPaths
<1>1. /\ <<>> \in Seq(PlainKinds)
      /\ <<"db">> \in Seq(PlainKinds)
      /\ <<"db", "db">> \in Seq(PlainKinds)
      /\ <<"db", "db", "db">> \in Seq(PlainKinds)
      /\ <<"db", "io">> \in Seq(PlainKinds)
      /\ <<"db", "io", "db">> \in Seq(PlainKinds)
      /\ <<"io">> \in Seq(PlainKinds)
      /\ <<"db", "db", "io">> \in Seq(PlainKinds)
  BY DEF PlainKinds
<1>2. QED
  BY <1>1, SoundPlain

LEMMA StatementsSound ==
    ASSUME NEW L \in SUBSET Nat
    PROVE  Statements(L) \in SUBSET SoundPaths
<1> SUFFICES ASSUME NEW n \in L, NEW q \in [1..n -> {"db"}]
             PROVE  q \in SoundPaths
  BY DEF Statements
<1>1. n \in Nat
  OBVIOUS
<1>2. q \in Seq(PlainKinds)
  BY <1>1 DEF PlainKinds
<1>3. QED
  BY <1>2, SoundPlain

\* What a transaction may execute is closed under the same constructions.
LEMMA OwnThen ==
    ASSUME NEW P \in SUBSET Seq(OwnKinds), NEW Q \in SUBSET Seq(OwnKinds)
    PROVE  /\ Then(P, Q) \in SUBSET Seq(OwnKinds)
           /\ Loop(P) \in SUBSET Seq(OwnKinds)
           /\ OrNot(P) \in SUBSET Seq(OwnKinds)
<1>1. ASSUME NEW A \in SUBSET Seq(OwnKinds), NEW B \in SUBSET Seq(OwnKinds)
      PROVE  Then(A, B) \in SUBSET Seq(OwnKinds)
  <2> SUFFICES ASSUME NEW x \in Then(A, B)
               PROVE  x \in Seq(OwnKinds)
    OBVIOUS
  <2>1. PICK p \in A, q \in B : x = p \o q
    BY ThenJoins
  <2>2. QED
    BY <2>1
<1>2. <<>> \in Seq(OwnKinds)
  OBVIOUS
<1>3. QED
  BY <1>1, <1>2 DEF Loop, OrNot

LEMMA SoundTransaction ==
    ASSUME NEW P \in SUBSET Seq(OwnKinds)
    PROVE  Transaction(P) \in SUBSET SoundPaths
<1> DEFINE B == {<<"begin">>}
<1> DEFINE E == {<<"end">>}
<1> DEFINE Y == Then(P, E)
<1>0. Transaction(P) = Then(B, Y)
  BY DEF Transaction
<1> SUFFICES ASSUME NEW x \in Then(B, Y)
             PROVE  x \in SoundPaths
  BY <1>0
<1>1. (\A a \in B : a = <<"begin">>) /\ (\A z \in E : z = <<"end">>)
  OBVIOUS
<1> HIDE DEF B, E, Y
<1>2. PICK a \in B, y \in Y : x = a \o y
  BY ThenJoins
<1>3. PICK p \in P, z \in E : y = p \o z
  <2>1. y \in Then(P, E)
    BY DEF Y
  <2>2. QED
    BY <2>1, ThenJoins
<1>4. p \in Seq(OwnKinds) /\ p \in Seq(Kinds) /\ Len(p) \in Nat
  BY DEF OwnKinds, Kinds
<1>5. /\ y \in Seq(Kinds)
      /\ Len(y) = Len(p) + 1
      /\ y[Len(p) + 1] = "end"
      /\ \A i \in 1..Len(p) : y[i] = p[i] /\ p[i] \in OwnKinds
  <2>1. y = p \o <<"end">>
    BY <1>1, <1>3
  <2>2. <<"end">> \in Seq(Kinds)
    BY DEF Kinds
  <2>3. y \in Seq(Kinds) /\ Len(y) = Len(p) + 1
    BY <2>1, <2>2, <1>4
  <2>4. y[Len(p) + 1] = "end" /\ \A i \in 1..Len(p) : y[i] = p[i]
    BY <2>1, <1>4
  <2>5. \A i \in 1..Len(p) : p[i] \in OwnKinds
    BY <1>4
  <2>6. QED
    BY <2>3, <2>4, <2>5
<1>6. /\ x \in Seq(Kinds)
      /\ Len(x) = Len(p) + 2
      /\ x[Len(p) + 2] = "end"
      /\ \A i \in 2..(Len(p) + 1) : x[i] \in OwnKinds
  <2>1. x = <<"begin">> \o y
    BY <1>1, <1>2
  <2>2. <<"begin">> \in Seq(Kinds)
    BY DEF Kinds
  <2>3. x \in Seq(Kinds) /\ Len(x) = Len(y) + 1
    BY <2>1, <2>2, <1>5
  <2>4. \A i \in 2..(Len(y) + 1) : x[i] = y[i - 1]
    BY <2>1, <1>5
  <2>5. x[Len(p) + 2] = y[Len(p) + 1]
    BY <2>4, <1>4, <1>5
  <2>6. ASSUME NEW i \in 2..(Len(p) + 1)
        PROVE  x[i] \in OwnKinds
    <3>1. i - 1 \in 1..Len(p) /\ i \in 2..(Len(y) + 1)
      BY <1>4, <1>5
    <3>2. QED
      BY <3>1, <2>4, <1>5
  <2>7. QED
    BY <2>3, <2>5, <2>6, <1>4, <1>5
<1>7. ASSUME NEW b \in 1..Len(x), x[b] = "begin"
      PROVE  \E e \in (b + 1)..Len(x) : /\ x[e] = "end"
                                        /\ \A i \in (b + 1)..(e - 1) : x[i] \in OwnKinds
  <2>1. b = 1
    <3>1. b \notin 2..(Len(p) + 1) /\ b # Len(p) + 2
      BY <1>6, <1>7 DEF OwnKinds
    <3>2. QED
      BY <3>1, <1>4, <1>6
  <2>2. Len(p) + 2 \in (b + 1)..Len(x)
    BY <2>1, <1>4, <1>6
  <2>3. \A i \in (b + 1)..(Len(p) + 2 - 1) : x[i] \in OwnKinds
    BY <2>1, <1>4, <1>6
  <2>4. QED
    BY <2>2, <2>3, <1>6
<1>8. QED
  BY <1>6, <1>7 DEF SoundPaths, Sound

----------------------------------------------------------------------------
\* The handlers.

LEMMA StatusSound ==
    /\ RequireAuth \in SUBSET SoundPaths
    /\ LoggerError \in SUBSET SoundPaths
    /\ OrNot(LoggerError) \in SUBSET SoundPaths
    /\ UpdateVisitStatus \in SUBSET SoundPaths
    /\ LogActivity \in SUBSET SoundPaths
    /\ {<<"db">>} \in SUBSET SoundPaths
    /\ {<<"io">>} \in SUBSET SoundPaths
<1>1. /\ RequireAuth \in SUBSET SoundPaths
      /\ LoggerError \in SUBSET SoundPaths
      /\ UpdateVisitStatus \in SUBSET SoundPaths
      /\ {<<"db">>} \in SUBSET SoundPaths
      /\ {<<"io">>} \in SUBSET SoundPaths
  BY PlainSteps DEF RequireAuth, LoggerError, UpdateVisitStatus
<1>2. OrNot(LoggerError) \in SUBSET SoundPaths
  BY <1>1, SoundOrNot
<1>3. LogActivity \in SUBSET SoundPaths
  BY <1>1, <1>2, SoundThen DEF LogActivity
<1>4. QED
  BY <1>1, <1>2, <1>3

LEMMA OwnUpdate ==
    /\ UpdateVisitValue \in SUBSET Seq(OwnKinds)
    /\ Loop(UpdateVisitValue) \in SUBSET Seq(OwnKinds)
    /\ {<<"tx">>} \in SUBSET Seq(OwnKinds)
    /\ {<<"tx", "tx">>} \in SUBSET Seq(OwnKinds)
    /\ {<<"tx", "tx", "tx">>} \in SUBSET Seq(OwnKinds)
<1>1. /\ <<"tx">> \in Seq(OwnKinds)
      /\ <<"tx", "tx">> \in Seq(OwnKinds)
      /\ <<"tx", "tx", "tx">> \in Seq(OwnKinds)
  BY DEF OwnKinds
<1>2. UpdateVisitValue \in SUBSET Seq(OwnKinds)
  BY <1>1 DEF UpdateVisitValue
<1>3. QED
  BY <1>1, <1>2, OwnThen

\* A path that a failing statement cuts off is on its own handle as far as it
\* goes.
LEMMA OwnCutOff ==
    ASSUME NEW P \in SUBSET Seq(OwnKinds)
    PROVE  CutOff(P) \in SUBSET Seq(OwnKinds)
<1> SUFFICES ASSUME NEW p \in P, NEW n \in 1..Len(p)
             PROVE  SubSeq(p, 1, n) \in Seq(OwnKinds)
  BY DEF CutOff
<1>1. p \in Seq(OwnKinds) /\ Len(p) \in Nat
  OBVIOUS
<1>2. \A i \in 1..n : p[i] \in OwnKinds
  BY <1>1
<1>3. QED
  BY <1>1, <1>2

LEMMA SegmentEditSound == SegmentEdit \in SUBSET SoundPaths
<1> DEFINE edited == Then({<<"tx">>}, Then(Loop(UpdateVisitValue), {<<"tx", "tx">>}))
<1> DEFINE body == CutOff(edited)
<1>1. body \in SUBSET Seq(OwnKinds)
  <2>1. edited \in SUBSET Seq(OwnKinds)
    BY OwnUpdate, OwnThen
  <2>2. QED
    BY <2>1, OwnUpdate, OwnCutOff
<1>2. Transaction(body) \in SUBSET SoundPaths /\ OrNot(LoggerError) \in SUBSET SoundPaths
  BY <1>1, SoundTransaction, SoundOrNot, StatusSound
<1>3. QED
  BY <1>2, SoundThen DEF SegmentEdit

LEMMA ChangeGroupIdSound ==
    ASSUME Troubles = {}
    PROVE  ChangeGroupId \in SUBSET SoundPaths
<1> DEFINE found == Then({<<"tx">>}, OrNot({<<"tx">>, <<"tx", "tx">>}))
<1> DEFINE updated == Then(found, Then(UpdateVisitValue, {<<"tx">>}))
<1> DEFINE reordered == OrNot({<<"tx", "tx">>})
<1> DEFINE cleared == {<<"tx">>, <<"tx", "tx">>}
<1> DEFINE moved == Then(updated, Then(reordered, OrNot(CutOff(cleared))))
<1> DEFINE logged == Then({<<"tx", "tx", "tx">>}, LoggerError)
                     \cup Then(updated, Then(LoggerError,
                              Then(reordered, OrNot(CutOff(cleared)))
                              \cup Then({<<"tx">>, <<"tx", "tx">>}, LoggerError)))
                     \cup Then(updated, Then({<<"tx">>, <<"tx", "tx">>}, LoggerError))
<1> DEFINE body == CutOff(Then(found, UpdateVisitValue)) \cup moved
                   \cup Logged("statement", logged)
<1>1. /\ OrNot(cleared) \in SUBSET Seq(OwnKinds)
      /\ reordered \in SUBSET Seq(OwnKinds)
      /\ OrNot(CutOff(cleared)) \in SUBSET Seq(OwnKinds)
  <2>1. cleared \in SUBSET Seq(OwnKinds) /\ {<<"tx", "tx">>} \in SUBSET Seq(OwnKinds)
    BY DEF OwnKinds
  <2>2. CutOff(cleared) \in SUBSET Seq(OwnKinds)
    BY <2>1, OwnCutOff
  <2>3. QED
    BY <2>1, <2>2, OwnThen
<1>2. found \in SUBSET Seq(OwnKinds)
  BY <1>1, OwnUpdate, OwnThen
<1>3. updated \in SUBSET Seq(OwnKinds)
  BY <1>2, OwnUpdate, OwnThen
<1>4. moved \in SUBSET Seq(OwnKinds)
  BY <1>1, <1>3, OwnThen
<1>5. CutOff(Then(found, UpdateVisitValue)) \in SUBSET Seq(OwnKinds)
  BY <1>2, OwnUpdate, OwnThen, OwnCutOff
<1>6. body \in SUBSET Seq(OwnKinds)
  <2>1. Logged("statement", logged) = {}
    BY DEF Logged
  <2>2. QED
    BY <1>4, <1>5, <2>1
<1>7. Transaction(body) \in SUBSET SoundPaths
  BY <1>6, SoundTransaction
<1>8. Then(Transaction(body), OrNot(LoggerError)) \in SUBSET SoundPaths
  BY <1>7, StatusSound, SoundThen
<1>9. QED
  BY <1>8 DEF ChangeGroupId

LEMMA GroupUpdateSound == GroupUpdate \in SUBSET SoundPaths
<1> DEFINE updated == Then({<<"tx">>}, Then(Loop(UpdateVisitValue), {<<"tx">>}))
<1> DEFINE body == CutOff(updated)
<1>1. body \in SUBSET Seq(OwnKinds)
  <2>1. updated \in SUBSET Seq(OwnKinds)
    BY OwnUpdate, OwnThen
  <2>2. QED
    BY <2>1, OwnUpdate, OwnCutOff
<1>2. Transaction(body) \in SUBSET SoundPaths /\ OrNot(LoggerError) \in SUBSET SoundPaths
  BY <1>1, SoundTransaction, SoundOrNot, StatusSound
<1>3. QED
  BY <1>2, SoundThen DEF GroupUpdate

LEMMA AssignSound == AssignVisitsToGroup \in SUBSET SoundPaths
<1> DEFINE assigned == {<<"tx", "tx", "tx">>}
<1>1. /\ Transaction(CutOff(assigned)) \in SUBSET SoundPaths
      /\ Transaction(assigned) \in SUBSET SoundPaths
  <2>1. CutOff(assigned) \in SUBSET Seq(OwnKinds)
    BY OwnUpdate, OwnCutOff
  <2>2. QED
    BY <2>1, OwnUpdate, SoundTransaction
<1>2. Loop(UpdateVisitStatus) \in SUBSET SoundPaths
  BY StatusSound, SoundLoop
<1>3. Then(Transaction(CutOff(assigned)), LoggerError) \in SUBSET SoundPaths
  BY <1>1, StatusSound, SoundThen
<1>4. Then(Transaction(assigned), Loop(UpdateVisitStatus)) \in SUBSET SoundPaths
  BY <1>1, <1>2, SoundThen
<1>5. QED
  BY <1>3, <1>4 DEF AssignVisitsToGroup

LEMMA RecomputeSound == RecomputeGroupRoute \in SUBSET SoundPaths
<1> DEFINE stored == Then(Loop(UpdateVisitValue), {<<"tx", "tx">>})
<1> DEFINE body == CutOff(stored)
<1>1. body \in SUBSET Seq(OwnKinds)
  <2>1. stored \in SUBSET Seq(OwnKinds)
    BY OwnUpdate, OwnThen
  <2>2. QED
    BY <2>1, OwnCutOff
<1>2. Transaction(body) \in SUBSET SoundPaths
  BY <1>1, SoundTransaction
<1>3. computeAndStoreRoute \in SUBSET SoundPaths
  <2>1. {<<"db", "io", "db">>} \in SUBSET SoundPaths
    BY PlainSteps
  <2>2. Then({<<"db", "io", "db">>}, Transaction(body)) \in SUBSET SoundPaths
    BY <2>1, <1>2, SoundThen
  <2>3. QED
    BY <2>2, PlainSteps DEF computeAndStoreRoute
<1>4. QED
  BY <1>3, StatusSound, SoundOrNot, SoundThen DEF RecomputeGroupRoute

LEMMA OptimizeSound == OptimizeGroup \in SUBSET SoundPaths
<1>1. {<<"db">>, <<"db", "io">>} \in SUBSET SoundPaths
  BY PlainSteps
<1>2. {<<"db", "io">>} \in SUBSET SoundPaths
  BY <1>1
<1>3. /\ Transaction(Loop(UpdateVisitValue)) \in SUBSET SoundPaths
      /\ Transaction(CutOff(Loop(UpdateVisitValue))) \in SUBSET SoundPaths
  <2>1. CutOff(Loop(UpdateVisitValue)) \in SUBSET Seq(OwnKinds)
    BY OwnUpdate, OwnCutOff
  <2>2. QED
    BY <2>1, OwnUpdate, SoundTransaction
<1>4. Then(Transaction(Loop(UpdateVisitValue)), RecomputeGroupRoute) \in SUBSET SoundPaths
  BY <1>3, RecomputeSound, SoundThen
<1>5. Then({<<"db", "io">>},
           Then(Transaction(Loop(UpdateVisitValue)), RecomputeGroupRoute)) \in SUBSET SoundPaths
  BY <1>2, <1>4, SoundThen
<1>6. Then({<<"db">>, <<"db", "io">>}, OrNot(LoggerError)) \in SUBSET SoundPaths
  BY <1>1, StatusSound, SoundOrNot, SoundThen
<1>7. Then({<<"db", "io">>},
           Then(Transaction(CutOff(Loop(UpdateVisitValue))), LoggerError)) \in SUBSET SoundPaths
  <2>1. Then(Transaction(CutOff(Loop(UpdateVisitValue))), LoggerError) \in SUBSET SoundPaths
    BY <1>3, StatusSound, SoundThen
  <2>2. QED
    BY <2>1, <1>2, SoundThen
<1>8. QED
  BY <1>5, <1>6, <1>7 DEF OptimizeGroup

LEMMA CreationSound ==
    ASSUME Troubles = {}
    PROVE  VisitCreation \in SUBSET SoundPaths
<1> DEFINE debtor == Then({<<"tx">>}, {<<"tx">>, <<"tx", "tx">>})
<1> DEFINE created == Then({<<"tx">>}, OrNot(Then({<<"io">>}, debtor)))
<1> DEFINE unknown == Then({<<"tx", "io">>}, Then(Loop(LoggerError), LoggerError))
<1> DEFINE refused == {<<"tx">>} \cup Then({<<"tx", "io">>}, CutOff(debtor))
                      \cup Logged("statement", Then({<<"tx">>}, LoggerError))
                      \cup Logged("debtor", unknown)
<1> DEFINE answer == Then({<<"db">>}, LoggerError \cup LogActivity)
<1>1. /\ {<<"tx">>, <<"tx", "tx">>} \in SUBSET Seq(OwnKinds)
      /\ {<<"io">>} \in SUBSET Seq(OwnKinds) /\ {<<"tx", "io">>} \in SUBSET Seq(OwnKinds)
  BY DEF OwnKinds
<1>2. debtor \in SUBSET Seq(OwnKinds) /\ created \in SUBSET Seq(OwnKinds)
  <2>1. debtor \in SUBSET Seq(OwnKinds)
    BY <1>1, OwnUpdate, OwnThen
  <2>2. OrNot(Then({<<"io">>}, debtor)) \in SUBSET Seq(OwnKinds)
    BY <1>1, <2>1, OwnThen
  <2>3. QED
    BY <2>1, <2>2, OwnUpdate, OwnThen
<1>3. refused \in SUBSET Seq(OwnKinds)
  <2>1. Then({<<"tx", "io">>}, CutOff(debtor)) \in SUBSET Seq(OwnKinds)
    BY <1>1, <1>2, OwnCutOff, OwnThen
  <2>2. QED
    BY <2>1, OwnUpdate DEF Logged
<1>4. Transaction(created) \in SUBSET SoundPaths /\ Transaction(refused) \in SUBSET SoundPaths
  BY <1>2, <1>3, SoundTransaction
<1>5. answer \in SUBSET SoundPaths
  <2>1. LoggerError \cup LogActivity \in SUBSET SoundPaths
    BY StatusSound
  <2>2. QED
    BY <2>1, StatusSound, SoundThen
<1> HIDE DEF refused, created, answer
<1> DEFINE ends == Then(Transaction(refused), LoggerError) \cup Then(Transaction(created), answer)
<1>6. ends \in SUBSET SoundPaths
  <2>1. Then(Transaction(refused), LoggerError) \in SUBSET SoundPaths
    BY <1>4, StatusSound, SoundThen
  <2>2. Then(Transaction(created), answer) \in SUBSET SoundPaths
    BY <1>4, <1>5, SoundThen
  <2>3. QED
    BY <2>1, <2>2
<1> HIDE DEF ends
<1>7. Then(OrNot(LoggerError), ends) \in SUBSET SoundPaths
  BY <1>6, StatusSound, SoundThen
<1>8. Then({<<"io">>}, Then(OrNot(LoggerError), ends)) \in SUBSET SoundPaths
  BY <1>7, StatusSound, SoundThen
<1>9. QED
  BY <1>8 DEF VisitCreation, ends, refused, created, answer

\* Handlers without a transaction.

LEMMA ResponsesSound ==
    /\ CreateVisitResponse \in SUBSET SoundPaths
    /\ UploadVisitImage \in SUBSET SoundPaths
    /\ UploadAssetImage \in SUBSET SoundPaths
    /\ CompleteVisitResponse \in SUBSET SoundPaths
<1>1. /\ Statements(1..4) \in SUBSET SoundPaths
      /\ Statements(1..5) \in SUBSET SoundPaths
      /\ Statements({3, 4}) \in SUBSET SoundPaths
      /\ Statements({1, 2, 4, 5}) \in SUBSET SoundPaths
      /\ Statements({1, 2}) \in SUBSET SoundPaths
      /\ Statements({2}) \in SUBSET SoundPaths
  BY StatementsSound
<1>2. CreateVisitResponse \in SUBSET SoundPaths
  <2>1. Then(Statements(1..4), LoggerError) \in SUBSET SoundPaths
    BY <1>1, StatusSound, SoundThen
  <2>2. Then(UpdateVisitStatus, OrNot(LoggerError)) \in SUBSET SoundPaths
    BY StatusSound, SoundThen
  <2>3. Then(Statements({3, 4}), Then(UpdateVisitStatus, OrNot(LoggerError)))
          \in SUBSET SoundPaths
    BY <1>1, <2>2, SoundThen
  <2>4. QED
    BY <2>1, <2>3, StatusSound DEF CreateVisitResponse
<1>3. CompleteVisitResponse \in SUBSET SoundPaths
  <2>1. Then(Statements({2}), UpdateVisitStatus) \in SUBSET SoundPaths
    BY <1>1, StatusSound, SoundThen
  <2>2. QED
    BY <1>1, <2>1 DEF CompleteVisitResponse
<1>4. QED
  BY <1>1, <1>2, <1>3 DEF UploadVisitImage, UploadAssetImage

LEMMA ReviewSound == ReviewedVisit \in SUBSET SoundPaths
<1>1. ReviewItem \in SUBSET SoundPaths
  <2>1. {<<"db", "db", "io">>} \in SUBSET SoundPaths
    BY PlainSteps
  <2>2. OrNot(Loop(LoggerError)) \in SUBSET SoundPaths
    BY StatusSound, SoundLoop, SoundOrNot
  <2>3. Then({<<"db", "db", "io">>}, OrNot(Loop(LoggerError))) \in SUBSET SoundPaths
    BY <2>1, <2>2, SoundThen
  <2>4. Then({<<"db", "db", "io">>}, UpdateVisitStatus) \in SUBSET SoundPaths
    BY <2>1, StatusSound, SoundThen
  <2>5. Statements({1, 2}) \in SUBSET SoundPaths
    BY StatementsSound
  <2>6. QED
    BY <2>3, <2>4, <2>5 DEF ReviewItem
<1>2. OrNot(Loop(ReviewItem)) \in SUBSET SoundPaths
  BY <1>1, SoundLoop, SoundOrNot
<1>3. LoggerError \cup OrNot(Loop(ReviewItem)) \in SUBSET SoundPaths
  BY <1>2, StatusSound
<1>4. QED
  BY <1>3, StatusSound, SoundThen DEF ReviewedVisit

LEMMA RowsSound ==
    /\ DeleteVisit \in SUBSET SoundPaths
    /\ PatchVisit \in SUBSET SoundPaths
    /\ PatchRouteSettings \in SUBSET SoundPaths
    /\ ErrorLog \in SUBSET SoundPaths
<1>1. Statements({2}) \in SUBSET SoundPaths /\ Statements({1, 2}) \in SUBSET SoundPaths
  BY StatementsSound
<1>2. DeleteVisit \in SUBSET SoundPaths
  <2>1. LoggerError \cup LogActivity \in SUBSET SoundPaths
    BY StatusSound
  <2>2. QED
    BY <2>1, StatusSound, SoundThen DEF DeleteVisit
<1>3. PatchVisit \in SUBSET SoundPaths
  <2>1. LoggerError \cup Statements({2}) \in SUBSET SoundPaths
    BY <1>1, StatusSound
  <2>2. Then({<<"db">>}, LoggerError \cup Statements({2})) \in SUBSET SoundPaths
    BY <2>1, StatusSound, SoundThen
  <2>3. QED
    BY <2>2, StatusSound DEF PatchVisit
<1>4. PatchRouteSettings \in SUBSET SoundPaths
  <2>1. OrNot({<<"db">>}) \in SUBSET SoundPaths
    BY StatusSound, SoundOrNot
  <2>2. Then(OrNot({<<"db">>}), OrNot(LoggerError)) \in SUBSET SoundPaths
    BY <2>1, StatusSound, SoundThen
  <2>3. QED
    BY <1>1, <2>2, SoundThen DEF PatchRouteSettings
<1>5. QED
  BY <1>2, <1>3, <1>4, StatusSound DEF ErrorLog

LEMMA UsersSound ==
    /\ CreateUser \in SUBSET SoundPaths
    /\ UserEdit \in SUBSET SoundPaths
    /\ Login \in SUBSET SoundPaths
<1> DEFINE write == Then({<<"db">>}, LogActivity)
<1>1. write \in SUBSET SoundPaths
  BY StatusSound, SoundThen
<1>2. CreateUser \in SUBSET SoundPaths
  BY <1>1, StatusSound DEF CreateUser
<1>3. UserEdit \in SUBSET SoundPaths
  <2>1. Then(OrNot(LoggerError), write) \in SUBSET SoundPaths
    BY <1>1, StatusSound, SoundThen
  <2>2. LoggerError \cup Then(OrNot(LoggerError), write) \in SUBSET SoundPaths
    BY <2>1, StatusSound
  <2>3. OrNot(LoggerError \cup Then(OrNot(LoggerError), write)) \in SUBSET SoundPaths
    BY <2>2, SoundOrNot
  <2>4. Then({<<"db">>}, OrNot(LoggerError \cup Then(OrNot(LoggerError), write)))
          \in SUBSET SoundPaths
    BY <2>3, StatusSound, SoundThen
  <2>5. QED
    BY <2>4, StatusSound DEF UserEdit
<1>4. Login \in SUBSET SoundPaths
  <2>1. /\ Statements({2, 4, 6, 8}) \in SUBSET SoundPaths
        /\ Statements({8}) \in SUBSET SoundPaths
        /\ Statements({2, 3, 4, 5}) \in SUBSET SoundPaths
    BY StatementsSound
  <2>2. LoginAttemptLog \in SUBSET SoundPaths
    BY <2>1, StatusSound, SoundThen DEF LoginAttemptLog
  <2>3. Then(LogActivity, Statements({2, 3, 4, 5})) \in SUBSET SoundPaths
    BY <2>1, StatusSound, SoundThen
  <2>4. Then(Statements({8}), Then(LogActivity, Statements({2, 3, 4, 5})))
          \in SUBSET SoundPaths
    BY <2>1, <2>3, SoundThen
  <2>5. QED
    BY <2>2, <2>4 DEF Login
<1>5. QED
  BY <1>2, <1>3, <1>4

LEMMA ServedSound ==
    ASSUME NEW h \in OwnHandle
    PROVE  Served(h) \in SUBSET SoundPaths
<1>1. Paths[h] \in SUBSET SoundPaths
  <2>1. CASE h \in {"SegmentEdit", "GroupUpdate", "AssignVisitsToGroup"}
    BY <2>1, SegmentEditSound, GroupUpdateSound, AssignSound DEF Paths
  <2>2. CASE h \in {"RecomputeGroupRoute", "OptimizeGroup"}
    BY <2>2, RecomputeSound, OptimizeSound DEF Paths
  <2>3. CASE h \in {"VisitLetterSent", "ReviewedVisit"}
    BY <2>3, StatusSound, ReviewSound DEF Paths, VisitLetterSent
  <2>4. CASE h \in {"CreateVisitResponse", "UploadVisitImage", "UploadAssetImage",
                    "CompleteVisitResponse"}
    BY <2>4, ResponsesSound DEF Paths
  <2>5. CASE h \in {"DeleteVisit", "PatchVisit", "PatchRouteSettings", "ErrorLog"}
    BY <2>5, RowsSound DEF Paths
  <2>6. CASE h \in {"CreateUser", "UserEdit", "Login"}
    BY <2>6, UsersSound DEF Paths
  <2>7. CASE Troubles = {} /\ h \in {"ChangeGroupId", "VisitCreation"}
    BY <2>7, ChangeGroupIdSound, CreationSound DEF Paths
  <2>8. QED
    BY <2>1, <2>2, <2>3, <2>4, <2>5, <2>6, <2>7 DEF OwnHandle, Editing, Logging, Plain
<1>2. GeoIPBlocker \in SUBSET SoundPaths
  BY StatusSound, SoundOrNot DEF GeoIPBlocker
<1>3. RefuseToken \cup Then(RequireAuth, OrNot(Paths[h])) \in SUBSET SoundPaths
  <2>1. RefuseToken \in SUBSET SoundPaths
    BY StatusSound, SoundThen DEF RefuseToken
  <2>2. OrNot(Paths[h]) \in SUBSET SoundPaths
    BY <1>1, SoundOrNot
  <2>3. Then(RequireAuth, OrNot(Paths[h])) \in SUBSET SoundPaths
    BY <2>2, StatusSound, SoundThen
  <2>4. QED
    BY <2>1, <2>3
<1> DEFINE own == IF h = "Login" THEN Login
                  ELSE RefuseToken \cup Then(RequireAuth, OrNot(Paths[h]))
<1>4. own \in SUBSET SoundPaths
  BY <1>3, UsersSound
<1> HIDE DEF own
<1>5. OrNot(own) \in SUBSET SoundPaths
  BY <1>4, SoundOrNot
<1>6. Then(GeoIPBlocker, OrNot(own)) \in SUBSET SoundPaths
  BY <1>2, <1>5, SoundThen
<1>7. QED
  BY <1>6 DEF Served, own

----------------------------------------------------------------------------
\* The requests.

\* A request that has the connection is inside a transaction of its path, and
\* whatever a request still executes is sound.
PoolInv ==
    /\ todo \in [Requests -> SoundPaths]
    /\ conn \in Requests \cup {Free}
    /\ conn # Free => Inside(todo[conn])

\* The tail of a sound path is sound; behind "begin" it is inside.
LEMMA TailSound ==
    ASSUME NEW q \in SoundPaths, q # <<>>
    PROVE  /\ Tail(q) \in SoundPaths
           /\ Head(q) = "begin" => Inside(Tail(q))
           /\ Inside(q) /\ Head(q) # "end" => Inside(Tail(q))
           /\ Inside(q) => Head(q) \in {"tx", "io", "end"}
<1>1. /\ q \in Seq(Kinds) /\ Sound(q) /\ Len(q) \in Nat /\ Len(q) >= 1
      /\ Head(q) = q[1]
      /\ Tail(q) \in Seq(Kinds)
      /\ Len(Tail(q)) = Len(q) - 1
      /\ \A i \in 1..(Len(q) - 1) : Tail(q)[i] = q[i + 1]
  BY DEF SoundPaths
<1> DEFINE r == Tail(q)
<1>2. /\ r \in Seq(Kinds)
      /\ Len(r) = Len(q) - 1
      /\ \A i \in 1..(Len(q) - 1) : r[i] = q[i + 1]
  BY <1>1
<1> HIDE DEF r
<1>3. ASSUME NEW b \in 1..Len(q), q[b] = "begin"
      PROVE  \E e \in b..Len(r) : r[e] = "end" /\ \A i \in b..(e - 1) : r[i] \in OwnKinds
  <2>1. PICK e \in (b + 1)..Len(q) :
          q[e] = "end" /\ \A i \in (b + 1)..(e - 1) : q[i] \in OwnKinds
    BY <1>1, <1>3 DEF Sound
  <2>2. e - 1 \in b..Len(r) /\ r[e - 1] = "end"
    <3>1. e - 1 \in 1..(Len(q) - 1) /\ (e - 1) + 1 = e
      BY <2>1, <1>1
    <3>2. QED
      BY <3>1, <2>1, <1>1, <1>2
  <2>3. ASSUME NEW i \in b..(e - 1 - 1)
        PROVE  r[i] \in OwnKinds
    <3>1. i \in 1..(Len(q) - 1) /\ i + 1 \in (b + 1)..(e - 1)
      BY <2>1, <1>1
    <3>2. QED
      BY <3>1, <2>1, <1>2
  <2>4. QED
    BY <2>2, <2>3
<1>4. r \in SoundPaths
  <2> SUFFICES ASSUME NEW c \in 1..Len(r), r[c] = "begin"
               PROVE  \E e \in (c + 1)..Len(r) :
                        r[e] = "end" /\ \A i \in (c + 1)..(e - 1) : r[i] \in OwnKinds
    BY <1>2 DEF SoundPaths, Sound
  <2>1. c + 1 \in 1..Len(q) /\ q[c + 1] = "begin"
    BY <1>1, <1>2
  <2>2. QED
    BY <2>1, <1>3
<1>5. ASSUME Head(q) = "begin"
      PROVE  Inside(r)
  BY <1>1, <1>3, <1>5 DEF Inside
<1>6. ASSUME Inside(q)
      PROVE  Head(q) \in {"tx", "io", "end"} /\ (Head(q) # "end" => Inside(r))
  <2>1. PICK e \in 1..Len(q) : q[e] = "end" /\ \A i \in 1..(e - 1) : q[i] \in OwnKinds
    BY <1>6 DEF Inside
  <2>2. CASE e = 1
    BY <2>1, <2>2, <1>1
  <2>3. CASE e # 1
    <3>1. Head(q) \in OwnKinds
      BY <2>1, <2>3, <1>1
    <3>2. e - 1 \in 1..Len(r) /\ r[e - 1] = "end"
      <4>1. e - 1 \in 1..(Len(q) - 1) /\ (e - 1) + 1 = e
        BY <2>1, <2>3, <1>1
      <4>2. QED
        BY <4>1, <2>1, <1>2
    <3>3. ASSUME NEW i \in 1..(e - 1 - 1)
          PROVE  r[i] \in OwnKinds
      <4>1. i \in 1..(Len(q) - 1) /\ i + 1 \in 1..(e - 1)
        BY <2>1, <1>1
      <4>2. QED
        BY <4>1, <2>1, <1>2
    <3>4. Inside(r)
      BY <3>2, <3>3 DEF Inside
    <3>5. QED
      BY <3>1, <3>4 DEF OwnKinds
  <2>4. QED
    BY <2>2, <2>3
<1>7. QED
  BY <1>4, <1>5, <1>6 DEF r

LEMMA PoolStep ==
    ASSUME Handlers \subseteq OwnHandle, PoolInv, [Next]_vars
    PROVE  PoolInv'
<1>1. CASE UNCHANGED vars
  BY <1>1 DEF PoolInv, vars
<1>2. ASSUME NEW r \in Requests, Arrive(r)
      PROVE  PoolInv'
  <2>1. PICK h \in Handlers : \E p \in Served(h) :
          todo' = [todo EXCEPT ![r] = p]
    BY <1>2 DEF Arrive
  <2>2. PICK p \in SoundPaths : todo' = [todo EXCEPT ![r] = p]
    BY <2>1, ServedSound
  <2>3. conn # Free => conn # r
    <3>1. ASSUME conn = r
          PROVE  ~Inside(todo[r])
      BY <1>2 DEF Arrive, Inside
    <3>2. QED
      BY <3>1, RequestsAssumption DEF PoolInv
  <2>4. QED
    BY <2>2, <2>3, <1>2 DEF PoolInv, Arrive
<1>3. ASSUME NEW r \in Requests, NEW kind, Done(r, kind)
      PROVE  /\ todo[r] \in SoundPaths /\ todo[r] # <<>> /\ Head(todo[r]) = kind
             /\ todo' \in [Requests -> SoundPaths]
             /\ todo' = [todo EXCEPT ![r] = Tail(todo[r])]
  BY <1>3, TailSound DEF Done, PoolInv
<1>4. ASSUME NEW r \in Requests, Statement(r)
      PROVE  PoolInv'
  BY <1>3, <1>4 DEF Statement, PoolInv
<1>5. ASSUME NEW r \in Requests, Begin(r)
      PROVE  PoolInv'
  <2>1. todo'[r] = Tail(todo[r]) /\ Inside(Tail(todo[r]))
    BY <1>3, <1>5, TailSound DEF Begin, PoolInv
  <2>2. QED
    BY <1>3, <1>5, <2>1 DEF Begin, PoolInv
<1>6. ASSUME NEW r \in Requests, InTransaction(r)
      PROVE  PoolInv'
  <2>1. todo'[r] = Tail(todo[r]) /\ Inside(Tail(todo[r]))
    BY <1>3, <1>6, TailSound, RequestsAssumption DEF InTransaction, PoolInv
  <2>2. QED
    BY <1>3, <1>6, <2>1 DEF InTransaction, PoolInv
<1>7. ASSUME NEW r \in Requests, End(r)
      PROVE  PoolInv'
  BY <1>3, <1>7 DEF End, PoolInv
<1>8. ASSUME NEW r \in Requests, AskOutside(r)
      PROVE  PoolInv'
  <2>1. CASE conn = r
    <3>1. todo'[r] = Tail(todo[r]) /\ Inside(Tail(todo[r]))
      BY <1>3, <1>8, <2>1, TailSound, RequestsAssumption DEF AskOutside, PoolInv
    <3>2. QED
      BY <1>3, <1>8, <2>1, <3>1 DEF AskOutside, PoolInv
  <2>2. CASE conn # r
    BY <1>3, <1>8, <2>2 DEF AskOutside, PoolInv
  <2>3. QED
    BY <2>1, <2>2
<1>9. QED
  BY <1>1, <1>2, <1>4, <1>5, <1>6, <1>7, <1>8 DEF Next

\* However many requests are under way: no request asks the handle for a
\* connection while its transaction has the only one. This holds of the handlers
\* of Editing and Plain whatever statement fails, and of ChangeGroupId and
\* VisitCreation but for the failures they log inside their transaction: of a
\* vacant id, an update, a renumbering or a new visit, and of a debtor AdvoPro does
\* not give. There, as always for PlanVisit (bug_plan_upload), it is false.
THEOREM HandlersUseOwnHandle ==
    ASSUME Handlers \subseteq OwnHandle
    PROVE  Spec => []TransactionUsesOwnHandle
<1>1. Init => PoolInv
  BY PlainSteps DEF Init, PoolInv
<1>2. PoolInv /\ [Next]_vars => PoolInv'
  BY PoolStep
<1>3. PoolInv => TransactionUsesOwnHandle
  <2> SUFFICES ASSUME PoolInv, conn # Free
               PROVE  todo[conn] # <<>> /\ Head(todo[conn]) \in {"tx", "end", "io"}
    BY DEF TransactionUsesOwnHandle
  <2>1. todo[conn] \in SoundPaths /\ Inside(todo[conn])
    BY DEF PoolInv
  <2>2. todo[conn] # <<>>
    BY <2>1 DEF Inside
  <2>3. QED
    BY <2>1, <2>2, TailSound
<1>4. QED
  BY <1>1, <1>2, <1>3, PTL DEF Spec

=============================================================================
