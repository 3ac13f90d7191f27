-------------------------- MODULE PenneoFlowProofs --------------------------
(***************************************************************************)
(* Proofs about PenneoFlow, for any number of cases and browsers, and      *)
(* webhooks, polls and restarts in any order: the registry follows the     *)
(* goroutines, the flow implements SigningOutcome, a listener misses no    *)
(* message, and a timeout is announced only of a case that was not signed. *)
(***************************************************************************)
EXTENDS PenneoFlow, SequenceTheorems, TLAPS

Flows == {"new", "asked", "sent", "refused", "spawned", "waiting", "signed", "fetched",
          "ended", "lost"}
Messages == {"awaiting_signature", "signed", "completed", "rejected", "deleted", "expired",
             "timeout", "error"}
States == {"absent", "pending", "signed", "rejected", "deleted", "expired"}

TypeInv ==
    /\ penneo \in [Cases -> States]
    /\ flow \in [Cases -> Flows]
    /\ pending \in [Cases -> {"none", "waiting", "signed"}]
    /\ events \in [Cases -> Seq(Messages)]
    /\ webhooks \subseteq Cases

\* A case is processed as signed, announced as signed and called in by the
\* webhook only when Penneo has it signed; it is unknown to Penneo until sent.
SignedInv ==
    \A c \in Cases :
        /\ flow[c] \in {"signed", "fetched"} => penneo[c] = "signed"
        /\ pending[c] = "signed" => penneo[c] = "signed"
        /\ c \in webhooks => penneo[c] = "signed"
        /\ flow[c] \in {"new", "asked"} => penneo[c] = "absent"

FlowInv == TypeInv /\ SignedInv /\ RegistryMatchesFlows

----------------------------------------------------------------------------
\* The steps as seen by the cases: the listeners do not matter.

LEMMA SayTells ==
    ASSUME TypeInv, NEW c \in Cases, NEW m \in Messages, Say(c, m)
    PROVE  /\ events' \in [Cases -> Seq(Messages)]
           /\ Last(events'[c]) = m
           /\ \A d \in Cases \ {c} : events'[d] = events[d]
<1>1. events' = [events EXCEPT ![c] = Append(@, m)]
  BY DEF Say
<1>2. events[c] \in Seq(Messages)
  BY DEF TypeInv
<1>3. Append(events[c], m) \in Seq(Messages) /\ Last(Append(events[c], m)) = m
  BY <1>2 DEF Last
<1> QED
  BY <1>1, <1>3 DEF TypeInv

LEMMA InitFlow == Init => FlowInv
BY EmptySeq DEF Init, FlowInv, TypeInv, SignedInv, RegistryMatchesFlows, Flows, States,
   Processing

LEMMA EndKeeps ==
    ASSUME FlowInv, NEW c \in Cases, NEW m \in Messages, End(c, m), UNCHANGED outside
    PROVE  FlowInv'
<1>1. events' \in [Cases -> Seq(Messages)]
  BY SayTells DEF End, FlowInv
<1> QED
  BY <1>1 DEF End, FlowInv, TypeInv, SignedInv, RegistryMatchesFlows, outside, Flows,
     Processing

LEMMA SignedKeeps ==
    ASSUME FlowInv, NEW c \in Cases, flow[c] = "waiting", penneo[c] = "signed", Signed(c),
           UNCHANGED outside
    PROVE  FlowInv'
<1>1. events' \in [Cases -> Seq(Messages)]
  BY SayTells DEF Signed, FlowInv, Messages
<1> QED
  BY <1>1 DEF Signed, FlowInv, TypeInv, SignedInv, RegistryMatchesFlows, outside, Flows,
     Processing

LEMMA WaitKeeps ==
    ASSUME FlowInv, NEW c \in Cases, Wait(c)
    PROVE  FlowInv'
<1>1. events' \in [Cases -> Seq(Messages)]
  BY SayTells DEF Wait, FlowInv, Messages
<1> QED
  BY <1>1 DEF Wait, FlowInv, TypeInv, SignedInv, RegistryMatchesFlows, outside, Flows,
     Processing

LEMMA PollKeeps ==
    ASSUME FlowInv, NEW c \in Cases, Poll(c)
    PROVE  FlowInv'
<1>1. CASE UNCHANGED <<flow, pending, events>>
  BY <1>1 DEF Poll, FlowInv, TypeInv, SignedInv, RegistryMatchesFlows, outside
<1>2. CASE penneo[c] = "signed" /\ Signed(c)
  BY <1>2, SignedKeeps DEF Poll
<1>3. CASE penneo[c] \in {"rejected", "deleted", "expired"} /\ End(c, penneo[c])
  BY <1>3, EndKeeps DEF Poll, Messages
<1> QED
  BY <1>1, <1>2, <1>3 DEF Poll

LEMMA GoroutineKeeps ==
    ASSUME FlowInv, NEW c \in Cases, Goroutine(c)
    PROVE  FlowInv'
<1>1. CASE Wait(c)
  BY <1>1, WaitKeeps
<1>2. CASE Signalled(c)
  BY <1>2, SignedKeeps DEF Signalled, FlowInv, SignedInv
<1>3. CASE Poll(c)
  BY <1>3, PollKeeps
<1>4. CASE PollFails(c)
  BY <1>4 DEF PollFails, FlowInv, TypeInv, SignedInv, RegistryMatchesFlows, outside
<1>5. CASE Timeout(c)
  BY <1>5, EndKeeps DEF Timeout, Messages
<1>6. CASE FetchDocuments(c)
  <2>1. CASE End(c, "error")
    BY <1>6, <2>1, EndKeeps DEF FetchDocuments, Messages
  <2>2. CASE flow' = [flow EXCEPT ![c] = "fetched"] /\ UNCHANGED <<pending, events>>
    BY <1>6, <2>2 DEF FetchDocuments, FlowInv, TypeInv, SignedInv, RegistryMatchesFlows,
       outside, Flows, Processing
  <2> QED
    BY <1>6, <2>1, <2>2 DEF FetchDocuments
<1>7. CASE getSignedDocument(c)
  BY <1>7, EndKeeps DEF getSignedDocument, Messages
<1> QED
  BY <1>1, <1>2, <1>3, <1>4, <1>5, <1>6, <1>7 DEF Goroutine

LEMMA StartKeeps ==
    ASSUME FlowInv, NEW c \in Cases,
           StartPenneoFlow(c) \/ sendCaseFile(c) \/ pollJobStatus(c) \/ StartFails(c)
    PROVE  FlowInv'
<1>1. /\ UNCHANGED <<pending, events, webhooks>>
      /\ flow[c] \in {"new", "asked", "sent"}
      /\ flow[c] = "sent" => penneo' = penneo
      /\ \E step \in {"asked", "sent", "spawned", "refused"} :
           /\ flow' = [flow EXCEPT ![c] = step]
           /\ step = "asked" => flow[c] = "new"
      /\ penneo' = penneo \/ penneo' = [penneo EXCEPT ![c] = "pending"]
      /\ flow[c] = "new" => penneo' = penneo
  <2>1. CASE StartPenneoFlow(c)
    BY <2>1 DEF StartPenneoFlow, outside, waiting
  <2>2. CASE sendCaseFile(c)
    BY <2>2 DEF sendCaseFile, waiting
  <2>3. CASE pollJobStatus(c)
    BY <2>3 DEF pollJobStatus, outside, waiting
  <2>4. CASE StartFails(c)
    BY <2>4 DEF StartFails, waiting
  <2> QED
    BY <2>1, <2>2, <2>3, <2>4
<1>2. pending[c] = "none" /\ (c \in webhooks => flow[c] = "sent")
  BY <1>1 DEF FlowInv, TypeInv, SignedInv, RegistryMatchesFlows, Processing
<1>3. PICK step \in {"asked", "sent", "spawned", "refused"} :
        /\ flow' = [flow EXCEPT ![c] = step]
        /\ step = "asked" => flow[c] = "new"
  BY <1>1
<1>4. TypeInv'
  BY <1>1, <1>3 DEF FlowInv, TypeInv, Flows, States
<1>5. \A d \in Cases \ {c} : flow'[d] = flow[d] /\ penneo'[d] = penneo[d]
  BY <1>1, <1>3 DEF FlowInv, TypeInv
<1>6. flow'[c] = step
  BY <1>3 DEF FlowInv, TypeInv
<1>7. SignedInv'
  <2>1. step = "asked" => penneo'[c] = "absent"
    BY <1>1, <1>3 DEF FlowInv, SignedInv
  <2> QED
    BY <1>1, <1>2, <1>5, <1>6, <2>1 DEF FlowInv, SignedInv
<1>8. RegistryMatchesFlows'
  BY <1>1, <1>2, <1>5, <1>6 DEF FlowInv, RegistryMatchesFlows, Processing
<1> QED
  BY <1>4, <1>7, <1>8 DEF FlowInv

LEMMA PenneoKeeps ==
    ASSUME FlowInv, NEW c \in Cases,
           Tick(c) \/ Decide(c) \/ PenneoWebhook(c) \/ LoseWebhook(c)
    PROVE  FlowInv'
<1> USE DEF FlowInv, TypeInv, SignedInv, RegistryMatchesFlows
<1>1. CASE Tick(c)
  BY <1>1 DEF Tick, outside
<1>2. CASE Decide(c)
  <2>1. /\ UNCHANGED <<flow, pending, events>>
        /\ penneo[c] = "pending"
        /\ \E d \in {"signed", "rejected", "deleted", "expired"} :
             /\ penneo' = [penneo EXCEPT ![c] = d]
             /\ webhooks' = webhooks \/ (d = "signed" /\ webhooks' = webhooks \cup {c})
    BY <1>2 DEF Decide, waiting
  <2>2. TypeInv'
    BY <2>1 DEF States
  <2>3. SignedInv'
    BY <2>1
  <2>4. RegistryMatchesFlows'
    BY <2>1 DEF Processing
  <2> QED
    BY <2>2, <2>3, <2>4
<1>3. CASE PenneoWebhook(c)
  BY <1>3 DEF PenneoWebhook, SignalSigned, Processing
<1>4. CASE LoseWebhook(c)
  BY <1>4 DEF LoseWebhook, waiting
<1> QED
  BY <1>1, <1>2, <1>3, <1>4

LEMMA RestartKeeps ==
    ASSUME FlowInv, Restart
    PROVE  FlowInv'
BY DEF Restart, FlowInv, TypeInv, SignedInv, RegistryMatchesFlows, outside, Flows, Processing

LEMMA HubKeeps ==
    ASSUME FlowInv, NEW b \in Clients,
           Receive(b) \/ Unregister(b) \/ \E c \in Cases : Register(b, c)
    PROVE  FlowInv' /\ UNCHANGED <<penneo, flow, events>>
BY DEF Receive, Unregister, Register, FlowInv, TypeInv, SignedInv, RegistryMatchesFlows,
   outside, waiting

LEMMA NextKeepsFlow == FlowInv /\ [Next]_vars => FlowInv'
<1> SUFFICES ASSUME FlowInv, [Next]_vars PROVE FlowInv'
  OBVIOUS
<1>1. CASE UNCHANGED vars
  BY <1>1 DEF FlowInv, TypeInv, SignedInv, RegistryMatchesFlows, vars, outside, waiting
<1> QED
  BY <1>1, GoroutineKeeps, StartKeeps, PenneoKeeps, RestartKeeps, HubKeeps DEF Next

\* The registry has an entry for a case exactly while its goroutine waits for or
\* processes it, in every order of webhooks, polls, timeouts and restarts
\* (pendingRegistry).
THEOREM RegistryFollows == Spec => []RegistryMatchesFlows
<1>1. FlowInv => RegistryMatchesFlows
  BY DEF FlowInv
<1> QED
  BY <1>1, InitFlow, NextKeepsFlow, PTL DEF Spec

----------------------------------------------------------------------------
\* The refinement.

LEMMA EndsOutcome ==
    ASSUME FlowInv, NEW c \in Cases, NEW m \in Messages, flow[c] \notin {"ended", "lost"},
           End(c, m)
    PROVE  Outcome[c] = "open" /\ Outcome' = [Outcome EXCEPT ![c] = m]
<1>1. Last(events'[c]) = m /\ \A d \in Cases \ {c} : events'[d] = events[d]
  BY SayTells DEF End, FlowInv
<1>2. flow' = [flow EXCEPT ![c] = "ended"] /\ flow \in [Cases -> Flows]
  BY DEF End, FlowInv, TypeInv
<1> QED
  BY <1>1, <1>2 DEF Outcome

\* A case that goes on keeps the outcome "open", whatever its goroutine says.
LEMMA OpenStays ==
    ASSUME FlowInv, NEW c \in Cases, flow[c] \notin {"ended", "lost"},
           NEW next \in Flows \ {"ended", "lost"}, flow' = [flow EXCEPT ![c] = next],
           \A d \in Cases \ {c} : events'[d] = events[d]
    PROVE  Outcome' = Outcome
BY DEF Outcome, FlowInv, TypeInv

LEMMA SameOutcome ==
    ASSUME UNCHANGED <<flow, events>>
    PROVE  Outcome' = Outcome
BY DEF Outcome

\* The end of a case is a conclusion from what Penneo decided, or it is given up.
LEMMA EndImplements ==
    ASSUME FlowInv, NEW c \in Cases, NEW m \in Messages, flow[c] \notin {"ended", "lost"},
           End(c, m), UNCHANGED outside,
           \/ m \in {"timeout", "error"}
           \/ m = "completed" /\ penneo[c] = "signed"
           \/ m = penneo[c] /\ m \in {"rejected", "deleted", "expired"}
    PROVE  Promise!Next
<1>1. Outcome[c] = "open" /\ Outcome' = [Outcome EXCEPT ![c] = m] /\ UNCHANGED penneo
  BY EndsOutcome DEF outside
<1>2. CASE m \in {"timeout", "error"}
  <2>1. Outcome' = [d \in Cases |-> IF d \in {c} THEN m ELSE Outcome[d]]
    BY <1>1 DEF Outcome
  <2>2. Promise!GiveUp({c})
    BY <1>1, <1>2, <2>1 DEF Promise!GiveUp, Promise!GivenUp
  <2> QED
    BY <2>2 DEF Promise!Next
<1>3. CASE m = "completed" /\ penneo[c] = "signed"
  BY <1>1, <1>3 DEF Promise!Next, Promise!Conclude, Promise!Decisions
<1>4. CASE m = penneo[c] /\ m \in {"rejected", "deleted", "expired"}
  BY <1>1, <1>4 DEF Promise!Next, Promise!Conclude, Promise!Decisions
<1> QED
  BY <1>2, <1>3, <1>4

Promised == Promise!Next \/ UNCHANGED <<penneo, Outcome>>

LEMMA SaidOpen ==
    ASSUME FlowInv, NEW c \in Cases, NEW m \in Messages, Say(c, m),
           flow[c] \notin {"ended", "lost"},
           NEW next \in Flows \ {"ended", "lost"}, flow' = [flow EXCEPT ![c] = next]
    PROVE  Outcome' = Outcome
BY SayTells, OpenStays DEF FlowInv

LEMMA SignedImplements ==
    ASSUME FlowInv, NEW c \in Cases, flow[c] = "waiting", Signed(c), UNCHANGED outside
    PROVE  Promised
<1>1. Outcome' = Outcome
  BY SaidOpen DEF Signed, Messages, Flows
<1> QED
  BY <1>1 DEF Promised, outside

LEMMA GoroutineImplements ==
    ASSUME FlowInv, NEW c \in Cases, Goroutine(c)
    PROVE  Promised
<1>1. CASE Wait(c)
  <2>1. Outcome' = Outcome
    BY <1>1, SaidOpen DEF Wait, Messages, Flows
  <2> QED
    BY <1>1, <2>1 DEF Wait, Promised, outside
<1>2. CASE Signalled(c)
  BY <1>2, SignedImplements DEF Signalled
<1>3. CASE Poll(c)
  <2>1. CASE UNCHANGED <<flow, pending, events, client>>
    BY <1>3, <2>1, SameOutcome DEF Poll, Promised, outside
  <2>2. CASE penneo[c] = "signed" /\ Signed(c)
    BY <1>3, <2>2, SignedImplements DEF Poll
  <2>3. CASE penneo[c] \in {"rejected", "deleted", "expired"} /\ End(c, penneo[c])
    BY <1>3, <2>3, EndImplements DEF Poll, Promised, Messages
  <2> QED
    BY <1>3, <2>1, <2>2, <2>3 DEF Poll
<1>4. CASE PollFails(c)
  BY <1>4, SameOutcome DEF PollFails, Promised, outside
<1>5. CASE Timeout(c)
  BY <1>5, EndImplements DEF Timeout, Promised, Messages
<1>6. CASE FetchDocuments(c)
  <2>1. CASE End(c, "error")
    BY <1>6, <2>1, EndImplements DEF FetchDocuments, Promised, Messages
  <2>2. CASE flow' = [flow EXCEPT ![c] = "fetched"] /\ UNCHANGED <<pending, events, client>>
    BY <1>6, <2>2, OpenStays DEF FetchDocuments, Promised, outside, Flows
  <2> QED
    BY <1>6, <2>1, <2>2 DEF FetchDocuments
<1>7. CASE getSignedDocument(c)
  <2>1. penneo[c] = "signed"
    BY <1>7 DEF getSignedDocument, FlowInv, SignedInv
  <2> QED
    BY <1>7, <2>1, EndImplements DEF getSignedDocument, Promised, Messages
<1> QED
  BY <1>1, <1>2, <1>3, <1>4, <1>5, <1>6, <1>7 DEF Goroutine

LEMMA StartImplements ==
    ASSUME FlowInv, NEW c \in Cases,
           StartPenneoFlow(c) \/ sendCaseFile(c) \/ pollJobStatus(c) \/ StartFails(c)
    PROVE  Promised
<1>1. /\ flow[c] \in {"new", "asked", "sent"} /\ UNCHANGED events
      /\ \E next \in Flows \ {"ended", "lost"} : flow' = [flow EXCEPT ![c] = next]
  BY DEF StartPenneoFlow, sendCaseFile, pollJobStatus, StartFails, Flows
<1>2. Outcome' = Outcome
  BY <1>1, OpenStays
<1>3. \/ UNCHANGED penneo
      \/ flow[c] = "asked" /\ penneo' = [penneo EXCEPT ![c] = "pending"]
  BY DEF StartPenneoFlow, sendCaseFile, pollJobStatus, StartFails, outside
<1>4. flow[c] = "asked" => penneo[c] = "absent"
  BY DEF FlowInv, SignedInv
<1> QED
  BY <1>2, <1>3, <1>4 DEF Promised, Promise!Next, Promise!Send

LEMMA PenneoImplements ==
    ASSUME FlowInv, NEW c \in Cases,
           Tick(c) \/ Decide(c) \/ PenneoWebhook(c) \/ LoseWebhook(c)
    PROVE  Promised
<1>1. Outcome' = Outcome
  BY SameOutcome DEF Tick, Decide, PenneoWebhook, LoseWebhook
<1>2. CASE Decide(c)
  BY <1>1, <1>2 DEF Decide, Promised, Promise!Next, Promise!Decide, Promise!Decisions
<1>3. CASE ~Decide(c)
  BY <1>1, <1>3 DEF Tick, PenneoWebhook, LoseWebhook, outside, Promised
<1> QED
  BY <1>2, <1>3

\* A restart gives up every case that was under way.
LEMMA RestartImplements ==
    ASSUME FlowInv, Restart
    PROVE  Promised
<1> DEFINE S == {c \in Cases : flow[c] \notin {"new", "refused", "ended", "lost"}}
           N == {c \in Cases : flow[c] \in {"new", "refused"}}
<1>1. \A c \in S : Outcome[c] = "open"
  BY DEF Outcome
<1>2. Outcome' = [c \in Cases |-> IF c \in S THEN "lost" ELSE Outcome[c]]
  BY DEF Restart, Outcome
<1>3. Promise!GiveUp(S)
  BY <1>1, <1>2 DEF Restart, outside, Promise!GiveUp, Promise!GivenUp
<1> QED
  BY <1>3 DEF Promised, Promise!Next

LEMMA NextImplements == FlowInv /\ [Next]_vars => [Promise!Next]_<<penneo, Outcome>>
<1> SUFFICES ASSUME FlowInv, [Next]_vars PROVE Promised
  BY DEF Promised
<1>1. CASE UNCHANGED vars
  BY <1>1, SameOutcome DEF vars, outside, Promised
<1>2. ASSUME NEW b \in Clients,
             Receive(b) \/ Unregister(b) \/ \E c \in Cases : Register(b, c)
      PROVE  Promised
  BY <1>2, HubKeeps, SameOutcome DEF Promised
<1> QED
  BY <1>1, <1>2, GoroutineImplements, StartImplements, PenneoImplements, RestartImplements
     DEF Next

\* A case sent to its signer gets one final outcome, and one that says it was
\* completed or refused only when Penneo decided so: every step of the flow is a
\* step of SigningOutcome or none (StartPenneoFlow, waitForSigningAndProcess).
THEOREM FlowImplementsOutcome == Spec => ImplementsOutcome
<1>1. Init => Promise!Init
  BY DEF Init, Promise!Init, Outcome
<1> QED
  BY <1>1, InitFlow, NextKeepsFlow, NextImplements, PTL
     DEF Spec, ImplementsOutcome, Promise!Spec

----------------------------------------------------------------------------
\* The listeners. A goroutine says at most three things, so the channel of a
\* listener, which holds that many, never fills.

Listener == [case : Cases, channel : Seq(Messages), seen : Seq(Messages), joined : Nat]

\* How many messages a goroutine can have sent before its next step.
Told(step) ==
    IF step \in {"new", "asked", "sent", "refused", "spawned"} THEN 0
    ELSE IF step = "waiting" THEN 1
    ELSE IF step \in {"signed", "fetched"} THEN 2 ELSE 3

EventInv ==
    /\ client \in [Clients -> Listener \cup {NoClient}]
    /\ \A c \in Cases : Len(events[c]) <= Told(flow[c])
    /\ \A b \in Clients : client[b] # NoClient =>
         client[b].joined <= Len(events[client[b].case])
    /\ NoEventLost

LEMMA ToldValues ==
    /\ \A step \in {"new", "asked", "sent", "refused", "spawned"} : Told(step) = 0
    /\ Told("waiting") = 1 /\ Told("signed") = 2 /\ Told("fetched") = 2
    /\ Told("ended") = 3 /\ Told("lost") = 3
BY DEF Told

LEMMA TailGrows ==
    ASSUME NEW S, NEW s \in Seq(S), NEW m \in S, NEW j \in 0..Len(s)
    PROVE  SubSeq(Append(s, m), j + 1, Len(s) + 1) = Append(SubSeq(s, j + 1, Len(s)), m)
<1> DEFINE t == Append(s, m)
           a == SubSeq(t, j + 1, Len(s) + 1)
           r == SubSeq(s, j + 1, Len(s))
<1>1. t \in Seq(S) /\ Len(t) = Len(s) + 1
  BY AppendProperties
<1>2. /\ r \in Seq(S) /\ Len(r) = Len(s) - j
      /\ \A i \in 1..(Len(s) - j) : r[i] = s[j + i]
  BY SubSeqProperties
<1>3. /\ a \in Seq(S) /\ Len(a) = Len(s) + 1 - j
      /\ \A i \in 1..(Len(s) + 1 - j) : a[i] = t[j + i]
  BY <1>1, SubSeqProperties
<1>4. /\ Append(r, m) \in Seq(S) /\ Len(Append(r, m)) = Len(s) + 1 - j
      /\ \A i \in 1..(Len(s) - j) : Append(r, m)[i] = r[i]
      /\ Append(r, m)[Len(s) + 1 - j] = m
  BY <1>2, AppendProperties
<1>5. ASSUME NEW i \in 1..(Len(s) + 1 - j)
      PROVE  a[i] = Append(r, m)[i]
  <2>1. CASE i = Len(s) + 1 - j
    BY <1>3, <1>4, <2>1, AppendProperties
  <2>2. CASE i # Len(s) + 1 - j
    <3>1. i \in 1..(Len(s) - j) /\ j + i \in 1..Len(s)
      BY <2>2
    <3> QED
      BY <1>2, <1>3, <1>4, <3>1, AppendProperties
  <2> QED
    BY <2>1, <2>2
<1> QED
  BY <1>3, <1>4, <1>5, SeqEqual

LEMMA AppendJoins ==
    \A s \in Seq(Messages), t \in Seq(Messages), m \in Messages :
        s \o Append(t, m) = Append(s \o t, m)
OBVIOUS

LEMMA HeadJoins ==
    ASSUME NEW S, NEW s \in Seq(S), NEW t \in Seq(S), t # <<>>
    PROVE  Append(s, Head(t)) \o Tail(t) = s \o t
OBVIOUS

LEMMA ListenerHears ==
    ASSUME NEW seen \in Seq(Messages), NEW channel \in Seq(Messages),
           NEW e \in Seq(Messages), NEW m \in Messages, NEW j \in 0..Len(e),
           seen \o channel = SubSeq(e, j + 1, Len(e))
    PROVE  /\ Len(channel) <= Len(e)
           /\ seen \o Append(channel, m) = SubSeq(Append(e, m), j + 1, Len(e) + 1)
<1>1. Len(seen) \in Nat /\ Len(channel) \in Nat /\ Len(e) \in Nat
  BY LenProperties
<1>2. Len(seen \o channel) = Len(seen) + Len(channel)
  BY ConcatProperties
<1>3. Len(SubSeq(e, j + 1, Len(e))) = Len(e) - j
  BY <1>1, SubSeqProperties
<1>4. Len(channel) <= Len(e)
  <2>1. Len(seen) + Len(channel) = Len(e) - j
    BY <1>2, <1>3
  <2> QED
    BY <1>1, <2>1
<1>5. seen \o Append(channel, m) = Append(seen \o channel, m)
  BY AppendJoins, Zenon
<1>6. SubSeq(Append(e, m), j + 1, Len(e) + 1) = Append(SubSeq(e, j + 1, Len(e)), m)
  BY TailGrows
<1> QED
  BY <1>4, <1>5, <1>6

\* A message reaches every listener of its case.
LEMMA SayReaches ==
    ASSUME FlowInv, EventInv, NEW c \in Cases, NEW m \in Messages, Say(c, m),
           Told(flow[c]) <= 2
    PROVE  /\ client' \in [Clients -> Listener \cup {NoClient}]
           /\ \A b \in Clients : client'[b] # NoClient =>
                client'[b].joined <= Len(events'[client'[b].case])
           /\ NoEventLost'
           /\ Len(events'[c]) = Len(events[c]) + 1
<1>1. /\ events \in [Cases -> Seq(Messages)]
      /\ events' = [events EXCEPT ![c] = Append(@, m)]
      /\ client' = Notify(c, m)
  BY DEF FlowInv, TypeInv, Say
<1>2. /\ events'[c] = Append(events[c], m)
      /\ Len(events'[c]) = Len(events[c]) + 1
      /\ \A d \in Cases \ {c} : events'[d] = events[d]
  BY <1>1
<1>3. ASSUME NEW b \in Clients
      PROVE  /\ client'[b] \in Listener \cup {NoClient}
             /\ client'[b] # NoClient =>
                  /\ client'[b].joined <= Len(events'[client'[b].case])
                  /\ client'[b].seen \o client'[b].channel =
                       SubSeq(events'[client'[b].case], client'[b].joined + 1,
                              Len(events'[client'[b].case]))
  <2>1. CASE client[b] = NoClient
    BY <1>1, <2>1 DEF Notify
  <2>2. CASE client[b] # NoClient /\ client[b].case # c
    <3>1. client'[b] = client[b] /\ client[b] \in Listener
      BY <1>1, <2>2 DEF Notify, EventInv
    <3>2. client[b].case \in Cases \ {c}
      BY <2>2, <3>1 DEF Listener
    <3>3. events'[client[b].case] = events[client[b].case]
      BY <1>2, <3>2
    <3> QED
      BY <2>2, <3>1, <3>3 DEF EventInv, NoEventLost
  <2>3. CASE client[b] # NoClient /\ client[b].case = c
    <3>1. client[b] \in Listener /\ client[b].joined \in 0..Len(events[c])
      BY <1>1, <2>3 DEF EventInv, Listener
    <3>2. client[b].seen \o client[b].channel
            = SubSeq(events[c], client[b].joined + 1, Len(events[c]))
      BY <2>3 DEF EventInv, NoEventLost
    <3>3. Len(events[c]) <= 2
      BY <1>1, LenProperties DEF EventInv, Told
    <3>4. /\ client[b].seen \in Seq(Messages) /\ client[b].channel \in Seq(Messages)
          /\ events[c] \in Seq(Messages)
      BY <1>1, <3>1 DEF Listener
    <3>5. /\ Len(client[b].channel) <= Len(events[c])
          /\ client[b].seen \o Append(client[b].channel, m)
               = SubSeq(Append(events[c], m), client[b].joined + 1, Len(events[c]) + 1)
      BY <3>1, <3>2, <3>4, ListenerHears
    <3>6. Len(client[b].channel) < Capacity
      <4>1. Len(client[b].channel) \in Nat /\ Len(events[c]) \in Nat
        BY <3>4, LenProperties
      <4> QED
        BY <3>3, <3>5, <4>1, PenneoAssumption
    <3>7. client'[b] = [client[b] EXCEPT !.channel = Append(@, m)]
      BY <1>1, <2>3, <3>6 DEF Notify
    <3>8. /\ client'[b].case = c /\ client'[b].joined = client[b].joined
          /\ client'[b].seen = client[b].seen
          /\ client'[b].channel = Append(client[b].channel, m)
      BY <2>3, <3>1, <3>7 DEF Listener
    <3>9. Append(client[b].channel, m) \in Seq(Messages)
      BY <3>4, AppendProperties
    <3>10. client'[b] \in Listener
      BY <3>1, <3>7, <3>9 DEF Listener
    <3>11. client'[b].joined <= Len(events'[c])
      <4>1. Len(events[c]) \in Nat
        BY <3>4, LenProperties
      <4> QED
        BY <1>2, <3>1, <3>8, <4>1
    <3> QED
      BY <1>2, <3>5, <3>8, <3>10, <3>11
  <2> QED
    BY <2>1, <2>2, <2>3
<1>4. client' \in [Clients -> Listener \cup {NoClient}]
  BY <1>1, <1>3 DEF Notify
<1> QED
  BY <1>2, <1>3, <1>4 DEF NoEventLost

\* A step of a case that says something.
LEMMA SayKeepsEvents ==
    ASSUME FlowInv, EventInv, NEW c \in Cases, NEW m \in Messages, Say(c, m),
           NEW next \in Flows, flow' = [flow EXCEPT ![c] = next], Told(flow[c]) < Told(next)
    PROVE  EventInv'
<1>1. Told(flow[c]) \in Nat /\ Told(next) \in Nat /\ Told(next) <= 3
  BY DEF Told
<1>2. /\ client' \in [Clients -> Listener \cup {NoClient}]
      /\ \A b \in Clients : client'[b] # NoClient =>
           client'[b].joined <= Len(events'[client'[b].case])
      /\ NoEventLost'
      /\ Len(events'[c]) = Len(events[c]) + 1
  BY <1>1, SayReaches
<1>3. ASSUME NEW d \in Cases
      PROVE  Len(events'[d]) <= Told(flow'[d])
  <2>1. CASE d = c
    <3>1. flow'[d] = next /\ Len(events[c]) \in Nat /\ Len(events[c]) <= Told(flow[c])
      BY <2>1, LenProperties DEF FlowInv, TypeInv, EventInv
    <3> QED
      BY <1>1, <1>2, <2>1, <3>1
  <2>2. CASE d # c
    BY <2>2, SayTells DEF FlowInv, TypeInv, EventInv
  <2> QED
    BY <2>1, <2>2
<1> QED
  BY <1>2, <1>3 DEF EventInv

\* A step of a case that says nothing.
LEMMA QuietKeepsEvents ==
    ASSUME FlowInv, EventInv, NEW c \in Cases, UNCHANGED <<events, client>>,
           NEW next \in Flows, flow' = [flow EXCEPT ![c] = next], Told(flow[c]) <= Told(next)
    PROVE  EventInv'
<1>1. \A d \in Cases : Len(events[d]) <= Told(flow'[d])
  <2> TAKE d \in Cases
  <2>1. Told(flow[d]) \in Nat /\ Told(next) \in Nat /\ Len(events[d]) \in Nat
    BY LenProperties DEF Told, FlowInv, TypeInv
  <2> QED
    BY <2>1 DEF EventInv, FlowInv, TypeInv
<1> QED
  BY <1>1 DEF EventInv, NoEventLost

LEMMA SameKeepsEvents ==
    ASSUME EventInv, UNCHANGED <<events, client, flow>>
    PROVE  EventInv'
BY DEF EventInv, NoEventLost

LEMMA EndKeepsEvents ==
    ASSUME FlowInv, EventInv, NEW c \in Cases, NEW m \in Messages,
           flow[c] \in Processing, End(c, m)
    PROVE  EventInv'
<1>1. Told(flow[c]) < Told("ended")
  BY ToldValues DEF Processing
<1>2. "ended" \in Flows /\ flow' = [flow EXCEPT ![c] = "ended"] /\ Say(c, m)
  BY DEF End, Flows
<1> QED
  BY <1>1, <1>2, SayKeepsEvents

LEMMA GoroutineKeepsEvents ==
    ASSUME FlowInv, EventInv, NEW c \in Cases, Goroutine(c)
    PROVE  EventInv'
<1>1. CASE Wait(c)
  <2>1. Told(flow[c]) < Told("waiting")
    BY <1>1, ToldValues DEF Wait
  <2>2. "waiting" \in Flows /\ "awaiting_signature" \in Messages
    BY DEF Flows, Messages
  <2>3. flow' = [flow EXCEPT ![c] = "waiting"] /\ Say(c, "awaiting_signature")
    BY <1>1 DEF Wait
  <2> QED
    BY <2>1, <2>2, <2>3, SayKeepsEvents
<1>2. ASSUME flow[c] = "waiting", Signed(c)
      PROVE  EventInv'
  <2>1. Told(flow[c]) < Told("signed")
    BY <1>2, ToldValues
  <2>2. "signed" \in Flows /\ "signed" \in Messages
    BY DEF Flows, Messages
  <2>3. flow' = [flow EXCEPT ![c] = "signed"] /\ Say(c, "signed")
    BY <1>2 DEF Signed
  <2> QED
    BY <2>1, <2>2, <2>3, SayKeepsEvents
<1>3. CASE Signalled(c)
  BY <1>2, <1>3 DEF Signalled
<1>4. CASE Poll(c)
  <2>1. CASE UNCHANGED <<flow, pending, events, client>>
    BY <2>1, SameKeepsEvents
  <2>2. CASE Signed(c)
    BY <1>2, <1>4, <2>2 DEF Poll
  <2>3. CASE penneo[c] \in {"rejected", "deleted", "expired"} /\ End(c, penneo[c])
    BY <1>4, <2>3, EndKeepsEvents DEF Poll, Messages, Processing
  <2> QED
    BY <1>4, <2>1, <2>2, <2>3 DEF Poll
<1>5. CASE PollFails(c)
  BY <1>5, SameKeepsEvents DEF PollFails
<1>6. CASE Timeout(c)
  BY <1>6, EndKeepsEvents DEF Timeout, Messages, Processing
<1>7. CASE FetchDocuments(c)
  <2>1. CASE End(c, "error")
    BY <1>7, <2>1, EndKeepsEvents DEF FetchDocuments, Messages, Processing
  <2>2. CASE flow' = [flow EXCEPT ![c] = "fetched"] /\ UNCHANGED <<pending, events, client>>
    <3>1. Told(flow[c]) <= Told("fetched") /\ "fetched" \in Flows
      BY <1>7, ToldValues DEF FetchDocuments, Flows
    <3> QED
      BY <2>2, <3>1, QuietKeepsEvents
  <2> QED
    BY <1>7, <2>1, <2>2 DEF FetchDocuments
<1>8. CASE getSignedDocument(c)
  BY <1>8, EndKeepsEvents DEF getSignedDocument, Messages, Processing
<1> QED
  BY <1>1, <1>3, <1>4, <1>5, <1>6, <1>7, <1>8 DEF Goroutine

LEMMA StartKeepsEvents ==
    ASSUME FlowInv, EventInv, NEW c \in Cases,
           StartPenneoFlow(c) \/ sendCaseFile(c) \/ pollJobStatus(c) \/ StartFails(c)
    PROVE  EventInv'
<1>1. PICK next \in {"asked", "sent", "spawned", "refused"} :
        flow' = [flow EXCEPT ![c] = next]
  BY DEF StartPenneoFlow, sendCaseFile, pollJobStatus, StartFails
<1>2. flow[c] \in {"new", "asked", "sent"} /\ UNCHANGED <<events, client>>
  BY DEF StartPenneoFlow, sendCaseFile, pollJobStatus, StartFails
<1>3. next \in Flows /\ Told(flow[c]) <= Told(next)
  BY <1>2 DEF Flows, Told
<1> QED
  BY <1>1, <1>2, <1>3, QuietKeepsEvents

LEMMA RestartKeepsEvents ==
    ASSUME FlowInv, EventInv, Restart
    PROVE  EventInv'
<1>1. /\ UNCHANGED events
      /\ client' = [b \in Clients |-> NoClient]
      /\ \A c \in Cases : flow'[c] \in {flow[c], "lost"}
  BY DEF Restart
<1>2. ASSUME NEW c \in Cases
      PROVE  Len(events[c]) <= Told(flow'[c])
  <2>1. Len(events[c]) \in Nat /\ Len(events[c]) <= Told(flow[c]) /\ Told(flow[c]) \in Nat
    BY LenProperties DEF FlowInv, TypeInv, EventInv, Told
  <2>2. Told(flow[c]) <= 3 /\ Told("lost") = 3
    BY DEF Told
  <2> QED
    BY <1>1, <2>1, <2>2
<1> QED
  BY <1>1, <1>2 DEF EventInv, NoEventLost

LEMMA HubKeepsEvents ==
    ASSUME FlowInv, EventInv, NEW b \in Clients,
           Receive(b) \/ Unregister(b) \/ \E c \in Cases : Register(b, c)
    PROVE  EventInv'
<1>1. UNCHANGED <<flow, events>>
  BY DEF Receive, Unregister, Register
<1>2. \E l : client' = [client EXCEPT ![b] = l]
  BY DEF Receive, Unregister, Register
<1>3. PICK l : client' = [client EXCEPT ![b] = l]
  BY <1>2
<1>4. client'[b] = l /\ \A x \in Clients \ {b} : client'[x] = client[x]
  BY <1>3 DEF EventInv
<1>5. SUFFICES /\ l \in Listener \cup {NoClient}
               /\ l # NoClient =>
                    /\ l.joined <= Len(events[l.case])
                    /\ l.seen \o l.channel =
                         SubSeq(events[l.case], l.joined + 1, Len(events[l.case]))
  <2>1. client' \in [Clients -> Listener \cup {NoClient}]
    BY <1>3, <1>5 DEF EventInv
  <2>2. ASSUME NEW x \in Clients, client'[x] # NoClient
        PROVE  /\ client'[x].joined <= Len(events[client'[x].case])
               /\ client'[x].seen \o client'[x].channel =
                    SubSeq(events[client'[x].case], client'[x].joined + 1,
                           Len(events[client'[x].case]))
    <3>1. CASE x = b
      BY <1>4, <1>5, <2>2, <3>1
    <3>2. CASE x # b
      BY <1>4, <2>2, <3>2 DEF EventInv, NoEventLost
    <3> QED
      BY <3>1, <3>2
  <2> QED
    BY <1>1, <2>1, <2>2 DEF EventInv, NoEventLost
<1>6. CASE Unregister(b)
  BY <1>4, <1>6 DEF Unregister, EventInv
<1>7. ASSUME NEW c \in Cases, Register(b, c)
      PROVE  /\ l \in Listener
             /\ l.joined <= Len(events[l.case])
             /\ l.seen \o l.channel =
                  SubSeq(events[l.case], l.joined + 1, Len(events[l.case]))
  <2>1. l = [case |-> c, channel |-> <<>>, seen |-> <<>>, joined |-> Len(events[c])]
    BY <1>4, <1>7 DEF Register, EventInv
  <2>2. events[c] \in Seq(Messages) /\ Len(events[c]) \in Nat
    BY LenProperties DEF FlowInv, TypeInv
  <2>3. SubSeq(events[c], Len(events[c]) + 1, Len(events[c])) = <<>>
    BY <2>2, SubSeqEmpty
  <2>4. l \in Listener
    BY <2>1, <2>2, EmptySeq DEF Listener
  <2>5. /\ l.case = c /\ l.joined = Len(events[c])
        /\ l.seen = <<>> /\ l.channel = <<>>
    BY <2>1
  <2>6. l.seen \o l.channel = <<>>
    BY <2>5
  <2>7. SubSeq(events[l.case], l.joined + 1, Len(events[l.case])) = <<>>
    BY <2>3, <2>5, Zenon
  <2>8. l.joined <= Len(events[l.case])
    BY <2>2, <2>5
  <2> QED
    BY <2>4, <2>6, <2>7, <2>8, Zenon
<1>8. CASE Receive(b)
  <2> DEFINE o == client[b]
  <2>1. o \in Listener /\ o # NoClient /\ o.channel # <<>>
    BY <1>8 DEF Receive, EventInv
  <2>2. o.seen \in Seq(Messages) /\ o.channel \in Seq(Messages)
    BY <2>1 DEF Listener
  <2>3. l = [o EXCEPT !.seen = Append(@, Head(o.channel)), !.channel = Tail(@)]
    BY <1>4, <1>8 DEF Receive, EventInv
  <2>4. /\ l.seen = Append(o.seen, Head(o.channel)) /\ l.channel = Tail(o.channel)
        /\ l.case = o.case /\ l.joined = o.joined
    BY <2>1, <2>3 DEF Listener
  <2>5. l.seen \in Seq(Messages) /\ l.channel \in Seq(Messages)
    BY <2>1, <2>2, <2>4, HeadTailProperties, AppendProperties
  <2>6. l \in Listener
    BY <2>1, <2>3, <2>4, <2>5 DEF Listener
  <2>7. l.seen \o l.channel = o.seen \o o.channel
    BY <2>1, <2>2, <2>4, HeadJoins
  <2> QED
    BY <2>1, <2>4, <2>6, <2>7 DEF EventInv, NoEventLost
<1> QED
  BY <1>6, <1>7, <1>8

LEMMA NextKeepsEvents == FlowInv /\ EventInv /\ [Next]_vars => EventInv'
<1> SUFFICES ASSUME FlowInv, EventInv, [Next]_vars PROVE EventInv'
  OBVIOUS
<1>1. CASE UNCHANGED vars
  BY <1>1, SameKeepsEvents DEF vars
<1>2. ASSUME NEW c \in Cases,
             Tick(c) \/ Decide(c) \/ PenneoWebhook(c) \/ LoseWebhook(c)
      PROVE  EventInv'
  BY <1>2, SameKeepsEvents DEF Tick, Decide, PenneoWebhook, LoseWebhook
<1> QED
  BY <1>1, <1>2, GoroutineKeepsEvents, StartKeepsEvents, RestartKeepsEvents, HubKeepsEvents
     DEF Next

\* Every listener gets, in order, all that is said after it came: with at most
\* three messages per case the channel of eight never fills, and the branch of
\* Notify that drops a message is dead (SSEHub).
THEOREM ListenersMissNothing == Spec => []NoEventLost
<1>1. Init => EventInv
  BY EmptySeq DEF Init, EventInv, NoEventLost, Told
<1>2. EventInv => NoEventLost
  BY DEF EventInv
<1> QED
  BY <1>1, <1>2, InitFlow, NextKeepsFlow, NextKeepsEvents, PTL DEF Spec

----------------------------------------------------------------------------
\* The two hours. A poll reads every tick, so a signature that a waiting
\* goroutine does not know of is at most one tick old.

Unheard == {"new", "asked", "sent", "spawned"}

Aged(c) ==
    /\ flow[c] \in Unheard => age[c] = 0
    /\ flow[c] \in Unheard \cup {"waiting"} /\ penneo[c] = "signed" /\ errors = 0 =>
         \/ age[c] = signedAt[c]
         \/ age[c] = signedAt[c] + 1 /\ c \in due
    /\ Said(c, "timeout") =>
         /\ flow[c] = "ended"
         /\ age[c] = Minutes
         /\ penneo[c] = "signed" /\ errors = 0 => signedAt[c] >= Minutes - 1

AgeInv ==
    /\ age \in [Cases -> Nat] /\ signedAt \in [Cases -> Nat] /\ errors \in Nat
    /\ \A c \in Cases : Aged(c)

\* What a step of case c does to the others.
Local(c) ==
    /\ age' \in [Cases -> Nat] /\ signedAt' \in [Cases -> Nat]
    /\ errors' \in Nat /\ errors' >= errors
    /\ \A d \in Cases \ {c} :
         /\ flow'[d] = flow[d] /\ penneo'[d] = penneo[d] /\ events'[d] = events[d]
         /\ age'[d] = age[d] /\ signedAt'[d] = signedAt[d]
         /\ d \in due => d \in due'

LEMMA SaidBefore ==
    ASSUME FlowInv, NEW c \in Cases, NEW m \in Messages, Say(c, m), NEW x, x # m,
           Said(c, x)'
    PROVE  Said(c, x)
<1>1. events[c] \in Seq(Messages) /\ events'[c] = Append(events[c], m)
  BY DEF FlowInv, TypeInv, Say
<1>2. PICK i \in 1..Len(events'[c]) : events'[c][i] = x
  BY DEF Said
<1>3. Len(events[c]) \in Nat /\ Len(events'[c]) = Len(events[c]) + 1
  BY <1>1, LenProperties
<1>4. events'[c][Len(events[c]) + 1] = m
  BY <1>1
<1>5. i \in 1..Len(events[c])
  BY <1>2, <1>3, <1>4
<1>6. events'[c][i] = events[c][i]
  BY <1>1, <1>5
<1> QED
  BY <1>2, <1>5, <1>6 DEF Said

LEMMA SayIsLocal ==
    ASSUME FlowInv, AgeInv, NEW c \in Cases, NEW m \in Messages, Say(c, m),
           NEW next, flow' = [flow EXCEPT ![c] = next],
           UNCHANGED <<penneo, age, signedAt, errors>>, due \ {c} \subseteq due'
    PROVE  Local(c)
<1>1. \A d \in Cases \ {c} : events'[d] = events[d] /\ flow'[d] = flow[d]
  BY SayTells DEF FlowInv, TypeInv
<1> QED
  BY <1>1 DEF Local, AgeInv

LEMMA GoroutineIsLocal ==
    ASSUME FlowInv, AgeInv, NEW c \in Cases, Goroutine(c)
    PROVE  Local(c)
<1>1. ASSUME NEW m \in Messages, End(c, m), due \ {c} \subseteq due',
             UNCHANGED <<penneo, age, signedAt, errors>>
      PROVE  Local(c)
  BY <1>1, SayIsLocal DEF End
<1>2. ASSUME Signed(c), due \ {c} \subseteq due', UNCHANGED <<penneo, age, signedAt, errors>>
      PROVE  Local(c)
  BY <1>2, SayIsLocal DEF Signed, Messages
<1>3. ASSUME UNCHANGED <<penneo, age, signedAt, events>>, due \ {c} \subseteq due',
             flow' = flow \/ flow' = [flow EXCEPT ![c] = "fetched"],
             errors' \in {errors, errors + 1}
      PROVE  Local(c)
  BY <1>3 DEF Local, AgeInv, FlowInv, TypeInv
<1>4. CASE Wait(c)
  <2>1. UNCHANGED <<penneo, age, signedAt, errors, due>> /\ Say(c, "awaiting_signature")
        /\ flow' = [flow EXCEPT ![c] = "waiting"] /\ "awaiting_signature" \in Messages
    BY <1>4 DEF Wait, outside, Messages
  <2> QED
    BY <2>1, SayIsLocal
<1>5. CASE Signalled(c)
  BY <1>2, <1>5 DEF Signalled, outside
<1>6. CASE Poll(c)
  <2>1. due' = due \ {c} /\ UNCHANGED <<penneo, age, signedAt, errors>>
    BY <1>6 DEF Poll, outside
  <2>2. CASE UNCHANGED <<flow, pending, events, client>>
    BY <1>3, <2>1, <2>2
  <2>3. CASE Signed(c)
    BY <1>2, <2>1, <2>3
  <2>4. CASE penneo[c] \in {"rejected", "deleted", "expired"} /\ End(c, penneo[c])
    BY <1>1, <2>1, <2>4 DEF Messages
  <2> QED
    BY <1>6, <2>2, <2>3, <2>4 DEF Poll
<1>7. CASE PollFails(c)
  BY <1>3, <1>7 DEF PollFails, outside
<1>8. CASE Timeout(c)
  BY <1>1, <1>8 DEF Timeout, outside, Messages
<1>9. CASE FetchDocuments(c)
  <2>1. UNCHANGED <<penneo, age, signedAt, errors, due>>
    BY <1>9 DEF FetchDocuments, outside
  <2> QED
    BY <1>1, <1>3, <1>9, <2>1 DEF FetchDocuments, Messages
<1>10. CASE getSignedDocument(c)
  BY <1>1, <1>10 DEF getSignedDocument, outside, Messages
<1> QED
  BY <1>4, <1>5, <1>6, <1>7, <1>8, <1>9, <1>10 DEF Goroutine

LEMMA OutsideIsLocal ==
    ASSUME FlowInv, AgeInv, NEW c \in Cases,
           \/ StartPenneoFlow(c) \/ sendCaseFile(c) \/ pollJobStatus(c) \/ StartFails(c)
           \/ Tick(c) \/ Decide(c) \/ PenneoWebhook(c) \/ LoseWebhook(c)
    PROVE  Local(c)
<1>1. CASE StartPenneoFlow(c) \/ sendCaseFile(c) \/ pollJobStatus(c) \/ StartFails(c)
  BY <1>1 DEF StartPenneoFlow, sendCaseFile, pollJobStatus, StartFails, Local, AgeInv,
     FlowInv, TypeInv, outside, waiting
<1>2. CASE Tick(c)
  BY <1>2 DEF Tick, Local, AgeInv, FlowInv, TypeInv, outside
<1>3. CASE Decide(c)
  <2>1. UNCHANGED <<flow, age, due, events, errors>>
    BY <1>3 DEF Decide, waiting
  <2>2. \A d \in Cases \ {c} : penneo'[d] = penneo[d] /\ signedAt'[d] = signedAt[d]
    BY <1>3 DEF Decide, AgeInv, FlowInv, TypeInv
  <2>3. signedAt' \in [Cases -> Nat]
    BY <1>3 DEF Decide, AgeInv
  <2> QED
    BY <2>1, <2>2, <2>3 DEF Local, AgeInv
<1>4. CASE PenneoWebhook(c) \/ LoseWebhook(c)
  BY <1>4 DEF PenneoWebhook, LoseWebhook, Local, AgeInv, waiting
<1> QED
  BY <1>1, <1>2, <1>3, <1>4

LEMMA OthersKeepAged ==
    ASSUME FlowInv, AgeInv, NEW c \in Cases, Local(c), NEW d \in Cases \ {c}
    PROVE  Aged(d)'
<1>1. Aged(d)
  BY DEF AgeInv
<1>2. Said(d, "timeout")' = Said(d, "timeout")
  BY DEF Local, Said
<1>3. errors \in Nat /\ (errors' = 0 => errors = 0)
  BY DEF Local, AgeInv
<1> QED
  BY <1>1, <1>2, <1>3 DEF Aged, Local

\* The case that takes the step.
LEMMA SaySomethingElse ==
    ASSUME FlowInv, AgeInv, NEW c \in Cases, NEW m \in Messages, Say(c, m), m # "timeout",
           flow[c] # "ended", flow'[c] \notin Unheard,
           flow'[c] = "waiting" => flow[c] = "spawned",
           UNCHANGED <<penneo, age, signedAt, errors>>, c \in due => c \in due' \/ flow'[c] # "waiting"
    PROVE  Aged(c)'
<1>1. ~ Said(c, "timeout") /\ Aged(c)
  BY DEF AgeInv, Aged
<1>2. ~ Said(c, "timeout")'
  BY <1>1, SaidBefore
<1> QED
  BY <1>1, <1>2 DEF Aged, Unheard

LEMMA GoroutineKeepsAged ==
    ASSUME FlowInv, AgeInv, NEW c \in Cases, Goroutine(c)
    PROVE  Aged(c)'
<1>1. Aged(c) /\ ~ Said(c, "timeout")
  BY DEF AgeInv, Aged, Goroutine, Wait, Signalled, Poll, PollFails, Timeout, FetchDocuments,
     getSignedDocument
<1>2. flow \in [Cases -> Flows]
  BY DEF FlowInv, TypeInv
<1>3. ASSUME NEW m \in Messages, m # "timeout", End(c, m), flow[c] # "ended",
             UNCHANGED <<penneo, age, signedAt, errors>>
      PROVE  Aged(c)'
  <2>1. flow'[c] = "ended"
    BY <1>2, <1>3 DEF End
  <2> QED
    BY <1>3, <2>1, SaySomethingElse DEF End, Unheard
<1>4. ASSUME Signed(c), flow[c] = "waiting", UNCHANGED <<penneo, age, signedAt, errors>>
      PROVE  Aged(c)'
  <2>1. flow'[c] = "signed" /\ Say(c, "signed") /\ "signed" \in Messages
    BY <1>2, <1>4 DEF Signed, Messages
  <2> QED
    BY <1>4, <2>1, SaySomethingElse DEF Unheard
<1>5. CASE Wait(c)
  <2>1. flow'[c] = "waiting" /\ Say(c, "awaiting_signature") /\ flow[c] = "spawned"
    BY <1>2, <1>5 DEF Wait
  <2>2. UNCHANGED <<penneo, age, signedAt, errors, due>> /\ "awaiting_signature" \in Messages
    BY <1>5 DEF Wait, outside, Messages
  <2> QED
    BY <2>1, <2>2, SaySomethingElse DEF Unheard
<1>6. CASE Signalled(c)
  BY <1>4, <1>6 DEF Signalled, outside
<1>7. CASE Poll(c)
  <2>1. flow[c] = "waiting" /\ UNCHANGED <<penneo, age, signedAt, errors>>
    BY <1>7 DEF Poll, outside
  <2>2. CASE penneo[c] = "pending" /\ UNCHANGED <<flow, pending, events, client>>
    <3>1. ~ Said(c, "timeout")' /\ penneo'[c] = "pending" /\ flow'[c] = "waiting"
      BY <1>1, <2>1, <2>2 DEF Said
    <3> QED
      BY <3>1 DEF Aged, Unheard
  <2>3. CASE Signed(c)
    BY <1>4, <2>1, <2>3
  <2>4. CASE penneo[c] \in {"rejected", "deleted", "expired"} /\ End(c, penneo[c])
    BY <1>3, <2>1, <2>4 DEF Messages
  <2> QED
    BY <1>7, <2>2, <2>3, <2>4 DEF Poll
<1>8. CASE PollFails(c)
  <2>1. ~ Said(c, "timeout")' /\ flow'[c] = "waiting"
    BY <1>1, <1>8 DEF PollFails, Said
  <2>2. errors' # 0
    BY <1>8 DEF PollFails, AgeInv
  <2> QED
    BY <2>1, <2>2 DEF Aged, Unheard
<1>9. CASE Timeout(c)
  <2>1. flow'[c] = "ended" /\ UNCHANGED <<penneo, age, signedAt, errors>> /\ age[c] = Minutes
        /\ flow[c] = "waiting"
    BY <1>2, <1>9 DEF Timeout, End, outside
  <2>2. penneo[c] = "signed" /\ errors = 0 => signedAt[c] >= Minutes - 1
    <3>1. age[c] \in Nat /\ signedAt[c] \in Nat /\ Minutes \in Nat
      BY PenneoAssumption DEF AgeInv
    <3> QED
      BY <1>1, <2>1, <3>1 DEF Aged
  <2> QED
    BY <2>1, <2>2 DEF Aged, Unheard
<1>10. CASE FetchDocuments(c)
  <2>1. flow[c] = "signed" /\ UNCHANGED <<penneo, age, signedAt, errors>>
    BY <1>10 DEF FetchDocuments, outside
  <2>2. CASE flow' = [flow EXCEPT ![c] = "fetched"] /\ UNCHANGED <<pending, events, client>>
    <3>1. ~ Said(c, "timeout")' /\ flow'[c] = "fetched"
      BY <1>1, <1>2, <2>2 DEF Said
    <3> QED
      BY <3>1 DEF Aged, Unheard
  <2>3. CASE End(c, "error")
    BY <1>3, <2>1, <2>3 DEF Messages
  <2> QED
    BY <1>10, <2>2, <2>3 DEF FetchDocuments
<1>11. CASE getSignedDocument(c)
  BY <1>3, <1>11 DEF getSignedDocument, outside, Messages
<1> QED
  BY <1>5, <1>6, <1>7, <1>8, <1>9, <1>10, <1>11 DEF Goroutine

LEMMA OutsideKeepsAged ==
    ASSUME FlowInv, AgeInv, NEW c \in Cases,
           \/ StartPenneoFlow(c) \/ sendCaseFile(c) \/ pollJobStatus(c) \/ StartFails(c)
           \/ Tick(c) \/ Decide(c) \/ PenneoWebhook(c) \/ LoseWebhook(c)
    PROVE  Aged(c)'
<1>1. /\ Aged(c) /\ flow \in [Cases -> Flows] /\ penneo \in [Cases -> States]
      /\ age[c] \in Nat /\ signedAt[c] \in Nat
  BY DEF AgeInv, FlowInv, TypeInv
<1>2. Said(c, "timeout")' = Said(c, "timeout") /\ UNCHANGED errors
  BY DEF StartPenneoFlow, sendCaseFile, pollJobStatus, StartFails, Tick, Decide,
     PenneoWebhook, LoseWebhook, Said
<1>3. CASE StartPenneoFlow(c) \/ sendCaseFile(c) \/ pollJobStatus(c) \/ StartFails(c)
  <2>1. /\ flow[c] \in Unheard
        /\ flow'[c] \in Unheard \cup {"refused"}
        /\ UNCHANGED <<age, signedAt, due>>
        /\ penneo'[c] = penneo[c] \/ penneo'[c] = "pending"
    BY <1>1, <1>3 DEF StartPenneoFlow, sendCaseFile, pollJobStatus, StartFails, outside,
       waiting, Unheard
  <2> QED
    BY <1>1, <1>2, <2>1 DEF Aged, Unheard
<1>4. CASE Tick(c)
  <2>1. flow[c] = "waiting" /\ c \notin due /\ c \in due' /\ age'[c] = age[c] + 1
        /\ UNCHANGED <<flow, penneo, signedAt>>
    BY <1>4 DEF Tick, AgeInv, outside
  <2> QED
    BY <1>1, <1>2, <2>1 DEF Aged, Unheard
<1>5. CASE Decide(c)
  <2>1. UNCHANGED <<flow, age, due>> /\ penneo[c] = "pending"
    BY <1>5 DEF Decide, waiting
  <2>2. penneo'[c] = "signed" => signedAt'[c] = age[c]
    BY <1>1, <1>5 DEF Decide, AgeInv
  <2>3. Minutes \in Nat
    BY PenneoAssumption
  <2> QED
    BY <1>1, <1>2, <2>1, <2>2, <2>3 DEF Aged
<1>6. CASE PenneoWebhook(c) \/ LoseWebhook(c)
  BY <1>1, <1>2, <1>6 DEF PenneoWebhook, LoseWebhook, Aged, waiting
<1> QED
  BY <1>3, <1>4, <1>5, <1>6

LEMMA RestartKeepsAges ==
    ASSUME FlowInv, AgeInv, Restart
    PROVE  AgeInv'
<1>1. UNCHANGED <<penneo, signedAt, age, events, errors>>
  BY DEF Restart, outside
<1>2. ASSUME NEW c \in Cases
      PROVE  Aged(c)'
  <2>1. Aged(c) /\ (Said(c, "timeout")' = Said(c, "timeout"))
    BY <1>1 DEF AgeInv, Said
  <2>2. \/ flow'[c] = flow[c] /\ flow[c] \in {"new", "refused", "ended"}
        \/ flow'[c] = "lost" /\ flow[c] # "ended"
    BY DEF Restart
  <2>3. flow[c] = "new" => penneo[c] = "absent"
    BY DEF FlowInv, SignedInv
  <2> QED
    BY <1>1, <2>1, <2>2, <2>3 DEF Aged, Unheard
<1> QED
  BY <1>1, <1>2 DEF AgeInv

LEMMA NextKeepsAges == FlowInv /\ AgeInv /\ [Next]_vars => AgeInv'
<1> SUFFICES ASSUME FlowInv, AgeInv, [Next]_vars PROVE AgeInv'
  OBVIOUS
<1>1. ASSUME UNCHANGED <<penneo, signedAt, flow, age, due, events, errors>>
      PROVE  AgeInv'
  BY <1>1 DEF AgeInv, Aged, Said
<1>2. CASE UNCHANGED vars
  BY <1>1, <1>2 DEF vars, outside, waiting
<1>3. ASSUME NEW c \in Cases, Local(c), Aged(c)'
      PROVE  AgeInv'
  BY <1>3, OthersKeepAged DEF AgeInv, Local
<1>4. ASSUME NEW c \in Cases, Goroutine(c)
      PROVE  AgeInv'
  BY <1>3, <1>4, GoroutineIsLocal, GoroutineKeepsAged
<1>5. ASSUME NEW c \in Cases,
             \/ StartPenneoFlow(c) \/ sendCaseFile(c) \/ pollJobStatus(c) \/ StartFails(c)
             \/ Tick(c) \/ Decide(c) \/ PenneoWebhook(c) \/ LoseWebhook(c)
      PROVE  AgeInv'
  BY <1>3, <1>5, OutsideIsLocal, OutsideKeepsAged
<1>6. ASSUME NEW b \in Clients,
             Receive(b) \/ Unregister(b) \/ \E c \in Cases : Register(b, c)
      PROVE  AgeInv'
  BY <1>1, <1>6 DEF Receive, Unregister, Register, outside, waiting
<1> QED
  BY <1>2, <1>4, <1>5, <1>6, RestartKeepsAges DEF Next

\* A case is reported as timed out only when it was not signed, was signed in the
\* last minute, or a poll failed: while it waits, every tick is read by a poll
\* before the next one, and a poll sees a signature whether or not its webhook
\* came (waitForSigningAndProcess).
THEOREM TimeoutIsHonest == Spec => []TimeoutMeansUnsigned
<1>1. Init => AgeInv
  BY PenneoAssumption DEF Init, AgeInv, Aged, Said, Unheard
<1>2. AgeInv => TimeoutMeansUnsigned
  <2> SUFFICES ASSUME AgeInv, NEW c \in Cases, Said(c, "timeout"), penneo[c] = "signed",
                      ~ errors > 0
               PROVE  signedAt[c] >= Minutes - 1
    BY DEF TimeoutMeansUnsigned
  <2>1. errors = 0
    BY DEF AgeInv
  <2> QED
    BY <2>1 DEF AgeInv, Aged
<1> QED
  BY <1>1, <1>2, InitFlow, NextKeepsFlow, NextKeepsAges, PTL DEF Spec
=============================================================================
