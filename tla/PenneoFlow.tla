----------------------------- MODULE PenneoFlow -----------------------------
(***************************************************************************)
(* Signing a document at Penneo (api/v1_penneo.go): a request creates a    *)
(* case and spawns a goroutine that waits for its decision, which comes by *)
(* a webhook, by a poll every minute, or not at all within two hours.      *)
(* Browsers listen to what the goroutine reports.                          *)
(*                                                                         *)
(* Penneo is outside: it decides a pending case once, and calls the        *)
(* webhook of a signed one; the call may be lost, be refused or come twice,*)
(* before the goroutine has registered or after it has ended.  The access  *)
(* token, which every call renews when it has expired, and the documents   *)
(* are left out.  "Mutant" marks a definition with a mistake, which is not *)
(* part of the model.                                                      *)
(***************************************************************************)
EXTENDS Naturals, Sequences

CONSTANTS
    Cases,
    Clients,     \* browsers that listen
    Capacity,    \* of the channel of a listener
    Minutes,     \* ticks of the ticker until the wait is given up
    MaxErrors,   \* bound: polls that fail
    MaxRestarts  \* bound: stops of the server

ASSUME PenneoAssumption ==
    /\ Capacity \in Nat /\ Capacity >= 3
    /\ Minutes \in Nat \ {0}
    /\ MaxErrors \in Nat
    /\ MaxRestarts \in Nat

VARIABLES
    penneo,   \* per case, what Penneo has done with it
    webhooks, \* signed cases whose webhook may still be called
    flow,     \* per case, the step of its request or goroutine
    pending,  \* pendingRegistry: per case, "none", "waiting" or "signed"
    age,      \* per case, ticks since its goroutine waits
    due,      \* cases whose ticker has a tick to be read
    signedAt, \* per case, its age when it was signed
    events,   \* per case, the messages of its goroutine
    client,   \* per browser, its registration in the hub, or NoClient
    errors,   \* polls that failed
    restarts

outside == <<penneo, webhooks, signedAt>>
waiting == <<pending, age, due>>
vars == <<outside, flow, waiting, events, client, errors, restarts>>

NoClient == [case |-> "none"]

Init ==
    /\ penneo = [c \in Cases |-> "absent"]
    /\ webhooks = {}
    /\ flow = [c \in Cases |-> "new"]
    /\ pending = [c \in Cases |-> "none"]
    /\ age = [c \in Cases |-> 0]
    /\ due = {}
    /\ signedAt = [c \in Cases |-> Minutes]
    /\ events = [c \in Cases |-> <<>>]
    /\ client = [b \in Clients |-> NoClient]
    /\ errors = 0
    /\ restarts = 0

----------------------------------------------------------------------------
\* The hub.

\* Mutant: a channel without a buffer.
NotifyReceiver(c, message) ==
    [b \in Clients |->
        IF client[b] # NoClient /\ client[b].case = c /\ client[b].channel = <<>>
        THEN [client[b] EXCEPT !.channel = Append(@, message)]
        ELSE client[b]]

\* A message is dropped when the channel of the listener is full.
Notify(c, message) ==
    [b \in Clients |->
        IF client[b] # NoClient /\ client[b].case = c /\ Len(client[b].channel) < Capacity
        THEN [client[b] EXCEPT !.channel = Append(@, message)]
        ELSE client[b]]

Say(c, message) ==
    /\ events' = [events EXCEPT ![c] = Append(@, message)]
    /\ client' = Notify(c, message)

\* The browser knows the case when the request that started it was answered.
Known(c) == flow[c] \notin {"new", "asked", "sent", "refused"}

\* PenneoSSE. "joined" counts the messages that were sent before.
Register(b, c) ==
    /\ client[b] = NoClient
    /\ Known(c)
    /\ client' = [client EXCEPT ![b] =
                    [case |-> c, channel |-> <<>>, seen |-> <<>>, joined |-> Len(events[c])]]
    /\ UNCHANGED <<outside, flow, waiting, events, errors, restarts>>

Receive(b) ==
    /\ client[b] # NoClient
    /\ client[b].channel # <<>>
    /\ client' = [client EXCEPT ![b].seen = Append(@, Head(client[b].channel)),
                                ![b].channel = Tail(@)]
    /\ UNCHANGED <<outside, flow, waiting, events, errors, restarts>>

Unregister(b) ==
    /\ client[b] # NoClient
    /\ client' = [client EXCEPT ![b] = NoClient]
    /\ UNCHANGED <<outside, flow, waiting, events, errors, restarts>>

----------------------------------------------------------------------------
\* StartPenneoFlow.

StartPenneoFlow(c) ==
    /\ flow[c] = "new"
    /\ flow' = [flow EXCEPT ![c] = "asked"]
    /\ UNCHANGED <<outside, waiting, events, client, errors, restarts>>

sendCaseFile(c) ==
    /\ flow[c] = "asked"
    /\ penneo' = [penneo EXCEPT ![c] = "pending"]
    /\ flow' = [flow EXCEPT ![c] = "sent"]
    /\ UNCHANGED <<webhooks, signedAt, waiting, events, client, errors, restarts>>

pollJobStatus(c) ==
    /\ flow[c] = "sent"
    /\ flow' = [flow EXCEPT ![c] = "spawned"]
    /\ UNCHANGED <<outside, waiting, events, client, errors, restarts>>

\* No token, no case, or no answer about it in time: the case may exist all the
\* same, and nobody waits for it.
StartFails(c) ==
    /\ flow[c] \in {"asked", "sent"}
    /\ flow' = [flow EXCEPT ![c] = "refused"]
    /\ \/ UNCHANGED penneo
       \/ flow[c] = "asked" /\ penneo' = [penneo EXCEPT ![c] = "pending"]
    /\ UNCHANGED <<webhooks, signedAt, waiting, events, client, errors, restarts>>

----------------------------------------------------------------------------
\* waitForSigningAndProcess.

Wait(c) ==
    /\ flow[c] = "spawned"
    /\ flow' = [flow EXCEPT ![c] = "waiting"]
    /\ pending' = [pending EXCEPT ![c] = "waiting"]
    /\ Say(c, "awaiting_signature")
    /\ UNCHANGED <<outside, age, due, errors, restarts>>

\* Mutant: the two hours begin anew with every pass of the loop.
TickRestartingTheTimeout(c) ==
    /\ flow[c] = "waiting"
    /\ c \notin due
    /\ age' = [age EXCEPT ![c] = 0]
    /\ due' = due \cup {c}
    /\ UNCHANGED <<outside, flow, pending, events, client, errors, restarts>>

\* A tick that is not read before the next one is dropped. Bound: a poll is
\* answered within a minute.
Tick(c) ==
    /\ flow[c] = "waiting"
    /\ c \notin due
    /\ age[c] < Minutes
    /\ age' = [age EXCEPT ![c] = @ + 1]
    /\ due' = due \cup {c}
    /\ UNCHANGED <<outside, flow, pending, events, client, errors, restarts>>

Signed(c) ==
    /\ flow' = [flow EXCEPT ![c] = "signed"]
    /\ Say(c, "signed")
    /\ UNCHANGED pending

\* Mutant: the registration stays.
EndRegistered(c, message) ==
    /\ flow' = [flow EXCEPT ![c] = "ended"]
    /\ Say(c, message)
    /\ UNCHANGED pending

\* The goroutine reports the outcome and ends; the deferred Remove runs.
End(c, message) ==
    /\ flow' = [flow EXCEPT ![c] = "ended"]
    /\ pending' = [pending EXCEPT ![c] = "none"]
    /\ Say(c, message)

Signalled(c) ==
    /\ flow[c] = "waiting"
    /\ pending[c] = "signed"
    /\ Signed(c)
    /\ UNCHANGED <<outside, age, due, errors, restarts>>

\* Mutant: a completed case is left to the webhook.
PollForRefusal(c) ==
    /\ flow[c] = "waiting"
    /\ c \in due
    /\ due' = due \ {c}
    /\ \/ penneo[c] \in {"pending", "signed"} /\ UNCHANGED <<flow, pending, events, client>>
       \/ penneo[c] \in {"rejected", "deleted", "expired"} /\ End(c, penneo[c])
    /\ UNCHANGED <<outside, age, errors, restarts>>

\* Mutant: after a refusal the goroutine goes on as if the case were signed.
PollFallingThrough(c) ==
    /\ flow[c] = "waiting"
    /\ c \in due
    /\ due' = due \ {c}
    /\ \/ penneo[c] = "pending" /\ UNCHANGED <<flow, pending, events, client>>
       \/ penneo[c] \in {"signed", "rejected"} /\ Signed(c)
       \/ penneo[c] \in {"deleted", "expired"} /\ End(c, penneo[c])
    /\ UNCHANGED <<outside, age, errors, restarts>>

Poll(c) ==
    /\ flow[c] = "waiting"
    /\ c \in due
    /\ due' = due \ {c}
    /\ \/ penneo[c] = "pending" /\ UNCHANGED <<flow, pending, events, client>>
       \/ penneo[c] = "signed" /\ Signed(c)
       \/ penneo[c] \in {"rejected", "deleted", "expired"} /\ End(c, penneo[c])
    /\ UNCHANGED <<outside, age, errors, restarts>>

PollFails(c) ==
    /\ flow[c] = "waiting"
    /\ c \in due
    /\ errors < MaxErrors
    /\ errors' = errors + 1
    /\ due' = due \ {c}
    /\ UNCHANGED <<outside, flow, pending, age, events, client, restarts>>

Timeout(c) ==
    /\ flow[c] = "waiting"
    /\ age[c] = Minutes
    /\ End(c, "timeout")
    /\ UNCHANGED <<outside, age, due, errors, restarts>>

\* The status is not looked at again, only the documents.
FetchDocuments(c) ==
    /\ flow[c] = "signed"
    /\ \/ flow' = [flow EXCEPT ![c] = "fetched"] /\ UNCHANGED <<pending, events, client>>
       \/ End(c, "error")
    /\ UNCHANGED <<outside, age, due, errors, restarts>>

getSignedDocument(c) ==
    /\ flow[c] = "fetched"
    /\ \/ End(c, "completed")
       \/ End(c, "error")
    /\ UNCHANGED <<outside, age, due, errors, restarts>>

----------------------------------------------------------------------------
\* Penneo, the webhook and the server.

Decide(c) ==
    /\ penneo[c] = "pending"
    /\ \/ /\ penneo' = [penneo EXCEPT ![c] = "signed"]
          /\ webhooks' = webhooks \cup {c}
          /\ signedAt' = [signedAt EXCEPT ![c] = age[c]]
       \/ /\ \E d \in {"rejected", "deleted", "expired"} :
                penneo' = [penneo EXCEPT ![c] = d]
          /\ UNCHANGED <<webhooks, signedAt>>
    /\ UNCHANGED <<flow, waiting, events, client, errors, restarts>>

\* SignalSigned: nothing happens when no goroutine is registered.
SignalSigned(c) == IF pending[c] = "none" THEN pending
                   ELSE [pending EXCEPT ![c] = "signed"]

PenneoWebhook(c) ==
    /\ c \in webhooks
    /\ pending' = SignalSigned(c)
    /\ webhooks' \in {webhooks, webhooks \ {c}}
    /\ UNCHANGED <<penneo, signedAt, flow, age, due, events, client, errors, restarts>>

LoseWebhook(c) ==
    /\ c \in webhooks
    /\ webhooks' = webhooks \ {c}
    /\ UNCHANGED <<penneo, signedAt, flow, waiting, events, client, errors, restarts>>

\* The registry, the goroutines and the listeners are only in memory.
Restart ==
    /\ restarts < MaxRestarts
    /\ restarts' = restarts + 1
    /\ flow' = [c \in Cases |->
                  IF flow[c] \in {"new", "refused", "ended"} THEN flow[c] ELSE "lost"]
    /\ pending' = [c \in Cases |-> "none"]
    /\ due' = {}
    /\ client' = [b \in Clients |-> NoClient]
    /\ UNCHANGED <<outside, age, events, errors>>

----------------------------------------------------------------------------
Goroutine(c) ==
    \/ Wait(c) \/ Signalled(c) \/ Poll(c) \/ PollFails(c) \/ Timeout(c)
    \/ FetchDocuments(c) \/ getSignedDocument(c)

Next ==
    \/ \E c \in Cases :
         \/ StartPenneoFlow(c) \/ sendCaseFile(c) \/ pollJobStatus(c) \/ StartFails(c)
         \/ Goroutine(c) \/ Tick(c)
         \/ Decide(c) \/ PenneoWebhook(c) \/ LoseWebhook(c)
         \/ \E b \in Clients : Register(b, c)
    \/ \E b \in Clients : Receive(b) \/ Unregister(b)
    \/ Restart

Spec == Init /\ [][Next]_vars

\* The ticker ticks, and a goroutine that can run runs: its calls of Penneo are
\* answered or fail.
FairSpec ==
    Spec /\ \A c \in Cases : WF_vars(Tick(c)) /\ WF_vars(Goroutine(c))

----------------------------------------------------------------------------
Processing == {"waiting", "signed", "fetched"}

\* The registry knows the goroutines that still wait or process a case and no
\* other, however they end and whatever webhooks come late, twice or after a
\* restart (pendingRegistry; "defer pending.Remove").
RegistryMatchesFlows ==
    \A c \in Cases : pending[c] # "none" <=> flow[c] \in Processing

\* A listener misses no message that was sent after it came and gets them in
\* order: the channel never fills, so the default of the select in Notify is
\* never taken.
NoEventLost ==
    \A b \in Clients : client[b] # NoClient =>
        client[b].seen \o client[b].channel =
            SubSeq(events[client[b].case], client[b].joined + 1,
                   Len(events[client[b].case]))

Said(c, message) == \E i \in 1..Len(events[c]) : events[c][i] = message

\* "Fallback poll -- covers missed webhooks": a case is not given up for lack of
\* time when it was signed more than a minute before, unless a poll failed.
TimeoutMeansUnsigned ==
    \A c \in Cases : Said(c, "timeout") =>
        \/ penneo[c] # "signed"
        \/ signedAt[c] >= Minutes - 1
        \/ errors > 0

\* No wait lasts for ever, not even when polls fail and webhooks are lost
\* (waitForSigningAndProcess).
EveryWaitEnds ==
    \A c \in Cases : flow[c] = "waiting" ~> flow[c] \in {"ended", "lost"}

\* What the goroutine has told about a case is its outcome.
Last(s) == s[Len(s)]
Outcome == [c \in Cases |->
    IF flow[c] = "lost" THEN "lost"
    ELSE IF flow[c] = "ended" THEN Last(events[c]) ELSE "open"]

Promise == INSTANCE SigningOutcome WITH outcome <- Outcome

\* A case gets one final outcome, and "completed" or a refusal only when Penneo
\* has decided so: neither a webhook nor a poll is misread, and the end of the
\* wait does not fall through to the processing of a signed case.
ImplementsOutcome == Promise!Spec
=============================================================================
