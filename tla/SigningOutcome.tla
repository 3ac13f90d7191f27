--------------------------- MODULE SigningOutcome ---------------------------
(***************************************************************************)
(* What the signing flow promises: a case that was sent to its signer gets *)
(* one outcome, the outcome is what happened to it at Penneo (or that the  *)
(* program gave up), and it is final.                                      *)
(***************************************************************************)
CONSTANTS Cases

VARIABLES
    penneo, \* per case, what Penneo has done with it
    outcome \* per case, what the program has made of it

\* What Penneo decides is final.
Decisions == {"signed", "rejected", "deleted", "expired"}

\* The program gives a case up when it waited too long, when a document cannot
\* be fetched, or when it is stopped.
GivenUp == {"timeout", "error", "lost"}

Init ==
    /\ penneo = [c \in Cases |-> "absent"]
    /\ outcome = [c \in Cases |-> "open"]

Send(c) ==
    /\ penneo[c] = "absent"
    /\ penneo' = [penneo EXCEPT ![c] = "pending"]
    /\ UNCHANGED outcome

Decide(c) ==
    /\ penneo[c] = "pending"
    /\ \E d \in Decisions : penneo' = [penneo EXCEPT ![c] = d]
    /\ UNCHANGED outcome

\* The case ends with the document, or with the decision that there is none.
Conclude(c) ==
    /\ outcome[c] = "open"
    /\ penneo[c] \in Decisions
    /\ outcome' = [outcome EXCEPT ![c] =
                     IF penneo[c] = "signed" THEN "completed" ELSE penneo[c]]
    /\ UNCHANGED penneo

\* A stop of the program gives up every case that it was working on.
GiveUp(S) ==
    /\ \A c \in S : outcome[c] = "open"
    /\ \E why \in GivenUp :
         outcome' = [c \in Cases |-> IF c \in S THEN why ELSE outcome[c]]
    /\ UNCHANGED penneo

Next ==
    \/ \E c \in Cases : Send(c) \/ Decide(c) \/ Conclude(c)
    \/ \E S \in SUBSET Cases : GiveUp(S)

Spec == Init /\ [][Next]_<<penneo, outcome>>
=============================================================================
