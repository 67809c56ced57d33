---------------------------- MODULE RequestLedger ----------------------------
(***************************************************************************)
(* What the service promises its producers, without processes, queues or   *)
(* providers: every request that was submitted stays queued until it is    *)
(* settled or dead-lettered; it is settled only after an answer was        *)
(* published for it; only a body that is no valid request is dead-lettered;*)
(* and an answer says "sent" only if some provider accepted the event.     *)
(*                                                                         *)
(* The promise is weak where the service is: a request may be answered     *)
(* more than once, even after it is settled (a worker that lost its        *)
(* connection finishes what it was doing), and with different answers.     *)
(***************************************************************************)
CONSTANTS
    Msgs,        \* messages on the bus
    Requested,   \* those of Msgs whose body is a valid request
    EventOf(_)   \* event id of a valid message

VARIABLES
    state,       \* message -> "fresh", "queued", "settled" or "dead"
    answers,     \* message -> statuses of the answers published for it
    accepted     \* events that some provider accepted

vars == <<state, answers, accepted>>

Init ==
    /\ state = [m \in Msgs |-> "fresh"]
    /\ answers = [m \in Msgs |-> {}]
    /\ accepted = {}

Submit(m) ==
    /\ state[m] = "fresh"
    /\ state' = [state EXCEPT ![m] = "queued"]
    /\ UNCHANGED <<answers, accepted>>

\* Handling starts while a request is queued and may outlast its settlement.
Open(m) == m \in Requested /\ state[m] \in {"queued", "settled"}

Accept(m) ==
    /\ Open(m)
    /\ accepted' = accepted \cup {EventOf(m)}
    /\ UNCHANGED <<state, answers>>

Answer(m, status) ==
    /\ Open(m)
    /\ status = "sent" => EventOf(m) \in accepted
    /\ answers' = [answers EXCEPT ![m] = @ \cup {status}]
    /\ UNCHANGED <<state, accepted>>

Settle(m) ==
    /\ m \in Requested
    /\ state[m] = "queued"
    /\ answers[m] # {}
    /\ state' = [state EXCEPT ![m] = "settled"]
    /\ UNCHANGED <<answers, accepted>>

DeadLetter(m) ==
    /\ m \notin Requested
    /\ state[m] = "queued"
    /\ state' = [state EXCEPT ![m] = "dead"]
    /\ UNCHANGED <<answers, accepted>>

Next ==
    \E m \in Msgs :
       \/ Submit(m)
       \/ Accept(m)
       \/ \E status \in {"sent", "undeliverable", "failed"} : Answer(m, status)
       \/ Settle(m)
       \/ DeadLetter(m)

Spec == Init /\ [][Next]_vars
=============================================================================
