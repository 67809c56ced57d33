--------------------------- MODULE DeliveryWorker ---------------------------
(***************************************************************************)
(* The service around the orchestrator: the worker loop                    *)
(* (internal/worker/worker.go), its RabbitMQ connection                    *)
(* (internal/broker/broker.go) and the life of the process (cmd/main.go),  *)
(* against a queue with manual acknowledgement, prefetch, requeue and a    *)
(* dead-letter queue.                                                      *)
(*                                                                         *)
(* The broker is external and modelled from the calls the code makes: a    *)
(* message that is not acknowledged goes back to the queue when the        *)
(* channel it was delivered on closes, Nack with requeue puts it back,     *)
(* Nack without requeue dead-letters it, and an acknowledgement on a       *)
(* closed channel has no effect.                                           *)
(*                                                                         *)
(* The consumer has a channel of its own and every publish opens another,  *)
(* so link[p] distinguishes a worker that has lost only its consumer       *)
(* ("deaf": it can still publish) from one that has lost its connection.   *)
(* There is no code that reconnects.                                       *)
(***************************************************************************)
EXTENDS Orchestrator, FiniteSets

CONSTANTS
    Msgs,         \* messages producers put on the bus
    Body,         \* message -> request body
    NoMsg,        \* what an idle worker holds
    Prefetch,     \* Broker.PrefetchCount
    MaxFaults     \* bound: lost links, failed publishes and crashes together

ASSUME WorkerAssumption ==
    /\ NoMsg \notin Msgs
    /\ Body \in [Msgs -> Requests]
    /\ IsFiniteSet(Msgs)
    /\ Prefetch \in Nat \ {0}
    /\ MaxFaults \in Nat

VARIABLES
    phase,        \* process: "connecting", "up", "cancelled", "gone"
    link,         \* "open", "deaf" (no consumer channel), "closed"
    cur,          \* message the worker is handling
    buffer,       \* messages in the client's deliveries channel
    unacked,      \* broker: delivered to this consumer, not settled
    fresh,        \* messages not yet published by their producer
    ready,        \* broker: message.delivery.requests
    dlq,          \* broker: message.delivery.requests.dlq
    retired,      \* broker: acknowledged
    results,      \* message -> results routed to the results exchange
    faults

brokerVars == <<fresh, ready, dlq, retired>>
procVars == <<phase, link, cur, buffer, unacked>>
vars == <<orchVars, procVars, brokerVars, results, faults>>

Running(p) == phase[p] \in {"up", "cancelled"}
Cancelled(p) == phase[p] = "cancelled"
Valid(m) == DecodeRequest(Body[m])

Init ==
    /\ OrchInit
    /\ phase = [p \in Procs |-> "connecting"]
    /\ link = [p \in Procs |-> "closed"]
    /\ cur = [p \in Procs |-> NoMsg]
    /\ buffer = [p \in Procs |-> {}]
    /\ unacked = [p \in Procs |-> {}]
    /\ fresh = Msgs
    /\ ready = {} /\ dlq = {} /\ retired = {}
    /\ results = [m \in Msgs |-> {}]
    /\ faults = 0

-----------------------------------------------------------------------------
(* The broker *)

Produce(m) ==
    /\ m \in fresh
    /\ fresh' = fresh \ {m}
    /\ ready' = ready \cup {m}
    /\ UNCHANGED <<orchVars, procVars, dlq, retired, results, faults>>

\* Mutant of Deliver: the consumer is registered with autoAck.
DeliverAutoAck(p, m) ==
    /\ link[p] = "open"
    /\ m \in ready
    /\ ready' = ready \ {m}
    /\ buffer' = [buffer EXCEPT ![p] = @ \cup {m}]
    /\ UNCHANGED <<orchVars, phase, link, cur, unacked, fresh, dlq, retired, results, faults>>

Deliver(p, m) ==
    /\ link[p] = "open"
    /\ m \in ready
    /\ Cardinality(unacked[p]) < Prefetch
    /\ ready' = ready \ {m}
    /\ unacked' = [unacked EXCEPT ![p] = @ \cup {m}]
    /\ buffer' = [buffer EXCEPT ![p] = @ \cup {m}]
    /\ UNCHANGED <<orchVars, phase, link, cur, fresh, dlq, retired, results, faults>>

\* The consumer channel is gone: what was not settled goes back to the queue,
\* what the client had already received stays in its buffer.
Unlink(p, next) ==
    /\ link' = [link EXCEPT ![p] = next]
    /\ ready' = ready \cup unacked[p]
    /\ unacked' = [unacked EXCEPT ![p] = {}]
    /\ UNCHANGED <<fresh, dlq, retired>>

Fault == faults < MaxFaults /\ faults' = faults + 1

\* The broker, the network or the client library closes the consumer channel
\* ("deaf") or the whole connection ("closed").
LoseLink(p) ==
    /\ Running(p)
    /\ Fault
    /\ \E next \in {"deaf", "closed"} :
          /\ link[p] = "open" \/ (link[p] = "deaf" /\ next = "closed")
          /\ Unlink(p, next)
    /\ UNCHANGED <<orchVars, phase, cur, buffer, results>>

-----------------------------------------------------------------------------
(* The life of a process *)

\* connectBroker: Connect, Setup and Consume have all succeeded.
ConnectBroker(p) ==
    /\ phase[p] = "connecting"
    /\ phase' = [phase EXCEPT ![p] = "up"]
    /\ link' = [link EXCEPT ![p] = "open"]
    /\ UNCHANGED <<orchVars, cur, buffer, unacked, brokerVars, results, faults>>

\* SIGTERM or SIGINT: the context ends.  A connectBroker that keeps failing gives
\* up; a signal during an attempt that succeeds is one after ConnectBroker.
Signal(p) ==
    /\ \/ /\ phase[p] = "up"
          /\ phase' = [phase EXCEPT ![p] = "cancelled"]
          /\ UNCHANGED orchVars
       \/ /\ phase[p] = "connecting"
          /\ phase' = [phase EXCEPT ![p] = "gone"]
          /\ Stop(p)
    /\ UNCHANGED <<link, cur, buffer, unacked, brokerVars, results, faults>>

\* After the HTTP server main runs its deferred calls, closeConsumer and then
\* Broker.Close, without waiting for the worker.
CloseLink(p) ==
    /\ Cancelled(p)
    /\ link[p] # "closed"
    /\ Unlink(p, IF link[p] = "open" THEN "deaf" ELSE "closed")
    /\ UNCHANGED <<orchVars, phase, cur, buffer, results, faults>>

\* The process is no more, and neither are its worker and its buffer.
Vanish(p) ==
    /\ phase' = [phase EXCEPT ![p] = "gone"]
    /\ cur' = [cur EXCEPT ![p] = NoMsg]
    /\ buffer' = [buffer EXCEPT ![p] = {}]
    /\ IF pc[p] = "stopped" THEN UNCHANGED orchVars ELSE Stop(p)

Exit(p) ==
    /\ Cancelled(p)
    /\ link[p] = "closed"
    /\ Vanish(p)
    /\ UNCHANGED <<link, unacked, brokerVars, results, faults>>

Crash(p) ==
    /\ Running(p)
    /\ Fault
    /\ Vanish(p)
    /\ Unlink(p, "closed")
    /\ UNCHANGED results

-----------------------------------------------------------------------------
(* The worker loop *)

\* Mutant of SettleWith: multiple is true, so everything delivered so far is
\* settled.
SettleMultiple(p, m, queue, queueNext) ==
    IF link[p] = "open"
    THEN /\ unacked' = [unacked EXCEPT ![p] = {}]
         /\ queueNext = queue \cup unacked[p]
    ELSE /\ UNCHANGED unacked
         /\ queueNext = queue

\* The broker hears an Ack or Nack only on the channel of the delivery.
SettleWith(p, m, queue, queueNext) ==
    IF link[p] = "open"
    THEN /\ unacked' = [unacked EXCEPT ![p] = @ \ {m}]
         /\ queueNext = queue \cup {m}
    ELSE /\ UNCHANGED unacked
         /\ queueNext = queue

\* Run received a delivery.  When both cases of its select are ready it may
\* choose this one, so neither ctx nor a lost link keeps it from doing so.
Receive(p, m) ==
    /\ Running(p)
    /\ pc[p] = "idle"
    /\ m \in buffer[p]
    /\ buffer' = [buffer EXCEPT ![p] = @ \ {m}]

\* DecodeRequest failed: Nack(false, false), the error of which is ignored.
Reject(p, m) ==
    /\ Receive(p, m)
    /\ ~Valid(m)
    /\ SettleWith(p, m, dlq, dlq')
    /\ UNCHANGED <<orchVars, phase, link, cur, fresh, ready, retired, results, faults>>

\* Mutant of Take: the request is requeued before it is handled.
TakeRequeued(p, m) ==
    /\ Receive(p, m)
    /\ Valid(m)
    /\ Handle(p, Body[m])
    /\ SettleWith(p, m, ready, ready')
    /\ cur' = [cur EXCEPT ![p] = m]
    /\ UNCHANGED <<phase, link, fresh, dlq, retired, results, faults>>

Take(p, m) ==
    /\ Receive(p, m)
    /\ Valid(m)
    /\ Handle(p, Body[m])
    /\ cur' = [cur EXCEPT ![p] = m]
    /\ UNCHANGED <<phase, link, unacked, brokerVars, results, faults>>

WalkOn(p) ==
    /\ Running(p)
    /\ Walk(p, Cancelled(p))
    /\ UNCHANGED <<procVars, brokerVars, results, faults>>

Routed(p) == results' = [results EXCEPT ![cur[p]] = @ \cup {answer[p]}]

\* PublishResult returned nil and closing its channel flushed it to the broker.
Publish(p) ==
    /\ Running(p)
    /\ link[p] # "closed"
    /\ PublishReturns(p, TRUE)
    /\ Routed(p)
    /\ UNCHANGED <<procVars, brokerVars, faults>>

\* PublishResult failed: no connection, or the channel could not be opened.
PublishFails(p) ==
    /\ Running(p)
    /\ IF link[p] = "closed" THEN UNCHANGED faults ELSE Fault
    /\ PublishReturns(p, FALSE)
    /\ UNCHANGED <<procVars, brokerVars, results>>

\* PublishResult returned nil but the connection died before the broker had the
\* frame: there are no publisher confirms, and Channel.Close's error is ignored.
\* That the broker refuses the publish itself, and closes only its channel, is not
\* modelled: the exchange is taken to exist and to be writable.
PublishLost(p) ==
    /\ Running(p)
    /\ link[p] # "closed"
    /\ Fault
    /\ PublishReturns(p, TRUE)
    /\ Unlink(p, "closed")
    /\ UNCHANGED <<phase, cur, buffer, results>>

\* Mutant of Ack: Handle's error is ignored.
AckAnyway(p) ==
    /\ Running(p)
    /\ pc[p] \in {"done", "error"}
    /\ SettleWith(p, cur[p], retired, retired')
    /\ cur' = [cur EXCEPT ![p] = NoMsg]
    /\ Return(p)
    /\ UNCHANGED <<phase, link, buffer, fresh, ready, dlq, results, faults>>

\* Mutant of Ack: the request is requeued after it was handled.
AckRequeues(p) ==
    /\ Running(p)
    /\ pc[p] = "done"
    /\ SettleWith(p, cur[p], ready, ready')
    /\ cur' = [cur EXCEPT ![p] = NoMsg]
    /\ Return(p)
    /\ UNCHANGED <<phase, link, buffer, fresh, dlq, retired, results, faults>>

\* Handle returned without an error: Ack(false).
Ack(p) ==
    /\ Running(p)
    /\ pc[p] = "done"
    /\ SettleWith(p, cur[p], retired, retired')
    /\ cur' = [cur EXCEPT ![p] = NoMsg]
    /\ Return(p)
    /\ UNCHANGED <<phase, link, buffer, fresh, ready, dlq, results, faults>>

\* Mutant of NackRequeue: the error is logged and nothing is sent.
NackForgotten(p) ==
    /\ Running(p)
    /\ pc[p] = "error"
    /\ cur' = [cur EXCEPT ![p] = NoMsg]
    /\ Return(p)
    /\ UNCHANGED <<phase, link, buffer, unacked, brokerVars, results, faults>>

\* Handle returned an error: Nack(false, true).
NackRequeue(p) ==
    /\ Running(p)
    /\ pc[p] = "error"
    /\ SettleWith(p, cur[p], ready, ready')
    /\ cur' = [cur EXCEPT ![p] = NoMsg]
    /\ Return(p)
    /\ UNCHANGED <<phase, link, buffer, fresh, dlq, retired, results, faults>>

\* ctx has ended or the deliveries channel is closed.  Only the goroutine ends:
\* without a signal the process stays, healthy to its /health endpoint.
RunEnds(p) ==
    /\ Running(p)
    /\ pc[p] = "idle"
    /\ Cancelled(p) \/ link[p] # "open"
    /\ Stop(p)
    /\ UNCHANGED <<procVars, brokerVars, results, faults>>

Work(p) ==
    \/ \E m \in Msgs : Reject(p, m) \/ Take(p, m)
    \/ WalkOn(p)
    \/ Publish(p) \/ PublishFails(p)
    \/ Ack(p) \/ NackRequeue(p)
    \/ RunEnds(p)

Shutdown(p) == CloseLink(p) \/ Exit(p)

Environment(p) == LoseLink(p) \/ Signal(p) \/ Crash(p) \/ PublishLost(p)

Next ==
    \/ \E m \in Msgs : Produce(m)
    \/ \E p \in Procs :
          \/ ConnectBroker(p)
          \/ \E m \in Msgs : Deliver(p, m)
          \/ Work(p)
          \/ Shutdown(p)
          \/ Environment(p)

Spec == Init /\ [][Next]_vars

(***************************************************************************)
(* The worker goroutine keeps running, the broker pushes what a consumer   *)
(* has room for, connectBroker retries until the broker is up, and main    *)
(* reaches the end of its shutdown, which srv.Shutdown bounds to 10 s.     *)
(***************************************************************************)
FairSpec ==
    /\ Spec
    /\ \A p \in Procs :
          /\ WF_vars(ConnectBroker(p))
          /\ WF_vars(\E m \in Msgs : Deliver(p, m))
          /\ WF_vars(Work(p))
          /\ WF_vars(Shutdown(p))

-----------------------------------------------------------------------------
(* Properties *)

\* Type invariant of the worker, its connection and the queues.
TypeOK ==
    /\ OrchTypeOK
    /\ phase \in [Procs -> {"connecting", "up", "cancelled", "gone"}]
    /\ link \in [Procs -> {"open", "deaf", "closed"}]
    /\ cur \in [Procs -> Msgs \cup {NoMsg}]
    /\ buffer \in [Procs -> SUBSET Msgs]
    /\ unacked \in [Procs -> SUBSET Msgs]
    /\ {fresh, ready, dlq, retired} \subseteq SUBSET Msgs
    /\ results \in [Msgs -> SUBSET Answer]
    /\ faults \in 0..MaxFaults

\* The places a message can be in besides some consumer's unacked set.
Settled(m) == m \in dlq \/ m \in retired
Queued(m) == m \in fresh \/ m \in ready

\* No message is lost or duplicated by the service's use of the broker: through
\* every redelivery, lost link, shutdown and crash a message is in exactly one
\* place, and only a live consumer on an open channel holds any.
Conservation ==
    /\ \A m \in Msgs : Queued(m) \/ Settled(m) \/ \E p \in Procs : m \in unacked[p]
    /\ fresh \cap ready = {} /\ dlq \cap retired = {}
    /\ \A m \in Msgs : ~(Queued(m) /\ Settled(m))
    /\ \A p \in Procs : \A m \in unacked[p] :
          /\ ~Queued(m) /\ ~Settled(m)
          /\ \A q \in Procs \ {p} : m \notin unacked[q]
          /\ link[p] = "open" /\ Running(p)

\* An acknowledged request has a result that reached the results exchange, also
\* when the publish is unconfirmed and the connection dies around it; and only
\* undecodable bodies are dead-lettered (Handle publishes before the worker
\* acks, and publish closes its channel before it returns).
AckedHasResult ==
    /\ \A m \in retired : Valid(m) /\ results[m] # {}
    /\ \A m \in dlq : ~Valid(m)

\* Two workers handle the same message at the same time only if one of them has
\* lost the channel it got the message on.
NoConcurrentHandling ==
    \A p, q \in Procs :
       p # q /\ cur[p] = cur[q] /\ cur[p] # NoMsg => link[p] # "open" \/ link[q] # "open"

\* Nothing has gone wrong and nobody was asked to stop.
Quiet == faults = 0 /\ \A p \in Procs : phase[p] \in {"connecting", "up"}

\* As long as nothing goes wrong no message that was answered is handled again,
\* however many replicas share the queue.  This is about messages, not copies:
\* two messages with one event_id may be sent by two replicas, whose stores know
\* nothing of each other, and a provider may take a message that it does not
\* confirm, all without a fault.
RedeliveryHasCause ==
    [][\A p \in Procs, m \in Msgs :
          Quiet /\ cur[p] # m /\ cur'[p] = m => results[m] = {}]_vars

-----------------------------------------------------------------------------
(* Refinement *)

LedgerState(m) ==
    CASE m \in fresh -> "fresh"
      [] m \in retired -> "settled"
      [] m \in dlq -> "dead"
      [] OTHER -> "queued"

LedgerAnswers(m) == {a.status : a \in results[m]}
LedgerAccepted == {e \in EventIds : \E p \in Procs : accepts[p][e] > 0}
LedgerEvent(m) == Body[m].event_id

Ledger == INSTANCE RequestLedger WITH
    Requested <- {m \in Msgs : Valid(m)},
    EventOf <- LedgerEvent,
    state <- [m \in Msgs |-> LedgerState(m)],
    answers <- [m \in Msgs |-> LedgerAnswers(m)],
    accepted <- LedgerAccepted

\* The service keeps the promise of RequestLedger under every interleaving of
\* its incarnations, faults and shutdowns.
KeepsLedger == Ledger!Spec

\* Nobody consumes the queue any more: every incarnation has exited or is a
\* process without a consumer, which nothing in the code brings back.
Unattended == \A p \in Procs : phase[p] # "connecting" /\ link[p] # "open"

\* A published message is acknowledged or dead-lettered in the end, unless the
\* service is left unattended: no sequence of shutdowns, requeues and finitely
\* many faults leaves it stuck while somebody consumes.
EventuallySettled ==
    \A m \in Msgs : m \in ready ~> (m \in retired \cup dlq \/ Unattended)
=============================================================================
