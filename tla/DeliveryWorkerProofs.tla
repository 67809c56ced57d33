------------------------ MODULE DeliveryWorkerProofs ------------------------
(***************************************************************************)
(* Safety of the service around the orchestrator, for every number of      *)
(* incarnations, messages, faults and every prefetch.                      *)
(***************************************************************************)
EXTENDS DeliveryWorker, OrchestratorProofs

-----------------------------------------------------------------------------
(* The worker drives the orchestrator as its specification says *)

\* A message the worker does not reject holds a request Handle may be called with.
LEMMA ValidIsDecodable ==
    ASSUME NEW m \in Msgs, Valid(m)
    PROVE  Body[m] \in Decodable
  BY WorkerAssumption DEF Valid, Decodable

\* What any action of the service does to Handle's variables is a step of the
\* orchestrator's machine, or nothing.
LEMMA StepIsOrchStep ==
    ASSUME [Next]_vars
    PROVE  [OrchNext]_orchVars
<1>1. CASE UNCHANGED vars
  BY <1>1 DEF vars
<1>2. CASE \E m \in Msgs : Produce(m)
  BY <1>2 DEF Produce
<1>3. ASSUME NEW p \in Procs,
             \/ ConnectBroker(p) \/ Shutdown(p) \/ Environment(p)
             \/ \E m \in Msgs : Deliver(p, m)
      PROVE  [OrchNext]_orchVars
  <2>1. UNCHANGED orchVars \/ Stop(p) \/ \E ok \in BOOLEAN : PublishReturns(p, ok)
    BY <1>3 DEF ConnectBroker, Shutdown, CloseLink, Exit, Vanish, Environment, LoseLink, Signal,
       Crash, PublishLost, Deliver
  <2> QED BY <2>1 DEF OrchNext, Progress
<1>4. ASSUME NEW p \in Procs, Work(p)
      PROVE  [OrchNext]_orchVars
  <2>1. \/ UNCHANGED orchVars
        \/ \E m \in Msgs : Valid(m) /\ Handle(p, Body[m])
        \/ \E c \in BOOLEAN : Walk(p, c)
        \/ \E ok \in BOOLEAN : PublishReturns(p, ok)
        \/ Return(p)
        \/ Stop(p)
    BY <1>4 DEF Work, Reject, Take, WalkOn, Cancelled, Publish, PublishFails, Ack, NackRequeue,
       RunEnds
  <2>2. \A m \in Msgs : Valid(m) => Body[m] \in Decodable
    BY ValidIsDecodable
  <2> QED BY <2>1, <2>2 DEF OrchNext, Progress
<1> QED BY <1>1, <1>2, <1>3, <1>4 DEF Next

\* The service is an implementation of the orchestrator's specification: the
\* worker, the broker and the process life cycle add no step to Handle.
THEOREM RunsOrchestrator == Spec => OrchSpec
<1>1. Init => OrchInit
  BY DEF Init
<1>2. [Next]_vars => [OrchNext]_orchVars
  BY StepIsOrchStep
<1> QED BY <1>1, <1>2, PTL DEF Spec, OrchSpec

\* So one incarnation reports an event as sent at most once whatever the broker,
\* the network and the operators do.
THEOREM ServiceDeliversOncePerIncarnation == Spec => []OncePerIncarnation
  BY RunsOrchestrator, DeliveredOncePerIncarnation, PTL

-----------------------------------------------------------------------------
(* The inductive invariant of messages and queues *)

\* The part of TypeOK that is not the orchestrator's.
WorkerTypeOK ==
    /\ phase \in [Procs -> {"connecting", "up", "cancelled", "gone"}]
    /\ link \in [Procs -> {"open", "deaf", "closed"}]
    /\ cur \in [Procs -> Msgs \cup {NoMsg}]
    /\ buffer \in [Procs -> SUBSET Msgs]
    /\ unacked \in [Procs -> SUBSET Msgs]
    /\ fresh \subseteq Msgs /\ ready \subseteq Msgs
    /\ dlq \subseteq Msgs /\ retired \subseteq Msgs
    /\ results \in [Msgs -> SUBSET Answer]
    /\ faults \in 0..MaxFaults

\* A worker holds a message exactly while it is in Handle, and then the request
\* it handles is that message's body.
HandlesCur ==
    \A p \in Procs :
       /\ cur[p] = NoMsg <=> pc[p] \in {"idle", "stopped"}
       /\ cur[p] # NoMsg => Valid(cur[p]) /\ req[p] = Body[cur[p]]

\* While its channel is open, what a worker handles or has buffered is what the
\* broker has marked as delivered to it, so its Ack settles the right message.
OwnsWhatItHolds ==
    \A p \in Procs :
       link[p] = "open" =>
          /\ Running(p)
          /\ buffer[p] \subseteq unacked[p]
          /\ cur[p] # NoMsg => cur[p] \in unacked[p] \ buffer[p]

\* Stale or not, what a worker holds was published once.
HoldsNothingFresh ==
    \A p \in Procs : buffer[p] \cap fresh = {} /\ cur[p] \notin fresh

\* The only way to come to an Ack with an open channel is a routed result: a
\* publish that got lost has lost the channel as well.
DoneIsAnswered ==
    \A p \in Procs : pc[p] = "done" /\ link[p] = "open" => results[cur[p]] # {}

\* A process that has not connected yet has nothing to do.
ConnectingIsEmpty ==
    \A p \in Procs : phase[p] = "connecting" => buffer[p] = {} /\ cur[p] = NoMsg

\* What workers hold and have done, as opposed to where the messages are.
HoldInv ==
    /\ HandlesCur
    /\ OwnsWhatItHolds
    /\ HoldsNothingFresh
    /\ ConnectingIsEmpty
    /\ DoneIsAnswered
    /\ AckedHasResult

WInv == WorkerTypeOK /\ Conservation /\ HoldInv

-----------------------------------------------------------------------------
(* What the actions of the orchestrator do to the worker's view of a request *)

\* Handle leaves the worker inside a walk or with a result to publish.
LEMMA HandleEffect ==
    ASSUME NEW p \in Procs, NEW r, Handle(p, r)
    PROVE  /\ pc[p] = "idle"
           /\ req' = [req EXCEPT ![p] = r]
           /\ \E next \in {"walk", "publish"} : pc' = [pc EXCEPT ![p] = next]
  BY DEF Handle, HandleDuplicate, HandleAborts, HandleBegins, Reply

\* A turn of the provider loop stays with its request, and ends in the loop or
\* with a result to publish.
LEMMA WalkEffect ==
    ASSUME IInv, NEW p \in Procs, NEW c, Walk(p, c)
    PROVE  /\ pc[p] = "walk"
           /\ req' = req
           /\ \E next \in {"walk", "publish"} : pc' = [pc EXCEPT ![p] = next]
<1>1. pc = [pc EXCEPT ![p] = pc[p]]
  BY DEF IInv, OrchTypeOK
<1>2. CASE Refuse(p) \/ Exhausted(p)
  BY <1>2 DEF Refuse, Exhausted, Walking, Reply
<1>3. CASE Skip(p)
  BY <1>1, <1>3 DEF Skip, Walking, NextProvider
<1>4. CASE SendSent(p, c) \/ SendUndeliverable(p, c) \/ SendFailed(p, c)
  BY <1>1, <1>4 DEF SendSent, SendUndeliverable, SendFailed, Walking, NextProvider, Reply,
     RecordSend
<1> QED BY <1>2, <1>3, <1>4 DEF Walk

-----------------------------------------------------------------------------
(* Messages are conserved *)

\* A step that moves no message keeps the messages where they were, as long as
\* no consumer that holds any stops running.
LEMMA StayConserves ==
    ASSUME Conservation, UNCHANGED <<link, unacked, brokerVars>>,
           \A q \in Procs : unacked[q] # {} => Running(q)'
    PROVE  Conservation'
  BY DEF Conservation, brokerVars, Queued, Settled

\* Losing a channel puts back what was not settled on it, and nothing else.
LEMMA UnlinkConserves ==
    ASSUME WorkerTypeOK, Conservation, NEW p \in Procs, NEW next \in {"deaf", "closed"},
           Unlink(p, next), \A q \in Procs \ {p} : phase'[q] = phase[q]
    PROVE  Conservation'
<1>1. /\ unacked' = [unacked EXCEPT ![p] = {}] /\ ready' = ready \cup unacked[p]
      /\ UNCHANGED <<fresh, dlq, retired>>
      /\ \A q \in Procs \ {p} : link'[q] = link[q] /\ unacked'[q] = unacked[q]
      /\ unacked'[p] = {}
  BY DEF Unlink, WorkerTypeOK
<1>2. \A m \in Msgs : Queued(m)' \/ Settled(m)' \/ \E q \in Procs : m \in unacked'[q]
  BY <1>1 DEF Conservation, Queued, Settled
<1>3. fresh' \cap ready' = {} /\ dlq' \cap retired' = {}
  BY <1>1 DEF Conservation, Queued, WorkerTypeOK
<1>4. \A m \in Msgs : ~(Queued(m)' /\ Settled(m)')
  BY <1>1 DEF Conservation, Queued, Settled
<1>5. ASSUME NEW q \in Procs, NEW m \in unacked'[q]
      PROVE  /\ ~Queued(m)' /\ ~Settled(m)'
             /\ \A o \in Procs \ {q} : m \notin unacked'[o]
             /\ link'[q] = "open" /\ Running(q)'
  <2>1. q # p /\ m \in unacked[q]
    BY <1>1, <1>5
  <2> QED BY <1>1, <2>1 DEF Conservation, Queued, Settled, Running
<1> QED BY <1>2, <1>3, <1>4, <1>5 DEF Conservation

\* Settling a message on an open channel moves it from the consumer to one
\* queue; on any other channel nothing moves.
LEMMA SettleConserves ==
    ASSUME WorkerTypeOK, Conservation, NEW p \in Procs, NEW m \in Msgs,
           link[p] = "open" => m \in unacked[p],
           UNCHANGED <<phase, link, fresh>>,
           \/ SettleWith(p, m, ready, ready') /\ UNCHANGED <<dlq, retired>>
           \/ SettleWith(p, m, dlq, dlq') /\ UNCHANGED <<ready, retired>>
           \/ SettleWith(p, m, retired, retired') /\ UNCHANGED <<ready, dlq>>
    PROVE  Conservation'
<1>1. CASE link[p] # "open"
  BY <1>1, StayConserves DEF SettleWith, brokerVars, Conservation, Running
<1>2. CASE link[p] = "open"
  <2>1. /\ m \in unacked[p]
        /\ unacked' = [unacked EXCEPT ![p] = unacked[p] \ {m}]
        /\ \/ ready' = ready \cup {m} /\ UNCHANGED <<dlq, retired>>
           \/ dlq' = dlq \cup {m} /\ UNCHANGED <<ready, retired>>
           \/ retired' = retired \cup {m} /\ UNCHANGED <<ready, dlq>>
    BY <1>2 DEF SettleWith
  <2>2. /\ unacked'[p] = unacked[p] \ {m}
        /\ \A q \in Procs \ {p} : unacked'[q] = unacked[q]
    BY <2>1 DEF WorkerTypeOK
  <2>3. \A n \in Msgs \ {m} : (Queued(n)' <=> Queued(n)) /\ (Settled(n)' <=> Settled(n))
    BY <2>1 DEF Queued, Settled
  <2>4. /\ ~Queued(m) /\ ~Settled(m)
        /\ \A q \in Procs \ {p} : m \notin unacked[q]
    BY <2>1 DEF Conservation
  <2>5. /\ Queued(m)' \/ Settled(m)'
        /\ ~(Queued(m)' /\ Settled(m)')
        /\ \A q \in Procs : m \notin unacked'[q]
    BY <2>1, <2>2, <2>4 DEF Queued, Settled
  <2>6. \A n \in Msgs : Queued(n)' \/ Settled(n)' \/ \E q \in Procs : n \in unacked'[q]
    BY <2>2, <2>3, <2>5 DEF Conservation
  <2>7. fresh' \cap ready' = {} /\ dlq' \cap retired' = {}
    BY <2>1, <2>4 DEF Conservation, Queued, Settled
  <2>8. ASSUME NEW q \in Procs, NEW n \in unacked'[q]
        PROVE  /\ ~Queued(n)' /\ ~Settled(n)'
               /\ \A o \in Procs \ {q} : n \notin unacked'[o]
               /\ link'[q] = "open" /\ Running(q)'
    <3>1. n # m /\ n \in unacked[q] /\ n \in Msgs
      BY <2>2, <2>5, <2>8 DEF WorkerTypeOK
    <3> QED BY <2>2, <2>3, <3>1 DEF Conservation, Running
  <2> QED BY <2>3, <2>5, <2>6, <2>7, <2>8 DEF Conservation
<1> QED BY <1>1, <1>2

\* Publishing a request and delivering it move that one message.
LEMMA ProduceConserves ==
    ASSUME WorkerTypeOK, Conservation, NEW m \in Msgs, Produce(m)
    PROVE  Conservation'
  BY DEF Produce, procVars, WorkerTypeOK, Conservation, Queued, Settled, Running

\* Delivering moves the message from the queue to one consumer.
LEMMA DeliverConserves ==
    ASSUME WorkerTypeOK, Conservation, NEW p \in Procs, NEW m \in Msgs,
           Deliver(p, m), Running(p)
    PROVE  Conservation'
<1>1. /\ unacked'[p] = unacked[p] \cup {m} /\ ready' = ready \ {m} /\ m \in ready
      /\ \A q \in Procs \ {p} : unacked'[q] = unacked[q]
      /\ UNCHANGED <<phase, link, fresh, dlq, retired>> /\ link[p] = "open"
  BY DEF Deliver, WorkerTypeOK
<1>2. ~Settled(m) /\ m \notin fresh /\ \A q \in Procs : m \notin unacked[q]
  BY <1>1 DEF Conservation, Queued
<1>3. \A n \in Msgs : Queued(n)' \/ Settled(n)' \/ \E q \in Procs : n \in unacked'[q]
  BY <1>1 DEF Conservation, Queued, Settled
<1>4. /\ fresh' \cap ready' = {} /\ dlq' \cap retired' = {}
      /\ \A n \in Msgs : ~(Queued(n)' /\ Settled(n)')
  BY <1>1 DEF Conservation, Queued, Settled
<1>5. ASSUME NEW q \in Procs, NEW n \in unacked'[q]
      PROVE  /\ ~Queued(n)' /\ ~Settled(n)'
             /\ \A o \in Procs \ {q} : n \notin unacked'[o]
             /\ link'[q] = "open" /\ Running(q)'
  <2>1. CASE n = m
    BY <1>1, <1>2, <1>5, <2>1 DEF Queued, Settled, Running
  <2>2. CASE n # m
    BY <1>1, <1>5, <2>2 DEF Conservation, Queued, Settled, Running
  <2> QED BY <2>1, <2>2
<1> QED BY <1>3, <1>4, <1>5 DEF Conservation

-----------------------------------------------------------------------------
(* Every step preserves what is known of the workers *)

\* The broker hands out messages that nobody holds and that were published.
LEMMA ProduceHolds ==
    ASSUME WInv, NEW m \in Msgs, Produce(m)
    PROVE  WorkerTypeOK' /\ HoldInv'
<1>1. WorkerTypeOK'
  BY DEF Produce, procVars, WInv, WorkerTypeOK
<1>2. HoldInv'
  BY DEF Produce, procVars, orchVars, WInv, HoldInv, HandlesCur, OwnsWhatItHolds,
     HoldsNothingFresh, ConnectingIsEmpty, DoneIsAnswered, AckedHasResult, Running
<1> QED BY <1>1, <1>2

\* A message that is delivered was published and is in nobody's hands.
LEMMA DeliverHolds ==
    ASSUME WInv, NEW p \in Procs, NEW m \in Msgs, Deliver(p, m)
    PROVE  WorkerTypeOK' /\ HoldInv' /\ Running(p)
<1>1. WorkerTypeOK' /\ Running(p)
  BY DEF Deliver, WInv, HoldInv, WorkerTypeOK, OwnsWhatItHolds
<1>2. /\ buffer'[p] = buffer[p] \cup {m} /\ unacked'[p] = unacked[p] \cup {m}
      /\ \A q \in Procs \ {p} : buffer'[q] = buffer[q] /\ unacked'[q] = unacked[q]
      /\ UNCHANGED <<pc, req, phase, link, cur, fresh, dlq, retired, results>>
      /\ m \notin fresh /\ m \notin unacked[p] /\ phase[p] # "connecting"
  BY <1>1 DEF Deliver, orchVars, WInv, WorkerTypeOK, Conservation, Queued, Running
<1>3. HandlesCur' /\ HoldsNothingFresh' /\ ConnectingIsEmpty' /\ DoneIsAnswered'
      /\ AckedHasResult'
  BY <1>2 DEF WInv, HoldInv, HandlesCur, HoldsNothingFresh, ConnectingIsEmpty, DoneIsAnswered,
     AckedHasResult
<1>4. OwnsWhatItHolds'
  BY <1>2 DEF WInv, HoldInv, OwnsWhatItHolds, Running
<1> QED BY <1>1, <1>3, <1>4 DEF HoldInv

\* Losing a channel, closing it in the shutdown and connecting change no more
\* than the link, the queue and the set of unsettled messages.
LEMMA LinkHolds ==
    ASSUME WInv, NEW p \in Procs, LoseLink(p) \/ CloseLink(p) \/ ConnectBroker(p)
    PROVE  WorkerTypeOK' /\ HoldInv'
<1>1. CASE LoseLink(p) \/ CloseLink(p)
  <2>1. /\ \E next \in {"deaf", "closed"} : Unlink(p, next)
        /\ UNCHANGED <<orchVars, phase, cur, buffer, results>>
        /\ faults' \in 0..MaxFaults
    BY <1>1, WorkerAssumption DEF LoseLink, CloseLink, Fault, WInv, WorkerTypeOK
  <2>2. WorkerTypeOK' /\ link'[p] # "open" /\ \A q \in Procs \ {p} :
           link'[q] = link[q] /\ unacked'[q] = unacked[q]
    BY <2>1 DEF Unlink, WInv, WorkerTypeOK
  <2>3. UNCHANGED <<pc, req, phase, cur, buffer, fresh, dlq, retired, results>>
    BY <2>1 DEF Unlink, orchVars
  <2>4. HoldInv'
    BY <2>2, <2>3 DEF WInv, HoldInv, HandlesCur, OwnsWhatItHolds, HoldsNothingFresh,
       ConnectingIsEmpty, DoneIsAnswered, AckedHasResult, Running
  <2> QED BY <2>2, <2>4
<1>2. CASE ConnectBroker(p)
  <2>1. WorkerTypeOK'
    BY <1>2 DEF ConnectBroker, brokerVars, WInv, WorkerTypeOK
  <2>2. /\ cur[p] = NoMsg /\ buffer[p] = {} /\ pc[p] # "done"
        /\ phase' = [phase EXCEPT ![p] = "up"] /\ link' = [link EXCEPT ![p] = "open"]
        /\ UNCHANGED <<pc, req, cur, buffer, unacked, fresh, dlq, retired, results>>
    BY <1>2 DEF ConnectBroker, orchVars, brokerVars, WInv, HoldInv, ConnectingIsEmpty,
       HandlesCur
  <2>3. HoldInv'
    BY <2>2 DEF WInv, WorkerTypeOK, HoldInv, HandlesCur, OwnsWhatItHolds, HoldsNothingFresh,
       ConnectingIsEmpty, DoneIsAnswered, AckedHasResult, Running
  <2> QED BY <2>1, <2>3
<1> QED BY <1>1, <1>2

\* A worker or a process that ends holds nothing afterwards.
LEMMA EndHolds ==
    ASSUME WInv, IInv, NEW p \in Procs, Signal(p) \/ Exit(p) \/ Crash(p) \/ RunEnds(p)
    PROVE  WorkerTypeOK' /\ HoldInv'
<1>1. CASE Signal(p) /\ phase[p] = "up"
  <2>1. WorkerTypeOK'
    BY <1>1 DEF Signal, brokerVars, WInv, WorkerTypeOK
  <2>2. /\ phase' = [phase EXCEPT ![p] = "cancelled"]
        /\ UNCHANGED <<pc, req, link, cur, buffer, unacked, fresh, dlq, retired, results>>
    BY <1>1 DEF Signal, brokerVars, orchVars
  <2>3. HoldInv'
    BY <1>1, <2>2 DEF WInv, WorkerTypeOK, HoldInv, HandlesCur, OwnsWhatItHolds,
       HoldsNothingFresh, ConnectingIsEmpty, DoneIsAnswered, AckedHasResult, Running
  <2> QED BY <2>1, <2>3
<1>2. CASE ~(Signal(p) /\ phase[p] = "up")
  <2>1. /\ phase'[p] \in {"up", "cancelled", "gone"}
        /\ phase' = [phase EXCEPT ![p] = phase'[p]]
        /\ cur' = [cur EXCEPT ![p] = NoMsg]
        /\ buffer' = [buffer EXCEPT ![p] = buffer'[p]]
        /\ buffer'[p] = {} \/ (buffer'[p] = buffer[p] /\ pc[p] = "idle" /\ phase'[p] = phase[p])
        /\ link' = [link EXCEPT ![p] = link'[p]] /\ link'[p] \in {link[p], "closed"}
        /\ link'[p] = "open" => unacked'[p] = unacked[p] /\ phase'[p] = phase[p] /\ pc[p] = "idle"
        /\ \A q \in Procs \ {p} : unacked'[q] = unacked[q]
        /\ WorkerTypeOK'
        /\ UNCHANGED <<fresh, dlq, retired, results>>
    <3>1. CASE Signal(p)
      <4>1. phase[p] = "connecting" /\ phase' = [phase EXCEPT ![p] = "gone"]
            /\ UNCHANGED <<link, cur, buffer, unacked, brokerVars, results, faults>>
        BY <1>2, <3>1 DEF Signal
      <4>2. cur[p] = NoMsg /\ buffer[p] = {} /\ link[p] # "open"
        BY <4>1 DEF WInv, HoldInv, ConnectingIsEmpty, OwnsWhatItHolds, Running
      <4> QED BY <4>1, <4>2 DEF brokerVars, WInv, WorkerTypeOK
    <3>2. CASE Exit(p)
      BY <3>2 DEF Exit, Vanish, brokerVars, WInv, WorkerTypeOK
    <3>3. CASE Crash(p)
      BY <3>3, WorkerAssumption DEF Crash, Vanish, Unlink, Fault, WInv, WorkerTypeOK
    <3>4. CASE RunEnds(p)
      <4>1. pc[p] = "idle" /\ cur[p] = NoMsg /\ Running(p)
            /\ UNCHANGED <<procVars, brokerVars, results, faults>>
        BY <3>4 DEF RunEnds, WInv, HoldInv, HandlesCur
      <4> QED BY <4>1 DEF procVars, brokerVars, Running, WInv, WorkerTypeOK
    <3> QED BY <3>1, <3>2, <3>3, <3>4
  <2>2. pc'[p] = "stopped" /\ \A q \in Procs \ {p} : pc'[q] = pc[q] /\ req'[q] = req[q]
    BY <1>2 DEF Signal, Exit, Crash, RunEnds, Vanish, Stop, Forget, orchVars, IInv, OrchTypeOK
  <2>3. /\ \A q \in Procs \ {p} : /\ phase'[q] = phase[q] /\ link'[q] = link[q]
                                   /\ cur'[q] = cur[q] /\ buffer'[q] = buffer[q]
        /\ cur'[p] = NoMsg
    BY <2>1 DEF WInv, WorkerTypeOK
  <2>4. HandlesCur' /\ ConnectingIsEmpty' /\ DoneIsAnswered' /\ AckedHasResult'
    <3>1. HandlesCur'
      BY <2>2, <2>3 DEF WInv, HoldInv, HandlesCur
    <3>2. ConnectingIsEmpty'
      BY <2>1, <2>3 DEF WInv, HoldInv, ConnectingIsEmpty
    <3>3. DoneIsAnswered'
      BY <2>1, <2>2, <2>3 DEF WInv, HoldInv, DoneIsAnswered
    <3>4. AckedHasResult'
      BY <2>1 DEF WInv, HoldInv, AckedHasResult
    <3> QED BY <3>1, <3>2, <3>3, <3>4
  <2>5. HoldsNothingFresh'
    <3>1. NoMsg \notin fresh
      BY WorkerAssumption DEF WInv, WorkerTypeOK
    <3> QED BY <2>1, <2>3, <3>1 DEF WInv, HoldInv, HoldsNothingFresh
  <2>6. OwnsWhatItHolds'
    BY <2>1, <2>3 DEF WInv, HoldInv, OwnsWhatItHolds, Running
  <2> QED BY <2>1, <2>4, <2>5, <2>6 DEF HoldInv
<1> QED BY <1>1, <1>2

\* Receiving a delivery moves it from the buffer into the worker's hands.
LEMMA ReceiveHolds ==
    ASSUME WInv, IInv, NEW p \in Procs, NEW m \in Msgs, Take(p, m) \/ Reject(p, m)
    PROVE  WorkerTypeOK' /\ HoldInv'
<1>1. /\ pc[p] = "idle" /\ cur[p] = NoMsg /\ Running(p) /\ m \in buffer[p] /\ m # NoMsg
      /\ buffer' = [buffer EXCEPT ![p] = buffer[p] \ {m}]
      /\ link[p] = "open" => m \in unacked[p]
      /\ m \notin fresh
  BY WorkerAssumption DEF Take, Reject, Receive, WInv, HoldInv, HandlesCur, OwnsWhatItHolds,
     HoldsNothingFresh
<1>2. CASE Take(p, m)
  <2>1. PICK next \in {"walk", "publish"} :
           pc' = [pc EXCEPT ![p] = next] /\ req' = [req EXCEPT ![p] = Body[m]]
    BY <1>2, HandleEffect DEF Take
  <2>2. /\ cur' = [cur EXCEPT ![p] = m] /\ Valid(m)
        /\ UNCHANGED <<phase, link, unacked, brokerVars, results, faults>>
    BY <1>2 DEF Take
  <2>3. WorkerTypeOK'
    BY <1>1, <2>2 DEF brokerVars, WInv, WorkerTypeOK
  <2>4. HandlesCur' /\ DoneIsAnswered'
    BY <1>1, <2>1, <2>2 DEF WInv, WorkerTypeOK, IInv, OrchTypeOK, HoldInv, HandlesCur,
       DoneIsAnswered
  <2>5. OwnsWhatItHolds' /\ HoldsNothingFresh' /\ ConnectingIsEmpty' /\ AckedHasResult'
    BY <1>1, <2>2 DEF brokerVars, WInv, WorkerTypeOK, HoldInv, OwnsWhatItHolds,
       HoldsNothingFresh, ConnectingIsEmpty, AckedHasResult, Running
  <2> QED BY <2>3, <2>4, <2>5 DEF HoldInv
<1>3. CASE Reject(p, m)
  <2>1. /\ SettleWith(p, m, dlq, dlq') /\ ~Valid(m)
        /\ UNCHANGED <<orchVars, phase, link, cur, fresh, ready, retired, results, faults>>
    BY <1>3 DEF Reject
  <2>2. WorkerTypeOK' /\ dlq' \subseteq dlq \cup {m}
    BY <1>1, <2>1 DEF SettleWith, WInv, WorkerTypeOK
  <2>3. /\ \A q \in Procs \ {p} : unacked'[q] = unacked[q] /\ buffer'[q] = buffer[q]
        /\ unacked'[p] \in {unacked[p], unacked[p] \ {m}}
        /\ buffer'[p] = buffer[p] \ {m}
    BY <1>1, <2>1 DEF SettleWith, WInv, WorkerTypeOK
  <2>4. HoldInv'
    BY <1>1, <2>1, <2>2, <2>3 DEF orchVars, WInv, HoldInv, HandlesCur, OwnsWhatItHolds,
       HoldsNothingFresh, ConnectingIsEmpty, DoneIsAnswered, AckedHasResult, Running
  <2> QED BY <2>2, <2>4
<1> QED BY <1>2, <1>3

\* Sending and publishing only add results; a publish that says it succeeded
\* has routed one, or has cost the worker its connection.
LEMMA PublishHolds ==
    ASSUME WInv, IInv, NEW p \in Procs,
           WalkOn(p) \/ Publish(p) \/ PublishFails(p) \/ PublishLost(p)
    PROVE  WorkerTypeOK' /\ HoldInv'
<1>1. CASE WalkOn(p)
  <2>1. pc[p] = "walk" /\ req' = req
        /\ \E next \in {"walk", "publish"} : pc' = [pc EXCEPT ![p] = next]
    BY <1>1, WalkEffect DEF WalkOn
  <2>2. UNCHANGED <<procVars, brokerVars, results, faults>>
    BY <1>1 DEF WalkOn
  <2>3. WorkerTypeOK'
    BY <2>2 DEF procVars, brokerVars, WInv, WorkerTypeOK
  <2>4. HandlesCur' /\ DoneIsAnswered'
    BY <2>1, <2>2 DEF procVars, WInv, IInv, OrchTypeOK, HoldInv, HandlesCur, DoneIsAnswered
  <2>5. OwnsWhatItHolds' /\ HoldsNothingFresh' /\ ConnectingIsEmpty' /\ AckedHasResult'
    BY <2>2 DEF procVars, brokerVars, WInv, HoldInv, OwnsWhatItHolds, HoldsNothingFresh,
       ConnectingIsEmpty, AckedHasResult, Running
  <2> QED BY <2>3, <2>4, <2>5 DEF HoldInv
<1>2. CASE Publish(p) \/ PublishFails(p) \/ PublishLost(p)
  <2>1. PICK ok \in BOOLEAN : /\ PublishReturns(p, ok)
                              /\ ok /\ link'[p] = "open" => results'[cur[p]] # {}
    <3>1. CASE Publish(p)
      <4>1. cur[p] \in Msgs
        BY <3>1 DEF Publish, PublishReturns, WInv, WorkerTypeOK, HoldInv, HandlesCur
      <4> QED BY <3>1, <4>1 DEF Publish, Routed, WInv, WorkerTypeOK
    <3>2. CASE PublishFails(p) \/ PublishLost(p)
      BY <3>2 DEF PublishFails, PublishLost, Unlink, WInv, WorkerTypeOK
    <3> QED BY <1>2, <3>1, <3>2
  <2>2. /\ pc[p] = "publish" /\ pc' = [pc EXCEPT ![p] = pc'[p]] /\ pc'[p] \in {"done", "error"}
        /\ pc'[p] = "done" => ok
        /\ req' = req
    BY <2>1 DEF PublishReturns, IInv, OrchTypeOK
  <2>3. /\ UNCHANGED <<phase, cur, buffer, fresh, dlq, retired>>
        /\ \A q \in Procs \ {p} : link'[q] = link[q] /\ unacked'[q] = unacked[q]
        /\ link'[p] = "open" => link[p] = "open" /\ unacked'[p] = unacked[p]
        /\ \A m \in Msgs : results[m] \subseteq results'[m]
        /\ WorkerTypeOK'
    <3>1. CASE Publish(p)
      <4>1. cur[p] \in Msgs
        BY <2>2 DEF WInv, WorkerTypeOK, HoldInv, HandlesCur
      <4>2. answer[p] \in Answer
        BY DEF IInv, OrchTypeOK
      <4>3. results' = [results EXCEPT ![cur[p]] = results[cur[p]] \cup {answer[p]}]
            /\ UNCHANGED <<procVars, brokerVars, faults>>
        BY <3>1 DEF Publish, Routed
      <4>4. results' \in [Msgs -> SUBSET Answer]
            /\ \A m \in Msgs : results[m] \subseteq results'[m]
        BY <4>1, <4>2, <4>3 DEF WInv, WorkerTypeOK
      <4> QED BY <4>3, <4>4 DEF procVars, brokerVars, WInv, WorkerTypeOK
    <3>2. CASE PublishFails(p)
      BY <3>2, WorkerAssumption DEF PublishFails, Fault, procVars, brokerVars, WInv, WorkerTypeOK
    <3>3. CASE PublishLost(p)
      BY <3>3, WorkerAssumption DEF PublishLost, Unlink, Fault, WInv, WorkerTypeOK
    <3> QED BY <1>2, <3>1, <3>2, <3>3
  <2>4. HandlesCur'
    <3>1. \A q \in Procs : pc'[q] \in {"idle", "stopped"} <=> pc[q] \in {"idle", "stopped"}
      BY <2>2 DEF IInv, OrchTypeOK
    <3> QED BY <2>2, <2>3, <3>1 DEF WInv, HoldInv, HandlesCur
  <2>5. DoneIsAnswered'
    <3>1. ASSUME NEW q \in Procs \ {p}, pc'[q] = "done", link'[q] = "open"
          PROVE  results'[cur'[q]] # {}
      <4>1. pc[q] = "done" /\ link[q] = "open" /\ cur'[q] = cur[q]
        BY <2>2, <2>3, <3>1 DEF IInv, OrchTypeOK
      <4>2. cur[q] \in Msgs /\ results[cur[q]] # {}
        BY <4>1 DEF WInv, WorkerTypeOK, HoldInv, HandlesCur, DoneIsAnswered
      <4> QED BY <2>3, <4>1, <4>2
    <3>2. pc'[p] = "done" /\ link'[p] = "open" => results'[cur'[p]] # {}
      BY <2>1, <2>2, <2>3
    <3> QED BY <3>1, <3>2 DEF DoneIsAnswered
  <2>6. OwnsWhatItHolds'
    BY <2>3 DEF WInv, HoldInv, OwnsWhatItHolds, Running
  <2>7. HoldsNothingFresh' /\ ConnectingIsEmpty'
    BY <2>3 DEF WInv, HoldInv, HoldsNothingFresh, ConnectingIsEmpty
  <2>8. AckedHasResult'
    <3>1. \A m \in retired : m \in Msgs /\ results[m] # {} /\ results[m] \subseteq results'[m]
      BY <2>3 DEF WInv, WorkerTypeOK, HoldInv, AckedHasResult
    <3> QED BY <2>3, <3>1 DEF WInv, HoldInv, AckedHasResult
  <2> QED BY <2>3, <2>4, <2>5, <2>6, <2>7, <2>8 DEF HoldInv
<1> QED BY <1>1, <1>2

\* Ack and Nack empty the worker's hands; an Ack that is heard is for a request
\* whose result was routed.
LEMMA SettleHolds ==
    ASSUME WInv, IInv, NEW p \in Procs, Ack(p) \/ NackRequeue(p)
    PROVE  WorkerTypeOK' /\ HoldInv'
<1>1. /\ pc[p] \in {"done", "error"} /\ cur[p] \in Msgs /\ Valid(cur[p])
      /\ cur' = [cur EXCEPT ![p] = NoMsg]
      /\ pc' = [pc EXCEPT ![p] = "idle"]
      /\ req' = [req EXCEPT ![p] = NoRequest]
      /\ UNCHANGED <<phase, link, buffer, fresh, dlq, results, faults>>
      /\ link[p] = "open" => cur[p] \in unacked[p] \ buffer[p]
  BY DEF Ack, NackRequeue, Return, Forget, WInv, WorkerTypeOK, HoldInv, HandlesCur,
     OwnsWhatItHolds
<1>2. /\ \A q \in Procs \ {p} : unacked'[q] = unacked[q]
      /\ unacked'[p] \in {unacked[p], unacked[p] \ {cur[p]}}
      /\ WorkerTypeOK'
  BY <1>1 DEF Ack, NackRequeue, SettleWith, WInv, WorkerTypeOK
<1>3. \A m \in retired' : m \in retired \/ (Valid(m) /\ results[m] # {})
  BY <1>1 DEF Ack, NackRequeue, SettleWith, WInv, HoldInv, DoneIsAnswered
<1>4. HandlesCur' /\ DoneIsAnswered'
  BY <1>1 DEF WInv, WorkerTypeOK, IInv, OrchTypeOK, HoldInv, HandlesCur, DoneIsAnswered
<1>5. OwnsWhatItHolds' /\ ConnectingIsEmpty' /\ AckedHasResult'
  BY <1>1, <1>2, <1>3 DEF WInv, WorkerTypeOK, HoldInv, OwnsWhatItHolds, ConnectingIsEmpty,
     AckedHasResult, Running
<1>6. HoldsNothingFresh'
  <2>1. NoMsg \notin fresh
    BY WorkerAssumption DEF WInv, WorkerTypeOK
  <2> QED BY <1>1, <2>1 DEF WInv, WorkerTypeOK, HoldInv, HoldsNothingFresh
<1> QED BY <1>2, <1>4, <1>5, <1>6 DEF HoldInv

-----------------------------------------------------------------------------
(* The invariant of the service *)

\* The invariant holds of the initial states: everything is still to be published.
LEMMA InitHolds ==
    ASSUME Init
    PROVE  WInv
<1>1. WorkerTypeOK
  BY WorkerAssumption DEF Init, WorkerTypeOK
<1>2. Conservation
  BY DEF Init, Conservation, Queued, Settled
<1>3. HoldInv
  BY WorkerAssumption DEF Init, OrchInit, HoldInv, HandlesCur, OwnsWhatItHolds,
     HoldsNothingFresh, ConnectingIsEmpty, DoneIsAnswered, AckedHasResult
<1> QED BY <1>1, <1>2, <1>3 DEF WInv

\* Every action keeps the types and loses or duplicates no message.
LEMMA StepConserves ==
    ASSUME WInv, IInv, NEW p \in Procs,
           \/ ConnectBroker(p) \/ Work(p) \/ Shutdown(p) \/ Environment(p)
    PROVE  Conservation'
<1>0. \A q \in Procs : \A m \in unacked[q] : link[q] = "open" /\ Running(q)
  BY DEF WInv, Conservation
<1>1. CASE ConnectBroker(p)
  <2>1. unacked[p] = {} /\ UNCHANGED <<unacked, brokerVars>>
        /\ \A q \in Procs \ {p} : phase'[q] = phase[q] /\ link'[q] = link[q]
    BY <1>0, <1>1 DEF ConnectBroker, Running, WInv, WorkerTypeOK
  <2> QED BY <2>1 DEF WInv, WorkerTypeOK, Conservation, brokerVars, Queued, Settled, Running
<1>2. CASE LoseLink(p) \/ CloseLink(p) \/ PublishLost(p)
  BY <1>2, UnlinkConserves DEF LoseLink, CloseLink, PublishLost, WInv
<1>3. CASE Crash(p)
  BY <1>3, UnlinkConserves DEF Crash, Vanish, WInv, WorkerTypeOK
<1>4. CASE Signal(p) \/ Exit(p)
  <2>1. /\ UNCHANGED <<link, unacked, brokerVars>>
        /\ \A q \in Procs \ {p} : phase'[q] = phase[q]
        /\ unacked[p] # {} => Running(p)'
    BY <1>0, <1>4 DEF Signal, Exit, Vanish, Running, WInv, WorkerTypeOK
  <2>2. \A q \in Procs : unacked[q] # {} => Running(q)'
    BY <1>0, <2>1 DEF Running
  <2> QED BY <2>1, <2>2, StayConserves DEF WInv
<1>5. CASE \E m \in Msgs : Reject(p, m)
  <2>1. PICK m \in Msgs : Reject(p, m)
    BY <1>5
  <2>2. link[p] = "open" => m \in unacked[p]
    BY <2>1 DEF Reject, Receive, WInv, HoldInv, OwnsWhatItHolds
  <2>3. SettleWith(p, m, dlq, dlq') /\ UNCHANGED <<phase, link, fresh, ready, retired>>
    BY <2>1 DEF Reject
  <2> QED BY <2>2, <2>3, SettleConserves DEF WInv
<1>6. CASE Ack(p) \/ NackRequeue(p)
  <2>1. cur[p] \in Msgs /\ (link[p] = "open" => cur[p] \in unacked[p])
    BY <1>6 DEF Ack, NackRequeue, WInv, WorkerTypeOK, HoldInv, HandlesCur, OwnsWhatItHolds
  <2> QED BY <1>6, <2>1, SettleConserves DEF Ack, NackRequeue, WInv
<1>7. CASE (\E m \in Msgs : Take(p, m)) \/ WalkOn(p) \/ Publish(p) \/ PublishFails(p) \/ RunEnds(p)
  <2>1. UNCHANGED <<phase, link, unacked, brokerVars>>
    BY <1>7 DEF Take, WalkOn, Publish, PublishFails, RunEnds, procVars
  <2> QED BY <1>0, <2>1, StayConserves DEF Running, WInv
<1> QED BY <1>1, <1>2, <1>3, <1>4, <1>5, <1>6, <1>7 DEF Work, Shutdown, Environment

\* Every step of the service preserves the invariant.
LEMMA StepHolds ==
    ASSUME WInv, IInv, [Next]_vars
    PROVE  WInv'
<1>1. CASE UNCHANGED vars
  BY <1>1 DEF vars, orchVars, procVars, brokerVars, WInv, WorkerTypeOK, Conservation, HoldInv,
     HandlesCur, OwnsWhatItHolds, HoldsNothingFresh, ConnectingIsEmpty, DoneIsAnswered,
     AckedHasResult, Running, Queued, Settled
<1>2. ASSUME NEW m \in Msgs, Produce(m) PROVE WInv'
  BY <1>2, ProduceHolds, ProduceConserves DEF WInv
<1>3. ASSUME NEW p \in Procs, NEW m \in Msgs, Deliver(p, m) PROVE WInv'
  BY <1>3, DeliverHolds, DeliverConserves DEF WInv
<1>4. ASSUME NEW p \in Procs, ConnectBroker(p) \/ Work(p) \/ Shutdown(p) \/ Environment(p)
      PROVE  WInv'
  <2>1. Conservation'
    BY <1>4, StepConserves
  <2>2. WorkerTypeOK' /\ HoldInv'
    BY <1>4, LinkHolds, EndHolds, ReceiveHolds, PublishHolds, SettleHolds
       DEF Work, Shutdown, Environment
  <2> QED BY <2>1, <2>2 DEF WInv
<1> QED BY <1>1, <1>2, <1>3, <1>4 DEF Next

\* The invariant of the service: messages are conserved and what a worker holds
\* is what it is handling.
THEOREM WorkerInvariance == Spec => []WInv
<1>1. Init => WInv
  BY InitHolds
<1>2. WInv /\ IInv /\ [Next]_vars => WInv'
  BY StepHolds
<1>3. Spec => []IInv
  BY RunsOrchestrator, Invariance, PTL
<1> QED BY <1>1, <1>2, <1>3, PTL DEF Spec

\* Every variable of the worker, its connection and the queues keeps its shape.
THEOREM ServiceTypeCorrect == Spec => []TypeOK
<1>1. IInv /\ WInv => TypeOK
  BY DEF IInv, WInv, WorkerTypeOK, TypeOK
<1> QED BY <1>1, RunsOrchestrator, Invariance, WorkerInvariance, PTL

\* The service loses and duplicates no message of the broker: for any number of
\* replicas, restarts, faults and messages each is in exactly one place.
THEOREM MessagesAreConserved == Spec => []Conservation
  BY WorkerInvariance, PTL DEF WInv

\* Nothing is acknowledged without a result that reached the exchange, and only
\* undecodable bodies are dead-lettered.
THEOREM AcknowledgedIsAnswered == Spec => []AckedHasResult
  BY WorkerInvariance, PTL DEF WInv, HoldInv

\* Two workers with a message in hand at the same time do not both have an open
\* channel: the broker gave it to the second because the first lost its own.
THEOREM HandledByOneConsumer == Spec => []NoConcurrentHandling
<1>1. WInv => NoConcurrentHandling
  <2> SUFFICES ASSUME WInv, NEW p \in Procs, NEW q \in Procs, p # q, cur[p] = cur[q],
                      cur[p] # NoMsg, link[p] = "open", link[q] = "open"
               PROVE  FALSE
    BY DEF NoConcurrentHandling
  <2>1. cur[p] \in unacked[p] /\ cur[p] \in unacked[q]
    BY DEF WInv, HoldInv, OwnsWhatItHolds
  <2> QED BY <2>1 DEF WInv, Conservation
<1> QED BY <1>1, WorkerInvariance, PTL

-----------------------------------------------------------------------------
(***************************************************************************)
(* While nothing goes wrong every consumer keeps its channel, no Handle    *)
(* returns an error, and a message that was answered is acknowledged or in *)
(* the hands of the worker that answered it.                               *)
(***************************************************************************)
QuietInv ==
    Quiet =>
       /\ \A p \in Procs : phase[p] = "up" => link[p] = "open"
       /\ \A p \in Procs : pc[p] \notin {"error", "stopped"}
       /\ \A m \in Msgs : results[m] # {} =>
             m \in retired \/ \E p \in Procs : cur[p] = m /\ pc[p] = "done"

\* Quiet does not come back: faults are counted and no phase is entered twice.
LEMMA QuietBefore ==
    ASSUME WInv, [Next]_vars, Quiet'
    PROVE  Quiet /\ \A p \in Procs : ~Environment(p) /\ ~Shutdown(p)
<1>1. faults \in Nat /\ faults' = 0 /\ \A p \in Procs : phase'[p] \in {"connecting", "up"}
  BY WorkerAssumption DEF Quiet, WInv, WorkerTypeOK
<1>2. ~Fault
  BY <1>1 DEF Fault
<1>3. ASSUME NEW p \in Procs PROVE ~Environment(p) /\ ~Shutdown(p)
  <2>1. ~(phase'[p] \in {"cancelled", "gone"})
    BY <1>1
  <2>2. ~Signal(p)
    BY <2>1 DEF Signal, WInv, WorkerTypeOK
  <2>3. ~Shutdown(p)
    BY <2>1 DEF Shutdown, CloseLink, Exit, Cancelled, Vanish, WInv, WorkerTypeOK
  <2> QED BY <1>2, <2>2, <2>3 DEF Environment, LoseLink, Crash, PublishLost
<1>4. faults = 0
  <2>1. UNCHANGED faults
    BY <1>2, <1>3 DEF Next, vars, Produce, ConnectBroker, Deliver, Work, Reject, Take, WalkOn,
       Publish, PublishFails, Ack, NackRequeue, RunEnds
  <2> QED BY <1>1, <2>1
<1>5. \A p \in Procs : phase[p] \in {"connecting", "up"}
  <2>1. CASE \E p \in Procs : ConnectBroker(p)
    BY <1>1, <2>1 DEF ConnectBroker, WInv, WorkerTypeOK
  <2>2. CASE UNCHANGED phase
    BY <1>1, <2>2
  <2> QED BY <1>3, <2>1, <2>2 DEF Next, vars, procVars, Produce, Deliver, Work, Reject, Take,
          WalkOn, Publish, PublishFails, Ack, NackRequeue, RunEnds
<1> QED BY <1>3, <1>4, <1>5 DEF Quiet

\* In a quiet state what a worker handles was delivered on its open channel.
LEMMA QuietOwns ==
    ASSUME WInv, QuietInv, Quiet, NEW p \in Procs
    PROVE  /\ Running(p) => link[p] = "open" /\ buffer[p] \subseteq unacked[p]
           /\ cur[p] # NoMsg => link[p] = "open" /\ Running(p) /\ cur[p] \in unacked[p]
  BY DEF WInv, HoldInv, ConnectingIsEmpty, OwnsWhatItHolds, QuietInv, Quiet, Running

\* The quiet invariant is kept: without faults a worker publishes, acknowledges
\* what it published, and only then takes the next message.
LEMMA QuietStep ==
    ASSUME WInv, IInv, QuietInv, [Next]_vars
    PROVE  QuietInv'
<1> SUFFICES ASSUME Quiet'
             PROVE  /\ \A p \in Procs : phase'[p] = "up" => link'[p] = "open"
                    /\ \A p \in Procs : pc'[p] \notin {"error", "stopped"}
                    /\ \A m \in Msgs : results'[m] # {} =>
                          m \in retired' \/ \E p \in Procs : cur'[p] = m /\ pc'[p] = "done"
  BY DEF QuietInv
<1>1. Quiet /\ ~Fault /\ \A p \in Procs : ~Environment(p) /\ ~Shutdown(p)
  <2>1. faults \in Nat /\ faults' = 0
    BY WorkerAssumption DEF Quiet, WInv, WorkerTypeOK
  <2> QED BY <2>1, QuietBefore DEF Fault
<1>2. /\ \A p \in Procs : phase[p] = "up" => link[p] = "open"
      /\ \A p \in Procs : pc[p] \notin {"error", "stopped"}
      /\ \A m \in Msgs : results[m] # {} =>
            m \in retired \/ \E p \in Procs : cur[p] = m /\ pc[p] = "done"
  BY <1>1 DEF QuietInv
<1>3. CASE UNCHANGED <<pc, phase, link, cur, retired, results>>
  BY <1>2, <1>3
<1>4. ASSUME NEW p \in Procs, ConnectBroker(p)
      PROVE  /\ \A q \in Procs : phase'[q] = "up" => link'[q] = "open"
             /\ UNCHANGED <<pc, cur, retired, results>>
  BY <1>2, <1>4 DEF ConnectBroker, orchVars, brokerVars, WInv, WorkerTypeOK
<1>5. ASSUME NEW p \in Procs, NEW m \in Msgs, Take(p, m)
      PROVE  /\ UNCHANGED <<phase, link, retired, results>>
             /\ \A q \in Procs : pc'[q] \notin {"error", "stopped"}
             /\ pc[p] = "idle" /\ \A q \in Procs \ {p} : pc'[q] = pc[q] /\ cur'[q] = cur[q]
  <2>1. PICK next \in {"walk", "publish"} : pc' = [pc EXCEPT ![p] = next]
    BY <1>5, HandleEffect DEF Take
  <2> QED BY <1>2, <1>5, <2>1 DEF Take, Receive, brokerVars, WInv, WorkerTypeOK, IInv, OrchTypeOK
<1>6. ASSUME NEW p \in Procs, WalkOn(p)
      PROVE  /\ UNCHANGED <<phase, link, cur, retired, results>>
             /\ \A q \in Procs : pc'[q] \notin {"error", "stopped"}
             /\ pc[p] = "walk" /\ \A q \in Procs \ {p} : pc'[q] = pc[q]
  <2>1. pc[p] = "walk" /\ \E next \in {"walk", "publish"} : pc' = [pc EXCEPT ![p] = next]
    BY <1>6, WalkEffect DEF WalkOn
  <2> QED BY <1>2, <1>6, <2>1 DEF WalkOn, procVars, brokerVars, IInv, OrchTypeOK
<1>7. ASSUME NEW p \in Procs, Publish(p)
      PROVE  /\ UNCHANGED <<phase, link, cur, retired>>
             /\ pc[p] = "publish" /\ pc' = [pc EXCEPT ![p] = "done"]
             /\ \A m \in Msgs \ {cur[p]} : results'[m] = results[m]
  BY <1>7 DEF Publish, PublishReturns, Routed, procVars, brokerVars, WInv, WorkerTypeOK
<1>8. ASSUME NEW p \in Procs, Ack(p)
      PROVE  /\ UNCHANGED <<phase, link, results>>
             /\ pc' = [pc EXCEPT ![p] = "idle"]
             /\ retired' = retired \cup {cur[p]}
             /\ \A q \in Procs \ {p} : cur'[q] = cur[q]
  <2>1. cur[p] # NoMsg
    BY <1>8 DEF Ack, WInv, HoldInv, HandlesCur
  <2>2. link[p] = "open"
    BY <1>1, <2>1, QuietOwns
  <2> QED BY <1>8, <2>2 DEF Ack, Return, Forget, SettleWith, WInv, WorkerTypeOK
<1>9. ASSUME NEW p \in Procs
      PROVE  ~PublishFails(p) /\ ~NackRequeue(p) /\ ~RunEnds(p)
  <2>1. ~PublishFails(p)
    <3> SUFFICES ASSUME PublishFails(p) PROVE FALSE
      OBVIOUS
    <3>1. cur[p] # NoMsg
      BY DEF PublishFails, PublishReturns, WInv, HoldInv, HandlesCur
    <3>2. link[p] = "open"
      BY <1>1, <3>1, QuietOwns
    <3> QED BY <1>1, <3>2 DEF PublishFails
  <2>2. ~NackRequeue(p)
    BY <1>2 DEF NackRequeue
  <2>3. ~RunEnds(p)
    BY <1>1, <1>2 DEF RunEnds, Running, Cancelled, Quiet
  <2> QED BY <2>1, <2>2, <2>3
<1>10. CASE \E p \in Procs, m \in Msgs : Take(p, m)
  BY <1>2, <1>5, <1>10
<1>11. CASE \E p \in Procs : WalkOn(p)
  BY <1>2, <1>6, <1>11
<1>12. CASE \E p \in Procs : Publish(p)
  <2>1. PICK p \in Procs : Publish(p)
    BY <1>12
  <2>2. \A q \in Procs \ {p} : pc'[q] = pc[q]
    BY <1>7, <2>1 DEF IInv, OrchTypeOK
  <2>3. pc'[p] = "done" /\ pc[p] = "publish"
    BY <1>7, <2>1 DEF IInv, OrchTypeOK
  <2> QED BY <1>2, <1>7, <2>1, <2>2, <2>3
<1>13. CASE \E p \in Procs : Ack(p)
  <2>1. PICK p \in Procs : Ack(p)
    BY <1>13
  <2>2. pc'[p] = "idle" /\ \A q \in Procs \ {p} : pc'[q] = pc[q]
    BY <1>8, <2>1 DEF IInv, OrchTypeOK
  <2> QED BY <1>2, <1>8, <2>1, <2>2
<1>14. CASE \E p \in Procs : ConnectBroker(p)
  BY <1>2, <1>4, <1>14
<1>15. CASE \/ UNCHANGED vars \/ \E m \in Msgs : Produce(m)
            \/ \E p \in Procs, m \in Msgs : Deliver(p, m) \/ Reject(p, m)
  <2>1. UNCHANGED <<pc, phase, link, cur, retired, results>>
    BY <1>15 DEF vars, orchVars, procVars, brokerVars, Produce, Deliver, Reject
  <2> QED BY <1>3, <2>1
<1> QED BY <1>1, <1>9, <1>10, <1>11, <1>12, <1>13, <1>14, <1>15 DEF Next, Work

\* Only Take puts a message into a worker's hands, and it takes one that waits
\* in the worker's buffer.
LEMMA TakenFromBuffer ==
    ASSUME WInv, [Next]_vars, NEW p \in Procs, NEW m \in Msgs, cur[p] # m, cur'[p] = m
    PROVE  m \in buffer[p] /\ Running(p) /\ pc[p] = "idle"
<1>1. NoMsg # m
  BY WorkerAssumption
<1>2. CASE \E q \in Procs, n \in Msgs : Take(q, n)
  BY <1>2 DEF Take, Receive, WInv, WorkerTypeOK
<1>3. ASSUME NEW q \in Procs,
             UNCHANGED cur \/ cur' = [cur EXCEPT ![q] = NoMsg]
      PROVE  FALSE
  BY <1>1, <1>3 DEF WInv, WorkerTypeOK
<1> QED BY <1>2, <1>3 DEF Next, vars, procVars, Produce, ConnectBroker, Deliver, Work, Reject,
        WalkOn, Publish, PublishFails, Ack, NackRequeue, RunEnds, Shutdown, CloseLink, Exit,
        Environment, LoseLink, Signal, Crash, Vanish, PublishLost

\* No answered message is handled again unless something went wrong before, for
\* any number of replicas on the same queue: a message that waits in a buffer
\* is in nobody else's hands and has no result yet.
THEOREM HandledOnceWhileQuiet == Spec => RedeliveryHasCause
<1>1. Init => QuietInv
  BY DEF Init, OrchInit, QuietInv
<1>2. WInv /\ QuietInv /\ [Next]_vars =>
         [\A p \in Procs, m \in Msgs :
             Quiet /\ cur[p] # m /\ cur'[p] = m => results[m] = {}]_vars
  <2> SUFFICES ASSUME WInv, QuietInv, [Next]_vars, NEW p \in Procs, NEW m \in Msgs,
                      Quiet, cur[p] # m, cur'[p] = m, results[m] # {}
               PROVE  FALSE
    OBVIOUS
  <2>1. m \in unacked[p] /\ pc[p] = "idle"
    BY TakenFromBuffer, QuietOwns
  <2>2. ~Settled(m) /\ \A q \in Procs \ {p} : m \notin unacked[q]
    BY <2>1 DEF WInv, Conservation
  <2>3. PICK q \in Procs : cur[q] = m /\ pc[q] = "done"
    BY <2>2 DEF QuietInv, Settled
  <2>4. m \in unacked[q]
    BY <2>3, QuietOwns, WorkerAssumption
  <2> QED BY <2>1, <2>2, <2>3, <2>4
<1>3. WInv /\ IInv /\ QuietInv /\ [Next]_vars => QuietInv'
  BY QuietStep
<1>4. Spec => [](WInv /\ IInv)
  BY RunsOrchestrator, Invariance, WorkerInvariance, PTL
<1> QED BY <1>1, <1>2, <1>3, <1>4, PTL DEF Spec, RedeliveryHasCause

-----------------------------------------------------------------------------
(***************************************************************************)
(* The service implements RequestLedger: its producers may rely on the     *)
(* ledger's promise for every number of replicas, restarts and faults.     *)
(***************************************************************************)
LedgerStateMap == [m \in Msgs |-> LedgerState(m)]
LedgerAnswersMap == [m \in Msgs |-> LedgerAnswers(m)]

-----------------------------------------------------------------------------
(* What an action leaves alone stays as it is in the ledger *)

\* Where the ledger says a message is depends on three of the queues only.
LEMMA StateFrame ==
    ASSUME UNCHANGED <<fresh, dlq, retired>>
    PROVE  LedgerStateMap' = LedgerStateMap
  BY DEF LedgerStateMap, LedgerState

\* The answers of the ledger are the statuses of the routed results.
LEMMA AnswersFrame ==
    ASSUME UNCHANGED results
    PROVE  LedgerAnswersMap' = LedgerAnswersMap
  BY DEF LedgerAnswersMap, LedgerAnswers

\* An event counts as accepted by the Sends that reported "sent".
LEMMA AcceptedFrame ==
    ASSUME UNCHANGED accepts
    PROVE  LedgerAccepted' = LedgerAccepted
  BY DEF LedgerAccepted

\* A step that leaves what the ledger sees as it was is a stutter of the ledger.
LEMMA Stutters ==
    ASSUME UNCHANGED <<fresh, dlq, retired, results, accepts>>
    PROVE  UNCHANGED Ledger!vars
  BY StateFrame, AnswersFrame, AcceptedFrame
     DEF Ledger!vars, LedgerStateMap, LedgerAnswersMap

\* What a worker has in hand is open in the ledger: a valid request that was
\* submitted and not dead-lettered.
LEMMA HeldIsOpen ==
    ASSUME WInv, NEW p \in Procs, cur[p] # NoMsg
    PROVE  /\ cur[p] \in Msgs /\ Valid(cur[p])
           /\ LedgerState(cur[p]) \in {"queued", "settled"}
           /\ Ledger!Open(cur[p])
<1>1. cur[p] \in Msgs /\ Valid(cur[p]) /\ cur[p] \notin fresh /\ cur[p] \notin dlq
  BY DEF WInv, WorkerTypeOK, HoldInv, HandlesCur, HoldsNothingFresh, AckedHasResult
<1>2. LedgerState(cur[p]) \in {"queued", "settled"}
  BY <1>1 DEF LedgerState
<1> QED BY <1>1, <1>2 DEF Ledger!Open

-----------------------------------------------------------------------------
(* The actions that are steps of the ledger *)

\* A producer's publish submits the request.
LEMMA ProduceSubmits ==
    ASSUME WInv, NEW m \in Msgs, Produce(m)
    PROVE  Ledger!Submit(m)
<1>1. m \in fresh /\ fresh' = fresh \ {m} /\ UNCHANGED <<dlq, retired, results, accepts>>
  BY DEF Produce, orchVars
<1>2. m \notin dlq /\ m \notin retired
  BY <1>1 DEF WInv, Conservation, Queued, Settled
<1>3. LedgerState(m) = "fresh"
  BY <1>1, <1>2 DEF LedgerState
<1>4. LedgerState(m)' = "queued"
  BY <1>1, <1>2 DEF LedgerState
<1>5. ASSUME NEW n \in Msgs \ {m} PROVE LedgerState(n)' = LedgerState(n)
  <2>1. n \in fresh' <=> n \in fresh
    BY <1>1, <1>5
  <2> QED BY <1>1, <2>1 DEF LedgerState
<1>6. LedgerStateMap' = [LedgerStateMap EXCEPT ![m] = "queued"]
  BY <1>4, <1>5 DEF LedgerStateMap
<1>7. UNCHANGED <<LedgerAnswersMap, LedgerAccepted>>
  BY <1>1, AnswersFrame, AcceptedFrame
<1> QED BY <1>3, <1>6, <1>7 DEF Ledger!Submit, LedgerStateMap, LedgerAnswersMap

\* A turn of the provider loop is a step of the ledger if a Send reported that
\* the provider accepted the event; otherwise the ledger does not see it.
LEMMA WalkAccepts ==
    ASSUME WInv, IInv, NEW p \in Procs, WalkOn(p)
    PROVE  Ledger!Accept(cur[p]) \/ UNCHANGED Ledger!vars
<1> DEFINE c == Cancelled(p)
           e == req[p].event_id
<1>1. Walk(p, c) /\ UNCHANGED <<fresh, dlq, retired, results>>
  BY DEF WalkOn, brokerVars
<1>2. /\ pc[p] = "walk" /\ cur[p] # NoMsg /\ cur[p] \in Msgs /\ req[p] = Body[cur[p]]
      /\ req[p] \in Decodable /\ e \in EventIds /\ c \in BOOLEAN
      /\ Ledger!Open(cur[p])
  BY <1>1, WalkEffect, HeldIsOpen, EventOfRequest
     DEF Cancelled, IInv, OrchTypeOK, WInv, WorkerTypeOK, HoldInv, HandlesCur
<1>3. CASE Refuse(p) \/ Skip(p) \/ Exhausted(p)
  BY <1>1, <1>3, Stutters DEF Refuse, Skip, Exhausted
<1>4. CASE SendUndeliverable(p, c) \/ SendFailed(p, c)
  <2>1. PICK status \in Statuses \ {"sent"} :
           \E out \in SendResults(p, c, status) : RecordSend(p, out)
    BY <1>4 DEF SendUndeliverable, SendFailed, Statuses
  <2>2. Walking(p) /\ Usable(req[p], Current(p))
    BY <1>4 DEF SendUndeliverable, SendFailed
  <2>3. accepts' = accepts
    BY <1>2, <2>1, <2>2, RecordSendFacts
  <2> QED BY <1>1, <2>3, Stutters
<1>5. CASE SendSent(p, c)
  <2>1. PICK out \in SendResults(p, c, "sent") : RecordSend(p, out)
    BY <1>5 DEF SendSent
  <2>2. Walking(p) /\ Usable(req[p], Current(p)) /\ "sent" \in Statuses
    BY <1>5 DEF SendSent, Statuses
  <2>3. accepts' = [accepts EXCEPT ![p][e] = 1]
    BY <1>2, <2>1, <2>2, RecordSendFacts
  <2>4. \A q \in Procs, f \in EventIds :
           accepts'[q][f] > 0 <=> (q = p /\ f = e) \/ accepts[q][f] > 0
    BY <1>2, <2>3 DEF IInv, OrchTypeOK
  <2>5. LedgerAccepted' = LedgerAccepted \cup {e}
    BY <1>2, <2>4 DEF LedgerAccepted
  <2>6. e = LedgerEvent(cur[p])
    BY <1>2 DEF LedgerEvent
  <2>7. UNCHANGED <<LedgerStateMap, LedgerAnswersMap>>
    BY <1>1, StateFrame, AnswersFrame
  <2> QED BY <1>2, <2>5, <2>6, <2>7 DEF Ledger!Accept, LedgerStateMap, LedgerAnswersMap
<1> QED BY <1>1, <1>3, <1>4, <1>5 DEF Walk

\* Routing a result answers the request, and truthfully when it says "sent".
LEMMA PublishAnswers ==
    ASSUME WInv, IInv, StatusGiven, NEW p \in Procs, Publish(p)
    PROVE  /\ Ledger!Answer(cur[p], answer[p].status)
           /\ answer[p].status \in {"sent", "undeliverable", "failed"} /\ cur[p] \in Msgs
<1>0. PICK a, m : a = answer[p] /\ m = cur[p]
  OBVIOUS
<1>1. /\ pc[p] = "publish" /\ results' = [results EXCEPT ![m] = results[m] \cup {a}]
      /\ UNCHANGED <<fresh, dlq, retired, accepts>>
  BY <1>0 DEF Publish, PublishReturns, Routed, procVars, brokerVars
<1>2. m \in Msgs /\ req[p] = Body[m] /\ Ledger!Open(m) /\ req[p].event_id \in EventIds
  <2>1. m # NoMsg /\ m \in Msgs /\ req[p] = Body[m] /\ Valid(m)
    BY <1>0, <1>1 DEF WInv, WorkerTypeOK, HoldInv, HandlesCur
  <2>2. Ledger!Open(m)
    BY <1>0, <2>1, HeldIsOpen
  <2> QED BY <2>1, <2>2, ValidIsDecodable, EventOfRequest
<1>3. a.status \in {"sent", "undeliverable", "failed"}
  BY <1>0, <1>1 DEF StatusGiven, Answered, Statuses
<1>4. a.status = "sent" => LedgerEvent(m) \in LedgerAccepted
  BY <1>0, <1>1, <1>2 DEF IInv, SentIsTruthful, Answered, LedgerEvent, LedgerAccepted
<1>5. LedgerAnswers(m)' = LedgerAnswers(m) \cup {a.status}
  <2>1. results'[m] = results[m] \cup {a}
    BY <1>1, <1>2 DEF WInv, WorkerTypeOK
  <2> QED BY <2>1 DEF LedgerAnswers
<1>6. ASSUME NEW n \in Msgs \ {m} PROVE LedgerAnswers(n)' = LedgerAnswers(n)
  <2>1. results'[n] = results[n]
    BY <1>1, <1>6 DEF WInv, WorkerTypeOK
  <2> QED BY <2>1 DEF LedgerAnswers
<1>7. LedgerAnswersMap' = [LedgerAnswersMap EXCEPT ![m] = LedgerAnswersMap[m] \cup {a.status}]
  BY <1>2, <1>5, <1>6 DEF LedgerAnswersMap
<1>8. UNCHANGED <<LedgerStateMap, LedgerAccepted>>
  BY <1>1, StateFrame, AcceptedFrame
<1> QED BY <1>0, <1>2, <1>3, <1>4, <1>7, <1>8 DEF Ledger!Answer, LedgerStateMap, LedgerAnswersMap

\* Where a message is known to be, the ledger says so (its cases do not overlap
\* because messages are conserved).
LEMMA StateOf ==
    ASSUME Conservation, NEW m \in Msgs
    PROVE  /\ m \in fresh => LedgerState(m) = "fresh"
           /\ m \in retired => LedgerState(m) = "settled"
           /\ m \in dlq => LedgerState(m) = "dead"
           /\ ~Settled(m) /\ m \notin fresh => LedgerState(m) = "queued"
<1>1. /\ ~(m \in fresh /\ m \in retired) /\ ~(m \in fresh /\ m \in dlq)
      /\ ~(m \in dlq /\ m \in retired)
  BY DEF Conservation, Queued, Settled
<1> QED BY <1>1 DEF LedgerState, Settled

\* An Ack settles the request if the broker hears it, and a Nack with requeue
\* leaves it queued.
LEMMA AckSettles ==
    ASSUME WInv, WInv', NEW p \in Procs, Ack(p)
    PROVE  (Ledger!Settle(cur[p]) /\ cur[p] \in Msgs) \/ UNCHANGED Ledger!vars
<1>0. PICK m : m = cur[p]
  OBVIOUS
<1>1. /\ m # NoMsg /\ pc[p] = "done" /\ SettleWith(p, m, retired, retired')
      /\ UNCHANGED <<fresh, dlq, results, accepts>>
  BY <1>0 DEF Ack, Return, Forget, WInv, HoldInv, HandlesCur
<1>2. CASE link[p] # "open"
  <2>1. UNCHANGED <<fresh, dlq, retired, results, accepts>>
    BY <1>1, <1>2 DEF SettleWith
  <2> QED BY <2>1, Stutters
<1>3. CASE link[p] = "open"
  <2>1. retired' = retired \cup {m}
    BY <1>1, <1>3 DEF SettleWith
  <2>2. m \in Msgs /\ Valid(m) /\ m \notin fresh /\ m \in unacked[p] /\ results[m] # {}
    BY <1>0, <1>1, <1>3 DEF WInv, WorkerTypeOK, HoldInv, HandlesCur, HoldsNothingFresh,
       OwnsWhatItHolds, DoneIsAnswered
  <2>3. ~Settled(m)
    BY <2>2 DEF WInv, Conservation
  <2>4. LedgerState(m) = "queued"
    BY <2>2, <2>3, StateOf DEF WInv
  <2>5. LedgerAnswers(m) # {}
    BY <2>2 DEF LedgerAnswers
  <2>6. LedgerState(m)' = "settled"
    BY <1>1, <2>1, <2>2 DEF LedgerState, WInv, Conservation, Settled, Queued
  <2>7. ASSUME NEW n \in Msgs \ {m} PROVE LedgerState(n)' = LedgerState(n)
    <3>1. n \in retired' <=> n \in retired
      BY <2>1, <2>7
    <3> QED BY <1>1, <3>1 DEF LedgerState
  <2>8. LedgerStateMap' = [LedgerStateMap EXCEPT ![m] = "settled"]
    BY <2>6, <2>7 DEF LedgerStateMap
  <2>9. UNCHANGED <<LedgerAnswersMap, LedgerAccepted>>
    BY <1>1, AnswersFrame, AcceptedFrame
  <2> QED BY <1>0, <2>2, <2>4, <2>5, <2>8, <2>9
          DEF Ledger!Settle, LedgerStateMap, LedgerAnswersMap
<1> QED BY <1>2, <1>3

\* A Nack without requeue dead-letters the body if the broker hears it.
LEMMA RejectDeadLetters ==
    ASSUME WInv, WInv', NEW p \in Procs, NEW m \in Msgs, Reject(p, m)
    PROVE  Ledger!DeadLetter(m) \/ UNCHANGED Ledger!vars
<1>1. /\ m \in buffer[p] /\ ~Valid(m) /\ SettleWith(p, m, dlq, dlq')
      /\ UNCHANGED <<fresh, retired, results, accepts>>
  BY DEF Reject, Receive, orchVars
<1>2. CASE link[p] # "open"
  <2>1. UNCHANGED <<fresh, dlq, retired, results, accepts>>
    BY <1>1, <1>2 DEF SettleWith
  <2> QED BY <2>1, Stutters
<1>3. CASE link[p] = "open"
  <2>1. dlq' = dlq \cup {m}
    BY <1>1, <1>3 DEF SettleWith
  <2>2. m \notin fresh /\ ~Settled(m)
    BY <1>1, <1>3 DEF WInv, HoldInv, HoldsNothingFresh, OwnsWhatItHolds, Conservation
  <2>3. LedgerState(m) = "queued"
    BY <2>2, StateOf DEF WInv
  <2>4. LedgerState(m)' = "dead"
    BY <1>1, <2>1, <2>2 DEF LedgerState, Settled
  <2>5. ASSUME NEW n \in Msgs \ {m} PROVE LedgerState(n)' = LedgerState(n)
    <3>1. n \in dlq' <=> n \in dlq
      BY <2>1, <2>5
    <3> QED BY <1>1, <3>1 DEF LedgerState
  <2>6. LedgerStateMap' = [LedgerStateMap EXCEPT ![m] = "dead"]
    BY <2>4, <2>5 DEF LedgerStateMap
  <2>7. UNCHANGED <<LedgerAnswersMap, LedgerAccepted>>
    BY <1>1, AnswersFrame, AcceptedFrame
  <2> QED BY <1>1, <2>3, <2>6, <2>7 DEF Ledger!DeadLetter, LedgerStateMap, LedgerAnswersMap
<1> QED BY <1>2, <1>3

-----------------------------------------------------------------------------
(* The refinement *)

\* All other actions move messages between places that the ledger calls queued,
\* or change nothing it can see.
LEMMA OthersStutter ==
    ASSUME NEW p \in Procs,
           \/ ConnectBroker(p) \/ (\E m \in Msgs : Deliver(p, m))
           \/ Shutdown(p) \/ Environment(p)
           \/ (\E m \in Msgs : Take(p, m)) \/ PublishFails(p) \/ NackRequeue(p) \/ RunEnds(p)
    PROVE  UNCHANGED Ledger!vars
<1>1. UNCHANGED <<fresh, dlq, retired, results>>
  BY DEF ConnectBroker, Deliver, Shutdown, CloseLink, Exit, Environment, LoseLink, Signal, Crash,
     PublishLost, Take, PublishFails, NackRequeue, RunEnds, Unlink, brokerVars
<1>2. UNCHANGED accepts
  <2>1. UNCHANGED orchVars \/ Stop(p) \/ Return(p) \/ (\E r : Handle(p, r))
           \/ (\E ok : PublishReturns(p, ok))
    BY DEF ConnectBroker, Deliver, Shutdown, CloseLink, Exit, Environment, LoseLink, Signal, Crash,
       Vanish, PublishLost, Take, PublishFails, NackRequeue, RunEnds
  <2> QED BY <2>1 DEF orchVars, Stop, Return, Forget, Handle, HandleDuplicate, HandleAborts,
          HandleBegins, PublishReturns
<1> QED BY <1>1, <1>2, Stutters

\* Every step of the service is a step of the ledger or invisible to it.
LEMMA StepIsLedgerStep ==
    ASSUME WInv, WInv', IInv, StatusGiven, [Next]_vars
    PROVE  [Ledger!Next]_Ledger!vars
<1>1. CASE UNCHANGED vars
  BY <1>1, Stutters DEF vars, orchVars, brokerVars
<1>2. CASE \E m \in Msgs : Produce(m)
  BY <1>2, ProduceSubmits DEF Ledger!Next
<1>3. ASSUME NEW p \in Procs, NEW m \in Msgs, Reject(p, m)
      PROVE  [Ledger!Next]_Ledger!vars
  BY <1>3, RejectDeadLetters DEF Ledger!Next
<1>4. ASSUME NEW p \in Procs, WalkOn(p)
      PROVE  [Ledger!Next]_Ledger!vars
  <2>1. cur[p] \in Msgs
    BY <1>4, WalkEffect, HeldIsOpen DEF WalkOn, WInv, HoldInv, HandlesCur
  <2> QED BY <1>4, <2>1, WalkAccepts DEF Ledger!Next
<1>5. ASSUME NEW p \in Procs, Publish(p)
      PROVE  [Ledger!Next]_Ledger!vars
  BY <1>5, PublishAnswers DEF Ledger!Next
<1>6. ASSUME NEW p \in Procs, Ack(p)
      PROVE  [Ledger!Next]_Ledger!vars
  BY <1>6, AckSettles DEF Ledger!Next
<1> QED BY <1>1, <1>2, <1>3, <1>4, <1>5, <1>6, OthersStutter DEF Next, Work

\* The service keeps the ledger's promise: the refinement that the runs check
\* on small instances holds for all of them.
THEOREM ServiceKeepsLedger == Spec => KeepsLedger
<1>1. Init => Ledger!Init
  <2> SUFFICES ASSUME Init PROVE Ledger!Init
    OBVIOUS
  <2>1. \A m \in Msgs : LedgerState(m) = "fresh"
    BY DEF Init, LedgerState
  <2>2. \A m \in Msgs : LedgerAnswers(m) = {}
    BY DEF Init, LedgerAnswers
  <2>3. LedgerAccepted = {}
    BY DEF Init, OrchInit, LedgerAccepted
  <2> QED BY <2>1, <2>2, <2>3 DEF Ledger!Init
<1>2. WInv /\ WInv' /\ IInv /\ StatusGiven /\ [Next]_vars => [Ledger!Next]_Ledger!vars
  BY StepIsLedgerStep
<1>3. Spec => [](WInv /\ IInv /\ StatusGiven)
  BY RunsOrchestrator, Invariance, StatusInvariance, WorkerInvariance, PTL
<1> QED BY <1>1, <1>2, <1>3, PTL DEF Spec, KeepsLedger, Ledger!Spec
=============================================================================
