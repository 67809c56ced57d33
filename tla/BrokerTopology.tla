--------------------------- MODULE BrokerTopology ---------------------------
(***************************************************************************)
(* How requests, results and dead letters find their queues: the one       *)
(* exchange everybody publishes to, the declarations of Broker.Setup and   *)
(* ConsumeResultsTemporary (internal/broker/broker.go), the loop of        *)
(* connectBroker (cmd/main.go), and the test client that publishes one     *)
(* request and waits for its result (cmd/send-test-message/main.go).       *)
(*                                                                         *)
(* RabbitMQ is external: an exchange copies a message to every queue bound *)
(* under its key and drops it when there is none (mandatory is false);     *)
(* durable queues, their bindings and their persistent messages survive a  *)
(* restart; an exclusive queue goes with its connection.  Everybody is     *)
(* configured with the same names and keys.                                *)
(*                                                                         *)
(* A client's request is known by the client, a foreign producer's by the  *)
(* producer: no two runs of the client are given the same event id.  What  *)
(* the service does between a request and its result is the business of    *)
(* module DeliveryWorker, here it is one step.                             *)
(***************************************************************************)
EXTENDS Naturals, Sequences

CONSTANTS
    Services,      \* running copies of the service
    Clients,       \* runs of send-test-message
    Options,       \* client -> its flags, see below
    Foreign,       \* other producers, with one request each
    Body,          \* producer -> body of its request, a record of ProviderPolicy
    ExchangeKind,  \* "topic" or "direct" (no wildcards in keys), or "fanout"
    MaxFaults      \* bound: failed declarations, broker restarts, foreign results

ASSUME TopologyAssumption ==
    /\ Clients \cap Services = {} /\ Clients \cap Foreign = {}
    /\ Clients \cap {"requests", "dlq"} = {}
    /\ \A c \in Clients : Options[c].wait_result \in BOOLEAN
    /\ ExchangeKind \in {"topic", "direct", "fanout"}
    /\ MaxFaults \in Nat

VARIABLES
    exchange,      \* the exchange is declared
    queues,        \* declared queues: "requests", "dlq", a client's own
    bindings,      \* pairs <<queue, key>>
    content,       \* queue -> messages <<kind, of>>
    at,            \* where a service or a client is
    setup,         \* declarations of Setup it has made
    published,     \* history: those whose request reached the exchange
    answered,      \* history: requests that got a result
    rejected,      \* history: requests that were rejected
    faults

broker == <<exchange, queues, bindings, content>>
history == <<published, answered, rejected>>
vars == <<broker, at, setup, history, faults>>

Actors == Services \cup Clients
QueueNames == {"requests", "dlq"} \cup Clients
Final == {"done", "failed", "timed out"}

Waiting == {c \in Clients : Options[c].wait_result}

Init ==
    /\ exchange = FALSE /\ queues = {} /\ bindings = {}
    /\ content = [q \in QueueNames |-> {}]
    /\ at = [a \in Actors |-> IF a \in Clients THEN "start" ELSE "setup"]
    /\ setup = [a \in Actors |-> 0]
    /\ published = {} /\ answered = {} /\ rejected = {}
    /\ faults = 0

Fault == faults < MaxFaults /\ faults' = faults + 1
GoTo(a, next) == at' = [at EXCEPT ![a] = next]

-----------------------------------------------------------------------------
(* The flags of the test client *)

\* Validation does not look at the channels: none of them is configured here.
Policy == INSTANCE ProviderPolicy
    WITH Channels <- [t \in {"email", "phone", "push", "telegram"} |-> [chain |-> <<"">>, allowed |-> {}]]

(***************************************************************************)
(* The flags are [parses, wait_result, recipient_type, recipient, template,*)
(* event_id, selected, chain, fallback, variables, metadata].  parses: the *)
(* flags are known and the configuration file loads.  chain has the parts  *)
(* between the commas.  variables and metadata are "", "scalars" for an    *)
(* object of scalars, or something else.                                   *)
(***************************************************************************)
ParseOptions(o) ==
    /\ o.parses
    /\ o.recipient # ""
    /\ o.recipient_type \in {"phone", "email", "push"}

ParseStringMap(json) == json \in {"", "scalars"}

SplitCSV(parts) == LET Named(part) == part # "" IN SelectSeq(parts, Named)

BuildRequest(o) ==
    [json |-> TRUE, version |-> "v1", event_id |-> IF o.event_id = "" THEN "manual" ELSE o.event_id,
     type |-> "message.delivery.requested", template |-> o.template,
     recipient_type |-> o.recipient_type, recipient |-> o.recipient,
     selected |-> o.selected, chain |-> SplitCSV(o.chain), fallback |-> o.fallback]

\* Mutant of Accepted: the request is not validated before it is published.
AcceptedUnchecked(o) ==
    ParseOptions(o) /\ ParseStringMap(o.variables) /\ ParseStringMap(o.metadata)

Accepted(o) ==
    /\ ParseOptions(o)
    /\ ParseStringMap(o.variables) /\ ParseStringMap(o.metadata)
    /\ Policy!Validate(BuildRequest(o))

\* Whether the worker that gets the request of r can decode it.
Decodes(r) == Policy!DecodeRequest(IF r \in Clients THEN BuildRequest(Options[r]) ELSE Body[r])

-----------------------------------------------------------------------------
(* The broker *)

RequestKey == "requested"
ResultKey == "result"
\* Mutant of DeadLetterKey: dead letters go out as they came in.
DeadLetterKeyPlain == RequestKey
DeadLetterKey == "requested.dead"

Routes(q, key) ==
    \E b \in bindings : b[1] = q /\ (ExchangeKind = "fanout" \/ b[2] = key)

\* The queues' contents once msg was published under key.
Routed(old, key, msg) ==
    [q \in QueueNames |-> IF q \in queues /\ Routes(q, key) THEN old[q] \cup {msg} ELSE old[q]]

Without(q, msg) == [content EXCEPT ![q] = @ \ {msg}]

\* Mutant of DurableQueues: the request queue is declared without durable.
DurableQueuesOnlyDead == {"dlq"}
\* Declared durable, and neither exclusive nor auto-deleted.
DurableQueues == {"requests", "dlq"}

-----------------------------------------------------------------------------
(* Broker.Setup, by a service or by a client *)

SetupSteps == 5

\* The next declaration; declaring what is there already changes nothing.
Declare(a) ==
    /\ at[a] = "setup"
    /\ setup[a] < SetupSteps
    /\ setup' = [setup EXCEPT ![a] = @ + 1]
    /\ exchange' = (exchange \/ setup[a] = 0)
    /\ queues' = queues \cup CASE setup[a] = 1 -> {"dlq"} [] setup[a] = 3 -> {"requests"} [] OTHER -> {}
    /\ bindings' = bindings \cup
          CASE setup[a] = 2 -> {<<"dlq", DeadLetterKey>>}
            [] setup[a] = 4 -> {<<"requests", RequestKey>>}
            [] OTHER -> {}
    /\ UNCHANGED <<content, at, history, faults>>

\* A declaration or Consume fails: connectBroker closes the connection and
\* starts again; what was declared so far stays declared.
SetupFails(s) ==
    /\ at[s] = "setup"
    /\ Fault
    /\ setup' = [setup EXCEPT ![s] = 0]
    /\ UNCHANGED <<broker, at, history>>

-----------------------------------------------------------------------------
(* The service *)

\* Mutant of Consume: the error of Setup is not looked at.
ConsumeAnyway(s) ==
    /\ at[s] = "setup"
    /\ "requests" \in queues
    /\ GoTo(s, "consuming")
    /\ UNCHANGED <<broker, setup, history, faults>>

Consume(s) ==
    /\ at[s] = "setup"
    /\ setup[s] = SetupSteps
    /\ GoTo(s, "consuming")
    /\ UNCHANGED <<broker, setup, history, faults>>

\* A request is answered, and acknowledged unless something went wrong after.
Serve(s, r) ==
    /\ at[s] = "consuming"
    /\ <<"request", r>> \in content["requests"] /\ Decodes(r)
    /\ \/ content' = Routed(Without("requests", <<"request", r>>), ResultKey, <<"result", r>>)
          /\ UNCHANGED faults
       \/ content' = Routed(content, ResultKey, <<"result", r>>)
          /\ Fault
    /\ answered' = answered \cup {r}
    /\ UNCHANGED <<exchange, queues, bindings, at, setup, published, rejected>>

\* Nack without requeue: the broker publishes the message to the exchange
\* again, under the key the queue was declared with.
Reject(s, r) ==
    /\ at[s] = "consuming"
    /\ <<"request", r>> \in content["requests"] /\ ~Decodes(r)
    /\ content' = Routed(Without("requests", <<"request", r>>), DeadLetterKey, <<"request", r>>)
    /\ rejected' = rejected \cup {r}
    /\ UNCHANGED <<exchange, queues, bindings, at, setup, published, answered, faults>>

-----------------------------------------------------------------------------
(* The test client *)

\* Flags, configuration and request are looked at before there is a connection.
StartRun(c) ==
    /\ at[c] = "start"
    /\ GoTo(c, IF Accepted(Options[c]) THEN "setup" ELSE "failed")
    /\ UNCHANGED <<broker, setup, history, faults>>

\* Mutant of ConsumeResultsTemporary: the queue is not bound.
ConsumeUnboundQueue(c) ==
    /\ at[c] = "setup" /\ setup[c] = SetupSteps
    /\ c \in Waiting
    /\ queues' = queues \cup {c}
    /\ GoTo(c, "publish")
    /\ UNCHANGED <<exchange, bindings, content, setup, history, faults>>

ConsumeResultsTemporary(c) ==
    /\ at[c] = "setup" /\ setup[c] = SetupSteps
    /\ c \in Waiting
    /\ queues' = queues \cup {c}
    /\ bindings' = bindings \cup {<<c, ResultKey>>}
    /\ GoTo(c, "publish")
    /\ UNCHANGED <<exchange, content, setup, history, faults>>

\* run returns: the deferred calls close the consumer and the connection, and
\* the exclusive queue goes with them.
Return(c, how) ==
    /\ GoTo(c, how)
    /\ queues' = queues \ {c}
    /\ bindings' = {b \in bindings : b[1] # c}
    /\ content' = [content EXCEPT ![c] = {}]

ReadyToPublish(c) ==
    \/ at[c] = "publish"
    \/ c \notin Waiting /\ at[c] = "setup" /\ setup[c] = SetupSteps

PublishRequest(c) ==
    /\ ReadyToPublish(c)
    /\ content' = Routed(content, RequestKey, <<"request", c>>)
    /\ published' = published \cup {c}
    /\ GoTo(c, IF c \in Waiting THEN "wait" ELSE "done")
    /\ UNCHANGED <<exchange, queues, bindings, setup, answered, rejected, faults>>

\* Publishing is not confirmed: the frame is lost with the connection, and a
\* client that does not wait reports success.
PublishLost(c) ==
    /\ ReadyToPublish(c)
    /\ Fault
    /\ Return(c, IF c \in Waiting THEN "failed" ELSE "done")
    /\ UNCHANGED <<exchange, setup, history>>

\* A call to the broker fails before the request is out: run returns.
RunFails(c) ==
    /\ at[c] \in {"setup", "publish"}
    /\ Fault
    /\ Return(c, "failed")
    /\ UNCHANGED <<exchange, setup, history>>

\* waitForResult reads a result: its own ends the wait, somebody else's does
\* not, and a body that does not decode is an error whoever it was for.
WaitForResult(c, m) ==
    /\ at[c] = "wait"
    /\ m \in content[c]
    /\ IF m[1] = "garbage" THEN Return(c, "failed")
       ELSE IF m = <<"result", c>> THEN Return(c, "done")
       ELSE content' = Without(c, m) /\ UNCHANGED <<at, queues, bindings>>
    /\ UNCHANGED <<exchange, setup, history, faults>>

\* Mutant of TimeOut: the deadline is looked at when a result comes in.
TimeOutOnResult(c) ==
    /\ at[c] = "wait"
    /\ content[c] # {}
    /\ Return(c, "timed out")
    /\ UNCHANGED <<exchange, setup, history, faults>>

TimeOut(c) ==
    /\ at[c] = "wait"
    /\ Return(c, "timed out")
    /\ UNCHANGED <<exchange, setup, history, faults>>

Run(c) ==
    \/ StartRun(c)
    \/ Declare(c)
    \/ ConsumeResultsTemporary(c) \/ PublishRequest(c)
    \/ \E m \in content[c] : WaitForResult(c, m)
    \/ TimeOut(c)

-----------------------------------------------------------------------------
(* Everybody else *)

\* Another producer does not declare anything; without the exchange its
\* channel is closed on it, without the binding its request is dropped.
ForeignRequest(f) ==
    /\ f \notin published
    /\ exchange
    /\ content' = Routed(content, RequestKey, <<"request", f>>)
    /\ published' = published \cup {f}
    /\ UNCHANGED <<exchange, queues, bindings, at, setup, answered, rejected, faults>>

\* Something that is no result is published under the result key.
ForeignResult(f) ==
    /\ exchange
    /\ Fault
    /\ content' = Routed(content, ResultKey, <<"garbage", f>>)
    /\ UNCHANGED <<exchange, queues, bindings, at, setup, history>>

\* Every connection is lost: a service that consumed is left without one, one
\* that was connecting tries again, a client fails.
RestartBroker ==
    /\ Fault
    /\ queues' = queues \cap DurableQueues
    /\ bindings' = {b \in bindings : b[1] \in DurableQueues}
    /\ content' = [q \in QueueNames |-> IF q \in DurableQueues THEN content[q] ELSE {}]
    /\ at' = [a \in Actors |->
                 CASE a \in Services /\ at[a] = "consuming" -> "lost"
                   [] a \in Clients /\ at[a] \notin Final \cup {"start"} -> "failed"
                   [] OTHER -> at[a]]
    /\ setup' = [a \in Actors |-> IF at[a] = "setup" THEN 0 ELSE setup[a]]
    /\ UNCHANGED <<exchange, history>>

\* The service manager replaces a service that lost its connection.
RestartService(s) ==
    /\ at[s] = "lost"
    /\ GoTo(s, "setup")
    /\ setup' = [setup EXCEPT ![s] = 0]
    /\ UNCHANGED <<broker, history, faults>>

Next ==
    \/ \E s \in Services :
          \/ Declare(s) \/ SetupFails(s) \/ Consume(s) \/ RestartService(s)
          \/ \E r \in published : Serve(s, r) \/ Reject(s, r)
    \/ \E c \in Clients : Run(c) \/ PublishLost(c) \/ RunFails(c)
    \/ \E f \in Foreign : ForeignRequest(f) \/ ForeignResult(f)
    \/ RestartBroker

(***************************************************************************)
(* A client's calls to the broker return, by an answer or by the heartbeats*)
(* of the AMQP client, and its deadline passes.                            *)
(***************************************************************************)
Spec == Init /\ [][Next]_vars /\ \A c \in Clients : WF_vars(Run(c)) /\ WF_vars(TimeOut(c))

-----------------------------------------------------------------------------
(* Properties *)

\* Type invariant; whoever consumes or publishes has been through Setup.
TypeOK ==
    /\ exchange \in BOOLEAN
    /\ queues \subseteq QueueNames
    /\ bindings \subseteq QueueNames \X {RequestKey, ResultKey, DeadLetterKey}
    /\ content \in [QueueNames ->
                       SUBSET ({"request", "result", "garbage"} \X (Clients \cup Foreign))]
    /\ at \in [Actors -> {"start", "setup", "consuming", "lost", "publish", "wait"} \cup Final]
    /\ setup \in [Actors -> 0..SetupSteps]
    /\ \A a \in Actors : at[a] \in {"consuming", "publish", "wait"} => setup[a] = SetupSteps

\* A request of the test client that reached the exchange is neither dropped nor
\* dead-lettered, whatever flags it was made of: it is answered or still queued,
\* although no service may have been up yet, its Setup may have been cut off
\* half way, and the broker may have restarted.
RequestIsKept ==
    \A c \in published \cap Clients :
       c \in answered \/ <<"request", c>> \in content["requests"]

\* A client that waits has not missed its result, however fast it came: the
\* temporary queue is bound before the request is published.
NoResultMissed ==
    \A c \in Clients :
       at[c] = "wait" /\ c \in answered => <<"result", c>> \in content[c]

\* What was rejected once is in the dead-letter queue, and never comes back as
\* a request although both queues hang on one exchange.
DeadLettersStayDead ==
    \A r \in rejected :
       <<"request", r>> \in content["dlq"] /\ <<"request", r>> \notin content["requests"]

\* The client always comes to an end, with its result, an error or its deadline.
ClientReturns == \A c \in Clients : <>(at[c] \in Final)
=============================================================================
