# A formal model of message-delivery

TLA+ modules, TLC configurations and machine-checked proofs for the delivery
service in `src/`: what it does with a `message.delivery.requested` event from
the moment RabbitMQ hands it out to the moment it is settled, what its Telegram
webhook does with a user's update, what the recipient is shown, and how the
process comes up. Paths below are relative to `src/`.

    tlc -workers 2 -config MCOrchestrator.cfg MCOrchestrator.tla    # any run
    tlapm OrchestratorProofs.tla                                    # any proof

`PROJECT.json` lists the runs, the source lines each definition models, a
mutant of the code that breaks each property, the hazards the properties are
for, and the theorems.

## 1. The system

    producers ──► message.delivery.requests ──► worker.Run ──► Orchestrator.Handle
                        │  Nack(false,false)                      │  │   │
                        ▼                                         │  │   └► adapters ──► SMTP, Gateway,
                  requests.dlq                                    │  │        Send       Bot API, push
                                                        seen store┘  └► PublishResult ──► results
    Telegram ──► WebhookHandler.ServeHTTP ──► PublishTelegramConnection, then the bot adapter's greeting

    config.Load ──► registry ──► connectBroker ──► webhook, mux ──► health server and worker

| Component | State it keeps | Operations | Interacts with |
|---|---|---|---|
| request events (`internal/delivery/event.go`) | none | `DecodeRequest`, `Validate`, `ProviderPlan` | orchestrator, worker |
| configuration (`internal/config`) | read-only after `Load` | `Load`, `AllowedProvider`, `DefaultProviderChain` | everybody |
| orchestrator (`internal/delivery/orchestrator.go`) | only its stack | `Handle`, `publish` | store, renderer, registry, broker |
| idempotency store (`idempotency.go`) | `seen`, in memory, never pruned | `Seen`, `Mark` | orchestrator |
| worker (`internal/worker`) | the delivery in hand | `Run`, `handle` | deliveries channel, orchestrator |
| broker client (`internal/broker`) | one connection, one consumer channel, a channel per publish | `Connect`, `Setup`, `Consume`, `Publish*`, `Close` | RabbitMQ |
| process (`cmd/main.go`) | phase of life | `connectBroker`, signal, shutdown | all of them |
| registry and factory (`internal/provider`, `factory`) | name -> adapter | `Register`, `Get`, `NewRegistryFromConfig` | configuration, orchestrator |
| adapters (`internal/provider/*`) | a client each | `Send` | external services |
| bot webhook (`internal/telegrambot`) | none per call | `ServeHTTP` | Telegram, broker client, bot adapter |
| renderer (`internal/template`) | none | `Render` | files, orchestrator |
| mail building (`internal/provider/email/{message,brand,layout}.go`) | layouts and brands, read at start-up | `message`, `buildMessage`, `applyLayout` | SMTP adapter |
| bot presentation (`internal/provider/telegrambot`) | the deployment's copy | `telegramMessage`, `telegramWelcomeText` | bot adapter, webhook |
| health server and check (`cmd/main.go`) | none | `healthHandler`, `withTelegramWebhook`, `runHealthcheck` | process |
| test client (`cmd/send-test-message`) | a temporary queue | `parseOptions`, `buildRequest`, `run`, `waitForResult` | broker |

What is hard here, and what makes each part correct:

* **Orchestrator and store.** A walk through a plan whose entries may be
  refused, missing, undeliverable or failing, repeated by redelivery and by
  publish failures. Correct: an incarnation reports an event as sent at most
  once, says "sent" only if a provider accepted it, falls back after
  "undeliverable" and after nothing else, passes over no usable provider, and
  its answer agrees with what it did.
* **Worker, broker client, process.** Manual acknowledgement, prefetch, replicas
  on one queue, publishes without confirms, errors of Ack and Nack that are
  ignored, a shutdown that does not wait for the worker, no reconnection.
  Correct: no message is lost or duplicated by the service's own use of the
  broker; what is acknowledged was answered; a redelivery has a cause.
* **Adapters.** A timer, the HTTP client's timeout and the worker's context race
  with an answer whose request may have been served. Correct: "sent" means
  taken, and "undeliverable", which makes the orchestrator contact somebody
  else, means not taken.
* **Topology and test client.** Several processes declare the same exchange and
  queues side by side, each may be cut off half way, and what cannot be routed is
  dropped without an error. Correct: a request that reached the exchange is not
  dropped, a waiting client misses no result, a dead letter stays dead.
* **Webhook.** Telegram repeats what was not confirmed, while the handler that
  lost its caller goes on. Correct: what is confirmed was published; nobody is
  greeted as connected before.
* **Renderer, mail, bot message.** Values of the producer pass through templates,
  layouts and the bot's HTML, by stages that escape or do not, in the order of a
  Go map. Correct: the reader sees values as they were written, the order of the
  map does not show, the body cannot act as layout.
* **Start-up.** File, environment and defaults are laid over each other and
  checked, then the process wires itself up with the consumer already open.
  Correct: what `Load` accepts has a usable channel, prefetch and greeter for
  everything that is on, and little is left that main can still die of.

## 2. Modules

| Module | Models | EXTENDS |
|---|---|---|
| `ProviderPolicy` | validation, provider plan, configuration look-ups | |
| `Orchestrator` | `Handle` and the store, per process incarnation | `ProviderPolicy` |
| `DeliveryWorker` | worker loop, broker connection, process life, RabbitMQ queue | `Orchestrator` |
| `RequestLedger` | abstract: the promise to producers | |
| `Adapters` | factory, registry and every `Send` as functions; the contract of `Send` | |
| `AdapterCall` | one `Send` in time, against a service and timers | `Adapters` |
| `TelegramWebhook` | `ServeHTTP` under Telegram's retries | |
| `BrokerTopology` | `Setup`, routing through the one exchange, dead letters, the test client | instance of `ProviderPolicy` |
| `Rendering` | `Render`, the mail and the bot message around it | |
| `Startup` | `config.Load`, main up to its goroutines, the health check | `Adapters` |
| `PolicyCases` | every request over a set of provider names, and what its plan should be | `ProviderPolicy` |
| `MC*` | constants of the runs | the module of that name, `PolicyCases` for `MCProviderPolicy` |
| `PolicyProofs` | theorems on the plan | `PolicyCases` |
| `OrchestratorProofs` | theorems on `Handle` | `Orchestrator`, `PolicyProofs` |
| `DeliveryWorkerProofs` | theorems on the service and its refinements | `DeliveryWorker`, `OrchestratorProofs` |
| `AdapterProofs`, `WebhookProofs`, `TopologyProofs`, `RenderingProofs`, `StartupProofs` | theorems | `AdapterCall`, `TelegramWebhook`, `BrokerTopology`, `Rendering`, `Startup` |

### Orchestrator

An element of `Procs` is one *incarnation* of the process. A restart is another
element with an empty store; replicas are elements alive at the same time. `pc`
says where the incarnation is in `Handle`, `req`, `idx` and `answer` are its
local variables, `seen` is the store. `Handle` is cut where it leaves the process:

| Action | Code in `orchestrator.go` |
|---|---|
| `HandleDuplicate`, `HandleAborts`, `HandleBegins` | 52-54; 56-69; 56-71 |
| `Refuse`, `Skip` | an entry that is not allowed or not registered, 73-85 |
| `SendSent`, `SendUndeliverable`, `SendFailed` | the whole `Send` and the switch on its result, 86-110 |
| `Exhausted` | 113 |
| `PublishReturns` | 130-136 |
| `Return`, `Stop` | the caller takes the result; the goroutine or the process ends |

`tried`, `accepts` and `copies` are history: the Sends of the current request,
the Sends that reported "sent" per event, and the copies providers really took
(an outcome carries `landed`, the truth the service does not see). One worker
goroutine runs per process, so one request at a time is faithful, and the
store's mutex needs no model.

What `Send` may return is the constant `Registry`. The runs compute it with
`Adapters!SendContract` from the registry `Adapters` builds, and `AdapterCall`
checks that the adapters keep to it (`KeepsContract`). The first argument of an
entry says whether the context had already ended.

### DeliveryWorker

`phase` is the process (connecting, up, cancelled, gone), `link` its AMQP side:
"open", "deaf" when the consumer channel is gone while the connection still
publishes, "closed". `buffer` is what the client library has received and the
worker has not; `unacked` is the broker's view of the same consumer. The two
differ after a lost channel, when the broker has requeued what the worker may
still take from its buffer. RabbitMQ is external, modelled from the calls in
`broker.go`: manual acknowledgement, prefetch per channel, requeue when the
channel closes, dead-lettering by `Nack(false, false)`, and acknowledgements on
a closed channel that have no effect.

`Publish` is one step because `publish` closes its channel before it returns,
and closing is a round trip: a result is routed before the Ack is sent, or the
connection is dead (`PublishLost`: `PublishResult` returned nil, the result is
gone, and so is the channel the Ack would need). This takes the exchange to exist
and to be writable, see section 6. `PublishWithContext` of the
AMQP client in `go.mod` does not look at its context, so a signal does not fail
a publish. The select in `Run` chooses at random when both cases are ready:
`Receive` is enabled after the signal too. `CloseLink` and `Exit` are main's
deferred calls, which nothing synchronises with the worker.

### Adapters and AdapterCall

Addresses, tokens and payloads are the facts `Send` tests; an answer is a status
code with what the code reads of its body. Each `Send` is a chain of early
returns (`FirstMatch`), then a classification. `AdapterCall` adds time: the
request leaves, the service may take it and answer, `ctx` or a timer may end at
any moment; the SMTP goroutine goes on after `Send` has returned. The service is
assumed honest: it confirms only what it took, refuses (4xx, `ok: false`) only
what it did not, and after anything else nothing is known.

### TelegramWebhook

One element of `Calls` is a handler at work. `Decide` is `ServeHTTP` up to the
first call that leaves the process; `PublishConnection`, `PublishFails`,
`PublishLost`, `Greet` and `Answer` follow. `heard` is false once Telegram has
given up or the server's 5 s `WriteTimeout` has cut the answer off, while the
handler, with up to `PublishTimeoutSec` for each of its two calls, goes on.
Telegram has one open call per update and repeats until it gets a 2xx.

### BrokerTopology

The exchange, the queues, their bindings and contents are state of their own
here. `Declare` is one call of `Setup`; the calls of several services and clients
interleave, and `SetupFails` (connectBroker's retry) or `RunFails` (the client
returns) cut them off. A client starts from its flags: `StartRun` goes on to
the broker only if they make a request that `Validate` accepts (`Accepted`), and
the service that gets the request decides with the same `DecodeRequest`, of module
`ProviderPolicy`, whether it can be decoded (`Decodes`). `ConsumeResultsTemporary`, `PublishRequest`, `WaitForResult`
and `TimeOut` are `send-test-message`; `Return` is its deferred calls, with which
the exclusive queue goes. Between request and result the service is one step
(`Serve`), because `DeliveryWorker` models what happens there; `Reject` publishes a
dead letter to the exchange again, under the key of the queue's declaration.
A restart of the broker keeps what `Setup` declares durable (`DurableQueues`).

The model takes keys without wildcards. With `ExchangeKind = "fanout"`, which the
configuration accepts, every queue gets every message and `DeadLettersStayDead`
does not hold: a rejected request returns to the request queue. The run uses
the default, "topic".

### Rendering

A text is the set of its tokens: words, placeholders, literals such as `<` that
are to be read as written, tags that are to be obeyed, and how often each has
been escaped. Order and repetition within a text do not matter to any property,
so they are left out; so are placeholders that a value completes only together
with the text around it. `RenderSnapshot`, `RenderBegins` and `RenderFails` are
`Render` up to the first replacement; each turn of `replaceVariables` over the
map is a step (`ReplaceInSubject`, `ReplaceInBody`), taken in any order. `disk` is
the set of template files that can be read: they are read for every message,
while layouts are read once. `SendMail` is `SMTP.message` with any adapter of
`SMTP`, `SendBotMessage` is `telegramMessage`; a greeting of the webhook starts
with nothing rendered. What the operator and the producer supply is assumed
proper itself (`InputsAssumption`): an HTML template has no bare `<`, a text
template no tags.

### Startup

`cfg` is the file until `Load` has applied the environment and the defaults and
checked the result; `registry` is built from it with `Adapters!NewRegistryFromConfig`.
An adapter is the facts that the checks and the factory test, `path` the kind
of `WebhookPath` (its own, "/", "/health", one the mux cannot parse, a relative
one). `Connect` and `ConnectFails` are turns of connectBroker's loop, `Wire` is main
from the registry look-up to the mux, `Listen`, `ListenFails` and `RunWorker` are the
goroutines, and `RunHealthcheck` is the same program started with `--healthcheck`, at
any moment. `Die` is every way out: `cause` says which. `NamesResolve` and `GreeterIsReady`
speak of an adapter that has its registered name to itself within its channel
(`OwnName`): between two of one name the order of a Go map decides.

### RequestLedger and the refinement

`RequestLedger` knows requests, answers and accepted events, no processes or
queues: a request stays queued until it is settled or dead-lettered, is settled
only after an answer, only undecodable bodies are dead-lettered, and "sent" is
answered only for an accepted event. It allows further answers, also after the
settlement, because the service gives them: a worker that lost its connection
finishes what it was doing while another instance settles the request.
`DeliveryWorker!KeepsLedger` is the refinement (state from `fresh`, `retired`,
`dlq`; answers from the routed results; accepted from `accepts`).

## 3. Runs

| Run | Distinct states | Shows |
|---|---|---|
| `provider_policy` | 2720 | `ProviderPlan` against a declarative reference, chains up to 3 names, empty name included |
| `orchestrator` | 4415 | all safety properties of `Handle`, and that a walk ends |
| `worker` | 136 583 (symmetric) | conservation, answer before Ack, no concurrent handling, redelivery has a cause, refinement of `RequestLedger` |
| `worker_live` | 18 517 | every published message is settled |
| `adapter_call` | 4660 | each `Send` against every answer, timer and cancellation |
| `webhook` | 194 491 | confirmed is published, a welcome and a duplicate have their cause, and acceptable updates are confirmed |
| `topology` | 82 478 | requests are kept, results not missed, dead letters stay dead, clients return |
| `rendering` | 6166 | values are shown as written, in every order of the variables; layouts, unsubscription, greetings |
| `startup` | 28 306 | what `Load` guarantees, what main still dies of, names and greeter, nothing serves before the broker is up, it comes to serve |
| `doc_*` | until violated | three disagreements of the README with the code, section 5 |

Bounds. *Policies*: the requests of `MCOrchestrator` cover a selection that is
usable, not allowed, not registered and absent, chains with repetitions, empty
names and unusable entries, with and without fallback; two event ids, one
incarnation (incarnations share nothing in `Orchestrator`). *Two incarnations*
in the worker runs are a replica or a successor; a third adds no new relation
between holders of a message. *`MaxFaults`* is 1 in the safety runs and 2 in
`worker_live`: faults at every point of every interleaving; signals and
shutdowns are not counted, so one fault meets any number of them. *`Prefetch`*
is 2; the configuration's default is 8 and never 0 (`LoadedIsUsable`). The one valid
request and the undecodable body of these runs are delivered together, so one
waits in the buffer while the other is handled; two valid requests for one event
at a time are covered by the proofs, which hold for any set of messages. *`MaxCopies`* counts copies as none,
one, more. *`topology`* has one
service, three clients (one waits for its result, one does not, so that its result is the foreign
one the first has to read past, and one has flags that must not become a request), a
producer of an undecodable request that declares nothing, and three faults (cut-off
declarations, restarts, foreign bodies on the result key); several services are
covered by the proofs. *`rendering`* has two variables, so that a value can
mention the other one, a template for each kind of body and each way to choose it,
two locales and an unknown one, adapters without a layout, with one and with two
brands, and every metadata field at its interesting values, one at a time. *`startup`* varies one
entry of the file at a time and the webhook's entries together, with names
shared between channels, under environments that override nothing, something
sensible or nonsense. *`MaxCalls`* is Telegram's attempts per update; in the liveness run
it exceeds `MaxFaults`, otherwise Telegram would give up. `CHECK_DEADLOCK FALSE`
wherever a system may stop: all incarnations gone, Telegram out of attempts, a
call returned.

The proofs remove these bounds for the properties in section 4.

### Fairness

* `FairOrchSpec`: an incarnation in `Handle` goes on. Every `Send` has a timer
  (15 s or 10 s by default, checked by `SendReturns`) and a publish on a dead
  connection fails when the AMQP heartbeats stop.
* `DeliveryWorker!FairSpec`: weakly fair are the worker's steps (its goroutine
  is never blocked for good, see above), `ConnectBroker` (it retries every 2 s),
  the broker's `Deliver` (it pushes to a consumer with room), and `Shutdown`
  (`srv.Shutdown` is bounded to 10 s). Nothing is assumed of faults, signals or
  producers.
* `TelegramWebhook!FairSpec`: handlers go on, Telegram repeats, a stopped
  service is started again. `AdapterCall!Spec`: timers fire.
* `Startup!Spec`: main goes on, and an attempt of connectBroker succeeds in the end;
  at most `MaxFaults` of them fail in the run. Nothing is assumed of the goroutines.
* `BrokerTopology!Spec`: a client goes on (its calls to the broker return, at the
  latest when the AMQP heartbeats stop) and its deadline passes
  (`context.WithTimeout`, which the client sets for every run). Nothing is assumed of
  services: `ClientReturns` holds when there is none.

`EventuallySettled` has the exception `Unattended` because the code has it:
after a lost consumer or connection `Run` returns, nobody reconnects, and the
process stays up and healthy to `/health`. `EventuallyConfirmed` excepts the
same zombie, but only if it is what Telegram's last attempt meets: after a restart
that comes before it, the update has to be confirmed. With a publish that fails for
ever, `NackRequeue` would circulate a request for ever; `MaxFaults` bounds that, so
the run says nothing of such a broker.

## 4. Proofs

All are checked by tlapm without assumptions other than the named ones of the
modules (`ChannelsAssumption`, `RequestsAssumption`, `RegistryAssumption`,
`RenderAssumption`, `CasesAssumption`, `WorkerAssumption`, `AdaptersAssumption`,
`InputsAssumption`, `FilesAssumption`, `EnvironmentsAssumption`, `BoundAssumption` and
those on the constants of the webhook and the topology). TLC evaluates each of
them in a run. `FilesAssumption` is what unmarshalling into `Config` leaves, with one
fact about the environment: the bot's provider reads the token variable that
`Validate` has looked at, and trims it.

* **`PolicyProofs`.** `PlanAll`, the loop of `ProviderPlan`, is a recursive function of
  the position. `ClosedIsNat` is induction, from the well-founded order of the
  naturals; with it `LoopExists` and `LoopComputes` show that the function is what
  its definition says, for chains of any length. `PlanAllIsPlan` is the invariant of the
  loop: after n names the plan has no name twice, holds the start and what occurs
  among the n names, and lists them by first position; `PlanIsInOrder` and `PlanFollowsPolicy`
  turn it into the declarative reference of `PolicyCases`.

* **`OrchestratorProofs`.** `IInv` strengthens `OrchTypeOK`,
  `OncePerIncarnation`, `SentIsTruthful` and `StopAtFirstAnswer` with what they
  need of each other: while an incarnation walks, its event is not in `seen`
  (so that the next accepted Send is the first), its trail is all undeliverable,
  and a request is decodable while it is held. `OncePerIncarnation` alone is not
  inductive: it does not exclude a walk for an event that is already marked.
  `Invariance` proves it for every action; the four theorems are its conjuncts.
  `StatusInvariance` adds that no empty status is published.
  `Trails` ties the position, the trail and the answer together: the positions of
  the Sends are increasing and are all before the current one, every usable entry
  before it has a Send, and the answer given is the one the walk ended with.
  `AnswerMatchesTrail` alone is not inductive, because it says nothing of a walk that
  goes on; `NobodyPassedOver` needs that the trail's last position is the current
  one while `Send` is under way. `SelectionRespected` needs two more facts: the plan
  names nobody twice and the selected provider first (`PolicyProofs`), and a walk that
  is past its first position found the selected provider usable (`SelectionsUsable`),
  since an unusable selection is refused and not skipped.
* **`DeliveryWorkerProofs`.** `RunsOrchestrator`: every action of the service is
  a step of `OrchSpec` or a stutter, so everything above holds of the service.
  `WInv` then adds to types and `Conservation` the facts about what a worker
  holds (`HoldInv`): the request in `Handle` is the body of `cur`; what an open
  consumer has in its buffer or in hand is in `unacked`; nothing held is still
  unpublished; a worker whose `Handle` is done has a routed result or no open
  channel. The last is why an Ack the broker hears is always for an answered
  request, and the reason `PublishLost` takes the channel down matters.
  `HandledByOneConsumer` follows from ownership and `Conservation`.
  `HandledOnceWhileQuiet` (`RedeliveryHasCause`, an action property) rests on `QuietInv`:
  while nothing has gone wrong every worker has its channel, no `Handle` has
  returned an error, and a message that was answered is settled or in the hands of
  the worker that answered it, so it is in no buffer to be taken again. `QuietBefore`
  shows that a quiet step comes from a quiet state.
  `ServiceKeepsLedger` is the refinement of `RequestLedger` for every instance. Each
  lemma maps one group of actions: producing submits, an accepted Send accepts, a
  routed result answers, an Ack that is heard settles, a Reject that is heard
  dead-letters, everything else stutters. It uses `WInv` and `IInv`.
* **`AdapterProofs`.** A chain of early returns is a sequence of rules; `FirstRule` says
  what the first that holds returns, and the classification of every status
  code follows by cases. The invariant `AInv` adds what is not visible in a result:
  an HTTP request does not leave under a context that had ended, an answer on its
  way agrees with what the service did, and after "undeliverable" there is either
  nothing with the service or an answer has been given, so that nothing can be
  taken later. `ContractHolds` makes the orchestrator's provider a sound
  abstraction of the adapters.
* **`WebhookProofs`.** `WInv` follows each handler: what it has published, whether its
  caller still listens, and how many calls an update has had. `DuplicateHasCause`
  rests on the fact that Telegram has one open call per update, so a second
  publish presupposes an answer that was not heard.
* **`TopologyProofs`.** `TInv` says which declarations an actor at step `n` of `Setup`
  may rely on, whatever the others do: declarations are only ever added, and a broker
  restart takes away nothing durable. From it follow that a published request is
  routed and a waiting client's queue is bound. `DeadStaysDead` assumes an exchange
  that looks at keys.
* **`RenderingProofs`.** `RInv` adds to types that every text on its way is proper, and
  that subject and body are the template with the variables that were already
  visited filled in at once (`FillInv`): the order of the map is quantified away.
  `MadeInv` says that what left is what `message` made of the rendered text, from which the
  two theorems on layouts and unsubscription follow.

* **`StartupProofs`.** Only `Load` writes the configuration and the registry, only `Wire`
  the sender. `StartInv` keeps what they leave: a configuration in use has passed
  `Validate` with completed channels (`Complete`), its registry is the one built from its
  adapters, the sender was found there, and a death while wiring is explained.
  `DefaultsComplete` and `LoadCompletes` follow a file through the environment and the
  defaults; `RegistryByChannel` says which channel a name belongs to after four rounds of
  registration; `BuiltProvider` follows the factory's early returns. `GreeterIsServed`
  needs all three, since `Load` checks the adapter, not the provider that greets.

Only model-checked: all liveness (no ENABLED in the prover), which is `HandleTerminates`,
`EventuallySettled`, `SendReturns`, `EventuallyConfirmed`, `ClientReturns` and
`EventuallyServes`; every other property of a passing run is a theorem. Where the type
invariant is a theorem (`AdapterCall`, `DeliveryWorker`, `Rendering`), the run of the
module does not repeat it. That `Load` establishes `ChannelsAssumption` of the
orchestrator is proved up to the types of its names (`LoadedIsUsable`: default chains
that are not empty and have one name outside the phone channel); the rest, that the
built-in default names are strings, is nothing the installed provers can see, and
TLC evaluates it.

## 5. Where the documentation and the code disagree

1. `doc_fallback`: README lines 95-96 and 906 make fallback depend on
   `allow_fallback`. The code looks at it only for the selected provider.
2. `doc_unknown_selection`: README lines 538-541 promise "undeliverable" for a
   selection no adapter serves. The code answers "failed".
3. `doc_duplicate`: README line 105 says the store protects against duplicate
   delivery while the process lives. It protects against a second *confirmed*
   one (`OncePerIncarnation`, proved); a Gateway call that times out after it
   was served is "undeliverable" and followed by the next provider.

Met on the way, and modelled as it is:

* `buildProvider` returns for a malformed brand an adapter with the *brand's* name
  (factory.go:65 hides the parameter); `Load` excludes it in the email channel only.
  If it is Telegram's default adapter, main dies after it has opened its
  consumer, or the webhook greets through a namesake of another channel.
* `Validate` accepts a blank bot token and a blank webhook secret (the constructors
  trim them), a default provider that is not among the allowed ones, and the
  webhook paths "/" (the mux panics, main.go:111) and "/health" (it takes the health
  endpoint's place).
* `TelegramBot.ConnectionRoutingKey` is required and never read; events go out
  under the broker's routing key.
* An SMTP adapter with `Brands` still needs a `From` of its own, or every `Send`
  returns `smtp_not_configured` (smtp.go:61).
* README line 518 says that a `notification_custom_html` snapshot is not wrapped again;
  the metadata entry `email_apply_brand_layout` wraps it (message.go:40).
* For a locale such as "ru-RU" the bot's own texts are Russian and the template is the
  default language's; and an HTML body in the default locale goes before a text
  body in the requested one (render.go:78-95).
* A deployment text for the bot that consists of spaces replaces the built-in one, and
  the message then falls back to English (telegrambot.go:256).
* With a fanout exchange, which the configuration accepts, a dead letter returns to
  the request queue.

## 6. Not modelled

The VAPID key generator (it prints a key pair) and the parts of `internal/config` that
look up an adapter's fields. Of texts: order, repetition, wording, emoji, MIME
headers, logos, and what an HTML parser makes of broken markup. Of the
configuration: JSON itself, and which of two adapters wins a name within one channel. Of
RabbitMQ: wildcard keys, persistent messages the broker had not yet written when
it crashed, priorities and order of the queue (any ready message may be delivered
next), a consumer cancelled by the broker with its channel open.

The broker may also refuse a publish and close the publish channel alone, because the
exchange was deleted or the user may not write to it. `publish` has returned nil by
then and ignores the error of `ch.Close` (broker.go:188-189), so the result is lost
and the request acknowledged all the same. `AckedHasResult`, `KeepsLedger` and, for
connection events, `ConfirmedIsPublished` therefore hold given that the exchange exists
and is writable; `BrokerTopology` has it so, since declarations are only ever added.

What the code does not promise has no property, and its hazard has a note instead:
replicas and successors do not share `seen` (README.md:86 says so), so two messages
with one event_id may both be sent; an unattended queue stays so; an event or a
result that went down with the connection is gone; a publish that never succeeds
is requeued for ever; an empty name at the head of a chain fails the request.
`RedeliveryHasCause` is about messages and not about copies. `seen` grows without bound in
the code and in the model.

## 7. Plan

Done: everything in the table of section 2. What is left:

1. A composition of `Startup` with `DeliveryWorker`: a process that dies of its
   wiring or its port with deliveries in hand. Today `Crash`, which may happen
   anywhere, stands for it.
2. An abstract specification of the webhook's promise to its users (an event per
   confirmed update), refined by `TelegramWebhook` as the service refines the ledger.
