---------------------------- MODULE Orchestrator ----------------------------
(***************************************************************************)
(* Orchestrator.Handle (internal/delivery/orchestrator.go) with its        *)
(* MemoryIdempotencyStore (internal/delivery/idempotency.go), as one       *)
(* sequential machine per process incarnation.                             *)
(*                                                                         *)
(* An element of Procs is one incarnation of the service: a restart starts *)
(* another element with an empty store, and replicas are several elements  *)
(* alive at the same time.  Each incarnation runs one worker goroutine, so *)
(* it handles one request at a time.                                       *)
(*                                                                         *)
(* Handle is cut at the calls that leave the process: the look-ups and the *)
(* rendering are one step, each turn of the provider loop is one step that *)
(* contains the whole Send and what Handle does with its result, and       *)
(* PublishResult is one step.                                              *)
(***************************************************************************)
EXTENDS ProviderPolicy

CONSTANTS
    Procs,            \* process incarnations
    Requests,         \* request bodies, valid or not
    NoRequest,        \* what an idle incarnation is handling
    Registry,         \* provider -> ctx cancelled? -> outcomes of Send
    RenderOutcomes    \* request -> can Render succeed / can it fail

(***************************************************************************)
(* landed is the truth about the outside world that the service does not   *)
(* see: the provider took the message, whatever Send reports.              *)
(***************************************************************************)
Statuses == {"sent", "undeliverable", "failed"}
Outcome == [status : Statuses, code : STRING, landed : BOOLEAN]

ASSUME RequestsAssumption ==
    /\ NoRequest \notin Requests
    /\ \A r \in Requests :
          /\ r.event_id \in STRING /\ r.selected \in STRING
          /\ r.recipient_type \in STRING
          /\ r.chain \in Seq(STRING) /\ r.fallback \in BOOLEAN

ASSUME RegistryAssumption ==
    /\ DOMAIN Registry \subseteq STRING
    /\ \A n \in DOMAIN Registry : \A c \in BOOLEAN :
          /\ Registry[n][c] \in SUBSET Outcome
          /\ Registry[n][c] # {}
          /\ \A out \in Registry[n][c] : out.status = "sent" => out.landed

ASSUME RenderAssumption ==
    \A r \in Requests :
       RenderOutcomes[r] \in SUBSET BOOLEAN /\ RenderOutcomes[r] # {}

EventIds == {r.event_id : r \in Requests}
Decodable == {r \in Requests : DecodeRequest(r)}

\* Copies of a message are counted up to this many: "one" and "too many".
MaxCopies == 2

VARIABLES
    pc,        \* where the incarnation is in Handle
    req,       \* the request being handled
    idx,       \* position in the provider plan
    tried,     \* history: the Sends made for this request
    answer,    \* the ResultEvent Handle publishes
    seen,      \* MemoryIdempotencyStore.seen
    accepts,   \* history: Sends of an event that reported "sent"
    copies     \* history: Sends of an event that the provider took

orchVars == <<pc, req, idx, tried, answer, seen, accepts, copies>>

NoAnswer == [provider |-> NoName, attempt |-> 0, status |-> "", code |-> ""]

OrchInit ==
    /\ pc = [p \in Procs |-> "idle"]
    /\ req = [p \in Procs |-> NoRequest]
    /\ idx = [p \in Procs |-> 0]
    /\ tried = [p \in Procs |-> <<>>]
    /\ answer = [p \in Procs |-> NoAnswer]
    /\ seen = [p \in Procs |-> {}]
    /\ accepts = [p \in Procs |-> [e \in EventIds |-> 0]]
    /\ copies = [p \in Procs |-> [e \in EventIds |-> 0]]

-----------------------------------------------------------------------------
(* The idempotency store *)

Seen(p, eventId) == eventId \in seen[p]
Mark(p, eventId) == seen' = [seen EXCEPT ![p] = @ \cup {eventId}]

-----------------------------------------------------------------------------
(* Entering Handle *)

\* Handle calls publish: the result event is made, PublishResult is next.
Reply(p, provider, attempt, status, code) ==
    /\ pc' = [pc EXCEPT ![p] = "publish"]
    /\ answer' = [answer EXCEPT ![p] = [provider |-> provider,
                     attempt |-> attempt, status |-> status, code |-> code]]

HandleDuplicate(p, r) ==
    /\ pc[p] = "idle"
    /\ Seen(p, r.event_id)
    /\ req' = [req EXCEPT ![p] = r]
    /\ Reply(p, NoName, 0, "sent", "duplicate_ignored")
    /\ UNCHANGED <<idx, tried, seen, accepts, copies>>

\* Why Handle may give up before it looks at any provider.
PreludeErrors(r) ==
    IF Plan(r) = <<>> THEN {"provider_chain_empty"}
    ELSE IF FALSE \in RenderOutcomes[r] THEN {"template_error"}
    ELSE {}

HandleAborts(p, r) ==
    /\ pc[p] = "idle"
    /\ ~Seen(p, r.event_id)
    /\ req' = [req EXCEPT ![p] = r]
    /\ \E code \in PreludeErrors(r) : Reply(p, NoName, 0, "failed", code)
    /\ UNCHANGED <<idx, tried, seen, accepts, copies>>

\* Mutant of HandleBegins: the store is not asked.
HandleBeginsAgain(p, r) ==
    /\ pc[p] = "idle"
    /\ Plan(r) # <<>>
    /\ TRUE \in RenderOutcomes[r]
    /\ pc' = [pc EXCEPT ![p] = "walk"]
    /\ req' = [req EXCEPT ![p] = r]
    /\ idx' = [idx EXCEPT ![p] = 1]
    /\ UNCHANGED <<tried, answer, seen, accepts, copies>>

\* Mutant of HandleBegins: the event is marked before it is sent.
HandleBeginsMarked(p, r) ==
    /\ pc[p] = "idle"
    /\ ~Seen(p, r.event_id)
    /\ Plan(r) # <<>>
    /\ TRUE \in RenderOutcomes[r]
    /\ pc' = [pc EXCEPT ![p] = "walk"]
    /\ req' = [req EXCEPT ![p] = r]
    /\ idx' = [idx EXCEPT ![p] = 1]
    /\ Mark(p, r.event_id)
    /\ UNCHANGED <<tried, answer, accepts, copies>>

HandleBegins(p, r) ==
    /\ pc[p] = "idle"
    /\ ~Seen(p, r.event_id)
    /\ Plan(r) # <<>>
    /\ TRUE \in RenderOutcomes[r]
    /\ pc' = [pc EXCEPT ![p] = "walk"]
    /\ req' = [req EXCEPT ![p] = r]
    /\ idx' = [idx EXCEPT ![p] = 1]
    /\ UNCHANGED <<tried, answer, seen, accepts, copies>>

Handle(p, r) == HandleDuplicate(p, r) \/ HandleAborts(p, r) \/ HandleBegins(p, r)

-----------------------------------------------------------------------------
(* The provider loop *)

Walking(p) == pc[p] = "walk" /\ idx[p] <= Len(Plan(req[p]))
Current(p) == Plan(req[p])[idx[p]]
Usable(r, name) == AllowedProvider(r.recipient_type, name) /\ name \in DOMAIN Registry

\* Mutant of NextProvider: the position is advanced twice.
NextProviderTwice(p) ==
    /\ idx' = [idx EXCEPT ![p] = @ + 2]
    /\ UNCHANGED <<pc, answer>>

NextProvider(p) ==
    /\ idx' = [idx EXCEPT ![p] = @ + 1]
    /\ UNCHANGED <<pc, answer>>

RefusalCode(r, name) ==
    IF AllowedProvider(r.recipient_type, name)
    THEN "provider not found"
    ELSE "provider_not_allowed"

Refuse(p) ==
    /\ Walking(p)
    /\ ~Usable(req[p], Current(p))
    /\ req[p].selected = Current(p)
    /\ Reply(p, Current(p), idx[p], "failed", RefusalCode(req[p], Current(p)))
    /\ UNCHANGED <<req, idx, tried, seen, accepts, copies>>

\* Mutant of Skip: the position is not advanced.
SkipStays(p) ==
    /\ Walking(p)
    /\ ~Usable(req[p], Current(p))
    /\ req[p].selected # Current(p)
    /\ UNCHANGED orchVars

Skip(p) ==
    /\ Walking(p)
    /\ ~Usable(req[p], Current(p))
    /\ req[p].selected # Current(p)
    /\ NextProvider(p)
    /\ UNCHANGED <<req, tried, seen, accepts, copies>>

\* What sender.Send(ctx, message) may return with this status.
SendResults(p, cancelled, status) ==
    {out \in Registry[Current(p)][cancelled] : out.status = status}

\* sender.Send(ctx, message) returned out: the history it leaves.
RecordSend(p, out) ==
    LET e == req[p].event_id IN
    /\ tried' = [tried EXCEPT ![p] = Append(@, [at |-> idx[p],
                    provider |-> Current(p), status |-> out.status])]
    /\ accepts' = [accepts EXCEPT ![p][e] = IF out.status = "sent" THEN @ + 1 ELSE @]
    /\ copies' = [copies EXCEPT ![p][e] =
                    IF out.landed /\ @ < MaxCopies THEN @ + 1 ELSE @]
    /\ UNCHANGED req

\* Mutant of SendSent: the store is keyed by provider instead of event.
SendSentMarksProvider(p, cancelled) ==
    /\ Walking(p)
    /\ Usable(req[p], Current(p))
    /\ \E out \in SendResults(p, cancelled, "sent") : RecordSend(p, out)
    /\ Mark(p, Current(p))
    /\ Reply(p, Current(p), idx[p], "sent", "")
    /\ UNCHANGED idx

\* Mutant of SendSent: attempts are counted from zero.
SendSentFromZero(p, cancelled) ==
    /\ Walking(p)
    /\ Usable(req[p], Current(p))
    /\ \E out \in SendResults(p, cancelled, "sent") : RecordSend(p, out)
    /\ Mark(p, req[p].event_id)
    /\ Reply(p, Current(p), idx[p] - 1, "sent", "")
    /\ UNCHANGED idx

SendSent(p, cancelled) ==
    /\ Walking(p)
    /\ Usable(req[p], Current(p))
    /\ \E out \in SendResults(p, cancelled, "sent") : RecordSend(p, out)
    /\ Mark(p, req[p].event_id)
    /\ Reply(p, Current(p), idx[p], "sent", "")
    /\ UNCHANGED idx

\* Only the selected provider of a request without fallback ends the walk.
FallsBack(r, name) == r.selected # name \/ r.fallback

SendUndeliverable(p, cancelled) ==
    /\ Walking(p)
    /\ Usable(req[p], Current(p))
    /\ \E out \in SendResults(p, cancelled, "undeliverable") :
          /\ RecordSend(p, out)
          /\ IF FallsBack(req[p], Current(p))
             THEN NextProvider(p)
             ELSE /\ Reply(p, Current(p), idx[p], "undeliverable", out.code)
                  /\ UNCHANGED idx
    /\ UNCHANGED seen

\* Mutant of SendFailed: a failure is a reason to fall back.
SendFailedFallsBack(p, cancelled) ==
    /\ Walking(p)
    /\ Usable(req[p], Current(p))
    /\ \E out \in SendResults(p, cancelled, "failed") : RecordSend(p, out)
    /\ NextProvider(p)
    /\ UNCHANGED seen

SendFailed(p, cancelled) ==
    /\ Walking(p)
    /\ Usable(req[p], Current(p))
    /\ \E out \in SendResults(p, cancelled, "failed") :
          /\ RecordSend(p, out)
          /\ Reply(p, Current(p), idx[p], "failed", out.code)
    /\ UNCHANGED <<idx, seen>>

Exhausted(p) ==
    /\ pc[p] = "walk"
    /\ idx[p] > Len(Plan(req[p]))
    /\ Reply(p, NoName, Len(Plan(req[p])), "undeliverable", "all_providers_undeliverable")
    /\ UNCHANGED <<req, idx, tried, seen, accepts, copies>>

Walk(p, cancelled) ==
    \/ Refuse(p)
    \/ Skip(p)
    \/ SendSent(p, cancelled)
    \/ SendUndeliverable(p, cancelled)
    \/ SendFailed(p, cancelled)
    \/ Exhausted(p)

-----------------------------------------------------------------------------
(* Leaving Handle *)

\* PublishResult returned nil (ok) or an error; Handle returns the same.
PublishReturns(p, ok) ==
    /\ pc[p] = "publish"
    /\ pc' = [pc EXCEPT ![p] = IF ok THEN "done" ELSE "error"]
    /\ UNCHANGED <<req, idx, tried, answer, seen, accepts, copies>>

\* The stack of the incarnation's worker is gone; its memory is not.
Forget(p, next) ==
    /\ pc' = [pc EXCEPT ![p] = next]
    /\ req' = [req EXCEPT ![p] = NoRequest]
    /\ idx' = [idx EXCEPT ![p] = 0]
    /\ tried' = [tried EXCEPT ![p] = <<>>]
    /\ answer' = [answer EXCEPT ![p] = NoAnswer]
    /\ UNCHANGED <<seen, accepts, copies>>

\* The caller has taken Handle's result and is ready for the next request.
Return(p) == pc[p] \in {"done", "error"} /\ Forget(p, "idle")

\* The worker ends for good, by returning from Run or with its process.
Stop(p) == pc[p] # "stopped" /\ Forget(p, "stopped")

Progress(p) ==
    \/ \E cancelled \in BOOLEAN : Walk(p, cancelled)
    \/ \E ok \in BOOLEAN : PublishReturns(p, ok)
    \/ Return(p)

OrchNext ==
    \E p \in Procs :
       \/ \E r \in Decodable : Handle(p, r)
       \/ Progress(p)
       \/ Stop(p)

OrchSpec == OrchInit /\ [][OrchNext]_orchVars

(***************************************************************************)
(* Every call in Handle returns: the adapters bound Send by a timeout and  *)
(* the AMQP client fails a publish when its heartbeats stop.               *)
(***************************************************************************)
FairOrchSpec == OrchSpec /\ \A p \in Procs : WF_orchVars(Progress(p))

-----------------------------------------------------------------------------
(* Properties *)

\* What a result may name: a provider that was sent to or selected, or none.
Names == {NoName} \cup DOMAIN Registry \cup {r.selected : r \in Requests}
Outcomes(n) == Registry[n][TRUE] \cup Registry[n][FALSE]
ProviderCodes == {out.code : out \in UNION {Outcomes(n) : n \in DOMAIN Registry}}
Codes ==
    {"", "duplicate_ignored", "provider_chain_empty", "template_error",
     "provider_not_allowed", "provider not found", "all_providers_undeliverable"}
    \cup ProviderCodes

Attempt == [at : Nat, provider : DOMAIN Registry, status : Statuses]
Answer == [provider : Names, attempt : Nat, status : Statuses \cup {""}, code : Codes]

\* Type invariant: every variable of Handle and of the store has its shape, a
\* request is held exactly while one is handled, and only by a live worker.
OrchTypeOK ==
    /\ pc \in [Procs -> {"idle", "walk", "publish", "done", "error", "stopped"}]
    /\ req \in [Procs -> Decodable \cup {NoRequest}]
    /\ idx \in [Procs -> Nat]
    /\ tried \in [Procs -> Seq(Attempt)]
    /\ answer \in [Procs -> Answer]
    /\ seen \in [Procs -> SUBSET EventIds]
    /\ accepts \in [Procs -> [EventIds -> Nat]]
    /\ copies \in [Procs -> [EventIds -> 0..MaxCopies]]
    /\ \A p \in Procs : (req[p] = NoRequest) <=> (pc[p] \in {"idle", "stopped"})

\* Idempotency while the process is alive: whatever sequence of redeliveries,
\* publish failures and fallbacks an incarnation goes through, at most one
\* Send per event_id is ever reported as sent, and the store knows it (Handle
\* tests Seen on entry and Marks only after a successful Send).
OncePerIncarnation ==
    \A p \in Procs, e \in EventIds :
       accepts[p][e] = (IF e \in seen[p] THEN 1 ELSE 0)

Answered(p) == pc[p] \in {"publish", "done", "error"}

\* A "sent" result, the duplicate_ignored one included, is only ever given for
\* an event that a provider accepted from this very incarnation.
SentIsTruthful ==
    \A p \in Procs :
       Answered(p) /\ answer[p].status = "sent" => accepts[p][req[p].event_id] = 1

\* Fallback happens after "undeliverable" and after nothing else: of the Sends
\* made for a request only the last may have had another status, and once a
\* Send ends the walk no further provider is contacted.
StopAtFirstAnswer ==
    \A p \in Procs :
       /\ \A k \in 1..Len(tried[p]) : tried[p][k].status # "undeliverable" => k = Len(tried[p])
       /\ pc[p] = "walk" =>
             \A k \in 1..Len(tried[p]) : tried[p][k].status = "undeliverable"

\* The published result agrees with what happened: "sent" and provider
\* failures name the provider of the last Send and its place in the plan, and
\* all_providers_undeliverable is claimed only if no Send ended otherwise.
AnswerMatchesTrail ==
    \A p \in Procs : Answered(p) =>
       LET a == answer[p]
           n == Len(tried[p])
       IN /\ a.attempt > 0 /\ a.provider # NoName => a.provider = Plan(req[p])[a.attempt]
          /\ n > 0 /\ tried[p][n].status # "undeliverable" =>
                /\ a.status = tried[p][n].status
                /\ a.attempt = tried[p][n].at
          /\ a.status = "sent" /\ a.code # "duplicate_ignored" =>
                n > 0 /\ tried[p][n].status = "sent"

\* No provider that is allowed and registered is passed over: every usable
\* entry of the plan before the current position was really sent to, in plan
\* order, and nothing outside the plan or not usable was.
NobodyPassedOver ==
    \A p \in Procs : pc[p] \notin {"idle", "stopped"} =>
       LET plan == Plan(req[p])
           Done == {i \in 1..Len(plan) : i < idx[p] /\ Usable(req[p], plan[i])}
           At == {tried[p][k].at : k \in 1..Len(tried[p])}
       IN /\ Done \subseteq At
          /\ At \subseteq Done \cup {idx[p]}
          /\ \A k \in 1..Len(tried[p]) :
                /\ tried[p][k].provider = plan[tried[p][k].at]
                /\ Usable(req[p], tried[p][k].provider)
                /\ \A j \in 1..(k - 1) : tried[p][j].at < tried[p][k].at

\* A selection is respected: with a selected provider no provider is contacted
\* twice for one request and the selected one is contacted first; without
\* allow_fallback it is the only one.
SelectionRespected ==
    \A p \in Procs : req[p] # NoRequest /\ req[p].selected # NoName =>
       /\ \A j, k \in 1..Len(tried[p]) :
             j # k => tried[p][j].provider # tried[p][k].provider
       /\ tried[p] # <<>> => tried[p][1].provider = req[p].selected
       /\ ~req[p].fallback => Len(tried[p]) <= 1

\* Handle always comes to an end: whatever the providers answer, a walk ends
\* with a published or unpublishable result, or with its worker.
HandleTerminates ==
    \A p \in Procs : pc[p] = "walk" ~> pc[p] \in {"done", "error", "stopped"}

=============================================================================
