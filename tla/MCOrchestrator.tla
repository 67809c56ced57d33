--------------------------- MODULE MCOrchestrator ---------------------------
(* Handle on every shape of delivery policy: selected provider usable, not   *)
(* allowed, not registered or absent; chains with repetitions, empty names   *)
(* and unusable providers; with and without fallback.                        *)
EXTENDS Orchestrator

A == INSTANCE Adapters

\* Telegram is not configured: its default provider is the empty name.
\* "ghost" is allowed but no adapter has that name.
MCChannels ==
    [email    |-> [chain |-> <<"smtp">>, allowed |-> {"smtp"}],
     phone    |-> [chain |-> <<"telegram", "sms">>, allowed |-> {"telegram", "sms", "ghost"}],
     push     |-> [chain |-> <<"webpush">>, allowed |-> {"webpush"}],
     telegram |-> [chain |-> <<NoName>>, allowed |-> {}]]

Adapter(enabled, kind) ==
    [Enabled |-> enabled, Kind |-> kind, Status |-> "", configured |-> TRUE,
     auth |-> "", bad_brand |-> ""]

MCProviders == A!NewRegistryFromConfig(
    [email    |-> [n \in {"smtp"} |-> Adapter(TRUE, "smtp")],
     phone    |-> [n \in {"telegram", "sms"} |->
                     Adapter(TRUE, IF n = "sms" THEN "fake" ELSE "telegram-gateway")],
     push     |-> [n \in {"webpush"} |-> Adapter(TRUE, "webpush")],
     telegram |-> [n \in {} |-> {}]])

MCRegistry ==
    [n \in DOMAIN MCProviders |-> [c \in BOOLEAN |-> A!SendContract(MCProviders[n], c)]]

Request(id, type, selected, chain, fallback) ==
    [json |-> TRUE, version |-> "1.0", event_id |-> id, type |-> "message.delivery.requested",
     template |-> "code", recipient_type |-> type, recipient |-> "someone",
     selected |-> selected, chain |-> chain, fallback |-> fallback]

MCRequests ==
    {Request("e1", "phone", s, c, f) :
        s \in {NoName, "telegram", "ghost", "smtp"},
        c \in {<<>>, <<"ghost", "smtp", "sms">>, <<"telegram", NoName>>, <<"sms", "sms", "telegram">>},
        f \in BOOLEAN}
    \cup {Request("e2", t, NoName, <<>>, FALSE) : t \in {"telegram", "email", "push"}}
    \cup {[Request("e2", "email", NoName, <<>>, TRUE) EXCEPT !.type = "other"]}

\* Rendering reads files, so one template may succeed now and fail later.
MCRenderOutcomes ==
    [r \in MCRequests |-> IF r.event_id = "e1" THEN {TRUE} ELSE BOOLEAN]

(***************************************************************************)
(* What the documentation says and the code does not do.                   *)
(***************************************************************************)

\* README: "provider returns undeliverable -> orchestrator tries the next
\* provider if fallback is enabled".  A request whose allow_fallback is false
\* never reaches a second provider.
FallbackOnlyIfEnabled ==
    \A p \in Procs : Len(tried[p]) > 1 => req[p].fallback

\* README: a producer that sends selected_provider must use the adapter's
\* identifier, "Otherwise the worker consumes the event but reports it as
\* undeliverable".  A selection that no adapter serves is answered so.
UnknownSelectionIsUndeliverable ==
    \A p \in Procs :
       Answered(p) /\ answer[p].attempt = 1
         /\ req[p].selected # NoName /\ ~Usable(req[p], req[p].selected)
          => answer[p].status = "undeliverable"

\* README: the in-memory idempotency "protects against duplicate delivery
\* while the process is alive".  No provider takes the same event a second
\* time from one incarnation.
NoDuplicateDelivery ==
    \A p \in Procs, e \in EventIds : copies[p][e] <= 1
=============================================================================
