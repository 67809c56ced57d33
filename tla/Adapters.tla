------------------------------ MODULE Adapters ------------------------------
(***************************************************************************)
(* The provider adapters as pure functions: which adapter the factory      *)
(* builds (internal/provider/factory/factory.go), what each adapter's Send *)
(* refuses before it contacts anybody, and how it classifies the answer of *)
(* its service (internal/provider/{email,telegram,telegrambot,webpush,     *)
(* fake}, internal/provider/unavailable.go).                               *)
(*                                                                         *)
(* Addresses, bodies and tokens are abstracted to the facts Send tests:    *)
(*   a provider is [kind, code, status, configured, auth]                  *)
(*   a message is  [mail_ok, code_valid, url_ok, chat_valid, keys_present, *)
(*                  endpoint_allowed]                                      *)
(*   an HTTP answer is [code, json, ok, gone]: status code, whether the    *)
(*   body decodes, its "ok" field, whether its description says that the   *)
(*   chat is unavailable                                                   *)
(*   an SMTP answer is [sent, words]: no error, or the words that the      *)
(*   lower-cased error text contains.                                      *)
(***************************************************************************)
EXTENDS Naturals, Sequences, SequencesExt

Result(status, code) == [status |-> status, code |-> code]
Sent == Result("sent", "")
Undeliverable(code) == Result("undeliverable", code)
Failed(code) == Result("failed", code)

\* The result of the first rule <<guard, result>> whose guard holds: a chain
\* of early returns.
FirstMatch(rules) ==
    LET Holds(rule) == rule[1] IN rules[SelectInSeq(rules, Holds)][2]

\* What LocalRefusal returns when Send goes on to contact the service.
GoesOut == Result("", "")

-----------------------------------------------------------------------------
(* The factory *)

Kinds == {"fake", "smtp", "telegram-gateway", "webpush", "telegram-bot"}

Unavailable(errorCode) ==
    [kind |-> "unavailable", code |-> errorCode, status |-> "", configured |-> FALSE, auth |-> ""]

(***************************************************************************)
(* buildProvider for an adapter [Enabled, Kind, Status, configured, auth,  *)
(* bad_brand]: bad_brand names a brand that is no object, or is empty.     *)
(* config.Load refuses such a brand in the email channel only.             *)
(***************************************************************************)
BuildProvider(adapter, recipientType) ==
    FirstMatch(<<
      <<~adapter.Enabled, Unavailable("provider_disabled")>>,
      <<adapter.Kind = "" /\ recipientType # "email", Unavailable("name_not_configured")>>,
      <<adapter.Kind = "", Unavailable("provider_not_configured")>>,
      <<adapter.Kind \notin Kinds, Unavailable("provider_kind_unsupported")>>,
      <<adapter.Kind = "smtp" /\ adapter.bad_brand # "", Unavailable("email_brand_invalid")>>,
      <<TRUE, [kind |-> adapter.Kind, code |-> "",
               status |-> IF adapter.Status = "" THEN "sent" ELSE adapter.Status,
               configured |-> adapter.configured,
               auth |-> IF adapter.auth = "" THEN "auto" ELSE adapter.auth]>> >>)

\* The name the built provider has, and so is registered under: the loop over
\* the brands has a variable of its own called name, and returns with it.
RegisteredAs(adapter, name) ==
    IF adapter.Enabled /\ adapter.Kind = "smtp" /\ adapter.bad_brand # ""
    THEN adapter.bad_brand
    ELSE name

Registered(channel) == {RegisteredAs(channel[a], a) : a \in DOMAIN channel}

\* What one channel registers.  Which of two adapters with one registered name
\* comes last depends on the order of the map: the properties say nothing of it.
ChannelProviders(channel, recipientType) ==
    [name \in Registered(channel) |->
        LET Named(a) == RegisteredAs(channel[a], a) = name
        IN BuildProvider(channel[CHOOSE a \in DOMAIN channel : Named(a)], recipientType)]

\* Register for every provider of a channel: a name that is already held changes
\* hands.
RegisterAll(held, providers) ==
    [name \in DOMAIN held \cup DOMAIN providers |->
        IF name \in DOMAIN providers THEN providers[name] ELSE held[name]]

\* Mutant of NewRegistryFromConfig: the first to register a name keeps it.
NewRegistryFirstWins(adapters) ==
    LET telegram == ChannelProviders(adapters.telegram, "telegram")
        push == RegisterAll(telegram, ChannelProviders(adapters.push, "push"))
        phone == RegisterAll(push, ChannelProviders(adapters.phone, "phone"))
    IN RegisterAll(phone, ChannelProviders(adapters.email, "email"))

\* The channels register in this order, so a name that occurs in two of them
\* belongs to the later one.
NewRegistryFromConfig(adapters) ==
    LET email == ChannelProviders(adapters.email, "email")
        phone == RegisterAll(email, ChannelProviders(adapters.phone, "phone"))
        push == RegisterAll(phone, ChannelProviders(adapters.push, "push"))
    IN RegisterAll(push, ChannelProviders(adapters.telegram, "telegram"))

-----------------------------------------------------------------------------
(* What Send returns without contacting the service *)

UnavailableSend(p) == Undeliverable(p.code)

FakeSend(p) ==
    FirstMatch(<<
      <<p.status = "sent", Sent>>,
      <<p.status = "undeliverable", Undeliverable("provider_not_available")>>,
      <<TRUE, Failed("provider_failed")>> >>)

SMTPRefusal(p, m) ==
    FirstMatch(<<
      <<~p.configured, Failed("smtp_not_configured")>>,
      <<p.auth \notin {"auto", "plain"}, Failed("smtp_auth_method_invalid")>>,
      <<~m.mail_ok, Failed("smtp_invalid_message")>>,
      <<TRUE, GoesOut>> >>)

GatewayRefusal(p, m) ==
    FirstMatch(<<
      <<~p.configured, Undeliverable("telegram_token_missing")>>,
      <<~m.code_valid, Failed("telegram_code_invalid")>>,
      <<~m.url_ok, Failed("telegram_request_invalid")>>,
      <<TRUE, GoesOut>> >>)

BotRefusal(p, m) ==
    FirstMatch(<<
      <<~p.configured, Undeliverable("telegram_bot_not_configured")>>,
      <<~m.chat_valid, Undeliverable("telegram_bot_chat_invalid")>>,
      <<~m.url_ok, Failed("telegram_bot_request_invalid")>>,
      <<TRUE, GoesOut>> >>)

WebPushRefusal(p, m) ==
    FirstMatch(<<
      <<~p.configured, Undeliverable("webpush_not_configured")>>,
      <<~m.keys_present, Failed("webpush_subscription_invalid")>>,
      <<~m.endpoint_allowed, Undeliverable("webpush_endpoint_rejected")>>,
      <<TRUE, GoesOut>> >>)

\* Send of whichever adapter stands behind the interface.
LocalRefusal(p, m) ==
    CASE p.kind = "unavailable"      -> UnavailableSend(p)
      [] p.kind = "fake"             -> FakeSend(p)
      [] p.kind = "smtp"             -> SMTPRefusal(p, m)
      [] p.kind = "telegram-gateway" -> GatewayRefusal(p, m)
      [] p.kind = "telegram-bot"     -> BotRefusal(p, m)
      [] p.kind = "webpush"          -> WebPushRefusal(p, m)

-----------------------------------------------------------------------------
(* What Send makes of an answer *)

Success(code) == code \in 200..299

SmtpErrorCode(words) ==
    FirstMatch(<<
      <<"auth" \in words, "smtp_auth_failed">>,
      <<"rcpt" \in words, "smtp_rcpt_failed">>,
      <<"timeout" \in words, "smtp_timeout">>,
      <<"connect" \in words, "smtp_connect_failed">>,
      <<TRUE, "smtp_send_failed">> >>)

\* Mutant of SMTPAnswer: a refused recipient is a reason to fall back.
SMTPAnswerFallsBack(r) ==
    IF r.sent THEN Sent
    ELSE IF "rcpt" \in r.words THEN Undeliverable("smtp_rcpt_failed")
    ELSE Failed(SmtpErrorCode(r.words))

SMTPAnswer(r) == IF r.sent THEN Sent ELSE Failed(SmtpErrorCode(r.words))

GatewayAnswer(r) ==
    FirstMatch(<<
      <<~r.json, Failed("telegram_bad_response")>>,
      <<r.code \in {401, 403}, Failed("telegram_auth_failed")>>,
      <<r.code >= 500, Failed("telegram_server_error")>>,
      <<~r.ok, Undeliverable("telegram_refused")>>,
      <<TRUE, Sent>> >>)

\* Mutant of BotAnswer: any 2xx is a success.
BotAnswerByCode(r) == IF Success(r.code) THEN Sent ELSE Failed("telegram_bot_rejected")

BotAnswer(r) ==
    FirstMatch(<<
      <<~r.json, Failed("telegram_bot_bad_response")>>,
      <<Success(r.code) /\ r.ok, Sent>>,
      <<r.code = 401, Failed("telegram_bot_auth_failed")>>,
      <<r.code = 429 \/ r.code >= 500, Failed("telegram_bot_service_unavailable")>>,
      <<r.code = 403 \/ r.gone, Undeliverable("telegram_bot_chat_unavailable")>>,
      <<TRUE, Failed("telegram_bot_rejected")>> >>)

WebPushAnswer(r) ==
    FirstMatch(<<
      <<Success(r.code), Sent>>,
      <<r.code \in {404, 410}, Undeliverable("webpush_subscription_expired")>>,
      <<r.code = 429 \/ r.code >= 500, Failed("webpush_service_unavailable")>>,
      <<TRUE, Failed("webpush_rejected")>> >>)

Classify(kind, r) ==
    CASE kind = "smtp"             -> SMTPAnswer(r)
      [] kind = "telegram-gateway" -> GatewayAnswer(r)
      [] kind = "telegram-bot"     -> BotAnswer(r)
      [] kind = "webpush"          -> WebPushAnswer(r)

\* Mutant of NoAnswerResult: a timeout is a reason to fall back.
NoAnswerFallsBack(kind, expired) ==
    IF expired THEN Undeliverable("timeout") ELSE Failed("unavailable")

(***************************************************************************)
(* No answer: ctx ended (expired) or the call itself failed.  The Gateway  *)
(* makes no difference between the two.                                    *)
(***************************************************************************)
NoAnswerResult(kind, expired) ==
    CASE kind = "smtp"             -> Failed("smtp_timeout")
      [] kind = "telegram-gateway" -> Undeliverable("telegram_unavailable")
      [] kind = "telegram-bot"     ->
            Failed(IF expired THEN "telegram_bot_timeout" ELSE "telegram_bot_unavailable")
      [] kind = "webpush"          ->
            Failed(IF expired THEN "webpush_timeout" ELSE "webpush_send_failed")

-----------------------------------------------------------------------------
(***************************************************************************)
(* The contract the orchestrator relies on: the status that Send of a      *)
(* built provider may report and whether the service may have taken the    *)
(* message, when ctx was already cancelled and when it was not.            *)
(***************************************************************************)
SendContract(p, cancelled) ==
    LET Out(status, code, landed) == [status |-> status, code |-> code, landed |-> landed]
        Unknown(status) == {Out(status, "error", TRUE), Out(status, "error", FALSE)}
        Refused(status) == {Out(status, "error", FALSE)}
        Delivered == {Out("sent", "", TRUE)}
    IN CASE p.kind = "unavailable" -> Refused("undeliverable")
         [] p.kind = "fake" ->
               IF p.status = "sent" THEN Delivered
               ELSE Refused(IF p.status = "undeliverable" THEN "undeliverable" ELSE "failed")
         [] p.kind = "smtp" -> Delivered \cup Unknown("failed")
         [] p.kind = "telegram-gateway" ->
               IF cancelled THEN Refused("undeliverable") \cup Refused("failed")
               ELSE Delivered \cup Unknown("undeliverable") \cup Unknown("failed")
         [] OTHER ->
               IF cancelled THEN Refused("undeliverable") \cup Refused("failed")
               ELSE Delivered \cup Refused("undeliverable") \cup Unknown("failed")
=============================================================================
