---------------------------- MODULE MCAdapterCall ----------------------------
(* Every kind of adapter, well configured and not, against every answer its *)
(* Send tells apart.                                                        *)
EXTENDS AdapterCall

Adapter(kind, status, configured, auth) ==
    [Enabled |-> TRUE, Kind |-> kind, Status |-> status, configured |-> configured, auth |-> auth,
     bad_brand |-> ""]

\* Two names occur in two channels, so the later channel's adapter is built.
MCAdapters ==
    [email |-> [n \in {"smtp", "bad-smtp", "odd-auth", "off", "unset", "push"} |->
        CASE n = "smtp" -> Adapter("smtp", "", TRUE, "plain")
          [] n = "bad-smtp" -> Adapter("smtp", "", FALSE, "")
          [] n = "odd-auth" -> Adapter("smtp", "", TRUE, "cram")
          [] n = "off" -> [Adapter("smtp", "", TRUE, "") EXCEPT !.Enabled = FALSE]
          [] n = "unset" -> Adapter("", "", FALSE, "")
          [] n = "push" -> Adapter("smtp", "", TRUE, "")],
     phone |-> [n \in {"gateway", "no-token", "sms", "unset", "later", "odd", "letters"} |->
        CASE n = "gateway" -> Adapter("telegram-gateway", "", TRUE, "")
          [] n = "no-token" -> Adapter("telegram-gateway", "", FALSE, "")
          [] n = "sms" -> Adapter("fake", "", TRUE, "")
          [] n = "later" -> Adapter("fake", "undeliverable", TRUE, "")
          [] n = "odd" -> Adapter("fake", "weird", TRUE, "")
          [] n = "letters" -> [Adapter("smtp", "", TRUE, "") EXCEPT !.bad_brand = "acme"]
          [] n = "unset" -> Adapter("", "", FALSE, "")],
     push |-> [n \in {"push", "no-keys", "pigeon"} |->
        CASE n = "push" -> Adapter("webpush", "", TRUE, "")
          [] n = "no-keys" -> Adapter("webpush", "", FALSE, "")
          [] n = "pigeon" -> Adapter("pigeon", "", TRUE, "")],
     telegram |-> [n \in {"bot", "no-bot"} |->
        CASE n = "bot" -> Adapter("telegram-bot", "", TRUE, "")
          [] n = "no-bot" -> Adapter("telegram-bot", "", FALSE, "")]]

MCProviders == LET reg == NewRegistryFromConfig(MCAdapters) IN {reg[n] : n \in DOMAIN reg}

MessageFacts == {"mail_ok", "code_valid", "url_ok", "chat_valid", "keys_present", "endpoint_allowed"}

\* A message with nothing wrong, and one for each thing that may be.
MCMessages == {[f \in MessageFacts |-> f # wrong] : wrong \in MessageFacts \cup {""}}

MCHttpAnswers ==
    {r \in [code : {200, 400, 401, 403, 404, 410, 429, 500},
            json : BOOLEAN, ok : BOOLEAN, gone : BOOLEAN] :
        /\ r.ok => r.json /\ r.code = 200
        /\ r.gone => r.json /\ ~r.ok /\ r.code = 400}

MCSmtpAnswers ==
    {[sent |-> TRUE, words |-> {}]} \cup
    {[sent |-> FALSE, words |-> w] : w \in SUBSET {"auth", "rcpt", "timeout", "connect"}}
=============================================================================
