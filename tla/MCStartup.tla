------------------------------ MODULE MCStartup ------------------------------
(* Files with one thing wrong at a time and with two webhook entries wrong   *)
(* together, names shared between channels, and an environment that          *)
(* overrides nothing, something sensible or nonsense.                        *)
EXTENDS Startup

Adapter(kind) ==
    [Enabled |-> TRUE, Kind |-> kind, Status |-> "", configured |-> TRUE, auth |-> "",
     bad_brand |-> "", token |-> "set", mail |-> TRUE]

Settings == {"Host", "Port", "Broker.Host", "Broker.Password", "ExchangeName"}
NoChannel == [chain |-> <<>>, allowed |-> {}]

\* "shared" occurs in three channels, "bot" in two.
Base ==
    [json |-> TRUE, settings |-> [s \in Settings |-> ""], prefetch |-> 0,
     channels |-> [t \in Channels |-> NoChannel],
     adapters |-> [email |-> [n \in {"fake-email", "shared"} |-> Adapter("smtp")],
                   phone |-> [n \in {"sms", "shared", "telegram-bot"} |-> Adapter("fake")],
                   push |-> [n \in {"webpush"} |-> Adapter("")],
                   telegram |-> [n \in {"telegram-bot", "shared"} |-> Adapter("telegram-bot")]],
     telegram |-> TRUE, bot |-> TRUE, path |-> "", secret |-> "set", items |-> TRUE]

Bot(field, value) == [Base EXCEPT !.adapters.telegram["telegram-bot"][field] = value]

Broken ==
    {[Base EXCEPT !.json = FALSE], [Base EXCEPT !.items = FALSE], [Base EXCEPT !.telegram = FALSE],
     [Base EXCEPT !.adapters.email["shared"].mail = FALSE],
     [Base EXCEPT !.adapters.phone["shared"].mail = FALSE],
     [Base EXCEPT !.channels.telegram.chain = <<"nobody">>],
     Bot("Enabled", FALSE), Bot("Kind", "fake"), Bot("Kind", "pigeon"),
     [Bot("token", "") EXCEPT !.adapters.telegram["telegram-bot"].configured = FALSE],
     [Bot("token", "blank") EXCEPT !.adapters.telegram["telegram-bot"].configured = FALSE],
     [Bot("Kind", "smtp") EXCEPT !.adapters.telegram["telegram-bot"].bad_brand = "acme"]}

Webhooks ==
    {[Base EXCEPT !.bot = b, !.path = p, !.secret = s] :
        b \in BOOLEAN, s \in {"", "blank", "set"},
        p \in {"", "own", "root", "health", "malformed", "relative"}}

Chosen ==
    {[Base EXCEPT !.prefetch = 20, !.settings["Broker.Host"] = "file", !.settings["Broker.Password"] = "file"],
     [Base EXCEPT !.prefetch = -1, !.telegram = FALSE, !.bot = FALSE],
     [Base EXCEPT !.channels = [t \in Channels |-> [chain |-> <<"shared">>, allowed |-> {"sms"}]]]}

MCFiles == Broken \cup Webhooks \cup Chosen

MCEnvironments ==
    {[settings |-> [s \in {"Host", "Port", "Broker.Host", "Broker.Password"} |-> v],
      password |-> p, prefetch |-> n] :
        v \in {"", "env"}, p \in {"", "named"}, n \in {{}, {0}, {5}, {-3}}}
=============================================================================
