------------------------------- MODULE Startup -------------------------------
(***************************************************************************)
(* From the configuration file to a process that serves: config.Load       *)
(* (internal/config/config.go), the registry, the loop of connectBroker,   *)
(* the webhook behind the mux and the two goroutines of main (cmd/main.go, *)
(* internal/telegrambot/webhook.go), and the health check, which is the    *)
(* same program started with --healthcheck.                                *)
(*                                                                         *)
(* A configuration is a record                                             *)
(*   [json, settings, prefetch, channels, adapters, telegram, bot, path,   *)
(*    secret, items]                                                       *)
(* settings: name -> string; channels: recipient type -> [chain, allowed], *)
(* where a channel with one provider has a chain of at most one; adapters: *)
(* recipient type -> name -> adapter of module Adapters with two more      *)
(* fields, token (BotTokenEnv) and mail (the layout, the brands and their  *)
(* files are in order); telegram, bot: the channel and the webhook are     *)
(* enabled; path: the kind of WebhookPath.  A variable of the environment  *)
(* that the file names holds "", "blank" or "set".                         *)
(***************************************************************************)
EXTENDS Integers, Adapters

CONSTANTS
    Files,          \* configuration files
    Environments,   \* [settings: name -> string, password, prefetch]
    MaxFaults       \* bound: failed attempts to set up the broker

Channels == {"email", "phone", "push", "telegram"}

(***************************************************************************)
(* What json.Unmarshal can leave in the fields of Config, as far as the    *)
(* rest reads them.  The bot's provider takes its token from the variable  *)
(* that Validate looks at, and trims it.                                   *)
(***************************************************************************)
ASSUME FilesAssumption ==
    \A c \in Files :
       /\ DOMAIN c = {"json", "settings", "prefetch", "channels", "adapters",
                      "telegram", "bot", "path", "secret", "items"}
       /\ c.prefetch \in Int
       /\ DOMAIN c.channels = Channels /\ DOMAIN c.adapters = Channels
       /\ \A t \in Channels :
             /\ DOMAIN c.channels[t] = {"chain", "allowed"}
             /\ c.channels[t].chain \in Seq(STRING)
             /\ c.channels[t].allowed \in SUBSET STRING
             /\ t # "phone" => Len(c.channels[t].chain) <= 1
       /\ \A n \in DOMAIN c.adapters.telegram :
             LET a == c.adapters.telegram[n]
             IN a.Kind = "telegram-bot" /\ a.token \notin {"", "blank"} => a.configured

ASSUME EnvironmentsAssumption == \A e \in Environments : e.prefetch \in SUBSET Int

ASSUME BoundAssumption == MaxFaults \in Nat

VARIABLES
    cfg,            \* the configuration: as in the file, and once loaded as Load left it
    env,            \* the environment
    stage,          \* where main is
    cause,          \* why it died
    registry,       \* provider.Registry
    sender,         \* the webhook's welcome sender
    http, worker,   \* the two goroutines: "off" or "on"
    probe,          \* exit code of the last health check, -1 before any
    faults

vars == <<cfg, env, stage, cause, registry, sender, http, worker, probe, faults>>

Absent == [kind |-> "absent"]

Init ==
    /\ cfg \in Files /\ env \in Environments
    /\ stage = "load" /\ cause = ""
    /\ registry = [n \in {} |-> Absent] /\ sender = Absent
    /\ http = "off" /\ worker = "off"
    /\ probe = -1 /\ faults = 0

-----------------------------------------------------------------------------
(* config.Load *)

Or(value, default) == IF value # "" THEN value ELSE default

(***************************************************************************)
(* applyEnv.  env.password is what the variable named by PasswordEnv holds;*)
(* the variable with the fixed name comes after it.  env.prefetch has the  *)
(* number that its variable holds, and is empty when it holds none.        *)
(***************************************************************************)
ApplyEnv(c) ==
    [c EXCEPT !.settings = [s \in DOMAIN c.settings |->
                  Or(IF s \in DOMAIN env.settings THEN env.settings[s] ELSE "",
                     IF s = "Broker.Password" THEN Or(env.password, c.settings[s]) ELSE c.settings[s])],
              !.prefetch = IF env.prefetch = {} THEN @ ELSE CHOOSE n \in env.prefetch : TRUE]

\* The settings that may stay empty; every other one has a default.
Optional == {"Host", "Broker.Password"}

DefaultChain ==
    [email |-> <<"fake-email">>, phone |-> <<"telegram", "sms">>,
     push |-> <<"webpush">>, telegram |-> <<"telegram-bot">>]

\* Telegram has no defaults unless it is enabled; its one provider is then "".
ChannelDefaults(t, channel, enabled) ==
    IF t = "telegram" /\ ~enabled
    THEN [channel EXCEPT !.chain = IF @ = <<>> THEN <<"">> ELSE @]
    ELSE LET chain == IF channel.chain = <<>> THEN DefaultChain[t] ELSE channel.chain
         IN [chain |-> chain, allowed |-> IF channel.allowed = {} THEN ToSet(chain) ELSE channel.allowed]

\* Mutant of SetDefaults: only an absent prefetch count is replaced.
SetDefaultsZero(c) ==
    [c EXCEPT !.settings = [s \in DOMAIN c.settings |->
                  IF s \in Optional THEN c.settings[s] ELSE Or(c.settings[s], s)],
              !.prefetch = IF @ = 0 THEN 8 ELSE @,
              !.channels = [t \in DOMAIN @ |-> ChannelDefaults(t, c.channels[t], c.telegram)],
              !.path = Or(@, "own")]

SetDefaults(c) ==
    [c EXCEPT !.settings = [s \in DOMAIN c.settings |->
                  IF s \in Optional THEN c.settings[s] ELSE Or(c.settings[s], s)],
              !.prefetch = IF @ <= 0 THEN 8 ELSE @,
              !.channels = [t \in DOMAIN @ |-> ChannelDefaults(t, c.channels[t], c.telegram)],
              !.path = Or(@, "own")]

\* Layouts, brands, logos and senders, of disabled adapters too, but of no
\* other channel.
MailOK(c) == \A a \in DOMAIN c.adapters.email : c.adapters.email[a].mail

DefaultBot(c) == c.channels.telegram.chain[1]

\* Mutant of ValidTelegram: the token is not asked for.
ValidTelegramAnyToken(c) ==
    LET channel == c.adapters.telegram
    IN c.telegram =>
          /\ c.channels.telegram.allowed # {} /\ DefaultBot(c) # ""
          /\ DefaultBot(c) \in DOMAIN channel /\ channel[DefaultBot(c)].Enabled

\* Mutant of ValidTelegram: the default adapter need not exist.
ValidTelegramAnyName(c) ==
    LET channel == c.adapters.telegram
    IN c.telegram => c.channels.telegram.allowed # {} /\ DefaultBot(c) # ""

ValidTelegram(c) ==
    LET channel == c.adapters.telegram
    IN c.telegram =>
          /\ c.channels.telegram.allowed # {} /\ DefaultBot(c) # ""
          /\ DefaultBot(c) \in DOMAIN channel /\ channel[DefaultBot(c)].Enabled
          /\ channel[DefaultBot(c)].Kind = "telegram-bot" => channel[DefaultBot(c)].token # ""

Validate(c) ==
    /\ \A s \in DOMAIN c.settings \ Optional : c.settings[s] # ""
    /\ \A t \in DOMAIN c.channels \ {"telegram"} : c.channels[t].chain # <<>> /\ c.channels[t].allowed # {}
    /\ ValidTelegram(c)
    /\ c.bot => c.telegram /\ c.path # "relative" /\ c.secret # ""
    /\ c.items

Die(why) ==
    /\ stage' = "dead" /\ cause' = why
    /\ http' = "off" /\ worker' = "off"

\* Load, and the registry that is built from what it returns.
Load ==
    /\ stage = "load"
    /\ \E applied \in {ApplyEnv(cfg)} : \E loaded \in {SetDefaults(applied)} :
          IF cfg.json /\ MailOK(cfg) /\ Validate(loaded)
          THEN /\ cfg' = loaded
               /\ registry' = NewRegistryFromConfig(loaded.adapters)
               /\ stage' = "connect"
               /\ UNCHANGED <<cause, http, worker>>
          ELSE Die("config") /\ UNCHANGED <<cfg, registry>>
    /\ UNCHANGED <<env, sender, probe, faults>>

-----------------------------------------------------------------------------
(* main *)

ConnectFails ==
    /\ stage = "connect" /\ faults < MaxFaults
    /\ faults' = faults + 1
    /\ UNCHANGED <<cfg, env, stage, cause, registry, sender, http, worker, probe>>

\* Mutant of Connect: a failed attempt is the last one.
ConnectOnce ==
    /\ stage = "connect" /\ faults = 0
    /\ stage' = "wire"
    /\ UNCHANGED <<cfg, env, cause, registry, sender, http, worker, probe, faults>>

Connect ==
    /\ stage = "connect"
    /\ stage' = "wire"
    /\ UNCHANGED <<cfg, env, cause, registry, sender, http, worker, probe, faults>>

\* A signal ends the loop of connectBroker, and main with an error.
Interrupt ==
    /\ stage = "connect"
    /\ Die("signal")
    /\ UNCHANGED <<cfg, env, registry, sender, probe, faults>>

(***************************************************************************)
(* What main dies of with the consumer already open: the default adapter is*)
(* registered under another name, the secret is blank, or the mux panics on*)
(* a second "/" or on a pattern it cannot parse.                           *)
(***************************************************************************)
WiringError ==
    IF DefaultBot(cfg) \notin DOMAIN registry THEN "no sender"
    ELSE IF cfg.secret = "blank" THEN "no secret"
    ELSE IF cfg.path \in {"root", "malformed"} THEN "path"
    ELSE ""

Wire ==
    /\ stage = "wire"
    /\ IF cfg.bot /\ WiringError # ""
       THEN Die(WiringError) /\ UNCHANGED sender
       ELSE /\ stage' = "serve"
            /\ sender' = IF cfg.bot THEN registry[DefaultBot(cfg)] ELSE sender
            /\ UNCHANGED <<cause, http, worker>>
    /\ UNCHANGED <<cfg, env, registry, probe, faults>>

\* Mutant of Listen: the health server does not wait for the broker.
ListenEarly ==
    /\ stage \in {"connect", "serve"} /\ http = "off"
    /\ http' = "on"
    /\ UNCHANGED <<cfg, env, stage, cause, registry, sender, worker, probe, faults>>

Listen ==
    /\ stage = "serve" /\ http = "off"
    /\ http' = "on"
    /\ UNCHANGED <<cfg, env, stage, cause, registry, sender, worker, probe, faults>>

\* The port is taken: Fatalf, whatever the worker is doing.
ListenFails ==
    /\ stage = "serve" /\ http = "off" /\ faults < MaxFaults
    /\ faults' = faults + 1
    /\ Die("port")
    /\ UNCHANGED <<cfg, env, registry, sender, probe>>

RunWorker ==
    /\ stage = "serve" /\ worker = "off"
    /\ worker' = "on"
    /\ UNCHANGED <<cfg, env, stage, cause, registry, sender, http, probe, faults>>

\* SIGTERM, at whatever point the goroutines are; main returns.
Stop ==
    /\ stage = "serve"
    /\ stage' = "stopped"
    /\ http' = "off" /\ worker' = "off"
    /\ UNCHANGED <<cfg, env, cause, registry, sender, probe, faults>>

\* Who answers GET /health: the mux prefers the longer pattern.
HealthRoute == IF cfg.bot /\ cfg.path = "health" THEN "webhook" ELSE "health"

\* runHealthcheck, from another process.
RunHealthcheck ==
    /\ probe' = IF http = "on" /\ HealthRoute = "health" THEN 0 ELSE 1
    /\ UNCHANGED <<cfg, env, stage, cause, registry, sender, http, worker, faults>>

Next ==
    \/ Load
    \/ ConnectFails \/ Connect \/ Interrupt
    \/ Wire
    \/ Listen \/ ListenFails \/ RunWorker \/ Stop
    \/ RunHealthcheck

(***************************************************************************)
(* main runs on, and an attempt succeeds when the broker lets it.          *)
(***************************************************************************)
Spec == Init /\ [][Next]_vars /\ WF_vars(Load \/ Connect \/ Wire)

-----------------------------------------------------------------------------
(* Properties *)

\* Type invariant; a configuration that is in use is what Load made of the file
\* under this environment.
TypeOK ==
    /\ stage \in {"load", "connect", "wire", "serve", "stopped", "dead"}
    /\ cause \in {"", "config", "signal", "no sender", "no secret", "path", "port"}
    /\ stage = "dead" <=> cause # ""
    /\ {http, worker} \subseteq {"off", "on"}
    /\ http = "on" \/ worker = "on" => stage = "serve"
    /\ probe \in {-1, 0, 1} /\ faults \in 0..MaxFaults
    /\ env \in Environments

InUse == stage \in {"connect", "wire", "serve"}

\* Load establishes what the rest of the service takes for granted: every
\* channel has a default chain and, unless it is off, somebody allowed; there is
\* room for at least one delivery; an enabled bot has an enabled channel with a
\* default adapter that exists.
LoadedIsUsable ==
    InUse =>
      /\ \A t \in Channels :
            /\ cfg.channels[t].chain # <<>> /\ (t # "phone" => Len(cfg.channels[t].chain) = 1)
            /\ t # "telegram" \/ cfg.telegram => cfg.channels[t].allowed # {}
      /\ cfg.prefetch > 0
      /\ cfg.bot => cfg.telegram /\ DefaultBot(cfg) \in DOMAIN cfg.adapters.telegram

\* Adapter n is registered as n, and no other of its channel is: what only an
\* smtp adapter with a malformed brand, named like n or not, can change.
OwnName(channel, n) == \A a \in DOMAIN channel : RegisteredAs(channel[a], a) = n <=> a = n

\* A name that one channel alone uses is served by that channel's adapter, and
\* Telegram's adapters are nobody else's, whatever the other channels call
\* theirs.
NamesResolve ==
    InUse =>
      \A t \in Channels : \A n \in DOMAIN cfg.adapters[t] :
         /\ OwnName(cfg.adapters[t], n)
         /\ t = "telegram" \/ \A u \in Channels \ {t} : n \notin Registered(cfg.adapters[u])
         => n \in DOMAIN registry /\ registry[n] = BuildProvider(cfg.adapters[t][n], t)

\* A process that serves the webhook greets through the default adapter of the
\* telegram channel, which is enabled and, if it is the bot, has been given a
\* token (that Load accepts a blank one is the exception), as long as the adapter
\* has its name to itself.
GreeterIsReady ==
    stage = "serve" /\ cfg.bot =>
      LET a == cfg.adapters.telegram[DefaultBot(cfg)]
      IN OwnName(cfg.adapters.telegram, DefaultBot(cfg)) =>
            /\ sender = BuildProvider(a, "telegram")
            /\ sender.code # "provider_disabled"
            /\ sender.kind = "telegram-bot" /\ a.token # "blank" => sender.configured

\* What Load accepts gets through main: with the broker set up, the process dies
\* only of these entries of the webhook's configuration, or of its port.
DiesOnlyOfWebhook ==
    stage = "dead" /\ cause \notin {"config", "signal", "port"} =>
      /\ cfg.bot
      /\ \/ cfg.secret = "blank" \/ cfg.path \in {"root", "malformed"}
         \/ /\ DefaultBot(cfg) \in DOMAIN cfg.adapters.telegram
            /\ RegisteredAs(cfg.adapters.telegram[DefaultBot(cfg)], DefaultBot(cfg)) # DefaultBot(cfg)

\* main comes to serve, or says why not, once the broker lets it connect.
EventuallyServes == <>(stage \in {"serve", "stopped", "dead"})
=============================================================================
